--------------------------- MODULE DialogueProofs ---------------------------
(***************************************************************************)
(* A conversation's columns fit together, and the services are asked for   *)
(* what the customer was shown, whatever is written and in whatever order. *)
(*                                                                         *)
(* The invariant DInv has one condition per row, Sound:                    *)
(*   - a row whose state is APPOINTMENT_PENDING_CONFIRMATION holds a       *)
(*     complete visit draft, the last summary showed its day and time as   *)
(*     what it is, a new visit or a move, and the question that is open is *)
(*     its confirmation or one of the few that displace it (VisitShown);   *)
(*   - the time of a move is not known while its day or its time is        *)
(*     awaited (NoTimeYet);                                                *)
(*   - a row that waits for CONFIRM_BOOKING was last shown its plan, day,  *)
(*     time and price (BookingShown);                                      *)
(*   - what is pending belongs to the state (InPlace);                     *)
(*   - a quote that went to the staff is complete (Quoted).                *)
(* The first three are not asked for by the properties.  They are what     *)
(* makes the call made on a "sí" agree with the summary: without NoTimeYet *)
(* a move whose question was displaced could be summarised as a new visit. *)
(*                                                                         *)
(* A turn is a composition of handlers, so the proof has one lemma per     *)
(* handler.  Its hypothesis and its conclusion are two of these kinds of   *)
(* row; a Core row whose turn has raised is of all of them but Open:       *)
(*   Core   the columns have their types and a quote is complete;          *)
(*   Gone   Core, no visit's summary awaited, and NoTimeYet;               *)
(*   Filed  Core, in COLLECTING_EVENT_DATA;                                *)
(*   Idle   Gone, and nothing pending that a "sí" would book or move;      *)
(*   Fine   Core, and the row is Placed: what a turn must leave;           *)
(*   Open   Fine, nothing raised, no booking step pending.                 *)
(***************************************************************************)
EXTENDS Dialogue, FiniteSetTheorems, WellFoundedInduction, TLAPS

(***************************************************************************)
(* The questions about a visit                                             *)
(***************************************************************************)
\* What a visit is summarised as, and what is asked when it is.
VisitCall(visit) == IF visit.mode = "RESCHEDULE" THEN "MOVE" ELSE "VISIT"

\* The states in which the day or the time of a visit is awaited.
Awaiting == {"WAITING_FOR_APPOINTMENT_DATE", "WAITING_FOR_APPOINTMENT_SELECTION"}

\* The draft of a move that has its time.
MovesVisit(visit) == visit.mode = "RESCHEDULE" /\ visit.time # None

(***************************************************************************)
(* Types                                                                   *)
(***************************************************************************)
\* The fields a capture asks for.
Entities == DOMAIN ENTITY_ACTION

\* pending_fields: each field at most once.
FieldList == {q \in Seq(Entities) : IsInjective(q)}

\* visit_draft: slots are offered only once there is a day.
VisitDraft ==
    {v \in [mode : {"NONE", "SCHEDULE", "RESCHEDULE", "CANCEL"}, date : Nat, time : Nat,
            count : BOOLEAN, reason : BOOLEAN, offered : SUBSET Slots, resume : BOOLEAN,
            candidate : Nat] :
        v.offered # {} => v.date # None}

\* booking_draft.
BookingDraft ==
    [plan : Plans \cup {None}, date : Nat, unsure : BOOLEAN, time : Nat, price : Nat,
     inquiry : BOOLEAN, pick : BOOLEAN]

\* The active lead and its event.
EventRow ==
    [lead : BOOLEAN, type : {"NONE", "GENERIC", "FIXED"}, guests : BOOLEAN, date : BOOLEAN,
     services : BOOLEAN,
     budget : {"NOT_ASKED", "ASKED_PENDING", "PROVIDED", "DECLINED"}]

\* What a summary may be of.
Summaries ==
    {"NONE", "QUOTE_SUMMARY", "VISIT_SUMMARY", "RESCHEDULE_SUMMARY", "CANCEL_SUMMARY",
     "BOOKING_SUMMARY"}

\* last_question_code.
Questions ==
    Summaries \cup {"TRANSFER", "QUESTION", "FIXED_INFO", "FALLBACK", "QUOTE_REMINDER", "ANSWER",
     "DISCOVERY", "CATALOG_QUESTION", "DATE_CONFIRM", "BOOKING_QUESTION", "AVAILABLE"}

\* What may end a turn.
Errors == {"NONE", "InvalidStateTransition", "KeyError", "ValueError", "KnowledgeRenderError"}

\* The calls to other services.
Calls == {"NONE", "VISIT", "MOVE", "CANCEL", "RESERVE", "QUOTE"}

\* A summary, as the customer saw it.
SummaryShown == [of : Summaries, date : Nat, time : Nat, plan : Nat, price : Nat]

\* A classification, as it is stored with a proposal.
ReadingMade ==
    [intent : Intents, band : {"LOW", "MID", "PROBABLE", "SAFE"},
     category : {"NONE", "FAQ", "CATALOG", "NO_ANSWER"},
     name : {"NONE", "GIVEN", "INFERRED", "CORRECTED"},
     gives : SUBSET (Entities \cup {"budget_declined"}),
     rejects : Seq(Entities \cup {"SERVICE_ITEM", "UNKNOWN"}),
     type : {"NONE", "GENERIC", "FIXED"}]

\* pending_confirmation.
ProposalMade ==
    [kind : {"NONE", "RESOLVED", "NAME", "CLASSIFICATION"}, state : ConversationState,
     lead : BOOLEAN, reading : ReadingMade]

\* A call that books, moves or reserves carries what the summary before it showed, and that
\* summary is one of what it does.  Every call is made under one of its questions.
CallMade ==
    {c \in [call : Calls, date : Nat, time : Nat, plan : Nat, price : Nat,
            under : PendingAction, seen : SummaryShown] :
        /\ c.call \in {"VISIT", "MOVE", "RESERVE"} =>
            /\ c.date = c.seen.date /\ c.time = c.seen.time
            /\ c.plan = c.seen.plan /\ c.price = c.seen.price
        /\ c.call # "NONE" => c.under \in QuestionsFor(c.call)
        /\ c.call \in {"VISIT", "MOVE", "RESERVE"} => c.seen.of = SummaryFor[c.call]}

\* What a handler reads and writes.
StateRec ==
    [state : ConversationState, pending : PendingAction, question : Questions,
     proposal : ProposalMade, fails : 0..3, svc : 0..1, fields : FieldList, visit : VisitDraft,
     booking : BookingDraft, event : EventRow, quote : {"NONE", "DRAFT", "READY"},
     shown : SummaryShown, did : CallMade, error : Errors, queue : 0..MaxBacklog,
     name : BOOLEAN, visits : 0..2, request : BOOLEAN]

(***************************************************************************)
(* Kinds of row                                                            *)
(***************************************************************************)
\* A quote went to the staff only with its type, guests, date and a name.
QuoteComplete(s) ==
    s.quote = "READY" => s.name /\ s.event.type # "NONE" /\ s.event.guests /\ s.event.date

\* The columns have their types, a quote is complete, and a known name stays known.
Core(s, known) == s \in StateRec /\ QuoteComplete(s) /\ (known => s.name)

\* Pending actions whose answer neither books nor moves anything.
Harmless ==
    {"NONE", "CLASSIFY_MESSAGE", "WAIT_FOR_HUMAN", "ANSWER_INFORMATION", "SELECT_VISIT_DATE",
     "SELECT_VISIT_TIME", "COLLECT_CATALOG_EVENT_TYPE", "COLLECT_EVENT_TYPE",
     "COLLECT_GUEST_COUNT", "COLLECT_EVENT_DATE", "COLLECT_CUSTOMER_NAME", "COLLECT_BUDGET",
     "COLLECT_SERVICES", "COLLECT_VISIT_ATTENDEES", "COLLECT_VISIT_REASON",
     "CONFIRM_QUOTE_REQUEST", "CONFIRM_VISIT_DATE", "CONFIRM_VISIT_CANCELLATION"}

\* Pending actions that belong to one state.
Critical == BOOKING_ACTIONS \cup {"CONFIRM_APPOINTMENT", "CONFIRM_RESCHEDULE"}

\* The states in which neither a visit's summary nor its day or time are awaited.
Elsewhere == ConversationState \ ({"APPOINTMENT_PENDING_CONFIRMATION"} \cup Awaiting)

\* The visit awaiting its confirmation is complete, was shown as what it is, and is what is
\* asked about, unless another question displaced it.
VisitShown(s) ==
    s.state = "APPOINTMENT_PENDING_CONFIRMATION" =>
        /\ HasAll(s)
        /\ s.shown.date = s.visit.date /\ s.shown.time = s.visit.time
        /\ s.shown.plan = None /\ s.shown.price = None
        /\ s.shown.of = SummaryFor[VisitCall(s.visit)]
        /\ s.pending \in QuestionsFor(VisitCall(s.visit))

\* While its day or its time is awaited, a move has no time.
NoTimeYet(s) == s.state \in Awaiting => ~MovesVisit(s.visit)

\* The booking awaiting its confirmation was shown.
BookingShown(s) ==
    s.pending = "CONFIRM_BOOKING" =>
        /\ s.shown.of = "BOOKING_SUMMARY"
        /\ s.shown.date = s.booking.date /\ s.shown.time = s.booking.time
        /\ s.shown.plan = s.booking.plan /\ s.shown.price = s.booking.price

\* What is pending belongs to the state.
InPlace(s) ==
    /\ s.pending \in BOOKING_ACTIONS => s.state = "COLLECTING_EVENT_DATA"
    /\ s.pending \in {"CONFIRM_APPOINTMENT", "CONFIRM_RESCHEDULE"} =>
            s.state = "APPOINTMENT_PENDING_CONFIRMATION"

\* What a turn that ends well must leave.
Placed(s) == VisitShown(s) /\ NoTimeYet(s) /\ BookingShown(s) /\ InPlace(s)

\* The turn has raised: nothing of it will be kept.
Failed(s) == s.error # "NONE"

\* No visit's summary is awaited, and the time of a move awaited is not known.
Away(s) == Failed(s) \/ (s.state # "APPOINTMENT_PENDING_CONFIRMATION" /\ NoTimeYet(s))

\* Such a row with its types.
Gone(s, known) == Core(s, known) /\ Away(s)

\* A row in the state of the capture.
Filed(s, known) == Core(s, known) /\ (Failed(s) \/ s.state = "COLLECTING_EVENT_DATA")

\* A row that awaits no summary of a visit or booking.
Idle(s, known) == Gone(s, known) /\ (Failed(s) \/ s.pending \notin Critical)

\* What every handler must leave.
Fine(s, known) == Core(s, known) /\ (Failed(s) \/ Placed(s))

\* A question that may take the place of a visit's confirmation.
Displaces(s, action) == action \in QuestionsFor(VisitCall(s.visit))

\* The columns that say what the conversation is about are left alone.
Like(s, u) ==
    /\ u \in StateRec
    /\ u.state = s.state /\ u.pending = s.pending /\ u.visit = s.visit
    /\ u.booking = s.booking /\ u.shown = s.shown /\ u.error = s.error /\ u.did = s.did
    /\ QuoteComplete(s) => QuoteComplete(u)
    /\ s.name => u.name

(***************************************************************************)
(* The sets, the blanks and the kinds                                      *)
(***************************************************************************)
\* The states the handlers move to.
LEMMA Places ==
    /\ \A a \in {"WAITING_FOR_HUMAN", "COLLECTING_EVENT_DATA", "BOT_ACTIVE",
                 "ANSWERING_INFORMATION", "QUOTE_REQUEST_READY", "APPOINTMENT_CONFIRMED",
                 "RESOLVED", "NEW", "HUMAN_ACTIVE"} : a \in Elsewhere
    /\ Elsewhere \subseteq ConversationState
    /\ "APPOINTMENT_PENDING_CONFIRMATION" \in ConversationState
    /\ Awaiting \subseteq ConversationState
    /\ "WAITING_FOR_APPOINTMENT_DATE" \in Awaiting
    /\ "WAITING_FOR_APPOINTMENT_SELECTION" \in Awaiting
  BY DEF Elsewhere, Awaiting, ConversationState, PausedStates, UnpausedStates

\* Both sets consist of pending actions.
LEMMA HarmlessIsPending == Harmless \subseteq PendingAction /\ Critical \subseteq PendingAction
  BY DEF Harmless, PendingAction, Critical, GENERIC_CAPTURE_ACTIONS, NAME_ACTIONS,
         BOOKING_ACTIONS, CONFIRM_ACTIONS, DIRECT_APPOINTMENT_ANSWER_ACTIONS

\* There are no other pending actions.
LEMMA HarmlessOrCritical == \A a \in PendingAction : a \in Harmless \/ a \in Critical
  BY DEF Harmless, PendingAction, Critical, GENERIC_CAPTURE_ACTIONS, NAME_ACTIONS,
         BOOKING_ACTIONS, CONFIRM_ACTIONS, DIRECT_APPOINTMENT_ANSWER_ACTIONS

\* The two sets are disjoint.
LEMMA HarmlessIsNotCritical == \A a \in Harmless : a \notin Critical
  BY DEF Harmless, Critical, BOOKING_ACTIONS

\* The empty drafts, proposal, summary and list have their types.
LEMMA Blanks ==
    /\ NoVisit \in VisitDraft
    /\ NoBooking \in BookingDraft
    /\ NoReading \in ReadingMade
    /\ NoProposal \in ProposalMade
    /\ NoSummary \in SummaryShown
    /\ << >> \in FieldList
  <1>1. NoVisit \in VisitDraft
    BY DEF NoVisit, VisitDraft, None
  <1>2. NoBooking \in BookingDraft
    BY DEF NoBooking, BookingDraft, None
  <1>3. \A S : << >> \in Seq(S)
    OBVIOUS
  <1>4. "UNKNOWN" \in Intents
    BY DEF Intents
  <1>5. NoReading \in ReadingMade
    BY <1>3, <1>4 DEF NoReading, ReadingMade
  <1>6. NoProposal \in ProposalMade
    BY <1>5, Places DEF NoProposal, ProposalMade, Elsewhere
  <1>7. NoSummary \in SummaryShown
    BY DEF NoSummary, SummaryShown, Summaries, None
  <1>8. << >> \in FieldList
    BY <1>3 DEF FieldList, IsInjective
  <1> QED BY <1>1, <1>2, <1>5, <1>6, <1>7, <1>8

\* An absent value is a number, 0.
LEMMA NoneIsNat == None \in Nat /\ None = 0
  BY DEF None

\* Leaving those columns alone keeps a row of its kind.
LEMMA LikeKeeps ==
    ASSUME NEW s, NEW u, NEW known, Core(s, known), Like(s, u)
    PROVE  /\ Core(u, known)
           /\ Gone(s, known) => Gone(u, known)
           /\ Filed(s, known) => Filed(u, known)
           /\ Idle(s, known) => Idle(u, known)
           /\ Fine(s, known) => Fine(u, known)
  <1>1. Core(u, known)
    BY DEF Core, Like
  <1>2. HasAll(u) = HasAll(s)
    BY DEF Like, HasAll
  <1>3. Placed(s) => Placed(u)
    BY <1>2 DEF Like, Placed, VisitShown, NoTimeYet, BookingShown, InPlace
  <1>4. /\ u.error = s.error /\ u.state = s.state /\ u.pending = s.pending
        /\ u.visit = s.visit
    BY DEF Like
  <1>5. (Failed(s) <=> Failed(u)) /\ (Away(s) <=> Away(u))
    BY <1>4 DEF Failed, Away, NoTimeYet
  <1> QED BY <1>1, <1>3, <1>4, <1>5 DEF Gone, Filed, Idle, Fine

\* Leaving them alone twice leaves them alone.
LEMMA LikeTransitive ==
    ASSUME NEW s, NEW u, NEW v, Like(s, u), Like(u, v)
    PROVE  Like(s, v)
  BY DEF Like

\* Doing nothing leaves them alone.
LEMMA LikeItself == ASSUME NEW s \in StateRec PROVE Like(s, s)
  BY DEF Like

\* Which kind of row implies which.
LEMMA Kinds ==
    ASSUME NEW s, NEW known
    PROVE  /\ Idle(s, known) => Fine(s, known) /\ Gone(s, known)
           /\ Gone(s, known) => Core(s, known)
           /\ Filed(s, known) => Gone(s, known)
           /\ Fine(s, known) => Core(s, known)
           /\ Core(s, known) => s \in StateRec
           /\ Core(s, known) /\ Failed(s) => Idle(s, known)
  <1>1. Core(s, known) => s \in StateRec
    BY DEF Core
  <1>2. Idle(s, known) => Gone(s, known)
    BY DEF Idle
  <1>3. Idle(s, known) => Fine(s, known)
    BY DEF Idle, Gone, Away, NoTimeYet, Fine, Placed, VisitShown, BookingShown, InPlace, Critical,
           BOOKING_ACTIONS, Awaiting
  <1>4. Filed(s, known) => Gone(s, known)
    BY DEF Filed, Gone, Away, NoTimeYet, Awaiting
  <1>5. Core(s, known) /\ Failed(s) => Idle(s, known)
    BY DEF Idle, Gone, Away, NoTimeYet
  <1> QED BY <1>1, <1>2, <1>3, <1>4, <1>5 DEF Gone, Fine

(***************************************************************************)
(* Elementary effects                                                      *)
(***************************************************************************)
\* Sending a text (enqueue_template) only sets the last question.
LEMMA AskEffect ==
    ASSUME NEW s \in StateRec, NEW code \in Questions
    PROVE  Like(s, Ask(s, code))
  BY DEF StateRec, Ask, Like, QuoteComplete

\* Counting a misunderstanding stays within its bound.
LEMMA CountEffect ==
    ASSUME NEW s \in StateRec
    PROVE  Like(s, CountFailure(s))
  <1>1. PICK n : n = IF s.fails < 3 THEN s.fails + 1 ELSE s.fails
    OBVIOUS
  <1>2. s.fails \in 0..3
    BY DEF StateRec
  <1>3. n \in 0..3
    BY <1>1, <1>2
  <1>4. CountFailure(s) = [s EXCEPT !.fails = n]
    BY <1>1 DEF CountFailure, StateRec
  <1> QED BY <1>3, <1>4 DEF StateRec, Like, QuoteComplete

\* Resetting the counter of misunderstandings.
LEMMA FailsEffect ==
    ASSUME NEW s \in StateRec
    PROVE  Like(s, [s EXCEPT !.fails = 0])
  BY DEF StateRec, Like, QuoteComplete

\* Storing or dropping a proposal.
LEMMA ProposalEffect ==
    ASSUME NEW s \in StateRec, NEW p \in ProposalMade
    PROVE  Like(s, [s EXCEPT !.proposal = p])
  BY DEF StateRec, Like, QuoteComplete

\* Writing pending_fields.
LEMMA FieldsEffect ==
    ASSUME NEW s \in StateRec, NEW q \in FieldList
    PROVE  Like(s, [s EXCEPT !.fields = q])
  BY DEF StateRec, Like, QuoteComplete

\* Writing the counter of unresolved services.
LEMMA ServicesEffect ==
    ASSUME NEW s \in StateRec, NEW n \in 0..1
    PROVE  Like(s, [s EXCEPT !.svc = n])
  BY DEF StateRec, Like, QuoteComplete

\* Counting the active visits.
LEMMA VisitsEffect ==
    ASSUME NEW s \in StateRec, NEW n \in 0..2
    PROVE  Like(s, [s EXCEPT !.visits = n])
  BY DEF StateRec, Like, QuoteComplete

\* Opening a reservation request.
LEMMA RequestEffect ==
    ASSUME NEW s \in StateRec
    PROVE  Like(s, [s EXCEPT !.request = TRUE])
  BY DEF StateRec, Like, QuoteComplete

\* A proposal made of a reading.
LEMMA ProposeEffect ==
    ASSUME NEW s \in StateRec, NEW kind \in {"NAME", "CLASSIFICATION"}, NEW r \in ReadingMade
    PROVE  Like(s, Propose(s, kind, r))
  <1>1. PICK p : p = [kind |-> kind, state |-> s.state, lead |-> s.event.lead, reading |-> r]
    OBVIOUS
  <1>2. p \in ProposalMade
    BY <1>1 DEF ProposalMade, StateRec, EventRow
  <1> QED BY <1>1, <1>2, ProposalEffect DEF Propose

\* Creating the lead (get_or_create_capture_models).
LEMMA CapturingEffect ==
    ASSUME NEW s \in StateRec
    PROVE  Like(s, Capturing(s))
  BY DEF StateRec, EventRow, Like, QuoteComplete, Capturing

\* Writing the event type keeps a complete quote complete.
LEMMA TypeEffect ==
    ASSUME NEW s \in StateRec, NEW type \in {"GENERIC", "FIXED"}
    PROVE  Like(s, apply_event_type(s, type))
  BY DEF StateRec, EventRow, Like, QuoteComplete, apply_event_type

\* transition_conversation moves to its target or raises.
LEMMA GoEffect ==
    ASSUME NEW s, NEW known, Core(s, known), NEW target \in ConversationState
    PROVE  LET u == Go(s, target) IN
           /\ Core(u, known)
           /\ Failed(u) \/ (u.state = target /\ u.error = s.error)
           /\ Failed(s) => Failed(u)
           /\ u = [s EXCEPT !.state = u.state, !.error = u.error]
  <1>1. CASE target \in ALLOWED_TRANSITIONS[s.state]
    BY <1>1 DEF Go, Core, StateRec, Failed, QuoteComplete
  <1>2. CASE target \notin ALLOWED_TRANSITIONS[s.state]
    BY <1>2 DEF Go, Raise, Core, StateRec, Failed, QuoteComplete, Errors
  <1> QED BY <1>1, <1>2

\* So does a caller that first compares the states.
LEMMA GoUnlessThereEffect ==
    ASSUME NEW s, NEW known, Core(s, known), NEW target \in ConversationState
    PROVE  LET u == GoUnlessThere(s, target) IN
           /\ Core(u, known)
           /\ Failed(u) \/ (u.state = target /\ u.error = s.error)
           /\ Failed(s) => Failed(u)
           /\ u = [s EXCEPT !.state = u.state, !.error = u.error]
  <1>1. CASE s.state = target
    BY <1>1 DEF GoUnlessThere, Core, StateRec
  <1>2. CASE s.state # target
    BY <1>2, GoEffect DEF GoUnlessThere
  <1> QED BY <1>1, <1>2

\* A move to any of the other states leaves nothing of a visit awaited.
LEMMA Moves ==
    ASSUME NEW s, NEW known, Core(s, known), NEW target \in Elsewhere
    PROVE  /\ Gone(Go(s, target), known) /\ Gone(GoUnlessThere(s, target), known)
           /\ Idle(s, known) => Idle(Go(s, target), known) /\ Idle(GoUnlessThere(s, target), known)
           /\ target = "COLLECTING_EVENT_DATA" =>
                 Filed(Go(s, target), known) /\ Filed(GoUnlessThere(s, target), known)
  <1>1. /\ target \in ConversationState /\ target # "APPOINTMENT_PENDING_CONFIRMATION"
        /\ target \notin Awaiting
    BY DEF Elsewhere
  <1>2. PICK u : u = Go(s, target)
    OBVIOUS
  <1>3. PICK v : v = GoUnlessThere(s, target)
    OBVIOUS
  <1>4. /\ Core(u, known)
        /\ Failed(u) \/ (u.state = target /\ u.error = s.error)
        /\ Failed(s) => Failed(u)
        /\ u = [s EXCEPT !.state = u.state, !.error = u.error]
    BY <1>1, <1>2, GoEffect
  <1>5. /\ Core(v, known)
        /\ Failed(v) \/ (v.state = target /\ v.error = s.error)
        /\ Failed(s) => Failed(v)
        /\ v = [s EXCEPT !.state = v.state, !.error = v.error]
    BY <1>1, <1>3, GoUnlessThereEffect
  <1>6. u.pending = s.pending /\ v.pending = s.pending
    BY <1>4, <1>5 DEF Core, StateRec
  <1> QED BY <1>1, <1>2, <1>3, <1>4, <1>5, <1>6 DEF Gone, Away, NoTimeYet, Idle, Filed

\* Where an answer may lead back to.
LeadsBack(visit, state) ==
    state \in Elsewhere \/ (state \in Awaiting /\ ~MovesVisit(visit))

\* A way back leaves nothing awaited either.
LEMMA MovesBack ==
    ASSUME NEW s, NEW known, Core(s, known), NEW target, LeadsBack(s.visit, target)
    PROVE  Gone(GoUnlessThere(s, target), known)
  <1>1. CASE target \in Elsewhere
    BY <1>1, Moves
  <1>2. CASE target \in Awaiting /\ ~MovesVisit(s.visit)
    <2>1. PICK u : u = GoUnlessThere(s, target)
      OBVIOUS
    <2>2. /\ Core(u, known)
          /\ Failed(u) \/ u.state = target
          /\ u = [s EXCEPT !.state = u.state, !.error = u.error]
      BY <1>2, <2>1, GoUnlessThereEffect, Places
    <2>3. u.visit = s.visit
      BY <2>2 DEF Core, StateRec
    <2>4. target # "APPOINTMENT_PENDING_CONFIRMATION"
      BY <1>2 DEF Awaiting
    <2> QED BY <1>2, <2>1, <2>2, <2>3, <2>4 DEF Gone, Away, NoTimeYet
  <1> QED BY <1>1, <1>2 DEF LeadsBack

\* set_pending_action writes the pending action and the services counter.
LEMMA PendEffect ==
    ASSUME NEW s, NEW known, Core(s, known), NEW action \in PendingAction
    PROVE  LET u == Pend(s, action) IN
           /\ Core(u, known)
           /\ u.pending = action
           /\ u.state = s.state /\ u.error = s.error /\ u.visit = s.visit
           /\ u.booking = s.booking /\ u.shown = s.shown /\ u.event = s.event /\ u.name = s.name
           /\ u.fails = s.fails /\ u.fields = s.fields
  <1>1. PICK n : n = IF action = "COLLECT_SERVICES" THEN 0 ELSE s.svc
    OBVIOUS
  <1>2. n \in 0..1
    BY <1>1 DEF Core, StateRec
  <1>3. Pend(s, action) = [s EXCEPT !.pending = action, !.svc = n]
    BY <1>1 DEF Pend, Core, StateRec
  <1> QED BY <1>2, <1>3 DEF Core, StateRec, QuoteComplete

\* A harmless question may be put in any row that does not await the confirmation of a visit,
\* and one that displaces this confirmation in any row at all.
LEMMA PendHarmless ==
    ASSUME NEW s, NEW known, Core(s, known), NEW action \in Harmless
    PROVE  /\ Core(Pend(s, action), known)
           /\ Gone(s, known) => Idle(Pend(s, action), known)
           /\ Fine(s, known) /\ Displaces(s, action) => Fine(Pend(s, action), known)
           /\ Filed(s, known) => Filed(Pend(s, action), known)
  <1>1. PICK u : u = Pend(s, action)
    OBVIOUS
  <1>2. action \in PendingAction /\ action \notin Critical
    BY HarmlessIsPending, HarmlessIsNotCritical
  <1>3. /\ Core(u, known)
        /\ u.pending = action
        /\ u.state = s.state /\ u.error = s.error /\ u.visit = s.visit
        /\ u.booking = s.booking /\ u.shown = s.shown
    BY <1>1, <1>2, PendEffect
  <1>4. HasAll(u) = HasAll(s)
    BY <1>3 DEF HasAll
  <1>5. Placed(s) /\ Displaces(s, action) => Placed(u)
    BY <1>2, <1>3, <1>4
       DEF Displaces, Placed, VisitShown, NoTimeYet, BookingShown, InPlace, Critical,
           BOOKING_ACTIONS
  <1>6. Failed(u) = Failed(s)
    BY <1>3 DEF Failed
  <1> QED BY <1>1, <1>2, <1>3, <1>5, <1>6 DEF Gone, Away, NoTimeYet, Idle, Fine, Filed

\* A row whose turn raised is rolled back: no summary of it is awaited.
LEMMA RaiseEffect ==
    ASSUME NEW s, NEW known, Core(s, known), NEW why \in Errors \ {"NONE"}
    PROVE  Idle(Raise(s, why), known)
  BY DEF Raise, Core, StateRec, QuoteComplete, Idle, Gone, Away, NoTimeYet, Failed

\* Writing pending_action alone, to a harmless one.
LEMMA PendingEffect ==
    ASSUME NEW s, NEW known, Core(s, known), NEW action \in Harmless
    PROVE  /\ Core([s EXCEPT !.pending = action], known)
           /\ Gone(s, known) => Idle([s EXCEPT !.pending = action], known)
  <1>1. action \in PendingAction /\ action \notin Critical
    BY HarmlessIsPending, HarmlessIsNotCritical
  <1> QED BY <1>1 DEF Core, StateRec, QuoteComplete, Gone, Idle, Away, NoTimeYet, Failed

\* create_handoff waits for a human: nothing of the bot is pending.
LEMMA HandoffEffect ==
    ASSUME NEW s, NEW known, Core(s, known)
    PROVE  Idle(create_handoff(s), known)
  <1>1. PICK e : e = [s EXCEPT !.pending = "WAIT_FOR_HUMAN"]
    OBVIOUS
  <1>2. "WAIT_FOR_HUMAN" \in Harmless
    BY DEF Harmless
  <1>3. Core(e, known) /\ e.pending \notin Critical
    BY <1>1, <1>2, PendingEffect, HarmlessIsNotCritical DEF Core, StateRec
  <1>4. PICK g : g = GoUnlessThere(e, "WAITING_FOR_HUMAN")
    OBVIOUS
  <1>5. Gone(g, known)
    BY <1>3, <1>4, Moves, Places
  <1>6. g.pending = e.pending
    <2>1. "WAITING_FOR_HUMAN" \in ConversationState
      BY Places
    <2>2. g = [e EXCEPT !.state = g.state, !.error = g.error]
      BY <1>3, <1>4, <2>1, GoUnlessThereEffect
    <2> QED BY <2>2, <1>3 DEF Core, StateRec
  <1> QED BY <1>1, <1>3, <1>4, <1>5, <1>6 DEF create_handoff, Idle

\* Replacing the visit draft where nothing of it is awaited.
LEMMA VisitEffect ==
    ASSUME NEW s, NEW known, Core(s, known), NEW v \in VisitDraft
    PROVE  /\ Core([s EXCEPT !.visit = v], known)
           /\ Gone(s, known) /\ (MovesVisit(v) => MovesVisit(s.visit)) =>
                 Gone([s EXCEPT !.visit = v], known)
           /\ Idle(s, known) /\ (MovesVisit(v) => MovesVisit(s.visit)) =>
                 Idle([s EXCEPT !.visit = v], known)
  BY DEF Core, StateRec, QuoteComplete, Gone, Idle, Away, NoTimeYet, Failed

\* Replacing the booking draft.
LEMMA BookingEffect ==
    ASSUME NEW s, NEW known, Core(s, known), NEW b \in BookingDraft
    PROVE  /\ Core([s EXCEPT !.booking = b], known)
           /\ Gone(s, known) => Gone([s EXCEPT !.booking = b], known)
           /\ Filed(s, known) => Filed([s EXCEPT !.booking = b], known)
           /\ Idle(s, known) => Idle([s EXCEPT !.booking = b], known)
  BY DEF Core, StateRec, QuoteComplete, Gone, Filed, Idle, Away, NoTimeYet, Failed

\* create_handoff_and_pause leaves nothing awaited, whatever was under way.
LEMMA HandOffEffect ==
    ASSUME NEW s, NEW known, Core(s, known), NEW reason
    PROVE  Idle(HandOff(s, reason), known)
  <1>1. PICK b : b = IF reason = "SYSTEM_ERROR" THEN s.booking ELSE NoBooking
    OBVIOUS
  <1>2. b \in BookingDraft
    BY <1>1, Blanks DEF Core, StateRec
  <1>3. PICK d : d = [s EXCEPT !.visit = NoVisit, !.booking = b]
    OBVIOUS
  <1>4. Core(d, known)
    BY <1>2, <1>3, Blanks DEF Core, StateRec, QuoteComplete
  <1>5. PICK g : g = create_handoff(d)
    OBVIOUS
  <1>6. Idle(g, known)
    BY <1>4, <1>5, HandoffEffect
  <1>7. g \in StateRec
    BY <1>6, Kinds
  <1>8. PICK a : a = Ask(g, "TRANSFER")
    OBVIOUS
  <1>9. Like(g, a) /\ a \in StateRec
    BY <1>7, <1>8, AskEffect DEF Questions, Like
  <1>10. PICK e : e = [a EXCEPT !.svc = 0, !.proposal = NoProposal]
    OBVIOUS
  <1>11. Like(a, e)
    <2>1. NoProposal \in ProposalMade /\ 0 \in 0..1
      BY Blanks
    <2> QED BY <1>9, <1>10, <2>1 DEF Like, StateRec, QuoteComplete
  <1>12. Idle(e, known)
    BY <1>6, <1>9, <1>11, Kinds, LikeKeeps, LikeTransitive
  <1>13. HandOff(s, reason) = e
    <2>1. CASE reason = "SYSTEM_ERROR"
      <3>1. d = [s EXCEPT !.visit = NoVisit, !.booking = s.booking]
        BY <1>1, <1>3, <2>1
      <3> QED BY <2>1, <3>1, <1>5, <1>8, <1>10 DEF HandOff
    <2>2. CASE reason # "SYSTEM_ERROR"
      <3>1. d = [s EXCEPT !.visit = NoVisit, !.booking = NoBooking]
        BY <1>1, <1>3, <2>2
      <3> QED BY <2>2, <3>1, <1>5, <1>8, <1>10 DEF HandOff
    <2> QED BY <2>1, <2>2
  <1> QED BY <1>12, <1>13

(***************************************************************************)
(* Lists of fields                                                         *)
(***************************************************************************)
\* A set of numbers up to N that is not empty has a least element.
LEMMA Least ==
    ASSUME NEW N \in Nat, NEW B, B \subseteq 0..N, B # {}
    PROVE  \E n \in B : \A m \in B : n <= m
  <1> DEFINE D == 0..N
             Cuts == {0..n : n \in B}
  <1>1. IsWellFoundedOn(StrictSubsetOrdering(D), SUBSET D)
    <2>1. IsFiniteSet(D)
      BY FS_Interval
    <2> QED BY <2>1, FS_StrictSubsetOrderingWellFounded, FS_FiniteSubsetsOfFinite
  <1>2. Cuts \subseteq SUBSET D /\ Cuts # {}
    <2>1. \A n \in B : 0..n \in SUBSET D
      OBVIOUS
    <2>2. \A T \in Cuts : T \in SUBSET D
      BY <2>1
    <2>3. PICK n \in B : TRUE
      OBVIOUS
    <2>4. 0..n \in Cuts
      BY <2>3
    <2> QED BY <2>2, <2>4
  <1>3. PICK T \in Cuts : \A U \in Cuts : ~(<<U, T>> \in StrictSubsetOrdering(D))
    <2> HIDE DEF Cuts
    <2> QED BY <1>1, <1>2, WFMin
  <1>4. PICK n \in B : T = 0..n
    OBVIOUS
  <1>5. ASSUME NEW m \in B, m < n PROVE FALSE
    <2>1. 0..m \in Cuts /\ 0..m \in SUBSET D /\ 0..n \in SUBSET D
      OBVIOUS
    <2>2. n \in 0..n /\ n \notin 0..m /\ 0..m \subseteq 0..n
      BY <1>5
    <2>3. <<0..m, T>> \in StrictSubsetOrdering(D)
      BY <1>4, <2>1, <2>2 DEF StrictSubsetOrdering
    <2> QED BY <1>3, <2>1, <2>3
  <1> QED BY <1>5

\* The function that Extend defines by recursion.
Extends(base, more, kept, f) ==
    f = [i \in 0..Len(more) |->
            IF i = 0 THEN base
            ELSE IF more[i] \in kept /\ more[i] \notin ToSet(f[i - 1])
                 THEN Append(f[i - 1], more[i]) ELSE f[i - 1]]

\* Appending a field that is not in the list.
LEMMA AppendNew ==
    ASSUME NEW q \in FieldList, NEW e \in Entities, e \notin ToSet(q)
    PROVE  Append(q, e) \in FieldList
  <1>1. q \in Seq(Entities) /\ \A i, j \in DOMAIN q : q[i] = q[j] => i = j
    BY DEF FieldList, IsInjective
  <1>2. PICK r : r = Append(q, e)
    OBVIOUS
  <1>3. r \in Seq(Entities) /\ Len(r) = Len(q) + 1 /\ r[Len(q) + 1] = e
    BY <1>1, <1>2
  <1>4. \A i \in 1..Len(q) : r[i] = q[i] /\ q[i] # e
    BY <1>1, <1>2 DEF ToSet
  <1>5. \A i \in DOMAIN r : i \in 1..Len(q) \/ i = Len(q) + 1
    BY <1>1, <1>3
  <1>6. \A i, j \in DOMAIN r : r[i] = r[j] => i = j
    BY <1>1, <1>3, <1>4, <1>5
  <1> QED BY <1>2, <1>3, <1>6 DEF FieldList, IsInjective

\* Every value of that function is a list without repetitions: consider the first that is not.
LEMMA ExtendsTyped ==
    ASSUME NEW base \in FieldList, NEW S, NEW more \in Seq(S), NEW kept,
           \A i \in 1..Len(more) : more[i] \in kept => more[i] \in Entities,
           NEW f, Extends(base, more, kept, f)
    PROVE  \A i \in 0..Len(more) : f[i] \in FieldList
  <1> DEFINE Bad == {i \in 0..Len(more) : f[i] \notin FieldList}
  <1> SUFFICES ASSUME Bad # {} PROVE FALSE
    OBVIOUS
  <1>1. Len(more) \in Nat /\ Bad \subseteq 0..Len(more)
    OBVIOUS
  <1>2. PICK n \in Bad : \A m \in Bad : n <= m
    <2> HIDE DEF Bad
    <2> QED BY <1>1, Least
  <1>3. n \in 0..Len(more) /\ f[n] \notin FieldList
    OBVIOUS
  <1>4. n # 0
    <2>1. f[0] = base
      BY <1>1 DEF Extends
    <2> QED BY <1>3, <2>1
  <1>5. n - 1 \in 0..Len(more) /\ n - 1 < n /\ n \in 1..Len(more)
    BY <1>1, <1>3, <1>4
  <1>6. f[n - 1] \in FieldList
    BY <1>2, <1>5
  <1>7. f[n] = IF more[n] \in kept /\ more[n] \notin ToSet(f[n - 1])
               THEN Append(f[n - 1], more[n]) ELSE f[n - 1]
    BY <1>3, <1>4 DEF Extends
  <1> QED BY <1>3, <1>5, <1>6, <1>7, AppendNew

\* There is such a function: consider the first prefix of "more" without one.
LEMMA ExtendsExists ==
    ASSUME NEW base, NEW S, NEW more \in Seq(S), NEW kept
    PROVE  \E f : Extends(base, more, kept, f)
  <1> DEFINE Step(f, i) ==
               IF i = 0 THEN base
               ELSE IF more[i] \in kept /\ more[i] \notin ToSet(f[i - 1])
                    THEN Append(f[i - 1], more[i]) ELSE f[i - 1]
             Upto(n) == \E f : f = [i \in 0..n |-> f[i]] /\ \A i \in 0..n : f[i] = Step(f, i)
             Bad == {n \in 0..Len(more) : ~Upto(n)}
  <1>1. Len(more) \in Nat /\ Bad \subseteq 0..Len(more)
    OBVIOUS
  <1>2. ASSUME Bad # {} PROVE FALSE
    <2>1. PICK n \in Bad : \A m \in Bad : n <= m
      <3> HIDE DEF Bad
      <3> QED BY <1>1, <1>2, Least
    <2>2. n \in 0..Len(more) /\ ~Upto(n)
      OBVIOUS
    <2>3. n # 0
      <3> SUFFICES ASSUME n = 0 PROVE FALSE
        OBVIOUS
      <3>1. PICK f : f = [i \in 0..0 |-> base]
        OBVIOUS
      <3>2. f = [i \in 0..0 |-> f[i]] /\ \A i \in 0..0 : f[i] = Step(f, i)
        BY <3>1
      <3> QED BY <2>2, <3>2
    <2>4. n - 1 \in 0..Len(more) /\ n - 1 < n /\ n \in Nat
      BY <1>1, <2>2, <2>3
    <2>5. Upto(n - 1)
      BY <2>1, <2>4
    <2>6. PICK g : g = [i \in 0..(n - 1) |-> g[i]] /\ \A i \in 0..(n - 1) : g[i] = Step(g, i)
      BY <2>5
    <2>7. PICK x : x = Step(g, n)
      OBVIOUS
    <2>8. PICK f : f = [i \in 0..n |-> IF i = n THEN x ELSE g[i]]
      OBVIOUS
    <2>9. f[n] = x /\ \A i \in 0..(n - 1) : f[i] = g[i]
      BY <2>4, <2>8
    <2>10. f = [i \in 0..n |-> f[i]]
      BY <2>8
    <2>11. Step(f, n) = Step(g, n)
      BY <2>3, <2>4, <2>9
    <2>12. \A i \in 0..(n - 1) : Step(f, i) = Step(g, i)
      <3> SUFFICES ASSUME NEW i \in 0..(n - 1), i # 0 PROVE f[i - 1] = g[i - 1]
        OBVIOUS
      <3> QED BY <2>4, <2>9
    <2>13. \A i \in 0..n : f[i] = Step(f, i)
      <3> HIDE DEF Step
      <3>1. \A i \in 0..n : i = n \/ i \in 0..(n - 1)
        BY <2>4
      <3> QED BY <2>6, <2>7, <2>9, <2>11, <2>12, <3>1
    <2> QED BY <2>2, <2>10, <2>13
  <1>3. Upto(Len(more))
    BY <1>1, <1>2
  <1>4. PICK f : f = [i \in 0..Len(more) |-> f[i]]
                 /\ \A i \in 0..Len(more) : f[i] = Step(f, i)
    BY <1>3
  <1>5. f = [i \in 0..Len(more) |-> Step(f, i)]
    <2> HIDE DEF Step
    <2> QED BY <1>4
  <1> QED BY <1>5 DEF Extends

\* Extending a list keeps it without repetitions.
LEMMA ExtendTyped ==
    ASSUME NEW base \in FieldList, NEW S, NEW more \in Seq(S), NEW kept,
           \A i \in 1..Len(more) : more[i] \in kept => more[i] \in Entities
    PROVE  Extend(base, more, kept) \in FieldList
  <1> DEFINE it == CHOOSE f : Extends(base, more, kept, f)
  <1>1. Extend(base, more, kept) = it[Len(more)]
    BY Zenon DEF Extend, Extends
  <1>2. Extends(base, more, kept, it)
    BY ExtendsExists
  <1> HIDE DEF it
  <1>3. Len(more) \in 0..Len(more)
    OBVIOUS
  <1> QED BY <1>1, <1>2, <1>3, ExtendsTyped

\* So does filtering one.
LEMMA KeepTyped ==
    ASSUME NEW S, NEW q \in Seq(S), NEW kept \in SUBSET Entities
    PROVE  Keep(q, kept) \in FieldList
  BY ExtendTyped, Blanks DEF Keep

\* So does merging two: merge_pending_fields asks nothing twice.
LEMMA MergeTyped ==
    ASSUME NEW base \in FieldList, NEW more \in FieldList
    PROVE  Merge(base, more) \in FieldList
  <1>1. more \in Seq(Entities)
    BY DEF FieldList
  <1>2. \A i \in 1..Len(more) : more[i] \in Entities
    BY <1>1
  <1> QED BY <1>1, <1>2, ExtendTyped DEF Merge

\* Every field is asked for by a harmless question.
LEMMA ActionsAsked == \A f \in Entities : ENTITY_ACTION[f] \in Harmless
  BY DEF Entities, ENTITY_ACTION, Harmless

\* The first field of a list is a field.
LEMMA HeadOfList ==
    ASSUME NEW q \in Seq(Entities), q # << >>
    PROVE  Head(q) \in Entities /\ q[1] \in Entities
  OBVIOUS

\* The missing fields are a list of fields.
LEMMA MissingFields == ASSUME NEW s PROVE pending_fields_for(s) \in FieldList
  <1>1. QUESTION_ORDER \in Seq(Entities)
    BY DEF QUESTION_ORDER, Entities, ENTITY_ACTION
  <1>2. {f \in ToSet(QUESTION_ORDER) : Missing(s, f)} \in SUBSET Entities
    BY <1>1 DEF ToSet
  <1> QED BY <1>1, <1>2, KeepTyped DEF pending_fields_for

\* The next question of a capture is a harmless one.
LEMMA NextQuestion == ASSUME NEW s PROVE select_next_question(s) \in Harmless
  <1>1. pending_fields_for(s) \in Seq(Entities)
    BY MissingFields DEF FieldList
  <1>2. "NONE" \in Harmless
    BY DEF Harmless
  <1> QED BY <1>1, <1>2, HeadOfList, ActionsAsked DEF select_next_question

(***************************************************************************)
(* The message                                                             *)
(***************************************************************************)
\* A message with the prices its turn reads.
TurnRead ==
    {t \in [ route : {"LLM", "HUMAN", "AI_DOWN", "BOOKING", "INQUIRY", "LODGING", "FIXED"},
             audio : BOOLEAN, bad : BOOLEAN, failed : BOOLEAN,
             says : {"TEXT", "YES", "EXACTO", "OKAY", "NO"},
             date : {"NONE", "EXACT", "DAY", "RELATIVE", "CONFLICT"}, day : Days \cup {None},
             time : Slots \cup {None}, explicit : BOOLEAN,
             count : {"NONE", "OK", "MANY", "EXCEPTION"}, person : BOOLEAN,
             plan : Plans \cup {None},
             intent : Intents, band : {"LOW", "MID", "PROBABLE", "SAFE"},
             category : {"NONE", "FAQ", "CATALOG", "NO_ANSWER"},
             name : {"NONE", "GIVEN", "INFERRED", "CORRECTED"},
             gives : SUBSET (DOMAIN ENTITY_ACTION \cup {"budget_declined"}),
             rejects : Seq(DOMAIN ENTITY_ACTION \cup {"SERVICE_ITEM", "UNKNOWN"}),
             type : {"NONE", "GENERIC", "FIXED"},
             slots : SUBSET Slots, service : {"OK", "TAKEN", "GONE", "DOWN"},
             catalog : {"SENT", "UNAVAILABLE", "HANDOFF"}, agenda : {"FREE", "BUSY", "DOWN"},
             window : {"OK", "HOURS", "DATE"}, copy : {"APPROVED", "DRAFT"},
             prices : [Plans -> Prices \cup {None}] ] :
        t.date \in {"EXACT", "DAY"} => t.day # None}

\* What a turn knows of its message.
LEMMA TurnFacts ==
    ASSUME NEW t \in TurnRead
    PROVE  /\ t.day \in Nat /\ t.time \in Nat /\ t.slots \in SUBSET Slots
           /\ t.date \in {"EXACT", "DAY"} => t.day # None
           /\ t.plan \in Plans \cup {None}
           /\ t.type \in {"NONE", "GENERIC", "FIXED"}
           /\ t.rejects \in Seq(Entities \cup {"SERVICE_ITEM", "UNKNOWN"})
           /\ t.prices \in [Plans -> Prices \cup {None}]
           /\ t.name \in {"NONE", "GIVEN", "INFERRED", "CORRECTED"}
           /\ t.intent \in Intents
           /\ t.failed \in BOOLEAN /\ t.catalog \in {"SENT", "UNAVAILABLE", "HANDOFF"}
           /\ t.time # None => t.time \in Slots
  <1>1. Days \subseteq Nat /\ Slots \subseteq Nat /\ None \in Nat
    BY TurnAssumption DEF None
  <1> QED BY <1>1 DEF TurnRead, Entities

\* What a message is read as can be stored.
LEMMA ReadingTyped ==
    ASSUME NEW t \in TurnRead
    PROVE  Reading(t) \in ReadingMade
  BY DEF TurnRead, Reading, ReadingMade, Entities

\* A stored reading can be put in place of another.
LEMMA ReadAsTyped ==
    ASSUME NEW t \in TurnRead, NEW r \in ReadingMade
    PROVE  ReadAs(t, r) \in TurnRead
  BY DEF TurnRead, ReadAs, ReadingMade, Entities

\* So can an intent.
LEMMA IntentTyped ==
    ASSUME NEW t \in TurnRead, NEW i \in Intents
    PROVE  [t EXCEPT !.intent = i] \in TurnRead /\ [t EXCEPT !.intent = i].intent = i
  BY DEF TurnRead

\* Every message becomes such a turn.
LEMMA PricedTyped ==
    ASSUME NEW m \in Turns, prices \in [Plans -> Prices \cup {None}]
    PROVE  Priced(m) \in TurnRead
  BY DialogueAssumption DEF TurnRead, Message, Priced

(***************************************************************************)
(* The capture of an event                                                 *)
(***************************************************************************)
\* Rejected entities only drop a proposal.
LEMMA RejectLike ==
    ASSUME NEW s \in StateRec, NEW t
    PROVE  Like(s, RejectEntities(s, t))
  BY ProposalEffect, LikeItself, Blanks DEF RejectEntities

\* A name is taken or proposed (apply_full_name).
LEMMA FullNameLike ==
    ASSUME NEW s \in StateRec, NEW t
    PROVE  Like(s, apply_full_name(s, t))
  <1>1. CASE t.name = "INFERRED"
    BY <1>1, ProposeEffect, Blanks DEF apply_full_name
  <1>2. CASE t.name # "INFERRED"
    <2>1. PICK p : p = IF s.proposal.kind = "NAME" THEN NoProposal ELSE s.proposal
      OBVIOUS
    <2>2. p \in ProposalMade
      BY <2>1, Blanks DEF StateRec
    <2>3. apply_full_name(s, t) = [s EXCEPT !.name = TRUE, !.proposal = p]
      BY <1>2, <2>1 DEF apply_full_name, StateRec
    <2> QED BY <2>2, <2>3 DEF Like, StateRec, QuoteComplete
  <1> QED BY <1>1, <1>2

\* A budget is taken or declined.
LEMMA BudgetLike ==
    ASSUME NEW s \in StateRec, NEW t
    PROVE  Like(s, apply_budget(s, t))
  <1>1. PICK b : b = IF "estimated_budget" \in t.gives THEN "PROVIDED"
                     ELSE IF "budget_declined" \in t.gives THEN "DECLINED" ELSE s.event.budget
    OBVIOUS
  <1>2. b \in {"NOT_ASKED", "ASKED_PENDING", "PROVIDED", "DECLINED"}
    BY <1>1 DEF StateRec, EventRow
  <1>3. apply_budget(s, t) = [s EXCEPT !.event.budget = b]
    BY <1>1 DEF apply_budget, StateRec, EventRow
  <1> QED BY <1>2, <1>3 DEF Like, StateRec, EventRow, QuoteComplete

\* Writing the budget status.
LEMMA BudgetEffect ==
    ASSUME NEW s \in StateRec, NEW b \in {"NOT_ASKED", "ASKED_PENDING", "PROVIDED", "DECLINED"}
    PROVE  Like(s, [s EXCEPT !.event.budget = b])
  BY DEF Like, StateRec, EventRow, QuoteComplete

\* Facts are only added to the event: a complete quote stays complete.
LEMMA FactsLike ==
    ASSUME NEW s \in StateRec, NEW t
    PROVE  Like(s, apply_facts(s, t))
  <1>1. PICK g : g = (s.event.guests \/ "guest_count" \in t.gives)
    OBVIOUS
  <1>2. PICK d : d = (s.event.date \/ "event_date" \in t.gives)
    OBVIOUS
  <1>3. PICK v : v = (s.event.services \/ "requested_services" \in t.gives)
    OBVIOUS
  <1>4. g \in BOOLEAN /\ d \in BOOLEAN /\ v \in BOOLEAN
    BY <1>1, <1>2, <1>3 DEF StateRec, EventRow
  <1>5. (s.event.guests => g) /\ (s.event.date => d)
    BY <1>1, <1>2
  <1>6. PICK e : e = [s.event EXCEPT !.guests = g, !.date = d, !.services = v]
    OBVIOUS
  <1>7. e \in EventRow /\ e.type = s.event.type /\ e.guests = g /\ e.date = d
    BY <1>4, <1>6 DEF StateRec, EventRow
  <1>8. apply_facts(s, t) = [s EXCEPT !.event = e]
    BY <1>1, <1>2, <1>3, <1>6 DEF apply_facts, StateRec, EventRow
  <1> QED BY <1>5, <1>7, <1>8 DEF Like, StateRec, QuoteComplete

\* apply_extracted_entities leaves the flow of the conversation alone.
LEMMA EntitiesLike ==
    ASSUME NEW s \in StateRec, NEW t \in TurnRead
    PROVE  Like(s, apply_extracted_entities(s, t))
  <1> DEFINE typed == IF TypeGiven(t) THEN apply_event_type(s, t.type) ELSE s
             facts == apply_facts(typed, t)
             known == apply_budget(facts, t)
             named == apply_full_name(known, t)
  <1>1. Like(s, typed) /\ typed \in StateRec
    BY TypeEffect, LikeItself, TurnFacts DEF TypeGiven, Like
  <1> HIDE DEF typed
  <1>2. Like(typed, facts) /\ facts \in StateRec
    BY <1>1, FactsLike DEF Like
  <1> HIDE DEF facts
  <1>3. Like(facts, known) /\ known \in StateRec
    BY <1>2, BudgetLike DEF Like
  <1> HIDE DEF known
  <1>4. Like(known, named)
    BY <1>3, FullNameLike
  <1> HIDE DEF named
  <1>5. Like(s, known) /\ Like(s, named)
    BY <1>1, <1>2, <1>3, <1>4, LikeTransitive
  <1> QED BY <1>5 DEF apply_extracted_entities, named, known, facts, typed

\* A proposed name is accepted.
LEMMA ConfirmNameLike ==
    ASSUME NEW s \in StateRec
    PROVE  Like(s, ConfirmName(s))
  BY Blanks DEF ConfirmName, Like, StateRec, QuoteComplete

\* What a message of a capture tells is stored.
LEMMA CollectedLike ==
    ASSUME NEW s \in StateRec, NEW t \in TurnRead
    PROVE  Like(s, Collected(s, t))
  BY ConfirmNameLike, EntitiesLike DEF Collected

\* A budget question that got another answer is settled.
LEMMA SettledLike ==
    ASSUME NEW s \in StateRec, NEW t
    PROVE  Like(s, Settled(s, t))
  BY BudgetEffect, LikeItself DEF Settled

\* A harmless question is asked.
LEMMA PendAndAskIdle ==
    ASSUME NEW s, NEW known, NEW action \in Harmless, NEW code \in Questions
    PROVE  /\ Gone(s, known) => Idle(PendAndAsk(s, action, code), known)
           /\ Fine(s, known) /\ Displaces(s, action) => Fine(PendAndAsk(s, action, code), known)
  <1>1. ASSUME Gone(s, known) PROVE Idle(PendAndAsk(s, action, code), known)
    BY <1>1, PendHarmless, Kinds, AskEffect, LikeKeeps DEF PendAndAsk
  <1>2. ASSUME Fine(s, known), Displaces(s, action)
        PROVE Fine(PendAndAsk(s, action, code), known)
    BY <1>2, PendHarmless, Kinds, AskEffect, LikeKeeps DEF PendAndAsk
  <1> QED BY <1>1, <1>2

\* A text keeps a row of its kind.
LEMMA AskKeeps ==
    ASSUME NEW s, NEW known, Core(s, known), NEW code \in Questions
    PROVE  /\ Core(Ask(s, code), known)
           /\ Gone(s, known) => Gone(Ask(s, code), known)
           /\ Filed(s, known) => Filed(Ask(s, code), known)
           /\ Idle(s, known) => Idle(Ask(s, code), known)
           /\ Fine(s, known) => Fine(Ask(s, code), known)
  BY Kinds, AskEffect, LikeKeeps

\* A summary that no confirmation awaits may be shown in an idle row.
LEMMA ShowKeeps ==
    ASSUME NEW s, NEW known, NEW summary \in SummaryShown, Idle(s, known)
    PROVE  Idle(Show(s, summary), known)
  <1>1. s \in StateRec
    BY Kinds
  <1>2. summary.of \in Questions
    BY DEF SummaryShown, Questions
  <1>3. PICK a : a = Ask(s, summary.of)
    OBVIOUS
  <1>4. Idle(a, known)
    BY <1>2, <1>3, Kinds, AskKeeps
  <1>5. Idle([a EXCEPT !.shown = summary], known)
    BY <1>4 DEF Idle, Gone, Away, NoTimeYet, Failed, Core, StateRec, QuoteComplete
  <1> QED BY <1>3, <1>5 DEF Show

\* The summary of a quote is one.
LEMMA QuoteSummaryTyped == QuoteSummary \in SummaryShown
  BY Blanks DEF QuoteSummary, NoSummary, SummaryShown, Summaries, None

\* transition_to_quote_request_ready: its question books nothing.
LEMMA ToQuoteReady ==
    ASSUME NEW s, NEW known, Gone(s, known)
    PROVE  Idle(transition_to_quote_request_ready(s), known)
  <1> DEFINE next == select_next_question(s)
  <1>1. next \in Harmless
    BY NextQuestion
  <1>2. CASE ~minimum_quote_data_complete(s)
    <2>1. Idle(Pend(s, next), known)
      BY <1>1, PendHarmless, Kinds
    <2>2. Idle(PendAndAsk(s, next, "QUESTION"), known)
      BY <1>1, PendAndAskIdle DEF Questions
    <2> QED BY <1>2, <2>1, <2>2 DEF transition_to_quote_request_ready
  <1>3. CASE minimum_quote_data_complete(s)
    <2>1. PICK q : q = IF s.quote = "NONE" THEN "DRAFT" ELSE s.quote
      OBVIOUS
    <2>2. q \in {"NONE", "DRAFT", "READY"} /\ (q = "READY" => s.quote = "READY")
      BY <2>1, Kinds DEF StateRec
    <2>3. PICK ready : ready = [s EXCEPT !.fields = << >>, !.quote = q]
      OBVIOUS
    <2>4. Gone(ready, known)
      <3>1. << >> \in FieldList
        BY Blanks
      <3> QED BY <2>2, <2>3, <3>1 DEF Gone, Away, NoTimeYet, Failed, Core, StateRec, QuoteComplete
    <2>5. PICK pend : pend = Pend(ready, "CONFIRM_QUOTE_REQUEST")
      OBVIOUS
    <2>6. Idle(pend, known)
      BY <2>4, <2>5, PendHarmless, Kinds DEF Harmless
    <2>7. PICK go : go = Go(pend, "QUOTE_REQUEST_READY")
      OBVIOUS
    <2>8. Idle(go, known)
      BY <2>6, <2>7, Moves, Places, Kinds
    <2>9. Idle(Show(go, QuoteSummary), known)
      BY <2>8, ShowKeeps, QuoteSummaryTyped
    <2>10. transition_to_quote_request_ready(s) = Show(go, QuoteSummary)
      <3>1. ready = [s EXCEPT !.fields = << >>,
                              !.quote = IF s.quote = "NONE" THEN "DRAFT" ELSE s.quote]
        BY <2>1, <2>3
      <3> QED BY <1>3, <3>1, <2>5, <2>7 DEF transition_to_quote_request_ready
    <2> QED BY <2>9, <2>10
  <1> QED BY <1>2, <1>3

\* Opening a capture moves to no state that awaits a summary.
LEMMA OpenedGone ==
    ASSUME NEW s, NEW known, Gone(s, known), NEW t
    PROVE  Gone(Opened(s, t), known)
  <1>1. PICK c : c = Capturing(s)
    OBVIOUS
  <1>2. Gone(c, known)
    BY <1>1, CapturingEffect, LikeKeeps, Kinds
  <1>3. PICK o : o = IF s.state = "BOT_ACTIVE" THEN Go(c, "COLLECTING_EVENT_DATA") ELSE c
    OBVIOUS
  <1>4. Gone(o, known)
    BY <1>2, <1>3, Moves, Places, Kinds
  <1>5. Gone(RejectEntities(o, t), known)
    BY <1>4, RejectLike, LikeKeeps, Kinds
  <1>6. Opened(s, t) = RejectEntities(o, t)
    BY <1>1, <1>3 DEF Opened
  <1> QED BY <1>5, <1>6

\* Leaving a capture clears its lists and its question.
LEMMA LeaveCaptureIdle ==
    ASSUME NEW s, NEW known, Gone(s, known), NEW t
    PROVE  Idle(LeaveCapture(s, t), known)
  <1>1. PICK i : i = [s EXCEPT !.fields = << >>, !.pending = "NONE", !.proposal = NoProposal,
                               !.fails = 0]
    OBVIOUS
  <1>2. Idle(i, known)
    <2>1. << >> \in FieldList /\ NoProposal \in ProposalMade /\ 0 \in 0..3
      BY Blanks
    <2>2. "NONE" \in PendingAction /\ "NONE" \notin Critical
      BY HarmlessIsPending, HarmlessIsNotCritical DEF Harmless
    <2>3. s \in StateRec
      BY Kinds
    <2>4. i \in StateRec
      <3>1. PICK a : a = [s EXCEPT !.fields = << >>, !.pending = "NONE"]
        OBVIOUS
      <3>2. a \in StateRec
        BY <2>1, <2>2, <2>3, <3>1 DEF StateRec
      <3>3. i = [a EXCEPT !.proposal = NoProposal, !.fails = 0]
        BY <1>1, <3>1
      <3> QED BY <2>1, <3>2, <3>3 DEF StateRec
    <2>5. /\ i.state = s.state /\ i.error = s.error /\ i.pending = "NONE"
          /\ i.name = s.name /\ i.quote = s.quote /\ i.event = s.event /\ i.visit = s.visit
      BY <1>1, <2>3 DEF StateRec
    <2> QED BY <2>2, <2>4, <2>5 DEF Idle, Gone, Away, NoTimeYet, Failed, Core, QuoteComplete
  <1>3. Idle(Go(i, "BOT_ACTIVE"), known)
    BY <1>2, Moves, Places, Kinds
  <1>4. Idle(Ask(Go(i, "BOT_ACTIVE"), "FIXED_INFO"), known)
    BY <1>3, AskKeeps, Kinds DEF Questions
  <1>5. Idle(HandOff(Go(i, "BOT_ACTIVE"), "TEMPLATE_UNAVAILABLE"), known)
    BY <1>3, HandOffEffect, Kinds
  <1> QED BY <1>1, <1>4, <1>5 DEF LeaveCapture

\* The next field is asked for.
LEMMA AskNextIdle ==
    ASSUME NEW s, NEW known, Gone(s, known), NEW action \in Harmless
    PROVE  Idle(AskNext(s, action), known)
  <1>1. PICK a : a = PendAndAsk(s, action, "QUESTION")
    OBVIOUS
  <1>2. Idle(a, known)
    BY <1>1, PendAndAskIdle DEF Questions
  <1>3. Idle([a EXCEPT !.event.budget = "ASKED_PENDING"], known)
    BY <1>2, BudgetEffect, LikeKeeps, Kinds
  <1> QED BY <1>1, <1>2, <1>3 DEF AskNext

\* The fields held back for another question are a list of fields.
LEMMA HeldFields ==
    ASSUME NEW s \in StateRec, NEW t \in TurnRead, NEW u, NEW b
    PROVE  RejectedFields(u, t) \in FieldList /\ Unresolved(s, t, b) \in FieldList
  <1>1. t.rejects \in Seq(Entities \cup {"SERVICE_ITEM", "UNKNOWN"})
    BY TurnFacts
  <1>2. s.fields \in Seq(Entities)
    BY DEF StateRec, FieldList
  <1>3. {f \in DOMAIN ENTITY_ACTION : ~(f = "estimated_budget" /\ u.event.type = "FIXED")}
            \in SUBSET Entities
    BY DEF Entities
  <1>4. {f \in DOMAIN ENTITY_ACTION :
            /\ f \notin Answered(t)
            /\ ~(f = "full_name" /\ HandledName(s, t))
            /\ ~(f = "estimated_budget" /\ b)} \in SUBSET Entities
    BY DEF Entities
  <1>5. RejectedFields(u, t) \in FieldList
    BY <1>1, <1>3, KeepTyped DEF RejectedFields
  <1>6. Unresolved(s, t, b) \in FieldList
    BY <1>2, <1>4, KeepTyped DEF Unresolved
  <1> QED BY <1>5, <1>6

\* The capture asks, hands over or finishes.
LEMMA AskOrFinishIdle ==
    ASSUME NEW s, NEW known, Gone(s, known), NEW t, NEW rejected \in FieldList,
           NEW unresolved \in FieldList
    PROVE  Idle(AskOrFinish(s, t, rejected, unresolved), known)
  <1> DEFINE held == rejected \o unresolved
             next == IF held # << >> THEN ENTITY_ACTION[Head(held)] ELSE select_next_question(s)
  <1>1. next \in Harmless
    <2>1. held \in Seq(Entities)
      BY DEF FieldList
    <2> HIDE DEF held
    <2> QED BY <2>1, HeadOfList, ActionsAsked, NextQuestion
  <1>2. PICK n : n = IF "requested_services" \in t.gives THEN 0 ELSE s.svc
    OBVIOUS
  <1>3. n \in 0..1
    BY <1>2, Kinds DEF StateRec
  <1>4. PICK q : q = Merge(Merge(pending_fields_for(s), unresolved), rejected)
    OBVIOUS
  <1>5. q \in FieldList
    BY <1>4, MergeTyped, MissingFields
  <1>6. PICK c : c = [s EXCEPT !.fields = q, !.fails = 0, !.svc = n]
    OBVIOUS
  <1>7. Gone(c, known)
    <2>1. s \in StateRec /\ 0 \in 0..3
      BY Kinds
    <2>2. c \in StateRec
      <3>1. PICK a : a = [s EXCEPT !.fields = q, !.fails = 0]
        OBVIOUS
      <3>2. a \in StateRec
        BY <1>5, <2>1, <3>1 DEF StateRec
      <3>3. c = [a EXCEPT !.svc = n]
        BY <1>6, <3>1
      <3> QED BY <1>3, <3>2, <3>3 DEF StateRec
    <2>3. /\ c.state = s.state /\ c.error = s.error /\ c.visit = s.visit
          /\ c.name = s.name /\ c.quote = s.quote /\ c.event = s.event
      BY <1>6, <2>1 DEF StateRec
    <2> QED BY <2>2, <2>3 DEF Gone, Away, NoTimeYet, Failed, Core, QuoteComplete
  <1>8. Idle(AskNext(c, next), known)
    BY <1>1, <1>7, AskNextIdle
  <1>9. Idle(PendAndAsk(c, "CLASSIFY_MESSAGE", "FALLBACK"), known)
    BY <1>7, PendAndAskIdle DEF Questions, Harmless
  <1>10. Idle(transition_to_quote_request_ready(c), known)
    BY <1>7, ToQuoteReady
  <1>11. c = [s EXCEPT !.fields = Merge(Merge(pending_fields_for(s), unresolved), rejected),
                       !.fails = 0,
                       !.svc = IF "requested_services" \in t.gives THEN 0 ELSE s.svc]
    BY <1>2, <1>4, <1>6
  <1> QED BY <1>8, <1>9, <1>10, <1>11 DEF AskOrFinish

\* handle_collecting_event_data ends with a harmless question.
LEMMA CollectingIdle ==
    ASSUME NEW s, NEW known, Gone(s, known), NEW t \in TurnRead
    PROVE  Idle(handle_collecting_event_data(s, t), known)
  <1>1. PICK o : o = Opened(s, t)
    OBVIOUS
  <1>2. Gone(o, known) /\ o \in StateRec
    BY <1>1, OpenedGone, Kinds
  <1>3. PICK got : got = Collected(o, t)
    OBVIOUS
  <1>4. Gone(got, known) /\ got \in StateRec
    BY <1>2, <1>3, CollectedLike, LikeKeeps, Kinds
  <1>5. Gone(Settled(got, t), known)
    BY <1>4, SettledLike, LikeKeeps, Kinds
  <1>6. PICK b : b = (Evades(got, t) \/ got.event.type = "FIXED")
    OBVIOUS
  <1>7. Idle(AskOrFinish(Settled(got, t), t, RejectedFields(got, t), Unresolved(o, t, b)), known)
    BY <1>2, <1>5, HeldFields, AskOrFinishIdle
  <1>8. Idle(LeaveCapture(got, t), known)
    BY <1>4, LeaveCaptureIdle
  <1>9. Idle(AfterCollecting(o, t, got), known)
    BY <1>6, <1>7, <1>8 DEF AfterCollecting
  <1> QED BY <1>1, <1>3, <1>9 DEF handle_collecting_event_data

\* A call may be made with these arguments: they were shown as what it does, if it books, moves
\* or reserves, and one of its questions is pending.
MayCall(s, call, date, time, plan, price) ==
    /\ s \in StateRec /\ call \in Calls
    /\ date \in Nat /\ time \in Nat /\ plan \in Nat /\ price \in Nat
    /\ call \in {"VISIT", "MOVE", "RESERVE"} =>
        /\ date = s.shown.date /\ time = s.shown.time
        /\ plan = s.shown.plan /\ price = s.shown.price
    /\ call # "NONE" => s.pending \in QuestionsFor(call)
    /\ call \in {"VISIT", "MOVE", "RESERVE"} => s.shown.of = SummaryFor[call]

\* A call is recorded with what was pending and shown.
LEMMA CallTyped ==
    ASSUME NEW s, NEW call, NEW date, NEW time, NEW plan, NEW price,
           MayCall(s, call, date, time, plan, price)
    PROVE  LET u == Call(s, call, date, time, plan, price) IN
           /\ u \in StateRec
           /\ u.state = s.state /\ u.pending = s.pending /\ u.visit = s.visit
           /\ u.booking = s.booking /\ u.shown = s.shown /\ u.error = s.error
           /\ u.event = s.event /\ u.name = s.name /\ u.quote = s.quote /\ u.visits = s.visits
  <1>1. PICK d : d = [call |-> call, date |-> date, time |-> time, plan |-> plan,
                      price |-> price, under |-> s.pending, seen |-> s.shown]
    OBVIOUS
  <1>2. s \in StateRec /\ s.pending \in PendingAction /\ s.shown \in SummaryShown
    BY DEF MayCall, StateRec
  <1>3. d \in CallMade
    BY <1>1, <1>2 DEF MayCall, CallMade
  <1>4. Call(s, call, date, time, plan, price) = [s EXCEPT !.did = d]
    BY <1>1 DEF Call
  <1>5. [s EXCEPT !.did = d] \in StateRec
    BY <1>2, <1>3 DEF StateRec
  <1> QED BY <1>2, <1>4, <1>5 DEF StateRec

\* A quote goes to the staff when the minimum data are there, and only then.
LEMMA QuoteRequestedIdle ==
    ASSUME NEW s, NEW known, Core(s, known), minimum_quote_data_complete(s),
           s.pending = "CONFIRM_QUOTE_REQUEST"
    PROVE  Idle(QuoteRequested(s), known)
  <1>1. s.name /\ s.event.type # "NONE" /\ s.event.guests /\ s.event.date
    <2>1. ~Missing(s, "event_type") /\ ~Missing(s, "guest_count") /\ ~Missing(s, "event_date")
          /\ ~Missing(s, "full_name")
      BY DEF minimum_quote_data_complete
    <2> QED BY <2>1 DEF Missing, Core, StateRec, EventRow
  <1>2. PICK c : c = Call(s, "QUOTE", None, None, None, None)
    OBVIOUS
  <1>3. c \in StateRec /\ c.event = s.event /\ c.name = s.name
    <2>1. MayCall(s, "QUOTE", None, None, None, None)
      BY NoneIsNat, Kinds DEF MayCall, Calls, QuestionsFor, ConfirmActionFor
    <2> QED BY <1>2, <2>1, CallTyped
  <1>4. PICK p : p = [NoProposal EXCEPT !.kind = "RESOLVED"]
    OBVIOUS
  <1>5. p \in ProposalMade
    BY <1>4, Blanks DEF ProposalMade
  <1>6. PICK r : r = [c EXCEPT !.quote = "READY", !.proposal = p]
    OBVIOUS
  <1>7. Core(r, known)
    <2>1. r \in StateRec /\ r.event = s.event /\ r.name = s.name
      BY <1>3, <1>5, <1>6 DEF StateRec
    <2> QED BY <1>1, <2>1 DEF Core, QuoteComplete
  <1>8. Idle(create_handoff(r), known)
    BY <1>7, HandoffEffect
  <1>9. Idle(Ask(create_handoff(r), "TRANSFER"), known)
    BY <1>8, AskKeeps, Kinds DEF Questions
  <1>10. Idle(Pend(Ask(create_handoff(r), "TRANSFER"), "WAIT_FOR_HUMAN"), known)
    BY <1>9, PendHarmless, Kinds DEF Harmless
  <1> QED BY <1>2, <1>4, <1>6, <1>10 DEF QuoteRequested

\* A correction reopens the capture.
LEMMA RecollectIdle ==
    ASSUME NEW s, NEW known, Core(s, known), NEW t \in TurnRead
    PROVE  Idle(Recollect(s, t), known)
  BY Moves, Places, CollectingIdle DEF Recollect

\* handle_quote_request_ready sends the quote, reopens the capture or asks again.
LEMMA QuoteReadyIdle ==
    ASSUME NEW s, NEW known, Idle(s, known), NEW t \in TurnRead
    PROVE  Idle(handle_quote_request_ready(s, t), known)
  <1>1. Core(s, known)
    BY Kinds
  <1>2. Idle(HandOff(s, "SYSTEM_ERROR"), known)
    BY <1>1, HandOffEffect
  <1>3. PICK p : p = [NoProposal EXCEPT !.kind = "RESOLVED"]
    OBVIOUS
  <1>4. p \in ProposalMade
    BY <1>3, Blanks DEF ProposalMade
  <1>5. PICK d : d = Pend(Go(s, "COLLECTING_EVENT_DATA"), "NONE")
    OBVIOUS
  <1>6. Idle(d, known)
    BY <1>1, <1>5, Moves, Places, PendHarmless, Kinds DEF Harmless
  <1>7. Idle([d EXCEPT !.proposal = p], known)
    BY <1>4, <1>6, ProposalEffect, LikeKeeps, Kinds
  <1>8. Idle(Recollect(s, t), known)
    BY <1>1, RecollectIdle
  <1>9. Idle(Pend(s, "NONE"), known)
    BY <1>1, PendHarmless, Kinds DEF Harmless
  <1>10. Idle(Ask(s, "FALLBACK"), known) /\ Idle(Ask(Pend(s, "NONE"), "FALLBACK"), known)
         /\ Idle(Ask(s, "QUOTE_REMINDER"), known) /\ Idle(Ask(s, "ANSWER"), known)
    BY <1>9, AskKeeps, Kinds DEF Questions
  <1>11. minimum_quote_data_complete(s) /\ s.pending = "CONFIRM_QUOTE_REQUEST" =>
            Idle(QuoteRequested(s), known)
    BY <1>1, QuoteRequestedIdle
  <1> QED BY <1>2, <1>3, <1>5, <1>7, <1>8, <1>10, <1>11 DEF handle_quote_request_ready

(***************************************************************************)
(* Answers, greetings and the catalogue                                    *)
(***************************************************************************)
\* handle_failed_services_resolution asks once more, then calls a human.
LEMMA FailedServicesFine ==
    ASSUME NEW s, NEW known, Fine(s, known)
    PROVE  Fine(handle_failed_services_resolution(s), known)
  <1>1. Core(s, known) /\ s \in StateRec
    BY Kinds
  <1>2. Fine(Ask([s EXCEPT !.svc = 1], "QUESTION"), known)
    <2>1. PICK u : u = [s EXCEPT !.svc = 1]
      OBVIOUS
    <2>2. Like(s, u)
      <3>1. 1 \in 0..1
        OBVIOUS
      <3> QED BY <1>1, <2>1, <3>1, ServicesEffect
    <2>3. Fine(u, known)
      BY <1>1, <2>2, LikeKeeps
    <2> QED BY <2>1, <2>3, AskKeeps, Kinds DEF Questions
  <1>3. PICK u : u = [Capturing(s) EXCEPT !.event.services = TRUE,
                        !.fields = Keep(@, DOMAIN ENTITY_ACTION \ {"requested_services"}),
                        !.svc = 0]
    OBVIOUS
  <1>4. Core(u, known)
    <2>1. PICK c : c = Capturing(s)
      OBVIOUS
    <2>2. Like(s, c) /\ c \in StateRec
      BY <1>1, <2>1, CapturingEffect DEF Like
    <2>3. PICK q : q = Keep(c.fields, DOMAIN ENTITY_ACTION \ {"requested_services"})
      OBVIOUS
    <2>4. q \in FieldList
      <3>1. /\ c.fields \in Seq(Entities)
            /\ DOMAIN ENTITY_ACTION \ {"requested_services"} \in SUBSET Entities
        BY <2>2 DEF StateRec, FieldList, Entities
      <3> QED BY <2>3, <3>1, KeepTyped
    <2>5. PICK a : a = [c EXCEPT !.event.services = TRUE]
      OBVIOUS
    <2>6. Like(c, a)
      BY <2>2, <2>5 DEF Like, StateRec, EventRow, QuoteComplete
    <2>7. PICK b : b = [a EXCEPT !.fields = q]
      OBVIOUS
    <2>8. Like(a, b) /\ b \in StateRec
      <3>1. a \in StateRec
        BY <2>6 DEF Like
      <3> QED BY <2>4, <2>7, <3>1, FieldsEffect DEF Like
    <2>9. Like(b, [b EXCEPT !.svc = 0])
      <3>1. 0 \in 0..1
        OBVIOUS
      <3> QED BY <2>8, <3>1, ServicesEffect
    <2>10. u = [b EXCEPT !.svc = 0]
      <3>1. u = [c EXCEPT !.event.services = TRUE, !.fields = q, !.svc = 0]
        BY <1>3, <2>1, <2>3
      <3> QED BY <2>2, <2>5, <2>7, <3>1
    <2>11. Core(c, known)
      BY <1>1, <2>2, LikeKeeps
    <2>12. Core(a, known)
      BY <2>6, <2>11, LikeKeeps
    <2>13. Core(b, known)
      BY <2>8, <2>12, LikeKeeps
    <2> QED BY <2>9, <2>10, <2>13, LikeKeeps
  <1>5. Fine(HandOff(u, "OTHER"), known)
    BY <1>4, HandOffEffect, Kinds
  <1> QED BY <1>2, <1>3, <1>5 DEF handle_failed_services_resolution

\* handle_greeting.
LEMMA GreetingIdle ==
    ASSUME NEW s, NEW known, Idle(s, known)
    PROVE  Idle(handle_greeting(s), known)
  <1>1. PICK a : a = Ask(s, "ANSWER")
    OBVIOUS
  <1>2. Idle(a, known) /\ Core(a, known) /\ a \in StateRec
    BY <1>1, AskKeeps, Kinds DEF Questions
  <1>3. NoProposal \in ProposalMade /\ 0 \in 0..3
    BY Blanks
  <1>4. Like(a, [a EXCEPT !.fails = 0, !.proposal = NoProposal])
    BY <1>2, <1>3 DEF Like, StateRec, QuoteComplete
  <1> QED BY <1>1, <1>2, <1>4, LikeKeeps DEF handle_greeting

\* handle_unknown counts, and hands over at the third time.
LEMMA UnknownIdle ==
    ASSUME NEW s, NEW known, Gone(s, known), NEW counted
    PROVE  Idle(handle_unknown(s, counted), known)
  <1>1. PICK c : c = IF counted THEN s ELSE CountFailure(s)
    OBVIOUS
  <1>2. Gone(c, known)
    BY <1>1, CountEffect, LikeKeeps, Kinds
  <1>3. PICK h : h = Pend(c, "CLASSIFY_MESSAGE")
    OBVIOUS
  <1>4. Idle(h, known)
    BY <1>2, <1>3, PendHarmless, Kinds DEF Harmless
  <1>5. Idle(Ask(h, "FALLBACK"), known) /\ Idle(HandOff(h, "LOW_CONFIDENCE"), known)
    BY <1>4, AskKeeps, HandOffEffect, Kinds DEF Questions
  <1> QED BY <1>1, <1>3, <1>5 DEF handle_unknown

\* handle_farewell drops the question and resolves the conversation where it may.
LEMMA FarewellIdle ==
    ASSUME NEW s, NEW known, Gone(s, known)
    PROVE  Idle(handle_farewell(s), known)
  <1>1. PICK p : p = Pend(Ask(s, "ANSWER"), "NONE")
    OBVIOUS
  <1>2. Idle(p, known)
    BY <1>1, AskKeeps, PendHarmless, Kinds DEF Questions, Harmless
  <1>3. PICK u : u = [p EXCEPT !.proposal = NoProposal]
    OBVIOUS
  <1>4. Idle(u, known)
    BY <1>2, <1>3, ProposalEffect, Blanks, LikeKeeps, Kinds
  <1>5. Idle(Go(u, "RESOLVED"), known)
    BY <1>4, Moves, Places, Kinds
  <1> QED BY <1>1, <1>3, <1>4, <1>5 DEF handle_farewell

\* handle_ai_unavailable: a row keeps its confirmation or waits for a human.
LEMMA UnavailableFine ==
    ASSUME NEW s, NEW known, Fine(s, known), NEW t
    PROVE  Fine(handle_ai_unavailable(s, t), known)
  <1>1. Fine(HandOff(s, "SYSTEM_ERROR"), known)
    BY HandOffEffect, Kinds
  <1>2. Fine(Ask(s, "ANSWER"), known) /\ Fine(Ask(s, "DISCOVERY"), known)
    BY AskKeeps, Kinds DEF Questions
  <1> QED BY <1>1, <1>2 DEF handle_ai_unavailable

\* The answer to a catalogue request keeps the row of its kind or calls a human.
LEMMA CatalogKeeps ==
    ASSUME NEW s, NEW known, Core(s, known), NEW t, NEW knows \in BOOLEAN
    PROVE  /\ Idle(s, known) => Idle(AskCatalog(s, t, knows), known)
           /\ Fine(s, known) => Fine(AskCatalog(s, t, knows), known)
  <1>1. Core(Ask(s, "ANSWER"), known) /\ Core(Ask(s, "CATALOG_QUESTION"), known)
    BY AskKeeps DEF Questions
  <1>2. Idle(s, known) => Idle(Ask(s, "ANSWER"), known) /\ Idle(Ask(s, "CATALOG_QUESTION"), known)
    BY AskKeeps DEF Questions
  <1>3. Fine(s, known) => Fine(Ask(s, "ANSWER"), known) /\ Fine(Ask(s, "CATALOG_QUESTION"), known)
    BY AskKeeps DEF Questions
  <1>4. Idle(CatalogHandOff(s), known) /\ Idle(CatalogHandOff(Ask(s, "ANSWER")), known)
    BY <1>1, HandoffEffect DEF CatalogHandOff
  <1>5. Fine(CatalogHandOff(s), known) /\ Fine(CatalogHandOff(Ask(s, "ANSWER")), known)
    BY <1>4, Kinds
  <1> QED BY <1>2, <1>3, <1>4, <1>5 DEF AskCatalog

\* What the model's reading is applied to.
Open(s, known) == Fine(s, known) /\ s.error = "NONE" /\ s.pending \notin BOOKING_ACTIONS

\* An open row that awaits no summary of a visit is idle.
LEMMA OpenIsIdle ==
    ASSUME NEW s, NEW known, Open(s, known), s.state # "APPOINTMENT_PENDING_CONFIRMATION"
    PROVE  Idle(s, known)
  <1>1. Core(s, known) /\ s.error = "NONE" /\ Placed(s) /\ s.pending \notin BOOKING_ACTIONS
    BY DEF Open, Fine, Failed
  <1>2. s.pending \notin Critical
    BY <1>1 DEF Placed, InPlace, Critical
  <1> QED BY <1>1, <1>2 DEF Idle, Gone, Away, Placed

\* Where its day or time is awaited, a move has no time.
LEMMA OpenUntimed ==
    ASSUME NEW s, NEW known, Open(s, known), s.state \in Awaiting
    PROVE  ~MovesVisit(s.visit)
  BY DEF Open, Fine, Failed, Placed, NoTimeYet

\* Dropping the question, or asking about the message, displaces a visit's confirmation.
LEMMA NoneDisplaces ==
    ASSUME NEW s
    PROVE  Displaces(s, "NONE") /\ Displaces(s, "CLASSIFY_MESSAGE")
  BY DEF Displaces, QuestionsFor, VisitCall

\* Dropping the question opens a row.
LEMMA OpenByPend ==
    ASSUME NEW s, NEW known, Fine(s, known), s.error = "NONE"
    PROVE  Open(Pend(s, "NONE"), known)
  <1>1. "NONE" \in Harmless /\ "NONE" \in PendingAction /\ "NONE" \notin BOOKING_ACTIONS
    BY HarmlessIsPending DEF Harmless, BOOKING_ACTIONS
  <1>2. Pend(s, "NONE").error = "NONE" /\ Pend(s, "NONE").pending = "NONE"
    BY <1>1, PendEffect, Kinds
  <1>3. Fine(Pend(s, "NONE"), known)
    BY <1>1, PendHarmless, NoneDisplaces, Kinds
  <1> QED BY <1>1, <1>2, <1>3 DEF Open

\* An open row stays open while its columns are left alone.
LEMMA OpenLike ==
    ASSUME NEW s, NEW u, NEW known, Open(s, known), Like(s, u)
    PROVE  Open(u, known)
  <1>1. Fine(u, known)
    BY LikeKeeps, Kinds DEF Open
  <1> QED BY <1>1 DEF Open, Like

\* resolve_catalog_event_type_capture ends the turn or leaves an open row.
LEMMA CatalogCaptureOpen ==
    ASSUME NEW s, NEW known, Open(s, known), NEW t
    PROVE  LET c == resolve_catalog_event_type_capture(s, t) IN
           IF c.handled THEN Fine(c.s, known) ELSE Open(c.s, known)
  <1>1. Fine(s, known) /\ Core(s, known) /\ s \in StateRec /\ s.error = "NONE"
    BY Kinds DEF Open
  <1>2. PICK idle : idle = [s EXCEPT !.proposal = NoProposal]
    OBVIOUS
  <1>3. Open(idle, known) /\ Fine(idle, known) /\ Core(idle, known) /\ idle \in StateRec
    BY <1>1, <1>2, ProposalEffect, Blanks, OpenLike, Kinds DEF Open
  <1>4. PICK failed : failed = CountFailure(idle)
    OBVIOUS
  <1>5. Open(failed, known) /\ Fine(failed, known) /\ Core(failed, known)
    BY <1>3, <1>4, CountEffect, OpenLike, Kinds DEF Open
  <1>7. PICK told : told = AskCatalog(idle, t, TRUE)
    OBVIOUS
  <1>8. PICK asked : asked = AskCatalog(failed, t, FALSE)
    OBVIOUS
  <1>9. Fine(told, known) /\ Fine(asked, known)
    BY <1>3, <1>5, <1>7, <1>8, CatalogKeeps
  <1>10. Fine([Pend(told, "NONE") EXCEPT !.fails = 0], known)
    <2>1. PICK p : p = Pend(told, "NONE")
      OBVIOUS
    <2>2. Fine(p, known)
      BY <1>9, <2>1, PendHarmless, NoneDisplaces, Kinds DEF Harmless
    <2> QED BY <2>1, <2>2, FailsEffect, LikeKeeps, Kinds
  <1>11. Fine(Pend(asked, "NONE"), known)
    BY <1>9, PendHarmless, NoneDisplaces, Kinds DEF Harmless
  <1>12. Open(Pend(idle, "NONE"), known) /\ Open(Pend(failed, "NONE"), known)
    BY <1>3, <1>5, OpenByPend DEF Open
  <1> DEFINE c == resolve_catalog_event_type_capture(s, t)
  <1>13. CASE s.pending # "COLLECT_CATALOG_EVENT_TYPE"
    <2>1. c = [s |-> s, handled |-> FALSE, counted |-> FALSE]
      BY <1>13 DEF resolve_catalog_event_type_capture
    <2> QED BY <2>1
  <1>14. CASE s.pending = "COLLECT_CATALOG_EVENT_TYPE" /\ t.type # "NONE"
    <2>1. c = [s |-> IF catalog_result_requires_human(t, TRUE) THEN told
                     ELSE [Pend(told, "NONE") EXCEPT !.fails = 0],
               handled |-> TRUE, counted |-> FALSE]
      BY <1>2, <1>7, <1>14 DEF resolve_catalog_event_type_capture
    <2>2. PICK x : x = IF catalog_result_requires_human(t, TRUE) THEN told
                       ELSE [Pend(told, "NONE") EXCEPT !.fails = 0]
      OBVIOUS
    <2>3. Fine(x, known)
      BY <1>9, <1>10, <2>2
    <2>4. c.handled = TRUE /\ c.s = x
      BY <2>1, <2>2
    <2> QED BY <2>3, <2>4
  <1>15. CASE /\ s.pending = "COLLECT_CATALOG_EVENT_TYPE" /\ t.type = "NONE"
              /\ catalog_capture_should_be_abandoned(t)
    <2>1. c = [s |-> Pend(idle, "NONE"), handled |-> FALSE, counted |-> FALSE]
      BY <1>2, <1>15 DEF resolve_catalog_event_type_capture
    <2> QED BY <1>12, <2>1
  <1>16. CASE /\ s.pending = "COLLECT_CATALOG_EVENT_TYPE" /\ t.type = "NONE"
              /\ ~catalog_capture_should_be_abandoned(t) /\ failed.fails = 1
    <2>1. c = [s |-> IF catalog_result_requires_human(t, FALSE) \/ t.catalog = "SENT" THEN asked
                     ELSE Pend(asked, "NONE"), handled |-> TRUE, counted |-> FALSE]
      BY <1>2, <1>4, <1>8, <1>16 DEF resolve_catalog_event_type_capture
    <2>2. PICK x : x = IF catalog_result_requires_human(t, FALSE) \/ t.catalog = "SENT" THEN asked
                       ELSE Pend(asked, "NONE")
      OBVIOUS
    <2>3. Fine(x, known)
      BY <1>9, <1>11, <2>2
    <2>4. c.handled = TRUE /\ c.s = x
      BY <2>1, <2>2
    <2> QED BY <2>3, <2>4
  <1>17. CASE /\ s.pending = "COLLECT_CATALOG_EVENT_TYPE" /\ t.type = "NONE"
              /\ ~catalog_capture_should_be_abandoned(t) /\ failed.fails # 1
    <2>1. c = [s |-> Pend(failed, "NONE"), handled |-> FALSE, counted |-> TRUE]
      BY <1>2, <1>4, <1>17 DEF resolve_catalog_event_type_capture
    <2> QED BY <1>12, <2>1
  <1> QED BY <1>13, <1>14, <1>15, <1>16, <1>17

\* After an answer the interrupted state comes back, with its question.
LEMMA ResumeIdle ==
    ASSUME NEW s, NEW known, Core(s, known), NEW state, LeadsBack(s.visit, state),
           NEW action \in Harmless, NEW keep
    PROVE  Idle(Resume(s, state, action, keep), known)
  <1>1. PICK back : back = IF keep \/ /\ state # "ANSWERING_INFORMATION"
                                      /\ state \in ALLOWED_TRANSITIONS["ANSWERING_INFORMATION"]
                           THEN state ELSE "BOT_ACTIVE"
    OBVIOUS
  <1>2. LeadsBack(s.visit, back)
    BY <1>1, Places DEF LeadsBack
  <1>3. PICK g : g = GoUnlessThere(s, back)
    OBVIOUS
  <1>4. Gone(g, known)
    BY <1>2, <1>3, MovesBack
  <1>5. Idle([g EXCEPT !.pending = action], known)
    BY <1>4, PendingEffect, Kinds
  <1> QED BY <1>1, <1>3, <1>5 DEF Resume

\* A catalogue request in the middle of something else.
LEMMA CatalogRequestIdle ==
    ASSUME NEW s, NEW known, Idle(s, known), s.pending \in Harmless, NEW t
    PROVE  Idle(CatalogRequest(s, t), known)
  <1>1. PICK knows : knows = (t.type # "NONE" \/ s.event.type # "NONE")
    OBVIOUS
  <1>2. knows \in BOOLEAN
    BY <1>1
  <1>3. PICK a : a = AskCatalog(s, t, knows)
    OBVIOUS
  <1>4. Idle(a, known) /\ Core(a, known) /\ a \in StateRec
    BY <1>2, <1>3, CatalogKeeps, Kinds
  <1>5. PICK told : told = [a EXCEPT !.fails = 0, !.proposal = NoProposal]
    OBVIOUS
  <1>6. Idle(told, known)
    <2>1. NoProposal \in ProposalMade /\ 0 \in 0..3
      BY Blanks
    <2>2. Like(a, told)
      BY <1>4, <1>5, <2>1 DEF Like, StateRec, QuoteComplete
    <2> QED BY <1>4, <2>2, LikeKeeps
  <1>7. PICK n : n = IF t.catalog = "SENT" /\ ~knows THEN "COLLECT_CATALOG_EVENT_TYPE"
                     ELSE s.pending
    OBVIOUS
  <1>8. n \in Harmless
    BY <1>7 DEF Harmless
  <1>9. Idle(Pend(told, n), known)
    BY <1>6, <1>8, PendHarmless, Kinds
  <1>10. CatalogRequest(s, t) = IF catalog_result_requires_human(t, knows) THEN told
                                ELSE Pend(told, n)
    BY <1>1, <1>3, <1>5, <1>7 DEF CatalogRequest
  <1> QED BY <1>6, <1>9, <1>10

\* A fixed-price question keeps the date it names in the booking draft.
LEMMA FollowUpIdle ==
    ASSUME NEW s, NEW known, Core(s, known), NEW was, LeadsBack(s.visit, was.state),
           was.pending \in Harmless, NEW t \in TurnRead
    PROVE  Idle(FixedPriceFollowUp(s, was, t), known)
  <1>1. PICK b : b = [NoBooking EXCEPT !.date = t.day, !.unsure = needs_confirmation(t)]
    OBVIOUS
  <1>2. b \in BookingDraft
    <2>1. t.day \in Nat /\ needs_confirmation(t) \in BOOLEAN
      BY TurnFacts DEF needs_confirmation
    <2> QED BY <1>1, <2>1, Blanks DEF BookingDraft
  <1>3. PICK d : d = IF was.pending \notin BOOKING_ACTIONS /\ HasDate(t)
                     THEN [s EXCEPT !.booking = b] ELSE s
    OBVIOUS
  <1>4. Core(d, known) /\ d \in StateRec /\ d.visit = s.visit
    <2>1. Core(d, known) /\ d \in StateRec
      BY <1>2, <1>3, BookingEffect, Kinds
    <2> QED BY <1>3, <2>1, Kinds DEF StateRec
  <1>5. PICK a : a = [d EXCEPT !.fields = << >>]
    OBVIOUS
  <1>6. PICK c : c = [a EXCEPT !.proposal = NoProposal]
    OBVIOUS
  <1>7. Like(d, a) /\ a \in StateRec
    BY <1>4, <1>5, FieldsEffect, Blanks DEF Like
  <1>8. Like(a, c) /\ c \in StateRec
    BY <1>6, <1>7, ProposalEffect, Blanks DEF Like
  <1>9. Like(c, [c EXCEPT !.fails = 0])
    BY <1>8, FailsEffect
  <1>10. Core([c EXCEPT !.fails = 0], known)
    BY <1>4, <1>7, <1>8, <1>9, LikeKeeps
  <1>11. [c EXCEPT !.fails = 0] = [d EXCEPT !.fields = << >>, !.proposal = NoProposal, !.fails = 0]
    BY <1>5, <1>6
  <1>12. Idle(Resume([d EXCEPT !.fields = << >>, !.proposal = NoProposal, !.fails = 0],
                     "BOT_ACTIVE", "NONE", FALSE), known)
    BY <1>10, <1>11, ResumeIdle, Places DEF Harmless, LeadsBack
  <1>13. Core([d EXCEPT !.fails = 0], known) /\ [d EXCEPT !.fails = 0].visit = s.visit
    BY <1>4, FailsEffect, LikeKeeps DEF Like
  <1>14. Idle(Resume([d EXCEPT !.fails = 0], was.state, was.pending, FALSE), known)
    BY <1>13, ResumeIdle
  <1>15. FixedPriceFollowUp(s, was, t) =
            IF was.pending \in GENERIC_CAPTURE_ACTIONS
            THEN Resume([d EXCEPT !.fields = << >>, !.proposal = NoProposal, !.fails = 0],
                        "BOT_ACTIVE", "NONE", FALSE)
            ELSE Resume([d EXCEPT !.fails = 0], was.state, was.pending, FALSE)
    BY <1>1, <1>3 DEF FixedPriceFollowUp
  <1> QED BY <1>12, <1>14, <1>15

\* handle_general_information, whatever it answers, leaves no summary awaited.
LEMMA InformationIdle ==
    ASSUME NEW s, NEW known, Idle(s, known), s.error = "NONE", NEW t \in TurnRead,
           NEW counted, NEW lodging
    PROVE  Idle(handle_general_information(s, t, counted, lodging), known)
  <1>1. s \in StateRec /\ Core(s, known)
    BY Kinds
  <1>2. LeadsBack(s.visit, s.state) /\ s.pending \in Harmless
    BY <1>1, HarmlessOrCritical
       DEF Idle, Gone, Away, NoTimeYet, Failed, Elsewhere, StateRec, LeadsBack
  <1>3. PICK mid : mid = Answering(s, t)
    OBVIOUS
  <1>4. Idle(mid, known) /\ Core(mid, known) /\ mid \in StateRec /\ mid.visit = s.visit
    <2>1. PICK p : p = Pend(s, "ANSWER_INFORMATION")
      OBVIOUS
    <2>2. PICK g : g = Go(p, "ANSWERING_INFORMATION")
      OBVIOUS
    <2>3. "ANSWER_INFORMATION" \in Harmless /\ "ANSWER_INFORMATION" \in PendingAction
      BY HarmlessIsPending DEF Harmless
    <2>4. Idle(p, known) /\ Core(p, known) /\ p.visit = s.visit
      BY <1>1, <2>1, <2>3, PendHarmless, PendEffect, Kinds
    <2>5. Idle(g, known)
      BY <2>2, <2>4, Moves, Places
    <2>6. g = [p EXCEPT !.state = g.state, !.error = g.error]
      BY <2>2, <2>4, GoEffect, Places
    <2>7. g.visit = s.visit
      BY <2>4, <2>6 DEF Core, StateRec
    <2> QED BY <1>1, <1>3, <2>1, <2>2, <2>5, <2>7, Kinds DEF Answering
  <1>5. PICK typed : typed = apply_event_type(Capturing(mid), "FIXED")
    OBVIOUS
  <1>6. Core(typed, known) /\ typed \in StateRec /\ typed.visit = s.visit
    <2>1. Like(mid, Capturing(mid)) /\ Capturing(mid) \in StateRec
      BY <1>4, CapturingEffect DEF Like
    <2>2. Like(Capturing(mid), typed)
      BY <1>5, <2>1, TypeEffect
    <2>3. typed.visit = s.visit
      BY <1>4, <2>1, <2>2 DEF Like
    <2> QED BY <1>4, <2>1, <2>2, <2>3, LikeKeeps, Kinds
  <1>7. PICK heard : heard = Pend(IF counted THEN mid ELSE CountFailure(mid), "CLASSIFY_MESSAGE")
    OBVIOUS
  <1>8. Core(Ask(heard, "FALLBACK"), known) /\ Ask(heard, "FALLBACK").visit = s.visit
    <2>1. PICK x : x = IF counted THEN mid ELSE CountFailure(mid)
      OBVIOUS
    <2>2. Core(x, known) /\ x.visit = s.visit
      BY <1>4, <2>1, CountEffect, LikeKeeps DEF Like
    <2>3. "CLASSIFY_MESSAGE" \in PendingAction
      BY HarmlessIsPending DEF Harmless
    <2>4. Core(heard, known) /\ heard \in StateRec /\ heard.visit = s.visit
      BY <1>7, <2>1, <2>2, <2>3, PendEffect, Kinds
    <2>5. Like(heard, Ask(heard, "FALLBACK"))
      BY <2>4, AskEffect DEF Questions
    <2> QED BY <2>4, <2>5, LikeKeeps DEF Like
  <1>9. Idle(Resume(Ask(heard, "FALLBACK"), s.state, s.pending, FALSE), known)
    BY <1>2, <1>8, ResumeIdle
  <1>10. Idle(CatalogRequest(s, t), known)
    BY <1>2, CatalogRequestIdle
  <1>11. Idle(HandOff(typed, "SYSTEM_ERROR"), known)
         /\ Idle(HandOff(typed, "TEMPLATE_UNAVAILABLE"), known)
         /\ Idle(HandOff(mid, "OTHER"), known)
    BY <1>4, <1>6, HandOffEffect
  <1>12. PICK told : told = Ask(typed, "FIXED_INFO")
    OBVIOUS
  <1>13. Core(told, known) /\ told \in StateRec /\ told.visit = s.visit
    <2>1. Like(typed, told)
      BY <1>6, <1>12, AskEffect DEF Questions
    <2> QED BY <1>6, <2>1, LikeKeeps DEF Like
  <1>14. Idle(FixedPriceFollowUp(told, s, t), known)
    BY <1>2, <1>13, FollowUpIdle
  <1>15. Core([told EXCEPT !.fails = 0], known) /\ [told EXCEPT !.fails = 0].visit = s.visit
    BY <1>13, FailsEffect, LikeKeeps DEF Like
  <1>16. Idle(Resume([told EXCEPT !.fails = 0], s.state, s.pending, PreservesName(s)), known)
    BY <1>2, <1>15, ResumeIdle
  <1>17. PICK said : said = Ask(mid, "ANSWER")
    OBVIOUS
  <1>18. Core([said EXCEPT !.fails = 0], known) /\ [said EXCEPT !.fails = 0].visit = s.visit
    <2>1. Like(mid, said)
      BY <1>4, <1>17, AskEffect DEF Questions
    <2>2. Core(said, known) /\ said \in StateRec /\ said.visit = s.visit
      BY <1>4, <2>1, LikeKeeps DEF Like
    <2> QED BY <2>2, FailsEffect, LikeKeeps DEF Like
  <1>19. Idle(Resume([said EXCEPT !.fails = 0], s.state, s.pending, PreservesName(s)), known)
    BY <1>2, <1>18, ResumeIdle
  <1> QED
    BY <1>3, <1>5, <1>7, <1>9, <1>10, <1>11, <1>12, <1>14, <1>16, <1>17, <1>19
       DEF handle_general_information

(***************************************************************************)
(* The confirmation of a visit                                             *)
(***************************************************************************)
\* The summary of a visit shows the day and time of the draft.
LEMMA SummaryTyped ==
    ASSUME NEW s \in StateRec, NEW of \in Summaries
    PROVE  /\ Summary(s, of) \in SummaryShown
           /\ Summary(s, of).of = of
           /\ Summary(s, of).date = s.visit.date /\ Summary(s, of).time = s.visit.time
           /\ Summary(s, of).plan = None /\ Summary(s, of).price = None
  <1>1. s.visit.date \in Nat /\ s.visit.time \in Nat
    BY DEF StateRec, VisitDraft
  <1> QED BY <1>1 DEF Summary, NoSummary, SummaryShown, None

\* Showing a summary writes what was shown and nothing else.
LEMMA ShowEffect ==
    ASSUME NEW s, NEW known, Core(s, known), NEW summary \in SummaryShown
    PROVE  LET u == Show(s, summary) IN
           /\ Core(u, known)
           /\ u.shown = summary
           /\ u.state = s.state /\ u.pending = s.pending /\ u.visit = s.visit
           /\ u.booking = s.booking /\ u.error = s.error
  <1>1. PICK a : a = Ask(s, summary.of)
    OBVIOUS
  <1>2. summary.of \in Questions
    BY DEF SummaryShown, Questions
  <1>3. Like(s, a) /\ Core(a, known)
    BY <1>1, <1>2, AskEffect, LikeKeeps, Kinds
  <1>4. PICK u : u = [a EXCEPT !.shown = summary]
    OBVIOUS
  <1>5. /\ Core(u, known)
        /\ u.shown = summary
        /\ u.state = a.state /\ u.pending = a.pending /\ u.visit = a.visit
        /\ u.booking = a.booking /\ u.error = a.error
    BY <1>3, <1>4 DEF Core, StateRec, QuoteComplete
  <1>6. Show(s, summary) = u
    BY <1>1, <1>4 DEF Show
  <1> QED BY <1>3, <1>5, <1>6 DEF Like

\* A complete draft is shown and awaits its confirmation.
LEMMA VisitAsked ==
    ASSUME NEW s, NEW known, Core(s, known), HasAll(s),
           NEW action \in {"CONFIRM_APPOINTMENT", "CONFIRM_RESCHEDULE"}, NEW of \in Summaries,
           action = ConfirmActionFor[VisitCall(s.visit)], of = SummaryFor[VisitCall(s.visit)]
    PROVE  Fine(Show(Pend(Go(s, "APPOINTMENT_PENDING_CONFIRMATION"), action),
                     Summary(s, of)), known)
  <1>1. PICK g : g = Go(s, "APPOINTMENT_PENDING_CONFIRMATION")
    OBVIOUS
  <1>2. /\ Core(g, known)
        /\ Failed(g) \/ g.state = "APPOINTMENT_PENDING_CONFIRMATION"
        /\ g = [s EXCEPT !.state = g.state, !.error = g.error]
    BY <1>1, GoEffect, Places
  <1>3. g.visit = s.visit
    BY <1>2 DEF Core, StateRec
  <1>4. PICK p : p = Pend(g, action)
    OBVIOUS
  <1>5. action \in PendingAction
    BY HarmlessIsPending DEF Critical
  <1>6. Core(p, known) /\ p.pending = action /\ p.state = g.state /\ p.error = g.error
        /\ p.visit = g.visit
    BY <1>2, <1>4, <1>5, PendEffect
  <1>7. PICK y : y = Summary(s, of)
    OBVIOUS
  <1>8. /\ y \in SummaryShown /\ y.of = of /\ y.date = s.visit.date /\ y.time = s.visit.time
        /\ y.plan = None /\ y.price = None
    BY <1>7, SummaryTyped, Kinds
  <1>9. PICK u : u = Show(p, y)
    OBVIOUS
  <1>10. /\ Core(u, known) /\ u.shown = y
         /\ u.state = p.state /\ u.pending = p.pending /\ u.visit = p.visit /\ u.error = p.error
    BY <1>6, <1>8, <1>9, ShowEffect
  <1>11. HasAll(u) /\ action \in QuestionsFor(VisitCall(u.visit))
    BY <1>3, <1>6, <1>10 DEF HasAll, QuestionsFor
  <1>12. Failed(u) \/ Placed(u)
    <2>1. CASE Failed(g)
      BY <1>6, <1>10, <2>1 DEF Failed
    <2>2. CASE g.state = "APPOINTMENT_PENDING_CONFIRMATION"
      BY <1>3, <1>5, <1>6, <1>8, <1>10, <1>11, <2>2
         DEF Placed, VisitShown, NoTimeYet, Awaiting, BookingShown, InPlace, BOOKING_ACTIONS
    <2> QED BY <1>2, <2>1, <2>2
  <1> QED BY <1>1, <1>4, <1>7, <1>9, <1>10, <1>12 DEF Fine

\* prepare_visit_confirmation: a draft with a gap raises, a visit without a name calls a human.
LEMMA PrepareVisitFine ==
    ASSUME NEW s, NEW known, Core(s, known), ~MovesVisit(s.visit)
    PROVE  Fine(prepare_visit_confirmation(s), known)
  <1>1. Fine(Raise(s, "KeyError"), known)
    BY RaiseEffect, Kinds DEF Errors
  <1>2. Fine(HandOff(s, "SYSTEM_ERROR"), known)
    BY HandOffEffect, Kinds
  <1>3. HasAll(s) => Fine(Show(Pend(Go(s, "APPOINTMENT_PENDING_CONFIRMATION"),
                                    "CONFIRM_APPOINTMENT"), Summary(s, "VISIT_SUMMARY")), known)
    <2> SUFFICES ASSUME HasAll(s)
                 PROVE  Fine(Show(Pend(Go(s, "APPOINTMENT_PENDING_CONFIRMATION"),
                                       "CONFIRM_APPOINTMENT"), Summary(s, "VISIT_SUMMARY")), known)
      OBVIOUS
    <2>1. VisitCall(s.visit) = "VISIT"
      BY DEF HasAll, MovesVisit, VisitCall
    <2>2. "CONFIRM_APPOINTMENT" = ConfirmActionFor["VISIT"] /\ "VISIT_SUMMARY" = SummaryFor["VISIT"]
      BY DEF ConfirmActionFor, SummaryFor
    <2> QED BY <2>1, <2>2, VisitAsked DEF Summaries
  <1> QED BY <1>1, <1>2, <1>3 DEF prepare_visit_confirmation

\* repeat_visit_confirmation shows the draft again.
LEMMA RepeatFine ==
    ASSUME NEW s, NEW known, Open(s, known)
    PROVE  Fine(repeat_visit_confirmation(s), known)
  <1>1. Core(s, known) /\ Placed(s) /\ s.pending # "CONFIRM_BOOKING" /\ s \in StateRec
    BY Kinds DEF Open, Fine, Failed, BOOKING_ACTIONS
  <1>2. Fine(Raise(s, "KeyError"), known)
    BY <1>1, RaiseEffect, Kinds DEF Errors
  <1>3. ASSUME NEW of \in Summaries, HasAll(s), of = SummaryFor[VisitCall(s.visit)]
        PROVE  Fine(Show(s, Summary(s, of)), known)
    <2>1. PICK y : y = Summary(s, of)
      OBVIOUS
    <2>2. /\ y \in SummaryShown /\ y.of = of /\ y.date = s.visit.date /\ y.time = s.visit.time
          /\ y.plan = None /\ y.price = None
      BY <1>1, <1>3, <2>1, SummaryTyped
    <2>3. PICK u : u = Show(s, y)
      OBVIOUS
    <2>4. /\ Core(u, known) /\ u.shown = y /\ u.booking = s.booking
          /\ u.state = s.state /\ u.pending = s.pending /\ u.visit = s.visit /\ u.error = s.error
      BY <1>1, <2>2, <2>3, ShowEffect
    <2>5. HasAll(u)
      BY <1>3, <2>4 DEF HasAll
    <2>6. Placed(u)
      BY <1>1, <1>3, <2>2, <2>4, <2>5 DEF Placed, VisitShown, NoTimeYet, BookingShown, InPlace
    <2> QED BY <2>1, <2>3, <2>4, <2>6 DEF Fine
  <1>4. HasAll(s) => IF s.visit.mode = "RESCHEDULE"
                     THEN Fine(Show(s, Summary(s, "RESCHEDULE_SUMMARY")), known)
                     ELSE Fine(Show(s, Summary(s, "VISIT_SUMMARY")), known)
    BY <1>3 DEF Summaries, SummaryFor, VisitCall
  <1> QED BY <1>2, <1>4 DEF repeat_visit_confirmation

\* clear_visit_draft_and_resume_capture goes back to the bot or to the capture.
LEMMA ClearIdle ==
    ASSUME NEW s, NEW known, Core(s, known), Failed(s) \/ s.pending \notin Critical,
           NEW draft, NEW moveToBot, moveToBot \/ Away(s)
    PROVE  Idle(clear_visit_draft_and_resume_capture(s, draft, moveToBot), known)
  <1>1. PICK clear : clear = [s EXCEPT !.visit = NoVisit]
    OBVIOUS
  <1>2. /\ Core(clear, known)
        /\ clear.pending = s.pending /\ clear.error = s.error /\ clear.state = s.state
    BY <1>1, VisitEffect, Blanks DEF Core, StateRec
  <1>3. ~moveToBot => Idle(clear, known)
    <2>1. clear.visit = NoVisit /\ ~MovesVisit(NoVisit)
      BY <1>1 DEF Core, StateRec, MovesVisit, NoVisit
    <2> QED BY <1>2, <2>1 DEF Idle, Gone, Away, NoTimeYet, Failed
  <1>4. PICK g : g = GoUnlessThere(clear, "BOT_ACTIVE")
    OBVIOUS
  <1>5. Idle(g, known)
    <2>1. "BOT_ACTIVE" \in ConversationState /\ "BOT_ACTIVE" \in Elsewhere
      BY Places
    <2>2. Gone(g, known)
      BY <1>2, <1>4, <2>1, Moves
    <2>3. /\ Failed(clear) => Failed(g)
          /\ g = [clear EXCEPT !.state = g.state, !.error = g.error]
      BY <1>2, <1>4, <2>1, GoUnlessThereEffect
    <2>4. g.pending = clear.pending
      BY <1>2, <2>3 DEF Core, StateRec
    <2> QED BY <1>2, <2>2, <2>3, <2>4 DEF Idle, Failed
  <1>6. PICK back : back = Go(g, "COLLECTING_EVENT_DATA")
    OBVIOUS
  <1>7. Idle(back, known)
    BY <1>5, <1>6, Moves, Places, Kinds
  <1>8. PICK unresolved : unresolved = Keep(s.fields, DOMAIN ENTITY_ACTION)
    OBVIOUS
  <1>9. unresolved \in FieldList
    <2>1. s.fields \in Seq(Entities) /\ DOMAIN ENTITY_ACTION \in SUBSET Entities
      BY DEF Core, StateRec, FieldList, Entities
    <2> QED BY <1>8, <2>1, KeepTyped
  <1>10. PICK held : held = [back EXCEPT !.fields = Merge(pending_fields_for(back), unresolved)]
    OBVIOUS
  <1>11. Idle(held, known)
    BY <1>7, <1>9, <1>10, MergeTyped, MissingFields, FieldsEffect, LikeKeeps, Kinds
  <1>12. PICK next : next = IF select_next_question(back) = "NONE" /\ unresolved # << >>
                            THEN ENTITY_ACTION[unresolved[1]] ELSE select_next_question(back)
    OBVIOUS
  <1>13. next \in Harmless
    <2>1. unresolved \in Seq(Entities)
      BY <1>9 DEF FieldList
    <2> QED BY <1>12, <2>1, HeadOfList, ActionsAsked, NextQuestion
  <1>14. Idle(Pend(back, "NONE"), known)
    BY <1>7, PendHarmless, Kinds DEF Harmless
  <1>15. Idle(transition_to_quote_request_ready(held), known)
    BY <1>11, ToQuoteReady, Kinds
  <1>16. Idle(PendAndAsk(held, next, "QUESTION"), known)
    BY <1>11, <1>13, PendAndAskIdle, Kinds DEF Questions
  <1>17. clear_visit_draft_and_resume_capture(s, draft, moveToBot) =
            IF ~draft.resume THEN IF moveToBot THEN g ELSE clear
            ELSE IF ~s.event.lead THEN Pend(back, "NONE")
            ELSE IF next = "NONE" THEN transition_to_quote_request_ready(held)
            ELSE PendAndAsk(held, next, "QUESTION")
    BY <1>1, <1>4, <1>6, <1>8, <1>10, <1>12 DEF clear_visit_draft_and_resume_capture
  <1> QED BY <1>3, <1>5, <1>14, <1>15, <1>16, <1>17

\* cancel_visit_attempt drops the question before the draft.
LEMMA CancelAttemptIdle ==
    ASSUME NEW s, NEW known, Core(s, known)
    PROVE  Idle(cancel_visit_attempt(s), known)
  <1>1. PICK p : p = Pend(s, "NONE")
    OBVIOUS
  <1>2. "NONE" \in PendingAction /\ "NONE" \notin Critical
    BY HarmlessIsPending, HarmlessIsNotCritical DEF Harmless
  <1>3. Core(p, known) /\ p.pending \notin Critical
    BY <1>1, <1>2, PendEffect
  <1>4. Idle(clear_visit_draft_and_resume_capture(p, s.visit, TRUE), known)
    BY <1>3, ClearIdle
  <1> QED BY <1>1, <1>4 DEF cancel_visit_attempt

\* The time of a visit is asked for.
LEMMA TimeQuestionIdle ==
    ASSUME NEW s, NEW known, Core(s, known), ~MovesVisit(s.visit)
    PROVE  LET u == Pend(Go(s, "WAITING_FOR_APPOINTMENT_SELECTION"), "SELECT_VISIT_TIME") IN
           /\ Idle(u, known) /\ u.pending = "SELECT_VISIT_TIME" /\ u.visit = s.visit
           /\ Failed(u) \/ u.state = "WAITING_FOR_APPOINTMENT_SELECTION"
  <1>1. PICK g : g = Go(s, "WAITING_FOR_APPOINTMENT_SELECTION")
    OBVIOUS
  <1>2. /\ Core(g, known) /\ (Failed(g) \/ g.state = "WAITING_FOR_APPOINTMENT_SELECTION")
        /\ g = [s EXCEPT !.state = g.state, !.error = g.error]
    BY <1>1, GoEffect, Places
  <1>3. PICK u : u = Pend(g, "SELECT_VISIT_TIME")
    OBVIOUS
  <1>4. "SELECT_VISIT_TIME" \in PendingAction /\ "SELECT_VISIT_TIME" \notin Critical
    BY HarmlessIsPending, HarmlessIsNotCritical DEF Harmless
  <1>5. /\ Core(u, known) /\ u.pending = "SELECT_VISIT_TIME"
        /\ u.state = g.state /\ u.error = g.error /\ u.visit = g.visit
    BY <1>2, <1>3, <1>4, PendEffect
  <1>6. g.visit = s.visit
    BY <1>2 DEF Core, StateRec
  <1>7. Failed(u) \/ u.state = "WAITING_FOR_APPOINTMENT_SELECTION"
    BY <1>2, <1>5 DEF Failed
  <1>8. Away(u)
    BY <1>5, <1>6, <1>7 DEF Away, NoTimeYet
  <1> QED BY <1>1, <1>3, <1>4, <1>5, <1>6, <1>7, <1>8 DEF Idle, Gone

\* apply_visit_service_result: a taken slot of a move leaves the summary and its draft as they
\* were, and another question.
LEMMA ServiceResultFine ==
    ASSUME NEW s, NEW known, Fine(s, known), NEW t \in TurnRead
    PROVE  Fine(apply_visit_service_result(s, t), known)
  <1>1. Core(s, known) /\ s \in StateRec
    BY Kinds
  <1>2. PICK p : p = Pend(s, "NONE")
    OBVIOUS
  <1>3. "NONE" \in PendingAction /\ "NONE" \notin Critical
    BY HarmlessIsPending, HarmlessIsNotCritical DEF Harmless
  <1>4. Core(p, known) /\ p.pending = "NONE"
    BY <1>1, <1>2, <1>3, PendEffect
  <1>5. PICK v : v = [p EXCEPT !.visit = NoVisit]
    OBVIOUS
  <1>6. Core(v, known) /\ v.pending = "NONE"
    BY <1>4, <1>5, VisitEffect, Blanks DEF Core, StateRec
  <1>7. PICK g : g = GoUnlessThere(v, "APPOINTMENT_CONFIRMED")
    OBVIOUS
  <1>8. Idle(g, known)
    <2>1. "APPOINTMENT_CONFIRMED" \in ConversationState /\ "APPOINTMENT_CONFIRMED" \in Elsewhere
      BY Places
    <2>2. Gone(g, known)
      BY <1>6, <1>7, <2>1, Moves
    <2>3. g = [v EXCEPT !.state = g.state, !.error = g.error]
      BY <1>6, <1>7, <2>1, GoUnlessThereEffect
    <2>4. g.pending = v.pending
      BY <1>6, <2>3 DEF Core, StateRec
    <2> QED BY <1>3, <1>6, <2>2, <2>4 DEF Idle
  <1>9. PICK done : done = Ask(g, "ANSWER")
    OBVIOUS
  <1>10. Idle(done, known) /\ done \in StateRec
    BY <1>8, <1>9, AskKeeps, Kinds DEF Questions
  <1>11. PICK n : n = IF done.visits < 2 THEN done.visits + 1 ELSE done.visits
    OBVIOUS
  <1>12. n \in 0..2
    <2>1. done.visits \in 0..2
      BY <1>10 DEF StateRec
    <2> QED BY <1>11, <2>1
  <1>13. Idle([done EXCEPT !.visits = n], known)
    BY <1>10, <1>12, VisitsEffect, LikeKeeps, Kinds
  <1>14. PICK booked : booked = IF s.visit.mode = "RESCHEDULE" THEN done
                                ELSE [done EXCEPT !.visits = n]
    OBVIOUS
  <1>15. Idle(booked, known)
    BY <1>10, <1>13, <1>14
  <1>16. Fine(clear_visit_draft_and_resume_capture(booked, s.visit, FALSE), known)
    <2>1. Core(booked, known) /\ (Failed(booked) \/ booked.pending \notin Critical) /\ Away(booked)
      BY <1>15 DEF Idle, Gone
    <2> QED BY <2>1, ClearIdle, Kinds
  <1>17. s.visit.mode = "RESCHEDULE" /\ t.service = "TAKEN" =>
            Fine(PendAndAsk(s, "SELECT_VISIT_TIME", "ANSWER"), known)
    <2>1. s.visit.mode = "RESCHEDULE" => Displaces(s, "SELECT_VISIT_TIME")
      BY DEF Displaces, QuestionsFor, VisitCall
    <2> QED BY <2>1, PendAndAskIdle DEF Harmless, Questions
  <1>18. s.visit.mode # "RESCHEDULE" =>
            Fine(PendAndAsk(Go(s, "WAITING_FOR_APPOINTMENT_SELECTION"), "SELECT_VISIT_TIME",
                            "ANSWER"), known)
    <2> SUFFICES ASSUME s.visit.mode # "RESCHEDULE"
                 PROVE  Fine(PendAndAsk(Go(s, "WAITING_FOR_APPOINTMENT_SELECTION"),
                                        "SELECT_VISIT_TIME", "ANSWER"), known)
      OBVIOUS
    <2>1. PICK u : u = Pend(Go(s, "WAITING_FOR_APPOINTMENT_SELECTION"), "SELECT_VISIT_TIME")
      OBVIOUS
    <2>2. Idle(u, known)
      BY <1>1, <2>1, TimeQuestionIdle DEF MovesVisit
    <2>3. Fine(Ask(u, "ANSWER"), known)
      BY <2>2, AskKeeps, Kinds DEF Questions
    <2> QED BY <2>1, <2>3 DEF PendAndAsk
  <1>19. Fine(Ask(s, "ANSWER"), known) /\ Fine(HandOff(s, "SYSTEM_ERROR"), known)
    BY <1>1, AskKeeps, HandOffEffect, Kinds DEF Questions
  <1>20. booked = IF s.visit.mode = "RESCHEDULE" THEN done
                  ELSE [done EXCEPT !.visits = IF done.visits < 2 THEN done.visits + 1
                                               ELSE done.visits]
    BY <1>11, <1>14
  <1>21. done = Ask(GoUnlessThere([Pend(s, "NONE") EXCEPT !.visit = NoVisit],
                                  "APPOINTMENT_CONFIRMED"), "ANSWER")
    BY <1>2, <1>5, <1>7, <1>9
  <1> QED BY <1>16, <1>17, <1>18, <1>19, <1>20, <1>21 DEF apply_visit_service_result

\* The visit is booked or moved as it was shown.
LEMMA VisitCallFine ==
    ASSUME NEW s, NEW known, Open(s, known), s.state = "APPOINTMENT_PENDING_CONFIRMATION",
           NEW call, call = IF s.visit.mode = "RESCHEDULE" THEN "MOVE" ELSE "VISIT"
    PROVE  Fine(Call(s, call, s.visit.date, s.visit.time, None, None), known)
  <1>1. Core(s, known) /\ s \in StateRec /\ Placed(s) /\ s.error = "NONE"
    BY Kinds DEF Open, Fine, Failed
  <1>2. /\ s.shown.date = s.visit.date /\ s.shown.time = s.visit.time
        /\ s.shown.plan = None /\ s.shown.price = None
        /\ s.shown.of = SummaryFor[call] /\ s.pending \in QuestionsFor(call)
        /\ call \in {"VISIT", "MOVE"}
    BY <1>1 DEF Placed, VisitShown, VisitCall
  <1>3. s.visit.date \in Nat /\ s.visit.time \in Nat
    BY <1>1 DEF StateRec, VisitDraft
  <1>4. PICK c : c = Call(s, call, s.visit.date, s.visit.time, None, None)
    OBVIOUS
  <1>5. /\ c \in StateRec /\ c.state = s.state /\ c.pending = s.pending /\ c.visit = s.visit
        /\ c.booking = s.booking /\ c.shown = s.shown /\ c.error = s.error /\ c.event = s.event
        /\ c.name = s.name /\ c.quote = s.quote
    <2>1. MayCall(s, call, s.visit.date, s.visit.time, None, None)
      BY <1>1, <1>2, <1>3, NoneIsNat DEF MayCall, Calls
    <2> QED BY <1>4, <2>1, CallTyped
  <1>6. HasAll(c) = HasAll(s)
    BY <1>5 DEF HasAll
  <1>7. Placed(c)
    BY <1>1, <1>5, <1>6 DEF Placed, VisitShown, NoTimeYet, BookingShown, InPlace
  <1>8. Core(c, known)
    BY <1>1, <1>5 DEF Core, QuoteComplete
  <1> QED BY <1>4, <1>7, <1>8 DEF Fine

\* The day of a visit is awaited.
LEMMA GoesToDate ==
    ASSUME NEW s, NEW known, Core(s, known), ~MovesVisit(s.visit)
    PROVE  /\ Gone(Go(s, "WAITING_FOR_APPOINTMENT_DATE"), known)
           /\ Gone(GoUnlessThere(s, "WAITING_FOR_APPOINTMENT_DATE"), known)
  <1>1. LeadsBack(s.visit, "WAITING_FOR_APPOINTMENT_DATE")
    BY Places DEF LeadsBack
  <1>2. Gone(GoUnlessThere(s, "WAITING_FOR_APPOINTMENT_DATE"), known)
    BY <1>1, MovesBack
  <1>3. PICK u : u = Go(s, "WAITING_FOR_APPOINTMENT_DATE")
    OBVIOUS
  <1>4. /\ Core(u, known)
        /\ Failed(u) \/ u.state = "WAITING_FOR_APPOINTMENT_DATE"
        /\ u = [s EXCEPT !.state = u.state, !.error = u.error]
    BY <1>3, GoEffect, Places
  <1>5. u.visit = s.visit
    BY <1>4 DEF Core, StateRec
  <1> QED BY <1>2, <1>3, <1>4, <1>5 DEF Gone, Away, NoTimeYet

\* handle_appointment_confirmation.
LEMMA ConfirmationFine ==
    ASSUME NEW s, NEW known, Open(s, known), s.state = "APPOINTMENT_PENDING_CONFIRMATION",
           NEW t \in TurnRead
    PROVE  Fine(handle_appointment_confirmation(s, t), known)
  <1>1. Core(s, known) /\ s \in StateRec
    BY Kinds DEF Open
  <1>2. Fine(Raise(s, "ValueError"), known) /\ Fine(Raise(s, "KeyError"), known)
    BY <1>1, RaiseEffect, Kinds DEF Errors
  <1>3. PICK v : v = [s.visit EXCEPT !.date = None, !.time = None, !.offered = {}]
    OBVIOUS
  <1>4. v \in VisitDraft
    BY <1>1, <1>3, NoneIsNat DEF StateRec, VisitDraft
  <1>5. PICK e : e = [s EXCEPT !.visit = v]
    OBVIOUS
  <1>6. e = [s EXCEPT !.visit.date = None, !.visit.time = None, !.visit.offered = {}]
    BY <1>1, <1>3, <1>5 DEF StateRec, VisitDraft
  <1>7. Core(e, known)
    BY <1>1, <1>4, <1>5, VisitEffect
  <1>8. Fine(PendAndAsk(Go(e, "WAITING_FOR_APPOINTMENT_DATE"), "SELECT_VISIT_DATE", "QUESTION"),
             known)
    <2>1. ~MovesVisit(e.visit)
      BY <1>1, <1>3, <1>5 DEF MovesVisit, StateRec, VisitDraft
    <2>2. Gone(Go(e, "WAITING_FOR_APPOINTMENT_DATE"), known)
      BY <1>7, <2>1, GoesToDate
    <2> QED BY <2>2, PendAndAskIdle, Kinds DEF Harmless, Questions
  <1>9. Fine(repeat_visit_confirmation(s), known)
    BY RepeatFine
  <1>10. PICK call : call = IF s.visit.mode = "RESCHEDULE" THEN "MOVE" ELSE "VISIT"
    OBVIOUS
  <1>11. Fine(apply_visit_service_result(
                Call(s, call, s.visit.date, s.visit.time, None, None), t), known)
    BY <1>10, VisitCallFine, ServiceResultFine
  <1> QED BY <1>2, <1>6, <1>8, <1>9, <1>10, <1>11 DEF handle_appointment_confirmation

(***************************************************************************)
(* The data of a visit                                                     *)
(***************************************************************************)
\* Two drafts of the same kind of visit, at the same time.
SameMove(v, w) == v.mode = w.mode /\ v.time = w.time

\* Writing one field of a visit draft.
LEMMA DraftFieldEffects ==
    ASSUME NEW s, NEW known, Core(s, known)
    PROVE  /\ \A day \in Nat :
                /\ [s EXCEPT !.visit.candidate = day] =
                      [s EXCEPT !.visit = [s.visit EXCEPT !.candidate = day]]
                /\ [s.visit EXCEPT !.candidate = day] \in VisitDraft
                /\ SameMove([s.visit EXCEPT !.candidate = day], s.visit)
           /\ [s EXCEPT !.visit.count = TRUE] =
                 [s EXCEPT !.visit = [s.visit EXCEPT !.count = TRUE]]
           /\ [s.visit EXCEPT !.count = TRUE] \in VisitDraft
           /\ SameMove([s.visit EXCEPT !.count = TRUE], s.visit)
           /\ [s EXCEPT !.visit.reason = TRUE] =
                 [s EXCEPT !.visit = [s.visit EXCEPT !.reason = TRUE]]
           /\ [s.visit EXCEPT !.reason = TRUE] \in VisitDraft
           /\ SameMove([s.visit EXCEPT !.reason = TRUE], s.visit)
           /\ \A time \in Nat :
                /\ [s EXCEPT !.visit.time = time] =
                      [s EXCEPT !.visit = [s.visit EXCEPT !.time = time]]
                /\ [s.visit EXCEPT !.time = time] \in VisitDraft
  <1>1. s \in StateRec /\ s.visit \in VisitDraft
    BY DEF Core, StateRec
  <1>2. ASSUME NEW day \in Nat
        PROVE  [s.visit EXCEPT !.candidate = day] \in VisitDraft
    BY <1>1 DEF VisitDraft
  <1>3. ASSUME NEW time \in Nat
        PROVE  [s.visit EXCEPT !.time = time] \in VisitDraft
    BY <1>1 DEF VisitDraft
  <1>4. /\ [s.visit EXCEPT !.count = TRUE] \in VisitDraft
        /\ [s.visit EXCEPT !.reason = TRUE] \in VisitDraft
    BY <1>1 DEF VisitDraft
  <1>5. /\ \A day \in Nat : SameMove([s.visit EXCEPT !.candidate = day], s.visit)
        /\ SameMove([s.visit EXCEPT !.count = TRUE], s.visit)
        /\ SameMove([s.visit EXCEPT !.reason = TRUE], s.visit)
    BY <1>1 DEF VisitDraft, SameMove
  <1> QED BY <1>1, <1>2, <1>3, <1>4, <1>5 DEF StateRec

\* If one of them is a move that has its time, so is the other.
LEMMA SameMode ==
    ASSUME NEW v, NEW w, SameMove(v, w)
    PROVE  MovesVisit(v) <=> MovesVisit(w)
  BY DEF MovesVisit, SameMove

\* A time is chosen among those offered: of a move it is the last thing asked.
LEMMA SelectTimeFine ==
    ASSUME NEW s, NEW known, Idle(s, known), NEW t \in TurnRead
    PROVE  Fine(SelectTime(s, t), known)
  <1>1. Core(s, known) /\ s \in StateRec /\ s.visit \in VisitDraft
    BY Kinds DEF StateRec
  <1>2. Fine(Ask(s, "ANSWER"), known)
    BY AskKeeps, Kinds DEF Questions
  <1>3. CASE t.time \notin s.visit.offered
    BY <1>2, <1>3 DEF SelectTime
  <1>4. CASE t.time \in s.visit.offered
    <2>1. t.time \in Nat /\ t.time # None /\ s.visit.date # None
      BY <1>1, <1>4, TurnFacts, TurnAssumption DEF VisitDraft, None
    <2>2. PICK v : v = [s.visit EXCEPT !.time = t.time]
      OBVIOUS
    <2>3. PICK chosen : chosen = [s EXCEPT !.visit = v]
      OBVIOUS
    <2>4. v \in VisitDraft /\ chosen = [s EXCEPT !.visit.time = t.time]
      BY <1>1, <2>1, <2>2, <2>3, DraftFieldEffects
    <2>5. Core(chosen, known)
      BY <1>1, <2>3, <2>4, VisitEffect
    <2>6. chosen.visit = v /\ v.date = s.visit.date /\ v.time = t.time /\ v.mode = s.visit.mode
      BY <1>1, <2>2, <2>3 DEF StateRec, VisitDraft
    <2>7. CASE s.visit.mode # "RESCHEDULE"
      <3>1. ~MovesVisit(v)
        BY <2>6, <2>7 DEF MovesVisit
      <3>2. Gone(chosen, known)
        BY <1>1, <2>3, <2>4, <3>1, VisitEffect, Kinds
      <3>3. Fine(PendAndAsk(chosen, "COLLECT_VISIT_ATTENDEES", "QUESTION"), known)
        BY <3>2, PendAndAskIdle, Kinds DEF Harmless, Questions
      <3> QED BY <1>4, <2>4, <2>7, <3>3 DEF SelectTime
    <2>8. CASE s.visit.mode = "RESCHEDULE"
      <3>1. HasAll(chosen) /\ VisitCall(chosen.visit) = "MOVE"
        BY <2>1, <2>6, <2>8 DEF HasAll, VisitCall
      <3>2. /\ "RESCHEDULE_SUMMARY" \in Summaries
            /\ "CONFIRM_RESCHEDULE" = ConfirmActionFor["MOVE"]
            /\ "RESCHEDULE_SUMMARY" = SummaryFor["MOVE"]
        BY DEF Summaries, ConfirmActionFor, SummaryFor
      <3>3. Fine(prepare_reschedule_confirmation(chosen), known)
        BY <2>5, <3>1, <3>2, VisitAsked DEF prepare_reschedule_confirmation
      <3> QED BY <1>4, <2>4, <2>8, <3>3 DEF SelectTime
    <2> QED BY <2>7, <2>8
  <1> QED BY <1>3, <1>4

\* The number of attendees.
LEMMA AttendeesFine ==
    ASSUME NEW s, NEW known, Idle(s, known), NEW t
    PROVE  Fine(CollectAttendees(s, t), known)
  <1>1. Core(s, known)
    BY Kinds
  <1>2. PICK u : u = [s EXCEPT !.visit.count = TRUE]
    OBVIOUS
  <1>3. Idle(u, known)
    BY <1>1, <1>2, DraftFieldEffects, SameMode, VisitEffect
  <1>4. Fine(PendAndAsk(u, "COLLECT_VISIT_REASON", "QUESTION"), known)
    BY <1>3, PendAndAskIdle, Kinds DEF Harmless, Questions
  <1>5. Fine(HandOff(s, "CAPACITY_REVIEW"), known) /\ Fine(Ask(s, "QUESTION"), known)
    BY <1>1, HandOffEffect, AskKeeps, Kinds DEF Questions
  <1> QED BY <1>2, <1>4, <1>5 DEF CollectAttendees

\* The name a visit is booked under.
LEMMA CollectNameFine ==
    ASSUME NEW s, NEW known, Idle(s, known), s.error = "NONE", ~MovesVisit(s.visit),
           NEW t \in TurnRead
    PROVE  Fine(CollectName(s, t), known)
  <1> DEFINE bare == is_affirmative(t) \/ t.says \in DENIALS
             confirmed == ~Corrected(t) /\ ConfirmsName(s, t)
             entity == [t EXCEPT !.name = IF @ = "NONE" THEN "GIVEN" ELSE @]
             tries == ~confirmed /\ (Corrected(t) \/ ~bare)
             rejected == tries /\ (NameRejected(t) \/ (t.name = "NONE" /\ ~t.person))
             heard == IF confirmed THEN ConfirmName(s)
                      ELSE IF rejected THEN RejectEntities(s, t)
                      ELSE IF tries THEN apply_full_name(s, entity) ELSE s
             settles == confirmed \/ /\ ~is_affirmative(t)
                                     /\ current_pending(heard) # "NAME"
                                     /\ t.name # "NONE"
             listed == IF rejected THEN Merge(heard.fields, <<"full_name">>)
                       ELSE IF settles THEN Keep(heard.fields, DOMAIN ENTITY_ACTION \ {"full_name"})
                       ELSE heard.fields
             noted == [heard EXCEPT !.fields = listed]
             open == \/ rejected
                     \/ current_pending(noted) = "NAME"
                     \/ "full_name" \in ToSet(noted.fields)
                     \/ ~noted.name
  <1>1. s \in StateRec
    BY Kinds
  <1>2. Like(s, heard)
    BY <1>1, ConfirmNameLike, RejectLike, FullNameLike, LikeItself
  <1> HIDE DEF heard
  <1>3. Idle(heard, known) /\ heard \in StateRec
    BY <1>2, LikeKeeps, Kinds
  <1>4. listed \in FieldList
    <2>1. heard.fields \in FieldList
      BY <1>3 DEF StateRec
    <2>2. heard.fields \in Seq(Entities) /\ DOMAIN ENTITY_ACTION \ {"full_name"} \in SUBSET Entities
      BY <2>1 DEF FieldList, Entities
    <2>3. <<"full_name">> \in FieldList
      <3>1. "full_name" \in Entities
        BY DEF Entities, ENTITY_ACTION
      <3>2. <<"full_name">> \in Seq(Entities)
        BY <3>1
      <3> QED BY <3>2 DEF FieldList, IsInjective
    <2> QED BY <2>1, <2>2, <2>3, MergeTyped, KeepTyped
  <1> HIDE DEF listed
  <1>5. Idle(noted, known) /\ ~MovesVisit(noted.visit)
    <2>1. Like(heard, noted)
      BY <1>3, <1>4, FieldsEffect
    <2>2. noted.visit = s.visit
      BY <1>2, <2>1 DEF Like
    <2> QED BY <1>3, <2>1, <2>2, LikeKeeps, Kinds
  <1> HIDE DEF noted
  <1>6. Fine(Ask(noted, "QUESTION"), known) /\ Fine(prepare_visit_confirmation(noted), known)
    BY <1>5, AskKeeps, PrepareVisitFine, Kinds DEF Questions
  <1>7. Fine(handle_general_information(s, t, FALSE, FALSE), known)
    BY InformationIdle, Kinds
  <1> HIDE DEF open
  <1>8. CollectName(s, t) =
            IF current_pending(s) = "NAME" /\ IsAnswerableQuestion(t)
            THEN handle_general_information(s, t, FALSE, FALSE)
            ELSE IF open THEN Ask(noted, "QUESTION") ELSE prepare_visit_confirmation(noted)
    BY DEF CollectName, open, noted, listed, heard
  <1> QED BY <1>6, <1>7, <1>8

\* The reason of the visit, the last thing asked.
LEMMA CollectReasonFine ==
    ASSUME NEW s, NEW known, Idle(s, known), ~MovesVisit(s.visit)
    PROVE  Fine(CollectReason(s), known)
  <1>1. PICK u : u = [s EXCEPT !.visit.reason = TRUE]
    OBVIOUS
  <1>2. Idle(u, known) /\ ~MovesVisit(u.visit)
    <2>1. Core(s, known)
      BY Kinds
    <2>2. u.visit = [s.visit EXCEPT !.reason = TRUE]
      BY <1>1, <2>1, DraftFieldEffects DEF Core, StateRec
    <2> QED BY <1>1, <2>1, <2>2, DraftFieldEffects, SameMode, VisitEffect
  <1>3. Fine(PendAndAsk(u, "COLLECT_CUSTOMER_NAME", "QUESTION"), known)
    BY <1>2, PendAndAskIdle, Kinds DEF Harmless, Questions
  <1>4. Fine(prepare_visit_confirmation(u), known)
    BY <1>2, PrepareVisitFine, Kinds
  <1> QED BY <1>1, <1>3, <1>4 DEF CollectReason

\* handle_waiting_for_appointment_selection: nothing has the time of a move yet.
LEMMA SelectionFine ==
    ASSUME NEW s, NEW known, Idle(s, known), ~MovesVisit(s.visit), NEW t \in TurnRead,
           s.error = "NONE" \/ s.pending = "SELECT_VISIT_TIME"
    PROVE  Fine(handle_waiting_for_appointment_selection(s, t), known)
  <1>1. Fine(Raise(s, "ValueError"), known)
    BY RaiseEffect, Kinds DEF Errors
  <1>2. Fine(SelectTime(s, t), known)
    BY SelectTimeFine
  <1>3. Fine(CollectAttendees(s, t), known) /\ Fine(CollectReason(s), known)
    BY AttendeesFine, CollectReasonFine
  <1>4. s.error = "NONE" => Fine(CollectName(s, t), known)
    BY CollectNameFine
  <1> QED BY <1>1, <1>2, <1>3, <1>4 DEF handle_waiting_for_appointment_selection

\* The slots of a day are offered, and one is taken if the message names it.
LEMMA OfferFine ==
    ASSUME NEW s, NEW known, Idle(s, known), ~MovesVisit(s.visit), NEW t \in TurnRead,
           NEW day \in Nat, day # None
    PROVE  Fine(OfferSlots(s, t, day), known)
  <1>1. Core(s, known) /\ s \in StateRec /\ s.visit \in VisitDraft
    BY Kinds DEF StateRec
  <1>2. PICK v : v = [s.visit EXCEPT !.date = day, !.offered = t.slots]
    OBVIOUS
  <1>3. v \in VisitDraft
    <2>1. t.slots \in SUBSET Slots
      BY TurnFacts
    <2> QED BY <1>1, <1>2, <2>1 DEF VisitDraft
  <1>4. PICK offered : offered = [s EXCEPT !.visit = v]
    OBVIOUS
  <1>5. offered = [s EXCEPT !.visit.date = day, !.visit.offered = t.slots]
    BY <1>1, <1>2, <1>4 DEF StateRec, VisitDraft
  <1>6. Core(offered, known) /\ ~MovesVisit(offered.visit)
    <2>1. offered.visit = v /\ SameMove(v, s.visit)
      BY <1>1, <1>2, <1>4 DEF StateRec, VisitDraft, SameMove
    <2> QED BY <1>1, <1>3, <1>4, <2>1, SameMode, VisitEffect
  <1>7. PICK moved : moved = Pend(Go(offered, "WAITING_FOR_APPOINTMENT_SELECTION"),
                                  "SELECT_VISIT_TIME")
    OBVIOUS
  <1>8. /\ Idle(moved, known) /\ moved.pending = "SELECT_VISIT_TIME"
        /\ moved.visit = offered.visit
    BY <1>6, <1>7, TimeQuestionIdle
  <1>9. ~MovesVisit(moved.visit)
    BY <1>6, <1>8
  <1>10. Fine(handle_waiting_for_appointment_selection(moved, t), known)
    BY <1>8, <1>9, SelectionFine
  <1>11. Fine(Ask(moved, "QUESTION"), known) /\ Fine(Ask(s, "ANSWER"), known)
    BY <1>8, AskKeeps, Kinds DEF Questions
  <1>12. Fine(HandOff(s, "SYSTEM_ERROR"), known) /\ Fine(Raise(s, "ValueError"), known)
    BY <1>1, HandOffEffect, RaiseEffect, Kinds DEF Errors
  <1> QED BY <1>5, <1>7, <1>10, <1>11, <1>12 DEF OfferSlots

\* A day whose month was inferred is confirmed first.
LEMMA DateConfirmFine ==
    ASSUME NEW s, NEW known, Idle(s, known), NEW day \in Nat
    PROVE  Fine(AskDateConfirm(s, day), known)
  <1>1. Fine(Raise(s, "ValueError"), known)
    BY RaiseEffect, Kinds DEF Errors
  <1>2. PICK u : u = [s EXCEPT !.visit.candidate = day]
    OBVIOUS
  <1>3. Idle(u, known)
    <2>1. Core(s, known)
      BY Kinds
    <2>2. PICK v : v = [s.visit EXCEPT !.candidate = day]
      OBVIOUS
    <2>3. v \in VisitDraft /\ SameMove(v, s.visit) /\ u = [s EXCEPT !.visit = v]
      BY <1>2, <2>1, <2>2, DraftFieldEffects
    <2> QED BY <2>1, <2>3, SameMode, VisitEffect
  <1>4. Fine(PendAndAsk(u, "CONFIRM_VISIT_DATE", "DATE_CONFIRM"), known)
    BY <1>3, PendAndAskIdle, Kinds DEF Harmless, Questions
  <1> QED BY <1>1, <1>2, <1>4 DEF AskDateConfirm

\* The day a message names.
LEMMA DateFromTextFine ==
    ASSUME NEW s, NEW known, Idle(s, known), ~MovesVisit(s.visit), NEW t \in TurnRead
    PROVE  Fine(DateFromText(s, t), known)
  <1>1. t.day \in Nat /\ (t.date = "EXACT" => t.day # None)
    BY TurnFacts
  <1>2. Fine(AskDateConfirm(s, t.day), known)
    BY <1>1, DateConfirmFine
  <1>3. Fine(Ask(s, "QUESTION"), known)
    BY AskKeeps, Kinds DEF Questions
  <1>4. t.date = "EXACT" => Fine(OfferSlots(s, t, t.day), known)
    BY <1>1, OfferFine
  <1> QED BY <1>2, <1>3, <1>4 DEF DateFromText

\* handle_waiting_for_appointment_date.
LEMMA DateFine ==
    ASSUME NEW s, NEW known, Idle(s, known), ~MovesVisit(s.visit), NEW t \in TurnRead
    PROVE  Fine(handle_waiting_for_appointment_date(s, t), known)
  <1>1. Core(s, known) /\ s \in StateRec
    BY Kinds
  <1>2. PICK c : c = [s EXCEPT !.visit.candidate = None]
    OBVIOUS
  <1>3. Idle(c, known) /\ ~MovesVisit(c.visit)
    <2>1. PICK v : v = [s.visit EXCEPT !.candidate = None]
      OBVIOUS
    <2>2. v \in VisitDraft /\ SameMove(v, s.visit) /\ c = [s EXCEPT !.visit = v]
      BY <1>1, <1>2, <2>1, DraftFieldEffects, NoneIsNat
    <2>3. c.visit = v
      BY <1>1, <2>2 DEF StateRec
    <2> QED BY <1>1, <2>2, <2>3, SameMode, VisitEffect
  <1>4. PICK open : open = Pend(c, "SELECT_VISIT_DATE")
    OBVIOUS
  <1>5. Idle(open, known) /\ ~MovesVisit(open.visit)
    <2>1. "SELECT_VISIT_DATE" \in Harmless /\ "SELECT_VISIT_DATE" \in PendingAction
      BY HarmlessIsPending DEF Harmless
    <2>2. open.visit = c.visit
      BY <1>3, <1>4, <2>1, PendEffect, Kinds
    <2> QED BY <1>3, <1>4, <2>1, <2>2, PendHarmless, Kinds
  <1>6. Fine(DateFromText(s, t), known) /\ Fine(DateFromText(open, t), known)
    BY <1>5, DateFromTextFine
  <1>7. Fine(Raise(s, "ValueError"), known)
    BY <1>1, RaiseEffect, Kinds DEF Errors
  <1>8. Fine(Ask(open, "QUESTION"), known)
    BY <1>5, AskKeeps, Kinds DEF Questions
  <1>9. s.visit.candidate \in Nat /\ t.day \in Nat
    BY <1>1, TurnFacts DEF StateRec, VisitDraft
  <1>10. s.visit.candidate # None => Fine(OfferSlots(open, t, s.visit.candidate), known)
    BY <1>5, <1>9, OfferFine
  <1>11. Fine(AskDateConfirm(s, t.day), known) /\ Fine(AskDateConfirm(s, s.visit.candidate), known)
    BY <1>9, DateConfirmFine
  <1> QED BY <1>2, <1>4, <1>6, <1>7, <1>8, <1>10, <1>11 DEF handle_waiting_for_appointment_date

\* A visit starts with an empty draft.
LEMMA NewDraftTyped ==
    ASSUME NEW s \in StateRec, NEW mode \in {"SCHEDULE", "RESCHEDULE"}
    PROVE  NewDraft(s, mode) \in VisitDraft /\ ~MovesVisit(NewDraft(s, mode))
  <1>1. PICK r : r = ResumeMark(s)
    OBVIOUS
  <1>2. r \in BOOLEAN
    BY <1>1 DEF ResumeMark, StateRec, VisitDraft
  <1>3. /\ [NoVisit EXCEPT !.mode = mode, !.resume = r] \in VisitDraft
        /\ ~MovesVisit([NoVisit EXCEPT !.mode = mode, !.resume = r])
    BY <1>2 DEF NoVisit, VisitDraft, MovesVisit, None
  <1> QED BY <1>1, <1>3 DEF NewDraft

\* move_to_appointment_date leaves the awaited summary behind.
LEMMA MoveToDateGone ==
    ASSUME NEW s, NEW known, Core(s, known), ~MovesVisit(s.visit)
    PROVE  Gone(move_to_appointment_date(s), known) /\ move_to_appointment_date(s).visit = s.visit
  <1>1. PICK x : x = IF s.state = "NEW" THEN Go(s, "BOT_ACTIVE") ELSE s
    OBVIOUS
  <1>2. Core(x, known) /\ x.visit = s.visit
    <2>1. PICK g : g = Go(s, "BOT_ACTIVE")
      OBVIOUS
    <2>2. Core(g, known) /\ g = [s EXCEPT !.state = g.state, !.error = g.error]
      BY <2>1, GoEffect, Places DEF Elsewhere
    <2>3. g.visit = s.visit
      BY <2>2 DEF Core, StateRec
    <2> QED BY <1>1, <2>1, <2>2, <2>3
  <1>3. PICK u : u = GoUnlessThere(x, "WAITING_FOR_APPOINTMENT_DATE")
    OBVIOUS
  <1>4. Gone(u, known)
    BY <1>2, <1>3, GoesToDate
  <1>5. u = [x EXCEPT !.state = u.state, !.error = u.error]
    BY <1>2, <1>3, GoUnlessThereEffect, Places
  <1>6. u.visit = x.visit
    BY <1>2, <1>5 DEF Core, StateRec
  <1> QED BY <1>1, <1>2, <1>3, <1>4, <1>6 DEF move_to_appointment_date

\* A new draft is stored and the day of the visit asked for.
LEMMA NewDraftGone ==
    ASSUME NEW s, NEW known, Core(s, known), NEW mode \in {"SCHEDULE", "RESCHEDULE"}
    PROVE  LET u == move_to_appointment_date([s EXCEPT !.visit = NewDraft(s, mode)]) IN
           Gone(u, known) /\ ~MovesVisit(u.visit)
  <1>1. PICK v : v = NewDraft(s, mode)
    OBVIOUS
  <1>2. v \in VisitDraft /\ ~MovesVisit(v) /\ s \in StateRec
    BY <1>1, NewDraftTyped, Kinds
  <1>3. PICK d : d = [s EXCEPT !.visit = v]
    OBVIOUS
  <1>4. Core(d, known) /\ d.visit = v
    BY <1>2, <1>3, VisitEffect DEF StateRec
  <1> QED BY <1>1, <1>2, <1>3, <1>4, MoveToDateGone

\* start_visit_scheduling, from any state.
LEMMA ScheduleFine ==
    ASSUME NEW s, NEW known, Core(s, known), NEW t \in TurnRead
    PROVE  Fine(start_visit_scheduling(s, t), known)
  <1>1. PICK m : m = move_to_appointment_date([s EXCEPT !.visit = NewDraft(s, "SCHEDULE")])
    OBVIOUS
  <1>2. Gone(m, known) /\ ~MovesVisit(m.visit)
    BY <1>1, NewDraftGone
  <1>3. PICK opened : opened = Pend(m, "SELECT_VISIT_DATE")
    OBVIOUS
  <1>4. Idle(opened, known) /\ ~MovesVisit(opened.visit) /\ opened \in StateRec
    <2>1. "SELECT_VISIT_DATE" \in Harmless /\ "SELECT_VISIT_DATE" \in PendingAction
      BY HarmlessIsPending DEF Harmless
    <2>2. opened.visit = m.visit
      BY <1>2, <1>3, <2>1, PendEffect, Kinds
    <2>3. Idle(opened, known)
      BY <1>2, <1>3, <2>1, PendHarmless, Kinds
    <2> QED BY <1>2, <2>2, <2>3, Kinds
  <1>5. PICK u : u = [opened EXCEPT !.fails = 0]
    OBVIOUS
  <1>6. Idle(u, known) /\ ~MovesVisit(u.visit)
    <2>1. Like(opened, u)
      BY <1>4, <1>5, FailsEffect
    <2>2. Idle(u, known)
      BY <1>4, <2>1, LikeKeeps, Kinds
    <2>3. u.visit = opened.visit
      BY <2>1 DEF Like
    <2> QED BY <1>4, <2>2, <2>3
  <1> QED BY <1>1, <1>3, <1>5, <1>6, DateFine DEF start_visit_scheduling

\* The summary of a cancellation is one.
LEMMA CancelSummaryTyped == [NoSummary EXCEPT !.of = "CANCEL_SUMMARY"] \in SummaryShown
  BY Blanks DEF SummaryShown, Summaries

\* handle_visit_intent: a visit is scheduled, moved or cancelled, or a human is called.
LEMMA VisitIntentFine ==
    ASSUME NEW s, NEW known, Core(s, known), NEW t \in TurnRead,
           Away(s) \/ t.intent \in {"SCHEDULE_VISIT", "RESCHEDULE_VISIT"}
    PROVE  Fine(handle_visit_intent(s, t), known)
  <1>1. s \in StateRec
    BY Kinds
  <1>2. Fine(start_visit_scheduling(s, t), known)
    BY ScheduleFine
  <1>3. \A reason : Fine(HandOff(s, reason), known)
    BY HandOffEffect, Kinds
  <1>4. PICK m : m = move_to_appointment_date([s EXCEPT !.visit = NewDraft(s, "RESCHEDULE")])
    OBVIOUS
  <1>5. Gone(m, known)
    BY <1>4, NewDraftGone
  <1>6. Fine(PendAndAsk(m, "SELECT_VISIT_DATE", "QUESTION"), known)
    BY <1>5, PendAndAskIdle, Kinds DEF Harmless, Questions
  <1>7. PICK r : r = (s.state = "COLLECTING_EVENT_DATA")
    OBVIOUS
  <1>8. PICK draft : draft = [NoVisit EXCEPT !.mode = "CANCEL", !.resume = r]
    OBVIOUS
  <1>9. draft \in VisitDraft
    BY <1>7, <1>8 DEF NoVisit, VisitDraft, None
  <1>10. Away(s) => Fine(Show(Pend([s EXCEPT !.visit = draft], "CONFIRM_VISIT_CANCELLATION"),
                              [NoSummary EXCEPT !.of = "CANCEL_SUMMARY"]), known)
    <2> SUFFICES ASSUME Away(s)
                 PROVE  Fine(Show(Pend([s EXCEPT !.visit = draft], "CONFIRM_VISIT_CANCELLATION"),
                                  [NoSummary EXCEPT !.of = "CANCEL_SUMMARY"]), known)
      OBVIOUS
    <2>1. Gone(s, known)
      BY DEF Gone
    <2>2. ~MovesVisit(draft)
      BY <1>8 DEF NoVisit, MovesVisit
    <2>3. Gone([s EXCEPT !.visit = draft], known)
      BY <1>9, <2>1, <2>2, VisitEffect
    <2>4. Idle(Pend([s EXCEPT !.visit = draft], "CONFIRM_VISIT_CANCELLATION"), known)
      BY <2>3, PendHarmless, Kinds DEF Harmless
    <2> QED BY <2>4, CancelSummaryTyped, ShowKeeps, Kinds
  <1>11. draft = [NoVisit EXCEPT !.mode = "CANCEL", !.resume = (s.state = "COLLECTING_EVENT_DATA")]
    BY <1>7, <1>8
  <1> QED BY <1>2, <1>3, <1>4, <1>6, <1>10, <1>11 DEF handle_visit_intent

\* handle_visit_cancellation_confirmation.
LEMMA CancellationFine ==
    ASSUME NEW s, NEW known, Idle(s, known), s.pending = "CONFIRM_VISIT_CANCELLATION", NEW t
    PROVE  Fine(handle_visit_cancellation_confirmation(s, t), known)
  <1>1. Core(s, known) /\ s \in StateRec
    BY Kinds
  <1>2. PICK called : called = Call(s, "CANCEL", None, None, None, None)
    OBVIOUS
  <1>3. Idle(called, known) /\ called \in StateRec
    <2>1. /\ called \in StateRec /\ called.state = s.state /\ called.pending = s.pending
          /\ called.error = s.error /\ called.event = s.event /\ called.name = s.name
          /\ called.quote = s.quote /\ called.visit = s.visit
      <3>1. MayCall(s, "CANCEL", None, None, None, None)
        BY <1>1, NoneIsNat DEF MayCall, Calls, QuestionsFor, ConfirmActionFor
      <3> QED BY <1>2, <3>1, CallTyped
    <2> QED BY <1>1, <2>1 DEF Idle, Gone, Away, NoTimeYet, Failed, Core, QuoteComplete
  <1>4. PICK a : a = Ask(called, "ANSWER")
    OBVIOUS
  <1>5. Idle(a, known) /\ a \in StateRec
    BY <1>3, <1>4, AskKeeps, Kinds DEF Questions
  <1>6. PICK n : n = IF a.visits > 0 THEN a.visits - 1 ELSE a.visits
    OBVIOUS
  <1>7. n \in 0..2
    <2>1. a.visits \in 0..2
      BY <1>5 DEF StateRec
    <2> QED BY <1>6, <2>1
  <1>8. PICK gone : gone = [a EXCEPT !.visits = n]
    OBVIOUS
  <1>9. Idle(gone, known)
    BY <1>5, <1>7, <1>8, VisitsEffect, LikeKeeps, Kinds
  <1>10. PICK left :
            left = IF s.state = "APPOINTMENT_CONFIRMED" THEN Go(gone, "BOT_ACTIVE") ELSE gone
    OBVIOUS
  <1>11. Idle(left, known)
    BY <1>9, <1>10, Moves, Places, Kinds
  <1>12. ASSUME NEW u, Idle(u, known)
         PROVE  Fine(clear_visit_draft_and_resume_capture(Pend(u, "NONE"), s.visit, FALSE), known)
    <2>1. Idle(Pend(u, "NONE"), known)
      BY <1>12, PendHarmless, Kinds DEF Harmless
    <2>2. PICK p : p = Pend(u, "NONE")
      OBVIOUS
    <2>3. Core(p, known) /\ (Failed(p) \/ p.pending \notin Critical) /\ Away(p)
      BY <2>1, <2>2 DEF Idle, Gone
    <2> QED BY <2>2, <2>3, ClearIdle, Kinds
  <1>13. Fine(clear_visit_draft_and_resume_capture(Pend(Ask(s, "ANSWER"), "NONE"), s.visit, FALSE),
              known)
    <2>1. Idle(Ask(s, "ANSWER"), known)
      BY <1>1, AskKeeps DEF Questions
    <2> QED BY <1>12, <2>1
  <1>14. Fine(clear_visit_draft_and_resume_capture(Pend(left, "NONE"), s.visit, FALSE), known)
    BY <1>11, <1>12
  <1>15. Fine(HandOff(called, "CANCELLATION"), known) /\ Fine(Raise(s, "ValueError"), known)
    BY <1>1, <1>3, HandOffEffect, RaiseEffect, Kinds DEF Errors
  <1>16. Fine(Show(s, [NoSummary EXCEPT !.of = "CANCEL_SUMMARY"]), known)
    BY CancelSummaryTyped, ShowKeeps, Kinds
  <1>17. gone = [Ask(called, "ANSWER") EXCEPT
                    !.visits = IF Ask(called, "ANSWER").visits > 0
                               THEN Ask(called, "ANSWER").visits - 1
                               ELSE Ask(called, "ANSWER").visits]
    BY <1>4, <1>6, <1>8
  <1> QED BY <1>2, <1>10, <1>13, <1>14, <1>15, <1>16, <1>17
          DEF handle_visit_cancellation_confirmation

\* handle_appointment_flow_state, in the three states of a visit.
LEMMA FlowFine ==
    ASSUME NEW s, NEW known, Open(s, known), s.state \in APPOINTMENT_FLOW_STATES,
           NEW t \in TurnRead
    PROVE  Fine(handle_appointment_flow_state(s, t), known)
  <1>1. Core(s, known) /\ s.error = "NONE"
    BY Kinds DEF Open
  <1>2. PICK read : read = IF (s.state = "APPOINTMENT_PENDING_CONFIRMATION"
                               /\ resolve_contextual_confirmation(s, t) # "NONE")
                           THEN [t EXCEPT !.intent = resolve_contextual_confirmation(s, t)] ELSE t
    OBVIOUS
  <1>3. read \in TurnRead
    <2>1. resolve_contextual_confirmation(s, t) # "NONE" =>
             resolve_contextual_confirmation(s, t) \in Intents
      BY DEF resolve_contextual_confirmation, Intents
    <2> QED BY <1>2, <2>1, IntentTyped
  <1>4. Fine(Raise(s, "ValueError"), known)
    BY <1>1, RaiseEffect, Kinds DEF Errors
  <1>5. t.intent \in {"SCHEDULE_VISIT", "RESCHEDULE_VISIT"} =>
          Fine(handle_visit_intent(s, t), known)
    BY <1>1, VisitIntentFine
  <1>6. Fine(cancel_visit_attempt(s), known)
    BY <1>1, CancelAttemptIdle, Kinds
  <1>7. CASE s.state = "APPOINTMENT_PENDING_CONFIRMATION"
    <2>1. Fine(handle_appointment_confirmation(s, read), known)
      BY <1>3, <1>7, ConfirmationFine
    <2> QED BY <1>2, <1>4, <1>5, <1>6, <1>7, <2>1 DEF handle_appointment_flow_state
  <1>8. CASE s.state = "WAITING_FOR_APPOINTMENT_DATE"
    <2>1. Idle(s, known) /\ ~MovesVisit(s.visit)
      BY <1>8, OpenIsIdle, OpenUntimed, Places
    <2>2. Fine(handle_waiting_for_appointment_date(s, t), known)
      BY <2>1, DateFine
    <2> QED BY <1>4, <1>5, <1>6, <1>8, <2>2 DEF handle_appointment_flow_state
  <1>9. CASE s.state = "WAITING_FOR_APPOINTMENT_SELECTION"
    <2>1. Idle(s, known) /\ ~MovesVisit(s.visit)
      BY <1>9, OpenIsIdle, OpenUntimed, Places
    <2>2. Fine(handle_waiting_for_appointment_selection(s, t), known)
      BY <1>1, <2>1, SelectionFine
    <2> QED BY <1>4, <1>5, <1>6, <1>9, <2>2 DEF handle_appointment_flow_state
  <1> QED BY <1>7, <1>8, <1>9 DEF APPOINTMENT_FLOW_STATES

(***************************************************************************)
(* The questions of a booking                                              *)
(***************************************************************************)
\* A booking text is sent, or a human called when it is not approved.
LEMMA SendFine ==
    ASSUME NEW s, NEW known, Fine(s, known), NEW t, NEW code \in Questions
    PROVE  Fine(Send(s, t, code), known)
  BY AskKeeps, HandOffEffect, Kinds DEF Send

\* A step of a booking is asked for in COLLECTING_EVENT_DATA.
LEMMA BookingAskedFine ==
    ASSUME NEW s, NEW known, Filed(s, known), NEW action \in BOOKING_ACTIONS \ {"CONFIRM_BOOKING"}
    PROVE  Fine([s EXCEPT !.pending = action], known)
  <1>1. action \in PendingAction
    BY HarmlessIsPending DEF Critical
  <1>2. PICK u : u = [s EXCEPT !.pending = action]
    OBVIOUS
  <1>3. Core(u, known) /\ u.pending = action /\ u.state = s.state /\ u.error = s.error
    BY <1>1, <1>2 DEF Filed, Core, StateRec, QuoteComplete
  <1>4. Failed(u) \/ Placed(u)
    BY <1>3
       DEF Filed, Failed, Placed, VisitShown, NoTimeYet, Awaiting, BookingShown, InPlace,
           BOOKING_ACTIONS
  <1> QED BY <1>2, <1>3, <1>4 DEF Fine

\* ask_plan.
LEMMA AskPlanFine ==
    ASSUME NEW s, NEW known, Filed(s, known), NEW t
    PROVE  Fine(ask_plan(s, t), known)
  <1>1. Fine(HandOff(s, "RESERVATION_CONFIRMATION"), known)
    BY HandOffEffect, Kinds
  <1>2. Fine([s EXCEPT !.pending = "SELECT_BOOKING_PLAN"], known)
    BY BookingAskedFine DEF BOOKING_ACTIONS
  <1> QED BY <1>1, <1>2, SendFine DEF ask_plan, Questions

\* ask_booking_datetime.
LEMMA AskDatetimeFine ==
    ASSUME NEW s, NEW known, Filed(s, known), NEW t
    PROVE  Fine(ask_booking_datetime(s, t), known)
  <1>1. s \in StateRec /\ s.booking \in BookingDraft
    BY Kinds DEF StateRec
  <1>2. PICK b : b = [s.booking EXCEPT !.date = None, !.time = None, !.unsure = FALSE]
    OBVIOUS
  <1>3. b \in BookingDraft
    BY <1>1, <1>2, NoneIsNat DEF BookingDraft
  <1>4. PICK u : u = [s EXCEPT !.booking = b]
    OBVIOUS
  <1>5. Filed(u, known)
    BY <1>3, <1>4, BookingEffect, Kinds
  <1>6. Fine([u EXCEPT !.pending = "SELECT_BOOKING_DATETIME"], known)
    BY <1>5, BookingAskedFine DEF BOOKING_ACTIONS
  <1>7. [u EXCEPT !.pending = "SELECT_BOOKING_DATETIME"] =
        [s EXCEPT !.booking.date = None, !.booking.time = None, !.booking.unsure = FALSE,
                  !.pending = "SELECT_BOOKING_DATETIME"]
    BY <1>1, <1>2, <1>4 DEF StateRec, BookingDraft
  <1> QED BY <1>6, <1>7, SendFine DEF ask_booking_datetime, Questions

\* ask_booking_time.
LEMMA AskTimeFine ==
    ASSUME NEW s, NEW known, Filed(s, known), NEW t
    PROVE  Fine(ask_booking_time(s, t), known)
  <1>1. s \in StateRec /\ s.booking \in BookingDraft
    BY Kinds DEF StateRec
  <1>2. PICK b : b = [s.booking EXCEPT !.time = None]
    OBVIOUS
  <1>3. b \in BookingDraft
    BY <1>1, <1>2, NoneIsNat DEF BookingDraft
  <1>4. PICK u : u = [s EXCEPT !.booking = b]
    OBVIOUS
  <1>5. Filed(u, known)
    BY <1>3, <1>4, BookingEffect, Kinds
  <1>6. PICK p : p = [u EXCEPT !.pending = "SELECT_BOOKING_TIME"]
    OBVIOUS
  <1>7. Fine(p, known)
    BY <1>5, <1>6, BookingAskedFine DEF BOOKING_ACTIONS
  <1>8. Fine([p EXCEPT !.fails = 0], known)
    BY <1>7, FailsEffect, LikeKeeps, Kinds
  <1>9. [p EXCEPT !.fails = 0] =
        [s EXCEPT !.booking.time = None, !.pending = "SELECT_BOOKING_TIME", !.fails = 0]
    BY <1>1, <1>2, <1>4, <1>6 DEF StateRec, BookingDraft
  <1> QED BY <1>8, <1>9, SendFine DEF ask_booking_time, Questions

\* A window that is refused is asked for again.
LEMMA RefusedFine ==
    ASSUME NEW s, NEW known, Filed(s, known), NEW t
    PROVE  Fine(RefusedWindow(s, t), known)
  BY AskTimeFine, AskDatetimeFine DEF RefusedWindow

\* ask_name asks for the name, or raises when its copy is not approved.
LEMMA AskNameFine ==
    ASSUME NEW s, NEW known, Fine(s, known), NEW t
    PROVE  Fine(ask_name(s, t), known)
  <1>1. Fine(Ask(s, "QUESTION"), known)
    BY AskKeeps, Kinds DEF Questions
  <1>2. Fine(Raise(s, "KnowledgeRenderError"), known)
    BY RaiseEffect, Kinds DEF Errors
  <1> QED BY <1>1, <1>2 DEF ask_name

\* Plans and prices are numbers.
LEMMA PlanPrice ==
    ASSUME NEW t \in TurnRead, NEW p \in Plans
    PROVE  t.prices[p] \in Nat /\ p \in Nat
  <1>1. t.prices \in [Plans -> Prices \cup {None}]
    BY TurnFacts
  <1>2. Prices \subseteq Nat /\ None \in Nat /\ Plans \subseteq Nat
    BY DialogueAssumption, NoneIsNat
  <1> QED BY <1>1, <1>2

\* The price read in this turn goes into the draft and into the summary.
LEMMA QuoteFine ==
    ASSUME NEW s, NEW known, Filed(s, known), NEW t \in TurnRead, s.booking.plan \in Plans,
           NEW convert
    PROVE  Fine(Quote(s, t, convert), known)
  <1>1. s \in StateRec /\ s.booking \in BookingDraft /\ Core(s, known)
    BY Kinds DEF StateRec
  <1>2. PICK n : n = t.prices[s.booking.plan]
    OBVIOUS
  <1>3. n \in Nat /\ s.booking.plan \in Nat
    BY <1>2, PlanPrice
  <1>4. PICK b : b = [s.booking EXCEPT !.price = n]
    OBVIOUS
  <1>5. b \in BookingDraft
    BY <1>1, <1>3, <1>4 DEF BookingDraft
  <1>6. PICK priced : priced = [s EXCEPT !.booking = b]
    OBVIOUS
  <1>7. Filed(priced, known) /\ Core(priced, known)
    BY <1>5, <1>6, BookingEffect, Kinds
  <1>8. priced = [s EXCEPT !.booking.price = t.prices[s.booking.plan]]
    BY <1>1, <1>2, <1>4, <1>6 DEF StateRec, BookingDraft
  <1>9. PICK asked : asked = [priced EXCEPT !.pending = "CONFIRM_AVAILABILITY_BOOKING"]
    OBVIOUS
  <1>10. Fine(asked, known)
    BY <1>7, <1>9, BookingAskedFine DEF BOOKING_ACTIONS
  <1>11. Fine(Ask(asked, "AVAILABLE"), known) /\ Fine(HandOff(asked, "TEMPLATE_UNAVAILABLE"), known)
    BY <1>10, AskKeeps, HandOffEffect, Kinds DEF Questions
  <1>12. Fine(HandOff(priced, "RESERVATION_CONFIRMATION"), known)
    BY <1>7, HandOffEffect, Kinds
  <1>13. Fine(ask_name([priced EXCEPT !.pending = "COLLECT_BOOKING_NAME"], t), known)
    <2>1. Fine([priced EXCEPT !.pending = "COLLECT_BOOKING_NAME"], known)
      BY <1>7, BookingAskedFine DEF BOOKING_ACTIONS
    <2> QED BY <2>1, AskNameFine
  <1>14. PICK last : last = [priced EXCEPT !.pending = "CONFIRM_BOOKING"]
    OBVIOUS
  <1>15. /\ Core(last, known) /\ last.pending = "CONFIRM_BOOKING" /\ last.state = priced.state
         /\ last.error = priced.error /\ last.booking = priced.booking
    <2>1. "CONFIRM_BOOKING" \in PendingAction
      BY HarmlessIsPending DEF Critical, BOOKING_ACTIONS
    <2> QED BY <1>7, <1>14, <2>1 DEF Core, StateRec, QuoteComplete
  <1>16. Fine(HandOff(last, "TEMPLATE_UNAVAILABLE"), known)
    BY <1>15, HandOffEffect, Kinds
  <1>17. PICK y : y = BookingSummary(priced)
    OBVIOUS
  <1>18. /\ y \in SummaryShown /\ y.of = "BOOKING_SUMMARY"
         /\ y.date = priced.booking.date /\ y.time = priced.booking.time
         /\ y.plan = priced.booking.plan /\ y.price = priced.booking.price
    <2>1. /\ priced.booking.date \in Nat /\ priced.booking.time \in Nat
          /\ priced.booking.price \in Nat /\ priced.booking.plan \in Nat
      <3>1. priced.booking = b
        BY <1>1, <1>6 DEF StateRec
      <3>2. b.plan = s.booking.plan
        BY <1>1, <1>4 DEF BookingDraft
      <3> QED BY <1>3, <1>5, <3>1, <3>2 DEF BookingDraft
    <2> QED BY <1>17, <2>1 DEF BookingSummary, SummaryShown, Summaries
  <1>19. PICK u : u = Show(last, y)
    OBVIOUS
  <1>20. /\ Core(u, known) /\ u.shown = y /\ u.state = last.state /\ u.pending = last.pending
         /\ u.booking = last.booking /\ u.error = last.error
    BY <1>15, <1>18, <1>19, ShowEffect
  <1>21. Failed(u) \/ Placed(u)
    BY <1>7, <1>15, <1>18, <1>20
       DEF Filed, Failed, Placed, VisitShown, NoTimeYet, Awaiting, BookingShown, InPlace,
           BOOKING_ACTIONS
  <1>22. Fine(u, known)
    BY <1>20, <1>21 DEF Fine
  <1>23. Quote(s, t, convert) =
            IF s.booking.inquiry
            THEN IF t.copy = "APPROVED" THEN Ask(asked, "AVAILABLE")
                 ELSE HandOff(asked, "TEMPLATE_UNAVAILABLE")
            ELSE IF convert /\ has_pending_request(s)
            THEN HandOff(priced, "RESERVATION_CONFIRMATION")
            ELSE IF ~s.name
            THEN ask_name([priced EXCEPT !.pending = "COLLECT_BOOKING_NAME"], t)
            ELSE IF t.copy # "APPROVED" THEN HandOff(last, "TEMPLATE_UNAVAILABLE") ELSE u
    BY <1>8, <1>9, <1>14, <1>17, <1>19 DEF Quote
  <1> QED BY <1>11, <1>12, <1>13, <1>16, <1>22, <1>23

\* continue_slots asks for what is missing, or shows the summary.
LEMMA SlotsFine ==
    ASSUME NEW s, NEW known, Filed(s, known), NEW t \in TurnRead, s.booking.plan \in Plans,
           NEW convert
    PROVE  Fine(continue_slots(s, t, convert), known)
  <1>1. Fine([s EXCEPT !.pending = "SELECT_BOOKING_DATETIME"], known)
        /\ Fine([s EXCEPT !.pending = "SELECT_BOOKING_TIME"], known)
    BY BookingAskedFine DEF BOOKING_ACTIONS
  <1>2. Fine(Ask([s EXCEPT !.pending = "SELECT_BOOKING_DATETIME"], "DATE_CONFIRM"), known)
        /\ Fine(HandOff([s EXCEPT !.pending = "SELECT_BOOKING_DATETIME"],
                        "RESERVATION_CONFIRMATION"), known)
    BY <1>1, AskKeeps, HandOffEffect, Kinds DEF Questions
  <1>3. Fine(Send([s EXCEPT !.pending = "SELECT_BOOKING_DATETIME"], t, "BOOKING_QUESTION"), known)
        /\ Fine(Send([s EXCEPT !.pending = "SELECT_BOOKING_TIME"], t, "BOOKING_QUESTION"), known)
    BY <1>1, SendFine DEF Questions
  <1>4. Fine(RefusedWindow(s, t), known) /\ Fine(Quote(s, t, convert), known)
        /\ Fine(ask_booking_datetime(s, t), known)
    BY RefusedFine, QuoteFine, AskDatetimeFine
  <1>5. Fine(HandOff(s, "SYSTEM_ERROR"), known)
    BY HandOffEffect, Kinds
  <1> QED BY <1>2, <1>3, <1>4, <1>5 DEF continue_slots

\* A date and a time are taken from the text; the plan stays.
LEMMA ConsumeTyped ==
    ASSUME NEW draft \in BookingDraft, NEW t \in TurnRead, NEW asked
    PROVE  /\ consume_date_time(draft, t, asked) \in BookingDraft
           /\ consume_date_time(draft, t, asked).plan = draft.plan
  <1>1. PICK d : d = IF HasDate(t) THEN t.day ELSE draft.date
    OBVIOUS
  <1>2. PICK n : n = IF HasDate(t) THEN needs_confirmation(t) ELSE draft.unsure
    OBVIOUS
  <1>3. PICK m : m = IF HeardTime(t, asked) THEN t.time ELSE draft.time
    OBVIOUS
  <1>4. d \in Nat /\ m \in Nat
    BY <1>1, <1>3, TurnFacts DEF BookingDraft
  <1>5. n \in BOOLEAN
    <2>1. draft.unsure \in BOOLEAN
      BY DEF BookingDraft
    <2>2. needs_confirmation(t) \in BOOLEAN
      BY DEF needs_confirmation
    <2>3. CASE HasDate(t)
      BY <1>2, <2>2, <2>3
    <2>4. CASE ~HasDate(t)
      BY <1>2, <2>1, <2>4
    <2> QED BY <2>3, <2>4
  <1>6. consume_date_time(draft, t, asked) = [draft EXCEPT !.date = d, !.unsure = n, !.time = m]
    BY <1>1, <1>2, <1>3 DEF consume_date_time, BookingDraft
  <1> QED BY <1>4, <1>5, <1>6 DEF BookingDraft

\* The plans offered in a turn are plans.
LEMMA PlansOfTurn ==
    ASSUME NEW t \in TurnRead, NEW s, NEW p,
           p \in plans_for_turn(s, t) \/ p \in {q \in DOMAIN t.prices : t.prices[q] # None}
    PROVE  p \in Plans
  BY TurnFacts DEF plans_for_turn

\* A booking starts in COLLECTING_EVENT_DATA.
LEMMA StartCaptureFiled ==
    ASSUME NEW s, NEW known, Core(s, known)
    PROVE  Filed(StartCapture(s), known)
  <1>1. Core(IF s.state = "NEW" THEN Go(s, "BOT_ACTIVE") ELSE s, known)
    BY Moves, Places, Kinds
  <1> QED BY <1>1, Moves, Places DEF StartCapture

\* It starts with a draft of what the message names.
LEMMA StartDraftTyped ==
    ASSUME NEW s \in StateRec, NEW t \in TurnRead, NEW inquiry \in BOOLEAN
    PROVE  StartDraft(s, t, inquiry) \in BookingDraft
  <1>1. PICK kept : kept = IF is_fixed_price_catalog_followup(s) \/ inquiry THEN s.booking
                           ELSE NoBooking
    OBVIOUS
  <1>2. kept \in BookingDraft
    BY <1>1, Blanks DEF StateRec
  <1>3. PICK i : i = (kept.inquiry \/ inquiry)
    OBVIOUS
  <1>4. i \in BOOLEAN
    BY <1>2, <1>3 DEF BookingDraft
  <1>5. [kept EXCEPT !.inquiry = i] \in BookingDraft
    BY <1>2, <1>4 DEF BookingDraft
  <1>6. StartDraft(s, t, inquiry) = consume_date_time([kept EXCEPT !.inquiry = i], t, FALSE)
    BY <1>1, <1>3 DEF StartDraft
  <1> QED BY <1>5, <1>6, ConsumeTyped

\* handle_booking_start, from any row.
LEMMA BookingStartFine ==
    ASSUME NEW s, NEW known, Core(s, known), NEW t \in TurnRead, NEW inquiry \in BOOLEAN
    PROVE  Fine(handle_booking_start(s, t, inquiry), known)
  <1>1. s \in StateRec
    BY Kinds
  <1>2. PICK a : a = [s EXCEPT !.proposal = NoProposal]
    OBVIOUS
  <1>3. PICK f : f = StartCapture(a)
    OBVIOUS
  <1>4. Filed(f, known) /\ f \in StateRec
    <2>1. Core(a, known)
      BY <1>1, <1>2, ProposalEffect, Blanks, LikeKeeps
    <2> QED BY <1>3, <2>1, StartCaptureFiled, Kinds
  <1>5. PICK d : d = StartDraft(s, t, inquiry)
    OBVIOUS
  <1>6. d \in BookingDraft
    BY <1>1, <1>5, StartDraftTyped
  <1>7. PICK begun : begun = [f EXCEPT !.booking = d, !.fails = 0, !.fields = << >>]
    OBVIOUS
  <1>8. Filed(begun, known) /\ begun \in StateRec /\ Core(begun, known) /\ begun.booking = d
    <2>1. PICK x : x = [f EXCEPT !.booking = d]
      OBVIOUS
    <2>2. Filed(x, known) /\ x \in StateRec /\ x.booking = d
      BY <1>4, <1>6, <2>1, BookingEffect, Kinds DEF StateRec
    <2>3. PICK y : y = [x EXCEPT !.fails = 0]
      OBVIOUS
    <2>4. Filed(y, known) /\ y \in StateRec /\ y.booking = d
      BY <2>2, <2>3, FailsEffect, LikeKeeps, Kinds DEF Like
    <2>5. PICK z : z = [y EXCEPT !.fields = << >>]
      OBVIOUS
    <2>6. Filed(z, known) /\ z \in StateRec /\ z.booking = d
      BY <2>4, <2>5, FieldsEffect, Blanks, LikeKeeps, Kinds DEF Like
    <2>7. begun = z
      BY <1>7, <2>1, <2>3, <2>5
    <2> QED BY <2>6, <2>7, Kinds
  <1>9. PICK c : c = apply_event_type(Capturing(begun), "FIXED")
    OBVIOUS
  <1>10. Filed(c, known) /\ c \in StateRec
    <2>1. Like(begun, Capturing(begun)) /\ Capturing(begun) \in StateRec
      BY <1>8, CapturingEffect DEF Like
    <2>2. Like(Capturing(begun), c)
      BY <1>9, <2>1, TypeEffect
    <2>3. Like(begun, c)
      BY <2>1, <2>2, LikeTransitive
    <2> QED BY <1>8, <2>3, LikeKeeps, Kinds
  <1>11. Fine(HandOff(s, "RESERVATION_CONFIRMATION"), known)
    BY HandOffEffect, Kinds
  <1>12. ASSUME t.plan \in Plans
         PROVE  Fine(continue_slots([c EXCEPT !.booking.plan = t.plan], t, FALSE), known)
    <2>1. PICK b : b = [c.booking EXCEPT !.plan = t.plan]
      OBVIOUS
    <2>2. b \in BookingDraft /\ b.plan = t.plan
      BY <1>10, <1>12, <2>1 DEF StateRec, BookingDraft
    <2>3. PICK u : u = [c EXCEPT !.booking = b]
      OBVIOUS
    <2>4. u = [c EXCEPT !.booking.plan = t.plan] /\ u.booking = b
      BY <1>10, <2>1, <2>3 DEF StateRec, BookingDraft
    <2>5. Filed(u, known)
      BY <1>10, <2>2, <2>3, BookingEffect, Kinds
    <2> QED BY <1>12, <2>2, <2>4, <2>5, SlotsFine
  <1>13. begun.booking.plan \in plans_for_turn(begun, t) =>
            Fine(continue_slots(begun, t, FALSE), known)
    BY <1>8, PlansOfTurn, SlotsFine
  <1>14. PICK typed : typed = IF inquiry /\ t.type = "FIXED" THEN c ELSE begun
    OBVIOUS
  <1>15. Filed(typed, known) /\ typed \in StateRec
    BY <1>8, <1>10, <1>14
  <1>16. PICK k : k = (typed.booking.pick \/ is_fixed_price_catalog_followup(s))
    OBVIOUS
  <1>17. Fine(ask_plan([typed EXCEPT !.booking.pick = k], t), known)
    <2>1. k \in BOOLEAN /\ typed.booking \in BookingDraft
      BY <1>15, <1>16 DEF StateRec, BookingDraft, is_fixed_price_catalog_followup
    <2>2. PICK b : b = [typed.booking EXCEPT !.pick = k]
      OBVIOUS
    <2>3. b \in BookingDraft
      BY <2>1, <2>2 DEF BookingDraft
    <2>4. Filed([typed EXCEPT !.booking = b], known)
      BY <1>15, <2>3, BookingEffect, Kinds
    <2>5. [typed EXCEPT !.booking = b] = [typed EXCEPT !.booking.pick = k]
      BY <1>15, <2>2 DEF StateRec, BookingDraft
    <2> QED BY <2>4, <2>5, AskPlanFine
  <1>18. t.plan \in {p \in DOMAIN t.prices : t.prices[p] # None} => t.plan \in Plans
    BY PlansOfTurn
  <1>19. handle_booking_start(s, t, inquiry) =
            IF ~is_fixed_price_catalog_followup(s) /\ ~inquiry /\ has_pending_request(s)
            THEN HandOff(s, "RESERVATION_CONFIRMATION")
            ELSE IF t.plan \in {p \in DOMAIN t.prices : t.prices[p] # None}
            THEN continue_slots([c EXCEPT !.booking.plan = t.plan], t, FALSE)
            ELSE IF inquiry /\ begun.booking.plan \in plans_for_turn(begun, t)
            THEN continue_slots(begun, t, FALSE)
            ELSE ask_plan([typed EXCEPT !.booking.pick = k], t)
    BY <1>2, <1>3, <1>5, <1>7, <1>9, <1>14, <1>16 DEF handle_booking_start
  <1> QED BY <1>11, <1>12, <1>13, <1>17, <1>18, <1>19

(***************************************************************************)
(* The steps of a booking                                                  *)
(***************************************************************************)
\* A step of a booking is answered in COLLECTING_EVENT_DATA.
LEMMA FiledStep ==
    ASSUME NEW s, NEW known, Fine(s, known), s.error = "NONE", s.pending \in BOOKING_ACTIONS
    PROVE  Filed(s, known) /\ s.state = "COLLECTING_EVENT_DATA"
  BY DEF Fine, Failed, Filed, Placed, InPlace

\* An answer that is not understood repeats the question or calls a human.
LEMMA NotUnderstoodFine ==
    ASSUME NEW s, NEW known, Fine(s, known), s.error = "NONE", s.pending \in BOOKING_ACTIONS,
           NEW t \in TurnRead, s.pending = "SELECT_BOOKING_PLAN" \/ s.booking.plan \in Plans
    PROVE  Fine(not_understood(s, t), known)
  <1>1. s \in StateRec /\ Core(s, known) /\ Filed(s, known)
    BY FiledStep, Kinds
  <1>2. PICK h : h = CountFailure(s)
    OBVIOUS
  <1>3. Like(s, h) /\ h.booking = s.booking
    BY <1>1, <1>2, CountEffect DEF Like
  <1>4. Fine(h, known) /\ Filed(h, known) /\ Core(h, known)
    BY <1>1, <1>3, LikeKeeps
  <1>5. Fine(HandOff(h, "LOW_CONFIDENCE"), known)
    BY <1>4, HandOffEffect, Kinds
  <1>6. Fine(ask_plan(h, t), known)
    BY <1>4, AskPlanFine
  <1>7. s.booking.plan \in Plans => Fine(continue_slots(h, t, FALSE), known)
    BY <1>3, <1>4, SlotsFine
  <1>8. Fine(Send(h, t, "BOOKING_QUESTION"), known)
    BY <1>4, SendFine DEF Questions
  <1> QED BY <1>2, <1>5, <1>6, <1>7, <1>8 DEF not_understood

\* A booking goes on with a changed draft.
LEMMA PlannedSlots ==
    ASSUME NEW s, NEW known, Filed(s, known), NEW b \in BookingDraft, b.plan \in Plans,
           NEW t \in TurnRead, NEW convert
    PROVE  /\ Fine(continue_slots([s EXCEPT !.booking = b, !.fails = 0], t, convert), known)
           /\ Fine(continue_slots([s EXCEPT !.booking = b], t, convert), known)
  <1>1. s \in StateRec
    BY Kinds
  <1>2. PICK x : x = [s EXCEPT !.booking = b]
    OBVIOUS
  <1>3. Filed(x, known) /\ x \in StateRec /\ x.booking = b
    BY <1>1, <1>2, BookingEffect, Kinds DEF StateRec
  <1>4. PICK y : y = [x EXCEPT !.fails = 0]
    OBVIOUS
  <1>5. Filed(y, known) /\ y.booking = b
    BY <1>3, <1>4, FailsEffect, LikeKeeps, Kinds DEF Like
  <1>6. y = [s EXCEPT !.booking = b, !.fails = 0]
    BY <1>2, <1>4
  <1> QED BY <1>2, <1>3, <1>5, <1>6, SlotsFine

\* A plan is chosen.
LEMMA StepPlanFine ==
    ASSUME NEW s, NEW known, Fine(s, known), s.error = "NONE", s.pending = "SELECT_BOOKING_PLAN",
           NEW t \in TurnRead
    PROVE  Fine(StepPlan(s, t), known)
  <1>1. s \in StateRec /\ Filed(s, known) /\ s.booking \in BookingDraft
    BY FiledStep, Kinds DEF StateRec, BOOKING_ACTIONS
  <1>2. CASE t.plan \in plans_for_turn(s, t)
    <2>1. t.plan \in Plans
      BY <1>2, PlansOfTurn
    <2>2. PICK b : b = [s.booking EXCEPT !.plan = t.plan, !.pick = FALSE]
      OBVIOUS
    <2>3. b \in BookingDraft /\ b.plan \in Plans
      BY <1>1, <2>1, <2>2 DEF BookingDraft
    <2>4. [s EXCEPT !.booking = b, !.fails = 0] =
          [s EXCEPT !.booking.plan = t.plan, !.booking.pick = FALSE, !.fails = 0]
      BY <1>1, <2>2 DEF StateRec, BookingDraft
    <2> QED BY <1>1, <1>2, <2>3, <2>4, PlannedSlots DEF StepPlan
  <1>3. Fine(ask_plan(s, t), known)
    BY <1>1, AskPlanFine
  <1>4. Fine(not_understood(s, t), known)
    BY NotUnderstoodFine DEF BOOKING_ACTIONS
  <1> QED BY <1>2, <1>3, <1>4 DEF StepPlan

\* The name a booking is made under.
LEMMA StepNameFine ==
    ASSUME NEW s, NEW known, Fine(s, known), s.error = "NONE", s.pending \in BOOKING_ACTIONS,
           NEW t \in TurnRead, s.booking.plan \in Plans
    PROVE  Fine(StepName(s, t), known)
  <1>1. s \in StateRec /\ Filed(s, known) /\ Core(s, known)
    BY FiledStep, Kinds
  <1>2. PICK h : h = CountFailure(s)
    OBVIOUS
  <1>3. Fine(h, known) /\ Core(h, known)
    BY <1>1, <1>2, CountEffect, LikeKeeps
  <1>4. Fine(HandOff(h, "LOW_CONFIDENCE"), known) /\ Fine(ask_name(h, t), known)
    BY <1>3, HandOffEffect, AskNameFine, Kinds
  <1>5. PICK u : u = [s EXCEPT !.name = TRUE, !.fails = 0]
    OBVIOUS
  <1>6. Like(s, u)
    <2>1. 0 \in 0..3
      OBVIOUS
    <2> QED BY <1>1, <1>5, <2>1 DEF Like, StateRec, QuoteComplete
  <1>7. Filed(u, known) /\ u.booking = s.booking
    BY <1>1, <1>6, LikeKeeps DEF Like
  <1>8. Fine(continue_slots(u, t, FALSE), known)
    BY <1>7, SlotsFine
  <1> QED BY <1>2, <1>4, <1>5, <1>8 DEF StepName

\* The reservation is requested as it was shown, at the price that was shown.
LEMMA ReserveFine ==
    ASSUME NEW s, NEW known, Fine(s, known), s.error = "NONE", s.pending = "CONFIRM_BOOKING",
           NEW t \in TurnRead, s.booking.plan \in Plans,
           s.booking.price = t.prices[s.booking.plan]
    PROVE  Fine(Reserve(s, t), known)
  <1>1. s \in StateRec /\ Core(s, known) /\ Placed(s)
    BY Kinds DEF Fine, Failed
  <1>2. /\ s.shown.date = s.booking.date /\ s.shown.time = s.booking.time
        /\ s.shown.plan = s.booking.plan /\ s.shown.price = s.booking.price
        /\ s.shown.of = "BOOKING_SUMMARY"
    BY <1>1 DEF Placed, BookingShown
  <1>3. PICK c : c = Capturing(s)
    OBVIOUS
  <1>4. Like(s, c) /\ c \in StateRec /\ c.shown = s.shown /\ c.pending = s.pending
    BY <1>1, <1>3, CapturingEffect DEF Like
  <1>5. PICK called : called = Call(c, "RESERVE", s.booking.date, s.booking.time, s.booking.plan,
                                    t.prices[s.booking.plan])
    OBVIOUS
  <1>6. /\ called \in StateRec /\ called.state = c.state /\ called.error = c.error
        /\ called.event = c.event /\ called.name = c.name /\ called.quote = c.quote
    <2>1. PICK b : b = s.booking
      OBVIOUS
    <2>2. PICK price : price = t.prices[b.plan]
      OBVIOUS
    <2>3. PICK call : call = "RESERVE"
      OBVIOUS
    <2>4. b.date \in Nat /\ b.time \in Nat /\ b.plan \in Nat /\ price \in Nat
      BY <1>1, <2>1, <2>2, PlanPrice DEF StateRec, BookingDraft
    <2>5. /\ b.date = c.shown.date /\ b.time = c.shown.time
          /\ b.plan = c.shown.plan /\ price = c.shown.price
      BY <1>2, <1>4, <2>1, <2>2
    <2>6. MayCall(c, call, b.date, b.time, b.plan, price)
      BY <1>2, <1>4, <2>3, <2>4, <2>5
         DEF MayCall, Calls, QuestionsFor, ConfirmActionFor, SummaryFor
    <2>7. called = Call(c, call, b.date, b.time, b.plan, price)
      BY <1>5, <2>1, <2>2, <2>3
    <2> QED BY <2>6, <2>7, CallTyped
  <1>7. Core(called, known)
    <2>1. Core(c, known)
      BY <1>1, <1>4, LikeKeeps
    <2> QED BY <1>6, <2>1 DEF Core, QuoteComplete
  <1>8. PICK done :
           done = [called EXCEPT !.request = TRUE, !.booking = NoBooking, !.pending = "NONE"]
    OBVIOUS
  <1>9. Core(done, known) /\ done.pending = "NONE"
    <2>1. PICK x : x = [called EXCEPT !.request = TRUE]
      OBVIOUS
    <2>2. Core(x, known)
      BY <1>6, <1>7, <2>1, RequestEffect, LikeKeeps
    <2>3. PICK y : y = [x EXCEPT !.booking = NoBooking]
      OBVIOUS
    <2>4. Core(y, known) /\ y \in StateRec
      BY <2>2, <2>3, BookingEffect, Blanks, Kinds
    <2>5. done = [y EXCEPT !.pending = "NONE"]
      BY <1>8, <2>1, <2>3
    <2>6. Core(done, known)
      BY <2>4, <2>5, PendingEffect DEF Harmless
    <2> QED BY <2>4, <2>5, <2>6 DEF StateRec
  <1>10. PICK g : g = Go(done, "BOT_ACTIVE")
    OBVIOUS
  <1>11. Idle(g, known)
    <2>1. "BOT_ACTIVE" \in ConversationState /\ "BOT_ACTIVE" \in Elsewhere
      BY Places
    <2>2. Gone(g, known)
      BY <1>9, <1>10, <2>1, Moves
    <2>3. g = [done EXCEPT !.state = "BOT_ACTIVE"]
          \/ g = [done EXCEPT !.error = "InvalidStateTransition"]
      BY <1>10 DEF Go, Raise
    <2>4. g.pending = done.pending
      BY <1>9, <2>3 DEF Core, StateRec
    <2>5. "NONE" \notin Critical
      BY HarmlessIsNotCritical DEF Harmless
    <2> QED BY <1>9, <2>2, <2>4, <2>5 DEF Idle
  <1>12. Fine(Send(g, t, "ANSWER"), known)
    BY <1>11, SendFine, Kinds DEF Questions
  <1> QED BY <1>3, <1>5, <1>8, <1>10, <1>12 DEF Reserve

\* A confirmed booking: a price that changed since is quoted again, not reserved.
LEMMA ConfirmBookingFine ==
    ASSUME NEW s, NEW known, Fine(s, known), s.error = "NONE", s.pending = "CONFIRM_BOOKING",
           NEW t \in TurnRead, s.booking.plan \in Plans
    PROVE  Fine(ConfirmBooking(s, t), known)
  <1>1. Filed(s, known) /\ Core(s, known)
    BY FiledStep, Kinds DEF BOOKING_ACTIONS
  <1>2. Fine(continue_slots(s, t, FALSE), known)
    BY <1>1, SlotsFine
  <1>3. \A reason : Fine(HandOff(s, reason), known)
    BY <1>1, HandOffEffect, Kinds
  <1>4. Fine(RefusedWindow(s, t), known) /\ Fine(ask_booking_datetime(s, t), known)
    BY <1>1, RefusedFine, AskDatetimeFine
  <1>5. s.booking.price = t.prices[s.booking.plan] => Fine(Reserve(s, t), known)
    BY ReserveFine
  <1> QED BY <1>2, <1>3, <1>4, <1>5 DEF ConfirmBooking

\* A draft of which only the plan is kept.
LEMMA OnlyPlanTyped ==
    ASSUME NEW s \in StateRec
    PROVE  /\ [NoBooking EXCEPT !.plan = s.booking.plan] \in BookingDraft
           /\ [NoBooking EXCEPT !.plan = s.booking.plan].plan = s.booking.plan
  <1>1. s.booking.plan \in Plans \cup {None}
    BY DEF StateRec, BookingDraft
  <1> QED BY <1>1 DEF NoBooking, BookingDraft, None

\* The answer to the summary of a booking.
LEMMA StepConfirmFine ==
    ASSUME NEW s, NEW known, Fine(s, known), s.error = "NONE", s.pending = "CONFIRM_BOOKING",
           NEW t \in TurnRead, s.booking.plan \in Plans
    PROVE  Fine(StepConfirm(s, t), known)
  <1>1. Filed(s, known) /\ Core(s, known) /\ s \in StateRec
    BY FiledStep, Kinds DEF BOOKING_ACTIONS
  <1>2. Fine(continue_slots(s, t, FALSE), known)
    BY <1>1, SlotsFine
  <1>3. Fine(continue_slots([s EXCEPT !.booking = [NoBooking EXCEPT !.plan = s.booking.plan],
                                      !.fails = 0], t, FALSE), known)
    BY <1>1, OnlyPlanTyped, PlannedSlots
  <1>4. Fine(ConfirmBooking(s, t), known)
    BY ConfirmBookingFine
  <1>5. Fine(not_understood(s, t), known)
    BY NotUnderstoodFine DEF BOOKING_ACTIONS
  <1> QED BY <1>2, <1>3, <1>4, <1>5 DEF StepConfirm

\* The answer to the date and time questions.
LEMMA StepDateTimeFine ==
    ASSUME NEW s, NEW known, Fine(s, known), s.error = "NONE", s.pending \in BOOKING_ACTIONS,
           NEW t \in TurnRead, s.booking.plan \in Plans
    PROVE  Fine(StepDateTime(s, t), known)
  <1>1. Filed(s, known) /\ Core(s, known) /\ s \in StateRec /\ s.booking \in BookingDraft
    BY FiledStep, Kinds DEF StateRec
  <1>2. PICK asked : asked = (s.pending = "SELECT_BOOKING_TIME")
    OBVIOUS
  <1>3. Fine(continue_slots([s EXCEPT !.booking.unsure = FALSE, !.fails = 0], t, FALSE), known)
    <2>1. PICK b : b = [s.booking EXCEPT !.unsure = FALSE]
      OBVIOUS
    <2>2. b \in BookingDraft /\ b.plan \in Plans
      BY <1>1, <2>1 DEF BookingDraft
    <2>3. [s EXCEPT !.booking = b, !.fails = 0] = [s EXCEPT !.booking.unsure = FALSE, !.fails = 0]
      BY <1>1, <2>1 DEF StateRec, BookingDraft
    <2> QED BY <1>1, <2>2, <2>3, PlannedSlots
  <1>4. Fine(continue_slots([s EXCEPT !.booking = [NoBooking EXCEPT !.plan = s.booking.plan],
                                      !.fails = 0], t, FALSE), known)
    BY <1>1, OnlyPlanTyped, PlannedSlots
  <1>5. Fine(not_understood(s, t), known)
    BY NotUnderstoodFine
  <1>6. PICK b : b = consume_date_time(s.booking, t, asked)
    OBVIOUS
  <1>7. b \in BookingDraft /\ b.plan = s.booking.plan
    BY <1>1, <1>6, ConsumeTyped
  <1>8. Fine(continue_slots([s EXCEPT !.booking = b, !.fails = 0], t, FALSE), known)
    BY <1>1, <1>7, PlannedSlots
  <1>9. StepDateTime(s, t) =
            IF s.booking.unsure /\ t.says \in AFFIRMATIONS
            THEN continue_slots([s EXCEPT !.booking.unsure = FALSE, !.fails = 0], t, FALSE)
            ELSE IF s.booking.unsure /\ t.says \in DENIALS
            THEN continue_slots([s EXCEPT !.booking = [NoBooking EXCEPT !.plan = s.booking.plan],
                                          !.fails = 0], t, FALSE)
            ELSE IF ~Consumes(t, asked) THEN not_understood(s, t)
            ELSE continue_slots([s EXCEPT !.booking = b, !.fails = 0], t, FALSE)
    BY <1>2, <1>6 DEF StepDateTime
  <1> QED BY <1>3, <1>4, <1>5, <1>8, <1>9

\* handle_booking_step.
LEMMA BookingStepFine ==
    ASSUME NEW s, NEW known, Fine(s, known), s.error = "NONE", s.pending \in BOOKING_ACTIONS,
           NEW t \in TurnRead
    PROVE  Fine(handle_booking_step(s, t), known)
  <1>1. Filed(s, known) /\ Core(s, known) /\ s \in StateRec /\ s.booking \in BookingDraft
    BY FiledStep, Kinds DEF StateRec
  <1>2. Fine(HandOff(s, "RESERVATION_CONFIRMATION"), known) /\ Fine(ask_plan(s, t), known)
    BY <1>1, HandOffEffect, AskPlanFine, Kinds
  <1>3. s.pending = "SELECT_BOOKING_PLAN" => Fine(StepPlan(s, t), known)
    BY StepPlanFine
  <1>4. CASE s.booking.plan \in plans_for_turn(s, t)
    <2>1. s.booking.plan \in Plans
      BY <1>4, PlansOfTurn
    <2>2. Fine(StepName(s, t), known) /\ Fine(StepDateTime(s, t), known)
      BY <2>1, StepNameFine, StepDateTimeFine
    <2>3. s.pending = "CONFIRM_BOOKING" => Fine(StepConfirm(s, t), known)
      BY <2>1, StepConfirmFine
    <2>4. Fine(continue_slots([s EXCEPT !.booking.inquiry = FALSE], t, TRUE), known)
      <3>1. PICK b : b = [s.booking EXCEPT !.inquiry = FALSE]
        OBVIOUS
      <3>2. b \in BookingDraft /\ b.plan \in Plans
        BY <1>1, <2>1, <3>1 DEF BookingDraft
      <3>3. [s EXCEPT !.booking = b] = [s EXCEPT !.booking.inquiry = FALSE]
        BY <1>1, <3>1 DEF StateRec, BookingDraft
      <3> QED BY <1>1, <3>2, <3>3, PlannedSlots
    <2> QED BY <1>2, <1>3, <1>4, <2>2, <2>3, <2>4 DEF handle_booking_step
  <1> QED BY <1>2, <1>3, <1>4 DEF handle_booking_step

\* An inquiry that is not turned into a booking leaves an open row.
LEMMA DeclinedOpen ==
    ASSUME NEW s, NEW known, Fine(s, known), s.error = "NONE", s.pending \in BOOKING_ACTIONS
    PROVE  Open(Declined(s), known)
  <1>1. /\ Filed(s, known) /\ s.state = "COLLECTING_EVENT_DATA" /\ s \in StateRec
        /\ s.booking \in BookingDraft
    BY FiledStep, Kinds DEF StateRec
  <1>2. PICK b : b = [s.booking EXCEPT !.inquiry = FALSE]
    OBVIOUS
  <1>3. b \in BookingDraft
    BY <1>1, <1>2 DEF BookingDraft
  <1>4. PICK x : x = [s EXCEPT !.booking = b]
    OBVIOUS
  <1>5. Gone(x, known) /\ x \in StateRec /\ x.error = "NONE"
    BY <1>1, <1>3, <1>4, BookingEffect, Kinds DEF StateRec
  <1>6. PICK u : u = [x EXCEPT !.pending = "NONE"]
    OBVIOUS
  <1>7. Idle(u, known) /\ u.error = "NONE" /\ u.pending = "NONE"
    BY <1>5, <1>6, PendingEffect, Kinds DEF Harmless, StateRec
  <1>8. u = Declined(s)
    BY <1>1, <1>2, <1>4, <1>6 DEF Declined, StateRec, BookingDraft
  <1> QED BY <1>7, <1>8, Kinds DEF Open, BOOKING_ACTIONS

(***************************************************************************)
(* From the message to its handler                                         *)
(***************************************************************************)
\* route_classification, for every intent in every state.
LEMMA RouteFine ==
    ASSUME NEW s, NEW known, Fine(s, known), s.error = "NONE", NEW t \in TurnRead, NEW counted,
           s.pending \notin BOOKING_ACTIONS \/ t.intent \in SENSITIVE_HANDOFF_INTENTS
    PROVE  Fine(route_classification(s, t, counted), known)
  <1>1. Core(s, known)
    BY Kinds
  <1>2. Fine(Ask(s, "FALLBACK"), known)
    BY <1>1, AskKeeps DEF Questions
  <1>3. \A reason : Fine(HandOff(s, reason), known)
    BY <1>1, HandOffEffect, Kinds
  <1>4. CASE t.intent \in SENSITIVE_HANDOFF_INTENTS
    BY <1>2, <1>3, <1>4 DEF route_classification
  <1>5. CASE t.intent \notin SENSITIVE_HANDOFF_INTENTS /\ s.state \in APPOINTMENT_FLOW_STATES
    <2>1. Open(s, known)
      BY <1>5 DEF Open
    <2>2. Fine(handle_appointment_flow_state(s, t), known)
      BY <1>5, <2>1, FlowFine
    <2> QED BY <1>2, <1>5, <2>2 DEF route_classification
  <1>6. CASE t.intent \notin SENSITIVE_HANDOFF_INTENTS /\ s.state \notin APPOINTMENT_FLOW_STATES
    <2>1. Open(s, known)
      BY <1>6 DEF Open
    <2>2. Idle(s, known) /\ Gone(s, known)
      BY <1>6, <2>1, OpenIsIdle, Kinds DEF APPOINTMENT_FLOW_STATES
    <2>3. s.pending = "CONFIRM_VISIT_CANCELLATION" =>
              Fine(handle_visit_cancellation_confirmation(s, t), known)
      BY <2>2, CancellationFine
    <2>4. Fine(handle_collecting_event_data(s, t), known)
      BY <2>2, CollectingIdle, Kinds
    <2>5. Fine(handle_visit_intent(s, t), known)
      BY <1>1, <2>2, VisitIntentFine DEF Gone
    <2>6. Fine(handle_greeting(s), known) /\ Fine(handle_farewell(s), known)
      BY <2>2, GreetingIdle, FarewellIdle, Kinds
    <2>7. Fine(handle_general_information(s, t, counted, FALSE), known)
      BY <2>2, InformationIdle, Kinds
    <2>8. Fine(handle_unknown(s, counted), known)
      BY <2>2, UnknownIdle, Kinds
    <2>9. Fine(handle_quote_request_ready(s, t), known)
      BY <2>2, QuoteReadyIdle, Kinds
    <2> QED BY <1>2, <1>3, <1>6, <2>3, <2>4, <2>5, <2>6, <2>7, <2>8, <2>9
            DEF route_classification
  <1> QED BY <1>4, <1>5, <1>6

\* resolve_pending_confirmation drops or accepts a proposal.
LEMMA ResolvedOpen ==
    ASSUME NEW s, NEW known, Open(s, known), NEW t \in TurnRead
    PROVE  LET r == resolve_pending_confirmation(s, t) IN
           Open(r.s, known) /\ r.t \in TurnRead
  <1>1. s \in StateRec /\ Core(s, known) /\ Fine(s, known) /\ s.error = "NONE"
    BY Kinds DEF Open
  <1>2. PICK dropped : dropped = [s EXCEPT !.proposal = NoProposal]
    OBVIOUS
  <1>3. Like(s, dropped)
    BY <1>1, <1>2, Blanks, ProposalEffect
  <1>4. Open(dropped, known)
    BY <1>3, OpenLike
  <1>5. Open(Pend(dropped, "NONE"), known)
    BY <1>4, OpenByPend DEF Open
  <1>6. ReadAs(t, s.proposal.reading) \in TurnRead
    <2>1. s.proposal.reading \in ReadingMade
      BY <1>1 DEF StateRec, ProposalMade
    <2> QED BY <2>1, ReadAsTyped
  <1>7. PICK r : r = resolve_pending_confirmation(s, t)
    OBVIOUS
  <1>8. PICK read : read = ReadAs(t, s.proposal.reading)
    OBVIOUS
  <1>9. PICK pended : pended = Pend(dropped, "NONE")
    OBVIOUS
  <1>10. \/ r = Resolution(s, t, FALSE)
         \/ r = Resolution(dropped, t, FALSE)
         \/ r = Resolution(pended, read, TRUE)
    BY <1>2, <1>7, <1>8, <1>9 DEF resolve_pending_confirmation
  <1>11. /\ r.s = s \/ r.s = dropped \/ r.s = pended
         /\ r.t = t \/ r.t = read
    BY <1>10 DEF Resolution
  <1>12. Open(r.s, known)
    BY <1>4, <1>5, <1>9, <1>11
  <1>13. r.t \in TurnRead
    BY <1>6, <1>8, <1>11
  <1> QED BY <1>7, <1>12, <1>13

\* A doubtful reading is proposed; the row stays fine, its visit summary too.
LEMMA AskConfirmationFine ==
    ASSUME NEW s, NEW known, Fine(s, known), NEW t \in TurnRead
    PROVE  Fine(AskConfirmation(s, t), known)
  <1>1. s \in StateRec /\ Core(s, known)
    BY Kinds
  <1>2. PICK noted : noted = IF t.rejects # << >> THEN RejectEntities(s, t)
                             ELSE Propose(s, "CLASSIFICATION", Reading(t))
    OBVIOUS
  <1>3. Like(s, noted)
    BY <1>1, <1>2, RejectLike, ProposeEffect, ReadingTyped
  <1>4. Fine(noted, known)
    BY <1>1, <1>3, LikeKeeps
  <1>5. Fine(PendAndAsk(noted, "CLASSIFY_MESSAGE", "FALLBACK"), known)
    BY <1>4, NoneDisplaces, PendAndAskIdle DEF Harmless, Questions
  <1> QED BY <1>2, <1>5 DEF AskConfirmation

\* A reading is proposed, applied, or taken as unknown.
LEMMA ByConfidenceFine ==
    ASSUME NEW r, NEW known, Open(r.s, known), r.t \in TurnRead, NEW counted
    PROVE  Fine(ByConfidence(r, counted), known)
  <1>1. Fine(AskConfirmation(r.s, r.t), known)
    BY AskConfirmationFine DEF Open
  <1>2. PICK t : t = IF r.uplifted \/ r.t.band # "LOW" THEN r.t
                     ELSE [r.t EXCEPT !.intent = "UNKNOWN"]
    OBVIOUS
  <1>3. t \in TurnRead
    BY <1>2, IntentTyped DEF Intents
  <1>4. Fine(route_classification(r.s, t, counted), known)
    BY <1>3, RouteFine DEF Open
  <1> QED BY <1>1, <1>2, <1>4 DEF ByConfidence

\* A yes or no to a pending confirmation replaces the reading.
LEMMA ContextualTyped ==
    ASSUME NEW s, NEW t \in TurnRead
    PROVE  Contextual(s, t) \in TurnRead
  <1>1. PICK answer : answer = resolve_contextual_confirmation(s, t)
    OBVIOUS
  <1>2. answer \in {"NONE", "CONFIRM", "DENY"}
    BY <1>1 DEF resolve_contextual_confirmation
  <1>3. CASE answer = "NONE"
    BY <1>1, <1>3 DEF Contextual
  <1>4. CASE answer # "NONE"
    <2>1. answer \in Intents
      BY <1>2, <1>4 DEF Intents
    <2>2. PICK r : r = [NoReading EXCEPT !.intent = answer, !.band = "SAFE"]
      OBVIOUS
    <2>3. r \in ReadingMade
      <3>1. PICK x : x = [NoReading EXCEPT !.intent = answer]
        OBVIOUS
      <3>2. x \in ReadingMade
        BY <1>2, <2>1, <3>1, Blanks DEF ReadingMade
      <3>3. r = [x EXCEPT !.band = "SAFE"]
        BY <2>2, <3>1
      <3> QED BY <3>2, <3>3 DEF ReadingMade
    <2>4. ReadAs(t, r) \in TurnRead
      BY <2>3, ReadAsTyped
    <2> QED BY <1>1, <1>4, <2>2, <2>4 DEF Contextual
  <1> QED BY <1>3, <1>4

\* The way of a message the deterministic readers did not take.
LEMMA UnderstandFine ==
    ASSUME NEW s, NEW known, Open(s, known), NEW told \in TurnRead
    PROVE  Fine(Understand(s, told), known)
  <1>1. Core(s, known) /\ Fine(s, known)
    BY Kinds DEF Open
  <1>2. Fine(Ask(s, "FALLBACK"), known)
    BY <1>1, AskKeeps DEF Questions
  <1>3. Fine(handle_failed_services_resolution(s), known)
    BY <1>1, FailedServicesFine
  <1>4. PICK t : t = Contextual(s, told)
    OBVIOUS
  <1>5. t \in TurnRead
    BY <1>4, ContextualTyped
  <1>6. PICK catalog : catalog = resolve_catalog_event_type_capture(s, t)
    OBVIOUS
  <1>7. IF catalog.handled THEN Fine(catalog.s, known) ELSE Open(catalog.s, known)
    BY <1>6, CatalogCaptureOpen
  <1>8. CASE catalog.handled
    BY <1>2, <1>3, <1>4, <1>6, <1>7, <1>8 DEF Understand
  <1>9. CASE ~catalog.handled
    <2>1. PICK r : r = resolve_pending_confirmation(catalog.s, t)
      OBVIOUS
    <2>2. Open(r.s, known) /\ r.t \in TurnRead
      BY <1>5, <1>7, <1>9, <2>1, ResolvedOpen
    <2>3. Fine(ByConfidence(r, catalog.counted), known)
      BY <2>2, ByConfidenceFine
    <2> QED BY <1>2, <1>3, <1>4, <1>6, <1>9, <2>1, <2>3 DEF Understand
  <1> QED BY <1>8, <1>9

\* handle_fixed_price_booking calls a human.
LEMMA FixedPriceFine ==
    ASSUME NEW s, NEW known, Core(s, known), NEW t \in TurnRead
    PROVE  Fine(handle_fixed_price_booking(s, t), known)
  <1>1. PICK d : d = (s.event.date \/ t.date = "EXACT")
    OBVIOUS
  <1>2. s \in StateRec /\ s.event \in EventRow /\ s.event.date \in BOOLEAN
    BY DEF Core, StateRec, EventRow
  <1>3. d \in BOOLEAN /\ (s.event.date => d)
    BY <1>1, <1>2
  <1>4. PICK e : e = [s.event EXCEPT !.date = d]
    OBVIOUS
  <1>5. e \in EventRow /\ e.type = s.event.type /\ e.guests = s.event.guests /\ e.date = d
    BY <1>2, <1>3, <1>4 DEF EventRow
  <1>6. PICK u : u = [s EXCEPT !.event = e]
    OBVIOUS
  <1>7. Core(u, known)
    BY <1>2, <1>3, <1>5, <1>6 DEF Core, StateRec, QuoteComplete
  <1>8. u = [s EXCEPT !.event.date = s.event.date \/ t.date = "EXACT"]
    BY <1>1, <1>2, <1>4, <1>6 DEF StateRec, EventRow
  <1>9. Fine(HandOff(u, "RESERVATION_CONFIRMATION"), known)
    BY <1>7, HandOffEffect, Kinds
  <1> QED BY <1>8, <1>9 DEF handle_fixed_price_booking

\* _orchestrate_inbound_message leaves a fine row: every handler at once.
LEMMA OrchestrateFine ==
    ASSUME NEW s, NEW known, Fine(s, known), s.error = "NONE", NEW t \in TurnRead,
           t.route = "LODGING" => Idle(s, known),
           t.route = "HUMAN" => t.intent = "HUMAN_REQUEST"
    PROVE  Fine(orchestrate(s, t), known)
  <1>1. Core(s, known)
    BY Kinds
  <1>2. Fine(handle_ai_unavailable(s, t), known)
    BY UnavailableFine
  <1>3. /\ Fine(handle_booking_start(s, t, FALSE), known)
        /\ Fine(handle_booking_start(s, t, TRUE), known)
    BY <1>1, BookingStartFine
  <1>4. t.route = "LODGING" => Fine(handle_general_information(s, t, FALSE, TRUE), known)
    BY InformationIdle, Kinds
  <1>5. Fine(handle_fixed_price_booking(s, t), known)
    BY <1>1, FixedPriceFine
  <1>6. t.route = "HUMAN" => Fine(route_classification(s, t, FALSE), known)
    BY RouteFine DEF SENSITIVE_HANDOFF_INTENTS
  <1>7. s.pending \in BOOKING_ACTIONS =>
            Fine(handle_booking_step(s, t), known) /\ Fine(Understand(Declined(s), t), known)
    BY BookingStepFine, DeclinedOpen, UnderstandFine
  <1>8. s.pending \notin BOOKING_ACTIONS => Fine(Understand(s, t), known)
    BY UnderstandFine DEF Open
  <1> QED BY <1>2, <1>3, <1>4, <1>5, <1>6, <1>7, <1>8 DEF orchestrate

\* A message is read as a lodging question only where the booking guard allows it.
LEMMA LodgingReading ==
    ASSUME NEW s, NEW t, classify_message(s, t), t.route = "LODGING"
    PROVE  booking_guard_eligible(s, TRUE)
  <1>1. t.route \in BookingReadings(s, t)
    BY DEF classify_message
  <1> QED BY <1>1 DEF BookingReadings

\* Where the guard allows it, no summary is awaited.
LEMMA EligibleIsIdle ==
    ASSUME NEW s, NEW known, Core(s, known), booking_guard_eligible(s, TRUE)
    PROVE  Idle(s, known)
  <1>1. /\ s.state \in {"BOT_ACTIVE", "ANSWERING_INFORMATION", "NEW", "COLLECTING_EVENT_DATA"}
        /\ s.pending \in GENERIC_CAPTURE_ACTIONS \cup {"NONE", "CLASSIFY_MESSAGE"}
    BY DEF booking_guard_eligible
  <1>2. s.pending \in Harmless
    BY <1>1 DEF Harmless, GENERIC_CAPTURE_ACTIONS, NAME_ACTIONS
  <1>3. /\ s.state # "APPOINTMENT_PENDING_CONFIRMATION"
        /\ s.state \notin Awaiting
    BY <1>1 DEF Awaiting
  <1> QED BY <1>2, <1>3, HarmlessIsNotCritical DEF Idle, Gone, Away, NoTimeYet

\* The human route carries the intent of a human request.
LEMMA HumanReading ==
    ASSUME NEW s, NEW t, classify_message(s, t), t.route = "HUMAN"
    PROVE  t.intent = "HUMAN_REQUEST"
  BY DEF classify_message

(***************************************************************************)
(* The rows of the tables                                                  *)
(***************************************************************************)
\* A row of the conversations table.
ConversationRec ==
    [state : ConversationState, pending : PendingAction, question : Questions,
     proposal : ProposalMade, fails : 0..3, svc : 0..1, fields : FieldList, visit : VisitDraft,
     booking : BookingDraft, event : EventRow, quote : {"NONE", "DRAFT", "READY"},
     shown : SummaryShown, did : CallMade, error : Errors, queue : 0..MaxBacklog]

\* The row of the customer.
CustomerRec == [name : BOOLEAN, visits : 0..2, request : BOOLEAN]

\* A quote that went to the staff is complete.
Quoted(c, named) ==
    c.quote = "READY" => named /\ c.event.type # "NONE" /\ c.event.guests /\ c.event.date

\* What holds of every stored row.
Sound(c, named) == Placed(c) /\ Quoted(c, named)

\* The inductive invariant.
DInv ==
    /\ conversations \in Seq(ConversationRec)
    /\ Len(conversations) <= MaxConversations
    /\ customer \in CustomerRec
    /\ prices \in [Plans -> Prices \cup {None}]
    /\ \A id \in DOMAIN conversations : Sound(conversations[id], customer.name)

\* A turn reads the columns of its two rows.
LEMMA RowFields ==
    ASSUME NEW id, conversations[id] \in ConversationRec, customer \in CustomerRec
    PROVE  /\ Row(id) \in StateRec
           /\ \A f \in DOMAIN NewConversation : Row(id)[f] = conversations[id][f]
           /\ \A f \in CustomerFields : Row(id)[f] = customer[f]
  <1>1. PICK c : c = conversations[id]
    OBVIOUS
  <1>2. DOMAIN NewConversation =
          {"state", "pending", "question", "proposal", "fails", "svc", "fields", "visit",
           "booking", "event", "quote", "shown", "did", "error", "queue"}
    BY DEF NewConversation
  <1>3. Row(id) = [f \in DOMAIN NewConversation \cup CustomerFields |->
                      IF f \in CustomerFields THEN customer[f] ELSE c[f]]
    BY <1>1 DEF Row
  <1>4. c \in ConversationRec
    BY <1>1
  <1>5. Row(id) \in StateRec
    BY <1>2, <1>3, <1>4 DEF StateRec, ConversationRec, CustomerRec, CustomerFields
  <1>6. \A f \in DOMAIN NewConversation : Row(id)[f] = conversations[id][f]
    BY <1>1, <1>2, <1>3 DEF CustomerFields
  <1>7. \A f \in CustomerFields : Row(id)[f] = customer[f]
    BY <1>3
  <1> QED BY <1>5, <1>6, <1>7

\* The columns that Sound is about, by name.
LEMMA RowSame ==
    ASSUME NEW id, conversations[id] \in ConversationRec, customer \in CustomerRec
    PROVE  LET s == Row(id)
               c == conversations[id]
           IN  /\ s.state = c.state /\ s.pending = c.pending /\ s.visit = c.visit
               /\ s.booking = c.booking /\ s.shown = c.shown /\ s.quote = c.quote
               /\ s.event = c.event /\ s.queue = c.queue /\ s.name = customer.name
  <1>1. \A f \in {"state", "pending", "visit", "booking", "shown", "quote", "event", "queue"} :
            f \in DOMAIN NewConversation
    BY DEF NewConversation
  <1>2. "name" \in CustomerFields
    BY DEF CustomerFields
  <1> QED BY <1>1, <1>2, RowFields

\* A turn starts from a placed row.
LEMMA RowSound ==
    ASSUME NEW id, conversations[id] \in ConversationRec, customer \in CustomerRec,
           Sound(conversations[id], customer.name)
    PROVE  Core(Row(id), customer.name) /\ Placed(Row(id))
  <1>1. PICK s : s = Row(id)
    OBVIOUS
  <1>2. PICK c : c = conversations[id]
    OBVIOUS
  <1>3. /\ s.state = c.state /\ s.pending = c.pending /\ s.visit = c.visit
        /\ s.booking = c.booking /\ s.shown = c.shown /\ s.quote = c.quote
        /\ s.event = c.event /\ s.queue = c.queue /\ s.name = customer.name
    BY <1>1, <1>2, RowSame
  <1>4. s \in StateRec
    BY <1>1, RowFields
  <1>5. Core(s, customer.name)
    BY <1>2, <1>3, <1>4 DEF Core, QuoteComplete, Sound, Quoted
  <1>6. HasAll(s) = HasAll(c)
    BY <1>3 DEF HasAll
  <1>7. Placed(s)
    BY <1>2, <1>3, <1>6 DEF Sound, Placed, VisitShown, NoTimeYet, BookingShown, InPlace
  <1> QED BY <1>1, <1>5, <1>7

\* What a turn leaves is written back to the two rows.
LEMMA SplitSound ==
    ASSUME NEW s, NEW known, Core(s, known), Placed(s)
    PROVE  /\ ConversationOf(s) \in ConversationRec
           /\ CustomerOf(s) \in CustomerRec
           /\ CustomerOf(s).name = s.name
           /\ Sound(ConversationOf(s), s.name)
  <1>1. s \in StateRec
    BY DEF Core
  <1>2. DOMAIN NewConversation =
          {"state", "pending", "question", "proposal", "fails", "svc", "fields", "visit",
           "booking", "event", "quote", "shown", "did", "error", "queue"}
    BY DEF NewConversation
  <1>3. PICK c : c = ConversationOf(s)
    OBVIOUS
  <1>4. c = [f \in DOMAIN NewConversation |-> s[f]]
    BY <1>3 DEF ConversationOf
  <1>5. c \in ConversationRec
    BY <1>1, <1>2, <1>4 DEF StateRec, ConversationRec
  <1>6. /\ s.state = c.state /\ s.pending = c.pending /\ s.visit = c.visit
        /\ s.booking = c.booking /\ s.shown = c.shown /\ s.quote = c.quote
        /\ s.event = c.event
    BY <1>2, <1>4
  <1>7. HasAll(s) = HasAll(c)
    BY <1>6 DEF HasAll
  <1>8. Placed(c)
    BY <1>6, <1>7 DEF Placed, VisitShown, NoTimeYet, BookingShown, InPlace
  <1>9. Quoted(c, s.name)
    BY <1>6 DEF Core, QuoteComplete, Quoted
  <1>10. CustomerOf(s) \in CustomerRec /\ CustomerOf(s).name = s.name
    BY <1>1 DEF StateRec, CustomerRec, CustomerOf, CustomerFields
  <1> QED BY <1>3, <1>5, <1>8, <1>9, <1>10 DEF Sound

\* No call is a call of its type.
LEMMA NoCallTyped == NoCall \in CallMade
  <1>1. "NONE" \in PendingAction
    BY DEF PendingAction
  <1> QED BY <1>1, Blanks, NoneIsNat DEF NoCall, CallMade, Calls

\* A new conversation is sound.
LEMMA NewSound ==
    /\ [NewConversation EXCEPT !.queue = 1] \in ConversationRec
    /\ \A named : Sound([NewConversation EXCEPT !.queue = 1], named)
  <1>1. "BOT_ACTIVE" \in ConversationState /\ "NONE" \in PendingAction /\ "NONE" \in Questions
        /\ "NONE" \in Errors
    BY Places DEF PendingAction, Questions, Summaries, Errors, Elsewhere
  <1>2. 1 \in 0..MaxBacklog /\ 0 \in 0..3 /\ 0 \in 0..1 /\ 0 \in 0..MaxBacklog
    BY DialogueAssumption
  <1>3. NoEvent \in EventRow
    BY DEF NoEvent, EventRow
  <1>4. PICK n : n = NewConversation
    OBVIOUS
  <1>5. /\ n \in ConversationRec /\ n.state = "BOT_ACTIVE" /\ n.pending = "NONE"
        /\ n.quote = "NONE"
    BY <1>1, <1>2, <1>3, <1>4, Blanks, NoCallTyped DEF NewConversation, ConversationRec
  <1>6. PICK c : c = [n EXCEPT !.queue = 1]
    OBVIOUS
  <1>7. /\ c \in ConversationRec /\ c.state = "BOT_ACTIVE" /\ c.pending = "NONE"
        /\ c.quote = "NONE"
    BY <1>2, <1>5, <1>6 DEF ConversationRec
  <1>8. \A named : Sound(c, named)
    BY <1>7 DEF Sound, Placed, VisitShown, NoTimeYet, Awaiting, BookingShown, InPlace, Quoted,
                BOOKING_ACTIONS
  <1> QED BY <1>4, <1>6, <1>7, <1>8

(***************************************************************************)
(* The actions                                                             *)
(***************************************************************************)
\* A sound row takes the place of one, and the name, once known, stays known: the rows stay sound.
LEMMA ReplaceRow ==
    ASSUME DInv, NEW id \in DOMAIN conversations, NEW row \in ConversationRec,
           NEW named, Sound(row, named), customer.name => named,
           conversations' = [conversations EXCEPT ![id] = row]
    PROVE  /\ conversations' \in Seq(ConversationRec)
           /\ Len(conversations') = Len(conversations)
           /\ DOMAIN conversations' = DOMAIN conversations
           /\ \A j \in DOMAIN conversations' : Sound(conversations'[j], named)
  <1>1. /\ conversations' \in Seq(ConversationRec) /\ Len(conversations') = Len(conversations)
        /\ DOMAIN conversations' = DOMAIN conversations
    BY DEF DInv
  <1>2. ASSUME NEW j \in DOMAIN conversations' PROVE Sound(conversations'[j], named)
    <2>1. CASE j = id
      BY <1>1, <2>1 DEF DInv
    <2>2. CASE j # id
      <3>1. conversations'[j] = conversations[j] /\ Sound(conversations[j], customer.name)
        BY <1>1, <2>2 DEF DInv
      <3> QED BY <3>1 DEF Sound, Quoted
    <2> QED BY <2>1, <2>2
  <1> QED BY <1>1, <1>2

\* What the invariant says of one row.
LEMMA RowsKept ==
    ASSUME DInv, NEW id \in DOMAIN conversations
    PROVE  /\ conversations[id] \in ConversationRec /\ customer \in CustomerRec
           /\ Sound(conversations[id], customer.name)
  BY DEF DInv

\* A message is stored, in a new conversation or in the active one.
LEMMA ArriveKeeps ==
    ASSUME DInv, Arrive
    PROVE  DInv'
  <1>1. CASE Active # {}
    <2>1. PICK id : id = CHOOSE i \in Active : \A j \in Active : j <= i
      OBVIOUS
    <2>2. /\ conversations[id].queue < MaxBacklog
          /\ conversations' = [conversations EXCEPT ![id].queue = @ + 1]
          /\ customer' = customer /\ prices' = prices
      BY <1>1, <2>1 DEF Arrive
    <2>3. CASE id \in DOMAIN conversations
      <3>1. PICK c : c = conversations[id]
        OBVIOUS
      <3>2. c \in ConversationRec /\ Sound(c, customer.name)
        BY <2>3, <3>1, RowsKept
      <3>3. PICK n : n = c.queue + 1
        OBVIOUS
      <3>4. n \in 0..MaxBacklog
        BY <2>2, <3>1, <3>2, <3>3, DialogueAssumption DEF ConversationRec
      <3>5. PICK row : row = [c EXCEPT !.queue = n]
        OBVIOUS
      <3>6. /\ row \in ConversationRec /\ row.state = c.state /\ row.pending = c.pending
            /\ row.visit = c.visit /\ row.booking = c.booking /\ row.shown = c.shown
            /\ row.quote = c.quote /\ row.event = c.event
        BY <3>2, <3>4, <3>5 DEF ConversationRec
      <3>7. Sound(row, customer.name)
        <4>1. HasAll(row) = HasAll(c)
          BY <3>6 DEF HasAll
        <4> QED BY <3>2, <3>6, <4>1
                DEF Sound, Placed, VisitShown, NoTimeYet, BookingShown, InPlace, Quoted
      <3>8. conversations' = [conversations EXCEPT ![id] = row]
        BY <2>2, <2>3, <3>1, <3>2, <3>3, <3>5 DEF ConversationRec
      <3>9. /\ conversations' \in Seq(ConversationRec) /\ Len(conversations') = Len(conversations)
            /\ \A j \in DOMAIN conversations' : Sound(conversations'[j], customer.name)
        BY <2>3, <3>6, <3>7, <3>8, ReplaceRow
      <3> QED BY <2>2, <3>9 DEF DInv
    <2>4. CASE id \notin DOMAIN conversations
      <3>1. conversations' = conversations
        BY <2>2, <2>4 DEF DInv
      <3> QED BY <2>2, <3>1 DEF DInv
    <2> QED BY <2>3, <2>4
  <1>2. CASE Active = {}
    <2>1. PICK c : c = [NewConversation EXCEPT !.queue = 1]
      OBVIOUS
    <2>2. /\ Len(conversations) < MaxConversations
          /\ conversations' = Append(conversations, c)
          /\ customer' = customer /\ prices' = prices
      BY <1>2, <2>1 DEF Arrive
    <2>3. c \in ConversationRec /\ Sound(c, customer.name)
      BY <2>1, NewSound
    <2>4. /\ conversations' \in Seq(ConversationRec)
          /\ Len(conversations') = Len(conversations) + 1
          /\ Len(conversations') <= MaxConversations
      BY <2>2, <2>3, DialogueAssumption DEF DInv
    <2>5. ASSUME NEW j \in DOMAIN conversations' PROVE Sound(conversations'[j], customer.name)
      <3>1. j \in 1..Len(conversations')
        BY <2>4, <2>5
      <3>2. conversations'[j] = IF j <= Len(conversations) THEN conversations[j] ELSE c
        BY <2>2, <2>3, <2>4, <3>1 DEF DInv
      <3>3. j <= Len(conversations) => Sound(conversations[j], customer.name)
        BY <3>1 DEF DInv
      <3> QED BY <2>3, <3>2, <3>3
    <2> QED BY <2>2, <2>4, <2>5 DEF DInv
  <1> QED BY <1>1, <1>2

\* A turn keeps the invariant; one that raised keeps what was there before it.
LEMMA TurnKeeps ==
    ASSUME DInv, NEW id \in DOMAIN conversations, NEW message \in Turns, Turn(id, message)
    PROVE  DInv'
  <1>1. /\ conversations[id] \in ConversationRec /\ customer \in CustomerRec
        /\ Sound(conversations[id], customer.name)
    BY RowsKept
  <1>2. PICK known : known = customer.name
    OBVIOUS
  <1>3. PICK t : t = Priced(message)
    OBVIOUS
  <1>4. t \in TurnRead
    BY <1>3, PricedTyped DEF DInv
  <1>5. PICK s : s = Row(id)
    OBVIOUS
  <1>6. Core(s, known) /\ Placed(s) /\ s \in StateRec
    BY <1>1, <1>2, <1>5, RowSound DEF Core
  <1>7. PICK before : before = [s EXCEPT !.did = NoCall, !.error = "NONE", !.queue = s.queue - 1]
    OBVIOUS
  <1>8. s.queue > 0 /\ classify_message(s, t)
    BY <1>1, <1>3, <1>5, RowSame DEF Turn
  <1>9. PICK after : after = orchestrate(before, t)
    OBVIOUS
  <1>10. PICK kept : kept = Committed(before, after)
    OBVIOUS
  <1>11. /\ conversations' = [conversations EXCEPT ![id] = ConversationOf(kept)]
         /\ customer' = CustomerOf(kept)
         /\ prices' = prices
    <2>1. before = [Row(id) EXCEPT !.did = NoCall, !.error = "NONE", !.queue = @ - 1]
      BY <1>5, <1>6, <1>7 DEF StateRec
    <2> QED BY <1>3, <1>9, <1>10, <2>1 DEF Turn
  <1>12. /\ before \in StateRec /\ before.error = "NONE" /\ before.state = s.state
         /\ before.pending = s.pending /\ before.visit = s.visit /\ before.booking = s.booking
         /\ before.shown = s.shown /\ before.quote = s.quote /\ before.event = s.event
         /\ before.name = s.name
    <2>1. PICK n : n = s.queue - 1
      OBVIOUS
    <2>2. n \in 0..MaxBacklog
      BY <1>6, <1>8, <2>1, DialogueAssumption DEF StateRec
    <2>3. PICK x : x = [s EXCEPT !.did = NoCall, !.error = "NONE"]
      OBVIOUS
    <2>4. before = [x EXCEPT !.queue = n]
      BY <1>7, <2>1, <2>3
    <2>5. /\ x \in StateRec /\ x.error = "NONE" /\ x.state = s.state
          /\ x.pending = s.pending /\ x.visit = s.visit /\ x.booking = s.booking
          /\ x.shown = s.shown /\ x.quote = s.quote /\ x.event = s.event /\ x.name = s.name
      BY <1>6, <2>3, NoCallTyped DEF StateRec, Errors
    <2> QED BY <2>2, <2>4, <2>5 DEF StateRec
  <1>13. Core(before, known) /\ Placed(before) /\ Fine(before, known)
    <2>1. HasAll(before) = HasAll(s)
      BY <1>12 DEF HasAll
    <2>2. Placed(before)
      BY <1>6, <1>12, <2>1 DEF Placed, VisitShown, NoTimeYet, BookingShown, InPlace
    <2>3. Core(before, known)
      BY <1>6, <1>12 DEF Core, QuoteComplete
    <2> QED BY <2>2, <2>3 DEF Fine
  <1>14. t.route = "LODGING" => Idle(before, known)
    <2>1. t.route = "LODGING" => booking_guard_eligible(s, TRUE)
      BY <1>8, LodgingReading
    <2>2. booking_guard_eligible(s, TRUE) => booking_guard_eligible(before, TRUE)
      BY <1>12 DEF booking_guard_eligible
    <2> QED BY <1>13, <2>1, <2>2, EligibleIsIdle
  <1>15. t.route = "HUMAN" => t.intent = "HUMAN_REQUEST"
    BY <1>8, HumanReading
  <1>16. Fine(after, known)
    BY <1>4, <1>9, <1>12, <1>13, <1>14, <1>15, OrchestrateFine
  <1>17. Core(kept, known) /\ Placed(kept)
    <2>1. CASE after.error = "NONE"
      BY <1>10, <1>16, <2>1 DEF Committed, Fine, Failed
    <2>2. CASE after.error # "NONE"
      <3>1. after.error \in Errors
        BY <1>16 DEF Fine, Core, StateRec
      <3>2. kept = [before EXCEPT !.error = after.error]
        BY <1>10, <2>2 DEF Committed
      <3>3. /\ kept \in StateRec /\ kept.state = before.state
            /\ kept.pending = before.pending /\ kept.visit = before.visit
            /\ kept.booking = before.booking /\ kept.shown = before.shown
            /\ kept.quote = before.quote /\ kept.event = before.event
            /\ kept.name = before.name
        BY <1>12, <3>1, <3>2 DEF StateRec
      <3>4. HasAll(kept) = HasAll(before)
        BY <3>3 DEF HasAll
      <3>5. Placed(kept)
        BY <1>13, <3>3, <3>4 DEF Placed, VisitShown, NoTimeYet, BookingShown, InPlace
      <3>6. Core(kept, known)
        BY <1>13, <3>3 DEF Core, QuoteComplete
      <3> QED BY <3>5, <3>6
    <2> QED BY <2>1, <2>2
  <1>18. PICK row : row = ConversationOf(kept)
    OBVIOUS
  <1>19. /\ row \in ConversationRec /\ CustomerOf(kept) \in CustomerRec
         /\ CustomerOf(kept).name = kept.name /\ Sound(row, kept.name)
    BY <1>17, <1>18, SplitSound
  <1>20. customer.name => kept.name
    BY <1>2, <1>17 DEF Core
  <1>21. /\ conversations' \in Seq(ConversationRec) /\ Len(conversations') = Len(conversations)
         /\ \A j \in DOMAIN conversations' : Sound(conversations'[j], kept.name)
    BY <1>11, <1>18, <1>19, <1>20, ReplaceRow
  <1> QED BY <1>11, <1>19, <1>21 DEF DInv

\* The staff takes a conversation and gives it back: nothing of the bot stays pending.
LEMMA StaffKeeps ==
    ASSUME DInv, NEW id \in DOMAIN conversations, StaffTakes(id) \/ StaffReturns(id)
    PROVE  DInv'
  <1>1. PICK c : c = conversations[id]
    OBVIOUS
  <1>2. c \in ConversationRec /\ Sound(c, customer.name)
    BY <1>1, RowsKept
  <1>3. PICK row : row = [c EXCEPT !.state = "HUMAN_ACTIVE", !.pending = "WAIT_FOR_HUMAN",
                                   !.did = NoCall]
    OBVIOUS
  <1>4. PICK back : back = [c EXCEPT !.state = "BOT_ACTIVE", !.pending = "NONE"]
    OBVIOUS
  <1>5. customer' = customer /\ prices' = prices
    BY DEF StaffTakes, StaffReturns
  <1>6. \/ conversations' = [conversations EXCEPT ![id] = row]
        \/ conversations' = [conversations EXCEPT ![id] = back]
    <2>1. CASE StaffTakes(id)
      BY <1>1, <1>2, <1>3, <2>1 DEF StaffTakes, DInv, ConversationRec
    <2>2. CASE StaffReturns(id)
      BY <1>1, <1>2, <1>4, <2>2 DEF StaffReturns, DInv, ConversationRec
    <2> QED BY <2>1, <2>2
  <1>7. /\ "HUMAN_ACTIVE" \in ConversationState /\ "BOT_ACTIVE" \in ConversationState
        /\ "WAIT_FOR_HUMAN" \in PendingAction /\ "NONE" \in PendingAction
    BY Places, HarmlessIsPending DEF Elsewhere, Harmless
  <1>8. /\ row \in ConversationRec /\ row.state = "HUMAN_ACTIVE"
        /\ row.pending = "WAIT_FOR_HUMAN" /\ row.quote = c.quote /\ row.event = c.event
    <2>1. PICK x : x = [c EXCEPT !.state = "HUMAN_ACTIVE", !.pending = "WAIT_FOR_HUMAN"]
      OBVIOUS
    <2>2. row = [x EXCEPT !.did = NoCall]
      BY <1>3, <2>1
    <2>3. /\ x \in ConversationRec /\ x.state = "HUMAN_ACTIVE"
          /\ x.pending = "WAIT_FOR_HUMAN" /\ x.quote = c.quote /\ x.event = c.event
      BY <1>2, <1>7, <2>1 DEF ConversationRec
    <2> QED BY <2>2, <2>3, NoCallTyped DEF ConversationRec
  <1>9. /\ back \in ConversationRec /\ back.state = "BOT_ACTIVE" /\ back.pending = "NONE"
        /\ back.quote = c.quote /\ back.event = c.event
    BY <1>2, <1>4, <1>7 DEF ConversationRec
  <1>10. Sound(row, customer.name) /\ Sound(back, customer.name)
    BY <1>2, <1>8, <1>9
       DEF Sound, Placed, VisitShown, NoTimeYet, Awaiting, BookingShown, InPlace, Quoted,
           BOOKING_ACTIONS
  <1>11. /\ conversations' \in Seq(ConversationRec) /\ Len(conversations') = Len(conversations)
         /\ \A j \in DOMAIN conversations' : Sound(conversations'[j], customer.name)
    BY <1>6, <1>8, <1>9, <1>10, ReplaceRow
  <1> QED BY <1>5, <1>11 DEF DInv

(***************************************************************************)
(* Theorems                                                                *)
(***************************************************************************)
\* The invariant holds when there is no conversation.
LEMMA DInvInitially == DInit => DInv
  <1> SUFFICES ASSUME DInit PROVE DInv
    OBVIOUS
  <1>1. conversations \in Seq(ConversationRec) /\ Len(conversations) = 0
        /\ DOMAIN conversations = {}
    BY DEF DInit
  <1>2. customer \in CustomerRec
    <2>1. 0 \in 0..2
      OBVIOUS
    <2> QED BY <2>1 DEF DInit, CustomerRec
  <1>3. prices \in [Plans -> Prices \cup {None}]
    BY DEF DInit
  <1> QED BY <1>1, <1>2, <1>3, DialogueAssumption DEF DInv

\* Every step keeps it.
LEMMA DInvPreserved == DInv /\ [DNext]_dvars => DInv'
  <1> SUFFICES ASSUME DInv, [DNext]_dvars PROVE DInv'
    OBVIOUS
  <1>1. CASE Arrive
    BY <1>1, ArriveKeeps
  <1>2. ASSUME NEW id \in DOMAIN conversations, NEW message \in Turns, Turn(id, message)
        PROVE  DInv'
    BY <1>2, TurnKeeps
  <1>3. ASSUME NEW id \in DOMAIN conversations, StaffTakes(id) \/ StaffReturns(id)
        PROVE  DInv'
    BY <1>3, StaffKeeps
  <1>4. ASSUME NEW plan \in Plans, NEW price \in Prices \cup {None}, update_plan(plan, price)
        PROVE  DInv'
    BY <1>4 DEF update_plan, DInv
  <1>5. CASE RequestSettled
    BY <1>5 DEF RequestSettled, DInv, CustomerRec
  <1>6. CASE UNCHANGED dvars
    BY <1>6 DEF dvars, DInv
  <1> QED BY <1>1, <1>2, <1>3, <1>4, <1>5, <1>6 DEF DNext, DNextWith

\* It implies the two properties.
LEMMA DInvSuffices == DInv => PendingIsSound /\ DoneAsShown
  <1> SUFFICES ASSUME DInv PROVE PendingIsSound /\ DoneAsShown
    OBVIOUS
  <1>1. ASSUME NEW id \in DOMAIN conversations
        PROVE  LET c == conversations[id] IN
               /\ c.state \in ConversationState
               /\ c.pending \in PendingAction
               /\ c.fails \in 0..3 /\ c.svc \in 0..1
               /\ ToSet(c.fields) \subseteq DOMAIN ENTITY_ACTION
               /\ IsInjective(c.fields)
               /\ c.visit.mode \in {"NONE", "SCHEDULE", "RESCHEDULE", "CANCEL"}
               /\ c.visit.offered \subseteq Slots
               /\ c.booking.plan \in Plans \cup {None}
               /\ c.queue \in 0..MaxBacklog
    <2>1. PICK c : c = conversations[id]
      OBVIOUS
    <2>2. c \in ConversationRec
      BY <2>1, RowsKept
    <2>3. c.fields \in Seq(Entities) /\ IsInjective(c.fields)
      BY <2>2 DEF ConversationRec, FieldList
    <2>4. ToSet(c.fields) \subseteq DOMAIN ENTITY_ACTION
      BY <2>3 DEF ToSet, Entities
    <2> QED BY <2>1, <2>2, <2>3, <2>4 DEF ConversationRec, VisitDraft, BookingDraft
  <1>2. DTypeOK
    BY <1>1 DEF DTypeOK, DInv, CustomerRec
  <1>3. PendingMatchesState
    BY DEF DInv, Sound, Placed, InPlace, PendingMatchesState
  <1>4. PendingVisitComplete
    <2> SUFFICES ASSUME NEW id \in DOMAIN conversations,
                        conversations[id].state = "APPOINTMENT_PENDING_CONFIRMATION"
                 PROVE  HasAll(Row(id))
      BY DEF PendingVisitComplete
    <2>1. Placed(Row(id)) /\ Row(id).state = conversations[id].state
      BY RowsKept, RowSound, RowSame
    <2> QED BY <2>1 DEF Placed, VisitShown
  <1>5. QuoteOnlyWhenComplete
    BY DEF DInv, Sound, Quoted, QuoteOnlyWhenComplete
  <1>6. ASSUME NEW id \in DOMAIN conversations
        PROVE  LET did == conversations[id].did IN
               did.call \in {"VISIT", "MOVE", "RESERVE"} =>
                   /\ did.date = did.seen.date /\ did.time = did.seen.time
                   /\ did.plan = did.seen.plan /\ did.price = did.seen.price
    <2>1. conversations[id].did \in CallMade
      BY RowsKept DEF ConversationRec
    <2> QED BY <2>1 DEF CallMade
  <1> QED BY <1>2, <1>3, <1>4, <1>5, <1>6 DEF PendingIsSound, DoneAsShown

\* What a conversation did last is a call that can have been made.
LEMMA CallsTyped ==
    ASSUME DInv, NEW id \in DOMAIN conversations
    PROVE  conversations[id].did \in CallMade
  BY RowsKept DEF ConversationRec

\* Such a call is made on its own summary, under one of its questions.
LEMMA DInvActs == DInv => ActsOnItsConfirmation
  <1> SUFFICES ASSUME DInv, NEW id \in DOMAIN conversations
               PROVE  LET did == conversations[id].did IN
                      /\ did.call \in DOMAIN ConfirmActionFor =>
                           did.under \in QuestionsFor(did.call)
                      /\ did.call \in DOMAIN SummaryFor => did.seen.of = SummaryFor[did.call]
    BY DEF ActsOnItsConfirmation
  <1>1. PICK did : did = conversations[id].did
    OBVIOUS
  <1>2. did \in CallMade
    BY <1>1, CallsTyped
  <1>3. /\ DOMAIN ConfirmActionFor = {"VISIT", "MOVE", "CANCEL", "RESERVE", "QUOTE"}
        /\ DOMAIN SummaryFor = {"VISIT", "MOVE", "RESERVE"}
    BY DEF ConfirmActionFor, SummaryFor
  <1> QED BY <1>1, <1>2, <1>3 DEF CallMade

\* The invariant holds in every reachable state, for every set of messages.
THEOREM DialogueInvariant == DSpec => []DInv
  BY DInvInitially, DInvPreserved, PTL DEF DSpec

\* In every reachable state what is pending belongs to the state of its conversation, a
\* visit awaits its confirmation only with all its data, and a quote went to the staff
\* only complete.
THEOREM ColumnsFitTogether == DSpec => []PendingIsSound
  BY DialogueInvariant, DInvSuffices, PTL

\* Whatever the staff, the panel and later messages do in between, a visit is booked or
\* moved on the day and time, and a plan reserved for the day, time and price, that the
\* last summary showed the customer.
THEOREM CallsFollowTheSummary == DSpec => []DoneAsShown
  BY DialogueInvariant, DInvSuffices, PTL

\* Whatever is written, doubtful or not, and whatever slot was lost in between, a visit is
\* booked or moved and a plan reserved only on the summary of exactly that, and a plan
\* reserved, a quote requested and a visit cancelled only while its confirmation is pending.
THEOREM EachOnItsConfirmation == DSpec => []ActsOnItsConfirmation
  BY DialogueInvariant, DInvActs, PTL
=============================================================================
