# Formal specifications of CHAT_BOT_CEIBA

A WhatsApp assistant for an events venue: a FastAPI process receives webhooks and serves
the agents' panel, a worker process runs polling loops, and everything they share is in
PostgreSQL rows. There is no broker. Every queue is a table with a status column, a claim
and a reaper, so correctness rests on which transaction reads and writes which rows.
These TLA+ modules state that control flow, TLC checks it on small instances, and TLAPS
proves most of its safety properties for instances of any size.

## 1. Inventory

| Component | State | Operations | What makes it correct |
|---|---|---|---|
| Conversation state machine (`app/conversation`) | state, `bot_enabled`, `automation_epoch`, assigned agent | `transition_conversation`, ORM validators | every change of the permission to speak has a fresh epoch |
| Handoff cases and panel ownership (`app/handoff`, `app/admin/ownership.py`, `routes.py`, `conversation_reset.py`) | handoff rows, the agent on two rows | create, take, take without case, reassign, return, reset, (de)activate agents | one owner, the same on both rows; no case left behind; closed cases stay closed |
| Payment decisions (`app/payment`, `app/reservation/notifications.py`) | evidence rows | register, decide (one transaction), resolve cases and notify (a second one) | the bot comes back only when nothing else is open |
| Customer outbox (`app/channel/worker.py`, `delivery.py`) | outbox rows, claim token, admission phase | enqueue, claim batch, check, admit, send, settle, reap | nothing sent after revocation; honest final statuses; bounded attempts; order of text and document |
| Durable inbox (`app/channel/inbox.py`, `inbound.py`, `orchestrator/inbox_effects.py`) | webhook events, jobs | receive, expand, claim, classify, apply, defer calls, settle, reap, retry, reset | one turn per message, in order; the agenda changed by at most one claim |
| Orchestrator and booking flow (`app/orchestrator`) | columns of the conversation: state, pending action, drafts, proposal, counters | one turn per message | the bot does what it showed, under its own confirmation; an interrupted capture is resumed; no turn raises |
| Reservation settlement (`app/reservation/settlement.py`, `booking.py`, `availability.py`) | reservations, receipts, plans, calendar events, advisory lock | request, accept, reject, expire, create by hand, move, cancel, synchronise with the calendar | one confirmed reservation per slot; money and status agree; no orphaned event |
| Payment download and receipt pre-review (`app/payment/worker.py`, `review.py`) | lease columns of the receipt, review rows | claim, download, settle, claim for reading, read, evaluate | a file is what was declared; a decision ends reviewing; a suggestion to accept is enough to settle |
| Appointments and availability (`app/appointment`, `app/scheduling`) | appointments, calendar events | confirm, move, cancel, remind, block days | rows and calendar agree, or the visit is marked for a person |
| Notifications to staff and customers (`app/notifications`) | two queues, recipients, delivery statuses | enqueue, plan text or template or deferral, send, status callbacks, expire | statuses never go backwards; nothing waits for ever |
| Balance reminders (`app/reservation/reminders.py`) | reminder rows, overdue marks | scan, remind, mark | a paid balance is not overdue; reminders of it expire |
| Audio transcription, media cache | a text, cached ids | transcribe, invalidate | one winning transcription |
| AI client, calendar adapters, text understanding, presentation, configuration | none of their own | calls that return or raise | not specified |

**How they interact.** A webhook is stored and expanded into jobs (inbox); a job's turn
changes the conversation and inserts outbox rows in one transaction; the outbox worker
reads the conversation, its cases and the evidence again before each provider call. Agents
and payment reviewers write the same conversation rows through the panel. The
conversation's `automation_epoch` is the contract between them: output is stamped with the
epoch it was produced in. Bookings and visits also live in a Google calendar, which is
called outside every transaction. Settlement of a receipt commits, then synchronises the
calendar, then notifies; notices to staff and reminders to customers have a queue of their
own.

**What is hard.** Claims outlive their worker, so the reaper races late answers. A turn
classified against one context is applied in another. A provider or calendar call may have
had its effect although it raised. The payment decision is several transactions. The panel
pauses conversations in the middle of everything. A customer may answer a question the bot
has meanwhile replaced. `PROJECT.json` lists each hazard at its line.

## 2. Modules

| Module | Models | State |
|---|---|---|
| `AutomationGate` | the promise of `automation_epoch` (abstract) | `on`, `epoch` per conversation |
| `ConversationStates` | the state table and the groups of states | - |
| `HumanCase` | conversations, cases, evidence, panel | `conv`, `handoffs`, `evidence`, `active` |
| `Outbox` | the customer outbox, composed with `HumanCase` (EXTENDS it and conjoins its actions with the row each producer inserts) | `outbox`, `batch`, `job`, `delivered` |
| `Inbox` | the durable inbox | `events`, `jobs`, `ctx`, `claim`, `applied`, `mutated` |
| `Reservation` | bookings, receipts and their calendar events | `plan`, `res`, `ev`, `calendar`, `busy`, `now`, `job`, three history variables |
| `PaymentEvidence` | download and reading of receipts; `evaluate_receipt` as an operator | `receipts`, `file`, `reviews`, `job`, `booking` |
| `Appointments` | visits, the calendar, days off | `visit`, `event`, `busy`, `holidays`, `blocked`, `now`, `call`, two history variables |
| `TurnEffects`, `CaptureFlow`, `VisitFlow`, `BookingFlow` | what one message does to a conversation, as operators from a row to a row | - |
| `Dialogue` | the orchestrator: routes a message to those operators; staff, farewells, prices | `conversations`, `customer`, `prices` |
| `Notifications` | the queue shared by notices to staff and customers | `recipients`, `notices`, `batch`, `messages`, `heard`, `missed`, `now` |
| `BalanceReminders` | the scan, bookings as it reads them, the customer loop (EXTENDS `Notifications`) | `booking` |
| `HumanCaseProofs`, `OutboxProofs` (EXTENDS it), `InboxProofs`, `ReservationProofs`, `PaymentEvidenceProofs`, `AppointmentsProofs`, `NoticesProofs` (about `BalanceReminders`), `DialogueProofs` | theorems | - |
| `MCHumanCase`, `MCOutbox`, `MCInbox`, `MCReservation`, `MCAppointments`, `MCDialogue`, `MCPaymentEvidence`, `MCNotices`, `MCQueues` | instances for TLC | `slice` or `queue` |

One action is one database transaction, or one call made outside a transaction. The code
takes row locks in the order customer, conversation, case or job before it reads what it
decides on, which is why a transaction is atomic here and why a decision and the call that
follows it are not. Definitions marked as mutants are plausible mistakes; the
specification does not use them. They exist so that each property can be seen to fail.

### HumanCase
`conv[c]` is a conversation row; `SetState` and `SetBot` are the two ORM validators that
rotate the epoch, so every operation is written as the sequence of attribute assignments
the code makes (`TakeConversation` of a RESOLVED conversation rotates several times).
`ALLOWED_TRANSITIONS` is the table of `states.py`. `handoffs` is the handoff table in
insertion order. `RequirePending` and `RequireOwned` are the guards of `ownership.py`.
`SettleEvidence` and the `Notify...` actions are the two transactions of a payment
decision; `NotifyLost` is the process stopping between them, which nothing repairs.

### Outbox
A row carries `delivery_context` (`origin`, `epoch`, `case`, `ev`), the dependency
`after_outbox_id`, the attempt counter and the admission `phase`. `ClaimBatch` may take any
set of due rows (SKIP LOCKED), a worker goes through its batch in row order, and every step
of `_process_claimed` is an action: `Check`, `Resolve`, `Admit`, the provider call with the
outcomes accepted and heard, accepted and lost, rejected, invalid media, then settlement.
`Crash` forgets a worker's memory. `Recover` is the reaper and may fire while the claim's
worker is alive. `claims` numbers the uuids drawn for a row, so token equality is the
code's uuid equality. `delivered` is the provider's view and no code reads it.

### Inbox
`ExpandEvent` creates the jobs of one payload sorted by phone, opening a conversation
where the customer has no active one; messages of staff phones are intercepted and
messages stored before jobs existed become REVIEW. `claim[w]` is one execution of
`process_claimed_inbox` from its frozen snapshot (`seen`) on. `DeferCall`,
`PrepareExternal`, `Call` and `RecordExternalResult` are the replay of a turn around calls
to the agenda; `ext` is the flag that the agenda may have been touched. `HumanChange`
stands for all that people do to the conversation (detailed in `HumanCase`).

### Reservation
A handler `job[h]` is one request in progress: an acceptance or a move reads the calendar
first (`AcceptCheck`, `ScheduleCheck`), commits under the booking lock (`AcceptLock`,
`AcceptCommit`, `ScheduleCommit`) and then synchronises (`SyncRead`, `SyncCall`,
`SyncRecord`) or, after a cancellation, releases (`ReleaseCall`, `ReleaseClear`).
`evaluate_booking_availability` and the window of a plan are operators; money is integer
pesos with the rounding of `deposit_amount`. A request may die after any step.
The calendar being unavailable at the check ends the request with 503 and changes nothing,
so it is no step. A pair of calendar calls (update, or create if there is nothing to
update) is one step. Notifying the customer after the commit is in `HumanCase` and
`Outbox`.

### PaymentEvidence
`job[w]` is a worker between the claim of a receipt and its settlement; `LeaseEnds` lets a
claim expire at any time. Downloads have no token, readings have one (`StillOwns`).
`checks` and `suggestion` are `evaluate_receipt` over the values a reading may hold, around
each boundary of amount, account, date, reference and confidence. The deposit is rounded
twice in the code and twice here: `deposit` is the pre-review's own formula, `deposit_amount`
the one `accept_payment` settles with. `booking` is the reservation of the receipts: open,
confirmed, or closed by `CloseReservation` (a cancellation or the expiry), after which
`accept_payment_evidence` refuses (`TakesPayment`).

### Appointments
`call[c]` is a confirm, move or cancel in progress. A create or update of an event with its
reconciling retry is one step with a set of outcomes: done, done but not heard, refused. An
id that was deleted cannot be created again. A settlement that raises, or a crash, leaves
the visit in the history variable `adrift`; the inbox job then is in REVIEW. The history
variable `disturbed` has the visits somebody asked to move, or to cancel while the call that
inserted them was still confirming them; no code reads either variable.
`process_due_reminders` is modelled although nothing calls it in production.

### Dialogue and its flows
A turn `t` is a record: what the classification returned (route, intent, confidence band,
entities) and what the services would answer during it. `orchestrate` follows
`_orchestrate_inbound_message` from its first guard to `route_classification`; each handler
is an operator from the row before to the row after, with the calls it makes and the
summaries it shows recorded in the row. `TurnEffects` has the elementary effects (pend, ask,
move through the table, hand off, raise). Staff take and return conversations, prices
change, and messages wait in a backlog behind the one that is running.

### Notifications and BalanceReminders
A notice is named by the columns of its UNIQUE constraint, so a second one of the same name
cannot exist. `StaffPlan` is what the loop does with the snapshot the claim took. `messages`
is the provider's view; reports about a message arrive in any order, repeatedly, and before
the row knows its provider id. `maintain_queue` runs when its loop is between batches.
`BalanceReminders` adds bookings as far as the scan reads them, payments and moves.

## 3. Runs

Several questions about one module are asked of one run. Its initial state then chooses a
*slice*, a set of further bounds under which the rest of the behaviour stays; a slice has
all the actions it does not exclude by name.

| Run | Instance | Shows |
|---|---|---|
| `human_case` | 1 conversation, 2 agents, 2 receipts, 3 cases, resets up to epoch 8 | types, ownership, cleanness, pending cases, closed cases, refinement of the gate |
| `outbox` | `pause`: 1 row of any origin, legacy ones included, 2 workers; `payment`: 2 rows, 1 receipt, 1 claim of each row; `delivery`: 2 rows, 2 workers, 3 claims | pauses, takes, returns and reviews against a row in every phase; tokens, dependencies, attempts, final statuses |
| `inbox` | `turns`: 1 message, 2 claims, retries, 2 calls per turn; `order`: 2 messages, one redelivered; `legacy`: an old message and an old event | one turn per message, in order; one mutating claim; nothing old replayed |
| `reservation` | `slots`: 2 bookings, 2 requests; `plans`: plans edited meanwhile; `money`: 2 receipts of one booking, the clock; `calendar`: 3 requests, failures, a staff event | no double booking; row and receipts agree; no orphan; the status matrix |
| `visits` | `booking`: 2 customers, 2 visits, failures, crashes and closed days; `race`: 2 conversations of one customer, moves too, days that pass | rows and calendar agree; a cancelled visit stays so |
| `dialogue` | 2 days, 2 hours, 2 plans; alphabets `visit`, `capture`, `booking`, `resume`, each with interruptions and doubtful readings, and `farewell` with 2 conversations and a backlog of 2 | what the bot does, shows, asks and resumes; where a turn raises |
| `evidence` | `reading`: 2 workers and an administrator on one receipt; `download`: 2 receipts, 1 worker, 2 attempts; `checks`: readings of every kind of 2 receipts, payments and a closed reservation | leases, tokens, limits; a suggestion to accept settles an open reservation |
| `notices` | `staff`: 2 loops, 2 events, 1 recipient; `balance`: a booking, 2 dates, 8 instants | reports, attempts, overdue marks |
| `queues_drain` | one of the 5 queues, 1 or 2 rows, 1 worker | liveness |
| `waiting_case_stuck`, `reservation_unasked`, `visit_moved_without_row` | as above, smaller | the findings of section 5 |

Properties that are about one idea are checked as one conjunction (`RowsWellFormed`,
`RevocationIsFinal`, `MessagesAccountedFor`, `CalendarAgrees`, `NoticesAccountedFor`, ...) of
parts that are defined, and commented, in the component's module. The conjunction is there
too, because a theorem states it. The type invariant of a module is one of these parts.

**Bounds.** Two workers (claims) are the reaper's victim and its successor; a third only
repeats the successor, since tokens are compared for equality alone. Two attempts give an
uncertain attempt followed by a retry, and the limit. Two rows are a text and the document
that depends on it; two receipts are the least for which a review is still pending when
another one is decided, and for which the deposit is only reached together; three cases are
a taken one, the one of a slot conflict and one more. Two bookings, visits or requests are a
race, a third request in `calendar` is a cancellation beside a confirmation and a retry.
`MaxCases`, `MaxRows`, `MaxEpoch`, `MaxClaims`, `MaxCrashes`, `MaxRetries`, `MaxReprices`
and `MaxNow` bound inserts, resets, failures, interventions and the clock; they are named in
the guards. Conversations interact only through agents, and not at all in the guards of a
take, so the runs have one; the proofs have any number. Slices exist because pauses, retries
and a second row multiply; each pair of them meets in some slice.

The alphabets of `dialogue` hold doubtful readings in every flow that looks at the
confidence (a booking step does not), slots that are lost while a summary is awaited, and
copies that are not approved. The model that does not answer, twice in a row, is met in `resume`,
which has visits and captures both. Only `farewell` has a second conversation and a second message
waiting, because nothing else opens a conversation beside a resolved one; only `booking` has
prices that change, because no other flow shows one. The invariants about the calendar
are about part of the bookings: in `reservation` those that kept their time since they were
confirmed (outside `moved`), in `visits` those outside `disturbed`. The race excluded there
besides moves is a cancellation that reads the row before the confirmation has stored the
event's id: it finds nothing to delete, and the event outlives the visit (section 5).

**Deadlock.** Except in `dialogue` and `evidence`, runs end in states in which everything
is settled and the bounds are used up; deadlock is therefore not reported.

**Symmetry.** Workers, claims, requests and, in `reservation`, receipts are interchangeable.
No run of a liveness property uses symmetry.

**Fairness.** `run_worker` starts loops that poll until the process is told to stop, and a
failed iteration is logged and followed by the next. So weak fairness is assumed of
claiming, of the steps of a claim, of the reapers and of the clock, and in the inbox of
expansion and refresh. It is assumed of no producer, person or provider answer: a call ends
somehow (every client has a timeout), and which way is left open. Crashes are not fair.
`queues_drain` lets the initial state choose one queue and asks for the fairness of that
queue only; the queues share no row.

Time is left out where only its passing matters: a claim goes stale, and a row becomes due,
at any later moment. `Reservation`, `Appointments` and `Notifications` have a clock.

## 4. Proofs

Each module that declares constants names what is assumed of them: bounds are naturals (and
positive where the code's setting is), ids for "none" are no ids, sets of statuses and faults
are those the code has, prices, times and amounts are naturals, the deposit of `PaymentEvidence`
is a percentage between 1 and 100 and that of `Reservation` is between 1 and the price, and only what is counted or iterated over is finite. There is at least one plan,
customer and payment worker; workers and administrators differ, and so do the two kinds of
notification loop. The messages of `Dialogue` are any set of `Message`s, the records with one
value the classification schema allows for each field, in which a date that was understood has
its day. TLC evaluates these assumptions (`HumanCaseAssumption`, `OutboxAssumption`,
`InboxAssumption`, `ReservationAssumption`, `EvidenceAssumption`, `NotificationsAssumption`,
`RemindersAssumption`, `AppointmentsAssumption`, `TurnAssumption`, `BankAssumption`,
`DialogueAssumption`) in every run that extends the module.

Each component has one inductive invariant, which TLC checked on the run's instance before it
was proved; the theorems follow from it, and the action properties from it and the step.
Proofs go action by action, through *frame* lemmas that judge one row, conversation or visit
at a time.

* `HTypeInvariant`: `HSpec => []HTypeOK`. Lemmas `SetStateType`, `SetBotType`,
  `SetAgentType` and `NewCaseType` say that each writer returns a well-formed row; each
  action is a composition of writers.
* `HImplementsGate`: `HSpec => ImplementsGate`. `Later(cv, cw)` says that row `cw` may
  follow `cv`: the epoch does not decrease, and grows if the permission changes. Each
  validator writes a later row, `Later` is transitive, and so each transaction leaves the
  conversations alone or replaces one row by a later one (`OneRowLater`); that is a step
  of the gate or a stutter (`GateStep`).
* `ClosedStayClosed`: `HSpec => ClosedCasesStayClosed`. Each step writes an entry that was
  not closed, or only closes.
* `HumanActiveOwned`, `UnpausedClean`, `WaitingHasPending`, `OneAgent`: the four ownership
  invariants. None is inductive alone. `CaseInv` ties them together for one conversation
  and adds two facts: a CLOSED conversation has no open case, and a waiting conversation
  has a pending case which, if it is about a payment, has no taken case beside it. Without
  the latter a payment decision could resolve the only pending case and leave a taken one.
  `CaseInvFrame` shows that a conversation's invariant depends on its own open cases only,
  so each action is judged for the conversation it writes.
* `SlotsAreExclusive`, `MatrixIsFollowed`, `ReviewStopsExpiry`, `MoneyAddsUp` and
  `ReservationTypes`: any number of reservations, receipts, plans and panel requests, any
  prices, hours and faults. `NoDoubleBooking` is not inductive: a request that settles looked
  for overlapping reservations one step before it commits. `RInv` adds that what it saw is
  still so (`Checked`), because every step that confirms or moves a reservation needs the
  advisory lock and the lock has one holder (`OneHolder`); that a settling request still has
  an unreviewed receipt and a reservation that takes money (`HeldRows`), linked to each other
  (`Linked`); that a reservation nobody has paid for has no receipt to review
  (`NothingToReview`), from which the matrix follows, as an acceptance never finds its
  reservation in PAYMENT_PENDING; and that rows are created in the order of their ids
  (`Dense`). Steps that confirm and move nothing are judged at once (`QuietSafe`,
  `KeepsSlotsSafe`); the lock, the commit and the move have a lemma each.
  The clash that `NoDoubleBooking` excuses is a plan edited after the slot was checked: the
  history variable `edited` is set by `UpdatePlan`, and by a move that commits with the
  settings it read earlier; it is cleared when the slot is queried under the lock.
* `MoneyIsAccountedFor`: what a reservation says has been paid is the sum of its accepted
  receipts, it is confirmed only when that covers the deposit, and it does not expire while a
  receipt is under review. The sum is a fold over a set, so its recursion is reduced to
  counting: `SumIsUnits` shows that a sum of naturals over a finite set is the cardinality of
  its units (one pair per peso), and `SumAdds` that one more receipt adds its amount. With
  these, `Counted` is kept by each step that decides a receipt or writes `paid`.
* `EventsReleased`: the event of a cancelled reservation is not forgotten. Beside `RInv` it
  needs `CInv`: requests talk to the calendar only about reservations that are or were
  confirmed, and remove events of cancelled ones only; a request between its read and its
  record has the time the row still has, unless the reservation was moved (`JobFits`); and an
  event whose row is not both confirmed and aware of it has a request that will record it or
  remove it (`EventFits`). That a confirmed row can only be cancelled is `MatrixIsFollowed`.

* `WellFormed`, `SuppressedUnsent`, `HumanOutputSurvives`, `DeliversOnce`, `DocumentsFollow`,
  `RevocationFinal` (`OutboxProofs`, with everything `HumanCase` does in between). `OInv` says
  what a row may look like by itself (`RowOK`: only a row in SENDING has a token, the newest
  one drawn for it; claims are paid for by attempts; a suppressed row was not admitted), what
  it is about (`RowFits`: no epoch is in the future, a result is about a decided receipt), that
  a document was not claimed before its text was SENT (`TextsFirst`), that rows are numbered in
  the order of insertion (`InOrder`), and that jobs, batches and the provider's log only know
  tokens that were drawn (`JobsOK`, `BatchesOK`, `LogOK`). `SentByItsOwnClaim` needs all of
  them and `OneHolder`: a claim is in one place of one worker, so a second delivery under it
  would need a second holder. `RevocationFinal` rests on what `HumanCaseProofs` shows of
  epochs: they only grow, so an epoch that was left does not come back.
* `AccountedFor`, `AgendaFenced`, `ProcessedIsDone`, `ResetIsFinal`, `InOrderTurns`
  (`InboxProofs`). The centre of `IInv` is `Fenced`: a claim that changed the agenda, *or is
  making a call that may*, is the only one of its message, and the message is then finished,
  with a person, or still that claim's. Without the calls in progress the fence is not
  inductive, since the call's effect is a later step. `EarlierDone` (while a job runs the
  earlier ones of its conversation are done) gives the order of turns; `Numbered` and `Placed`
  show that a new job is behind all others and that a free conversation is left to open.
* `ReceiptsAccounted`, `AcceptSettles`, `DecisionEndsReadings`, `LoneWorkerKeeps`
  (`PaymentEvidenceProofs`). `PInv` says that a worker about to record a download has stored
  the declared bytes, and that a worker which still has the lease of a receipt finds its
  readings as it left them (`JobsFit`), from which the limit of automatic readings follows
  although the limit is tested at the claim only; and that every stored proposal is worth what
  the booking it saw asked for (`ReviewsOK`), rounded either way. `AcceptSettles` is about a
  reservation that still takes money and has the status the proposal saw, as its property
  says: one closed in between refuses every receipt. Downloads have no token: that a finished one is
  not undone is proved for a lone worker, as in production.
* `NoticesAccounted`, `OverdueIsPastDue`, `DeliveryAdvances` (`NoticesProofs`). The hard part
  is a report about a message whose notice was claimed and sent again meanwhile. `BInv` says
  that a notice in SENT names its message, and that one which names a message, and has not
  heard that it failed, is still SENT, DELIVERED or READ (`RowFits`); so the first report of a
  failure finds its notice, and no settlement or requeue takes a delivery back. A notice in
  SENT has attempts left, because a reported failure may queue it again.
* `CalendarAgreement`, `CancelledForGood` (`AppointmentsProofs`): any number of customers,
  visits and calls, any faults. Rows and events are written in different steps, so `AInv` says
  of each visit what its calls have done so far: nobody works on a row that was not inserted
  (`Fresh`); a confirmation has its visit for itself, in the slot it inserted, with no event
  before the create and the event after it; a cancellation writes the row only once the event
  is gone or the visit is marked (`CallsOf`); a visit left pending is being confirmed or
  marked (`Pending`); and between calls the event is where the row says (`Placed`). The
  partial unique index is `OnePerSlot`. Failures and crashes keep `AInv` because they mark.

* `ColumnsFitTogether`, `CallsFollowTheSummary`, `EachOnItsConfirmation` (`DialogueProofs`):
  every set of messages, days, hours, plans and prices, staff and prices interfering between
  turns. `DInv` says of each row, beside its types, that one whose state is
  APPOINTMENT_PENDING_CONFIRMATION has a complete visit draft, that the last summary showed its
  day and time as what the draft is, a new visit or a move, and that the question that is open
  is its confirmation or one of the few that displace it (`VisitShown`, `QuestionsFor`); that a
  move has no time while its day or time is awaited (`NoTimeYet`); that one which waits for
  CONFIRM_BOOKING was last shown its plan, day, time and price (`BookingShown`); that what is
  pending belongs to the state (`InPlace`); and that a quote which went to the staff is complete
  (`Quoted`). The properties do not ask for the first three, but a "sí" one turn later makes the
  call from the draft, so without them nothing relates the call to the summary. `NoTimeYet` is
  needed because the handlers that end in `prepare_visit_confirmation` ask for a new visit
  whatever the draft is: a doubtful message leads a move to them, and only its missing time, on
  which they raise, keeps them from summarising the move as a visit. A turn is
  a composition of some sixty handlers. Each has a lemma that leads from one *kind* of row to
  another (`Core`, `Gone`, `Filed`, `Idle`, `Fine`, `Open`, defined at the head of the module),
  so that a route is judged by chaining the kinds of its handlers; a turn that raises keeps
  the row it found. That the list of open fields has no repetitions is about a recursive
  function, `Extend`, and is shown by a least counterexample (`ExtendsTyped`).

Left to TLC. Liveness (`queues_drain`) is beyond the prover. `RaisesOnlyWhereKnown` and
`ResumesCapture` of `Dialogue`, which are about steps, are checked by its run and not proved.
`LoneWorkerKeepsDownloaded` is `DownloadedStays`, which is proved, in the slice with one worker.

## 5. Findings

Listed in `PROJECT.json`, each with a run that TLC must refute.

1. **A waiting case nobody can take** (`waiting_case_stuck`). A payment conflict notified
   while an agent owns the conversation moves it to WAITING_FOR_HUMAN with a new case, and
   `resolve_payment_handoffs` closes the agent's case but not the assignment
   (`app/reservation/notifications.py:102`). `require_pending_case` refuses the only open
   case, and every other route refuses too, except an admin's reset.
2. **A booking confirmed without asking the calendar** (`reservation_unasked`). Whether the
   calendar is read depends on the amount paid as it was before the settlement's transaction
   (`app/admin/routes.py:1226`). Of two receipts that reach the deposit together, accepted at
   once, neither request asks.
3. **A visit moved in the calendar and not in its row** (`visit_moved_without_row`). The event
   is moved before the row; another customer takes the slot, the unique index refuses the row,
   and nothing moves the event back or marks the visit (`app/appointment/service.py:738`).

**Further disagreements** between the code and a sentence of its docs or comments. Each has a
configuration, to be run with `tlc -config <cfg> <MC module>`, in which TLC finds the
behaviour told here.

| Configuration | Property | What happens |
|---|---|---|
| `MCOutboxSuppressed` | `SuppressedNeverSent` | a document perhaps sent is called SUPPRESSED: the retry's `reject_media_admission` overwrites the UNKNOWN phase of an earlier attempt (`app/channel/delivery.py:348`); for texts the claim of the comment holds |
| `MCInboxStaff` | `CompletedJobsMeanProcessed` | a staff message has no job, `refresh_event` counts it as missing (`app/channel/inbox.py:471`), and its event goes to REVIEW |
| `MCReservationOrphan` | `NoOrphanEvent` | a confirmation's event is created while a move commits; cancelled before the move's own synchronisation, the booking leaves its event behind (`app/reservation/settlement.py:390`) |
| `MCReservationStale` | `ConfirmedEventMatches` | two synchronisations write in the order opposite to their reads; the row says CONFIRMED and the event is at the old time (`settlement.py:327`) |
| `MCAppointmentsUncertain` | `VisitIsInCalendar` | an update applied but not answered counts as refused; nothing is marked (`app/appointment/service.py:718`) |
| `MCAppointmentsForgotten` | `CancelledLeavesCalendar` | a visit whose create was not heard is moved, which writes its event but not the id; its cancellation skips `delete_event` (`service.py:786`). With `Slices = {"race"}` no fault is needed: a cancellation that reads the row before the confirmation has stored the id skips it too |
| `MCDialogueDoubt` | `NoTurnRaises` | a doubtful message while attendees are asked overwrites the pending action; the summary then reads a count that was never stored (`app/orchestrator/service.py:594`) |
| `MCDialogueDoubt` | `OnlyUnderItsConfirmation`, put in place of `NoTurnRaises` | a doubtful message while a visit awaits its confirmation asks another question; the next yes books (`service.py:594`) |
| `MCDialogueDoubt` with `Slices = {"booking"}` | `NoTurnRaises` | the question for the customer's name is strict and nobody catches what its copy, not approved, raises (`booking_flow.py:627`) |
| `MCDialogueDoubt` with `Slices = {"farewell"}`, two conversations and `MaxBacklog = 2` | `NoTurnRaises` | a message queued behind a farewell is orchestrated in RESOLVED and raises (`service.py:1316`) |
| `MCDialogueTaken` | `TimeAskedInSelection` | a move that finds its slot taken asks for another time without leaving APPOINTMENT_PENDING_CONFIRMATION (`service.py:2271`) |
| `MCDialogueTaken` | `OnlyUnderItsConfirmation`, put in place of `TimeAskedInSelection` | the next yes moves the visit to the slot just found taken while its time is what is asked for (`service.py:2271`) |
| `MCDialogueFaq` | `QuoteAskedWhileReady` | a FAQ answered in QUOTE_REQUEST_READY ends in BOT_ACTIVE with the quote's question pending (`service.py:2965`) |
| `MCPaymentEvidenceSeventh` | `AttemptsBounded` | a worker that dies in its last attempt leaves a row that is downloaded once more (`app/payment/worker.py:157`) |
| `MCPaymentEvidenceUnseen` | `AcceptedWithItsFile` | a receipt is accepted before its file is there (`app/admin/routes.py:1219`) |
| `MCPaymentEvidenceUnseen` with `Slices = {"checks"}` | `AcceptSuggestionStands`, put in place of `AcceptedWithItsFile` | a receipt read after its reservation was cancelled or expired is still compared with the deposit and proposed ACCEPT (`app/payment/review.py:73`); accepting it answers 409 (`app/reservation/settlement.py:124`) |
| `MCNoticesWindow` | `DeferredOnlyOutsideWindow` | a recipient writes between claim and settlement; the notice is deferred with the window open (`app/notifications/worker.py:102`) |
| `MCNoticesUnheard` | `ReportedFailureCounts` | a failure reported before the provider id is stored is dropped (`app/notifications/statuses.py:19`) |
| `MCNoticesDeadline` | `RemindedBeforeDeadline` | a delayed reminder goes out after the deadline, which `admissible` does not look at (`app/notifications/customer_worker.py:83`) |

## 6. Abstractions and what is not modelled

* Text, templates and prompts. In `Dialogue` the classification returns one of an alphabet of
  readings; in `Inbox` and `HumanCase` a turn is any change the table permits.
* The receipts of one conversation belong to one reservation (or to none, `UNLINKED`).
* In `Inbox` each claim is a process of its own. Claims that wait in a batch are claims
  that have not taken a step, which allows more interleavings than a batch does. The states
  WAITING_FOR_HUMAN and HUMAN_ACTIVE and a disabled bot are one stage, PAUSED: all three
  make a turn silent.
* In `Dialogue` classification and application of a message are one step (`Inbox` has the
  fingerprint that keeps them together), a customer plans one event, the duration of a plan
  is fixed, `bot_enabled` follows the paused states, and the fallback copies (RESP-AI-ERROR-001,
  the transfer notice) are approved. Of the others those sent strictly may not be, which the
  code answers by calling a person or, for the question of a name, not at all; the rest are
  replaced by the fallback, which changes nothing but the text.
  A staff takeover of a RESOLVED conversation while a newer one is active leaves two active
  ones; no document speaks about it.
* In `Reservation` the calendar read of a manual booking is part of its commit.
* In `Appointments` a patch of a blocked day changes its reason only.
* In `Notifications` both features are switched on, provider timestamps are not in the
  future, error 131047 given as an answer is permanent, and the parameters of a reminder are
  those of its enqueueing.
* Authentication is a transaction that ends before the route's own, so the routes do not
  look at `active`, except for the target of a reassignment. Passwords and tokens are not
  modelled.
* Not modelled: audio transcription and the media cache (provider I/O with one winning
  write), the CRUD of catalogs, knowledge and holidays, AI client, the HTTP of the calendar
  adapters, text understanding, presentation, configuration and migrations; they keep no
  state the protocols depend on.

## 7. What is left

1. `DeliveryQueue`: an abstract at-least-once queue with fenced claims, refined by `Outbox`
   and by the notification queues.
2. Media cache, audio transcription, the last active admin.
