------------------------------ MODULE MCQueues ------------------------------
(***************************************************************************)
(* The background loops drain their queues.  Small instances of the four   *)
(* queues of the worker processes: customer outbox, inbox, receipts, and   *)
(* the notices to staff and customers.  They share no row, so a behaviour  *)
(* runs one of them, the one the initial state chooses, under that queue's *)
(* own fairness.                                                           *)
(***************************************************************************)
EXTENDS Integers

CONSTANTS
    Queues,   \* the queues considered
    NoAgent, NoEvidence, NoTime

VARIABLES
    queue,
    conv, handoffs, evidence, active, outbox, outboxBatch, outboxJob, delivered,
    events, jobs, ctx, claim, applied, mutated,
    receipts, file, reviews, receiptJob, paid, crashes, retries,
    recipients, notices, batch, messages, heard, missed, now, booking

outboxVars == <<conv, handoffs, evidence, active, outbox, outboxBatch, outboxJob, delivered>>
inboxVars == <<events, jobs, ctx, claim, applied, mutated>>
receiptVars == <<receipts, file, reviews, receiptJob, paid, crashes, retries>>
noticeVars == <<recipients, notices, batch, messages, heard, missed, now, booking>>
all == <<queue, outboxVars, inboxVars, receiptVars, noticeVars>>

Outbound == INSTANCE Outbox WITH
    Conversations <- {"c1"}, Agents <- {"a1"}, Admins <- {"a1"}, Evidence <- {}, MaxCases <- 0,
    MaxEpoch <- 0, BotStates <- {"BOT_ACTIVE"}, Workers <- {"w1"}, MaxRows <- 2,
    MaxAttempts <- 2, BatchSize <- 2, LegacyStatuses <- {},
    batch <- outboxBatch, job <- outboxJob

Inbound == INSTANCE Inbox WITH
    Customers <- {1}, Staff <- {}, Messages <- {1, 2}, Sender <- <<1, 1>>, Events <- {1},
    Payload <- <<{1, 2}>>, Legacy <- {}, OldEvents <- {}, Claimers <- {"w1"}, Data <- {0},
    MaxAttempts <- 2, MaxCalls <- 1, MaxClaims <- 1, MaxEpoch <- 1

Receipts == INSTANCE PaymentEvidence WITH
    Workers <- {"w1"}, Admins <- {"a1"}, MaxReceipts <- 1, Kinds <- {"IMAGE", "OTHER"},
    Linked <- {},
    Readings <- {[legible |-> TRUE, amount |-> 2000, cop |-> TRUE, account |-> "OURS",
                  date |-> "INSIDE", reference |-> "R1", confidence |-> "OK"]},
    Price <- 3001, Percent <- 50, Amounts <- {2000}, MAX_DOWNLOAD_ATTEMPTS <- 2, MaxReviews <- 2,
    MaxCrashes <- 1, MaxRetries <- 1,
    job <- receiptJob, booking <- paid

\* A test message to the one recipient, and the two reminders of the one booking.
ReminderKeys == [to : {"b1"}, kind : {"BALANCE_REMINDER_EARLY", "BALANCE_REMINDER_DUE"}, src : {0}]

Staff == INSTANCE Notifications WITH
    Loops <- {"w1"}, ReminderLoops <- {"w2"}, Recipients <- {"r1"},
    Events <- {[kind |-> "TEST", src |-> 1]}, Reminders <- ReminderKeys,
    Forms <- {[status |-> s, evidence |-> TRUE, pending |-> TRUE] : s \in {"ACTIVE", "INACTIVE"}},
    Templates <- {}, MaxAttempts <- 2, BatchSize <- 2, WindowLen <- 1, MaxAge <- 1, MaxNow <- 3

Reminders == INSTANCE BalanceReminders WITH
    Loops <- {"w1"}, ReminderLoops <- {"w2"}, Recipients <- {"r1"},
    Events <- {[kind |-> "TEST", src |-> 1]}, Reminders <- ReminderKeys, Forms <- {},
    Templates <- {}, MaxAttempts <- 2, BatchSize <- 2, WindowLen <- 1, MaxAge <- 1, MaxNow <- 6,
    Bookings <- {"b1"}, Starts <- {5}, Price <- 3, Deposit <- 1, DayLen <- 2,
    ReminderTime <- 0, DaysBefore <- 2, Template <- TRUE

MCInit == /\ queue \in Queues
          /\ Outbound!OInit /\ Inbound!IInit /\ Receipts!PInit /\ Reminders!BInit

OutboxStep == Outbound!ONext /\ UNCHANGED <<inboxVars, receiptVars, noticeVars>>
InboxStep == Inbound!INext /\ UNCHANGED <<outboxVars, receiptVars, noticeVars>>
ReceiptStep == Receipts!PNext /\ UNCHANGED <<outboxVars, inboxVars, noticeVars>>
StaffStep == Staff!QueueNext /\ UNCHANGED <<outboxVars, inboxVars, receiptVars, booking>>
ReminderStep == Reminders!BNext /\ UNCHANGED <<outboxVars, inboxVars, receiptVars>>

MCNext == /\ UNCHANGED queue
          /\ \/ queue = "outbox" /\ OutboxStep
             \/ queue = "inbox" /\ InboxStep
             \/ queue = "receipts" /\ ReceiptStep
             \/ queue = "staff" /\ StaffStep
             \/ queue = "reminders" /\ ReminderStep

\* OFairness, IFairness, PFairness, QueueFairness and BFairness, each of its own queue.
OutboxFairness ==
    /\ WF_outboxVars(queue = "outbox" /\ Outbound!ClaimSome)
    /\ WF_outboxVars(queue = "outbox" /\ Outbound!Process("w1"))
    /\ \A r \in {1, 2} : WF_outboxVars(queue = "outbox" /\ Outbound!Recover(r))
InboxFairness ==
    /\ WF_inboxVars(queue = "inbox" /\ Inbound!Expand(1))
    /\ WF_inboxVars(queue = "inbox" /\ Inbound!RefreshEvent(1))
    /\ WF_inboxVars(queue = "inbox" /\ Inbound!ClaimSome)
    /\ WF_inboxVars(queue = "inbox" /\ Inbound!Process("w1"))
    /\ \A m \in {1, 2} : WF_inboxVars(queue = "inbox" /\ Inbound!RecoverStale(m))
ReceiptFairness ==
    /\ WF_receiptVars(queue = "receipts" /\ Receipts!WorkerStep("w1"))
    /\ WF_receiptVars(queue = "receipts" /\ Receipts!ReadingStep("w1"))
    /\ WF_receiptVars(queue = "receipts" /\ 1 \in Receipts!Ids /\ Receipts!Due(1))
    /\ WF_receiptVars(queue = "receipts" /\ 1 \in Receipts!Ids /\ Receipts!LeaseEnds(1))
StaffFairness ==
    /\ WF_noticeVars(queue = "staff" /\ Staff!Tick /\ UNCHANGED booking)
    /\ WF_noticeVars(queue = "staff" /\ Staff!maintain_queue("w1", Staff!StaffKeys) /\ UNCHANGED booking)
    /\ WF_noticeVars(queue = "staff" /\ Staff!claim_staff_outbox_batch("w1") /\ UNCHANGED booking)
    /\ WF_noticeVars(queue = "staff" /\ Staff!Send("w1") /\ UNCHANGED booking)
    /\ WF_noticeVars(queue = "staff" /\ Staff!settle_claim("w1") /\ UNCHANGED booking)
ReminderFairness ==
    /\ WF_noticeVars(queue = "reminders" /\ Reminders!Tick /\ UNCHANGED booking)
    /\ WF_noticeVars(queue = "reminders" /\ Reminders!maintain_queue("w2", ReminderKeys) /\ UNCHANGED booking)
    /\ WF_noticeVars(queue = "reminders" /\ Reminders!claim_customer_batch("w2"))
    /\ WF_noticeVars(queue = "reminders" /\ Reminders!Send("w2") /\ UNCHANGED booking)
    /\ WF_noticeVars(queue = "reminders" /\ Reminders!settle_claim("w2") /\ UNCHANGED booking)

MCSpec == /\ MCInit /\ [][MCNext]_all
          /\ OutboxFairness /\ InboxFairness /\ ReceiptFairness
          /\ StaffFairness /\ ReminderFairness

\* Every row the outbox holds is sent or given up, through crashes and stale claims: see Outbox.
EveryRowSettles == Outbound!EveryRowSettles

\* Every message is answered or waits for a person, and every stored webhook event is
\* classified or has a message that does: see Inbox.
InboxDrains == Inbound!EveryMessageSettles /\ Inbound!EveryEventSettles

\* Every receipt is downloaded or given up, and then read, decided, or has failed to be read
\* often enough: see PaymentEvidence.
ReceiptsDrain == Receipts!DownloadSettles /\ Receipts!ReadingSettles

\* Every notice to staff is sent, given up or expired, and a reminder of a balance that is
\* settled for good expires: see Notifications and BalanceReminders.
NoticesDrain == Staff!EveryNoticeSettles /\ Reminders!SettledReminderExpires
=============================================================================
