-------------------------- MODULE PaymentEvidence ---------------------------
(***************************************************************************)
(* The life of a receipt (app/payment): the worker downloads the file a    *)
(* customer sent, reads it with a vision model and proposes a decision; an *)
(* administrator may ask for another reading, and decides.                 *)
(*                                                                         *)
(* Downloads and readings run outside any transaction, between a claim and *)
(* a settlement.  A download is claimed by pushing next_attempt_at ahead,  *)
(* a reading by a token.  Time is the three actions that let a lease or a  *)
(* backoff end and a receipt grow old, at any moment.                      *)
(***************************************************************************)
EXTENDS Naturals, Sequences, FiniteSets, SequencesExt

CONSTANTS
    Workers,      \* processes that run _run_payment_evidence_loop
    Admins,       \* requests for another reading
    MaxReceipts,  \* bound: receipts of all customers
    Kinds,        \* MIME types considered: "IMAGE", "PDF", "OTHER"
    Linked,       \* receipts the customer of the reservation sends
    Readings,     \* what the model may read from a receipt
    Price,        \* reservation.price_cop
    Percent,      \* settings.booking_deposit_percent
    Amounts,      \* sums an administrator may type
    MAX_DOWNLOAD_ATTEMPTS,
    MaxReviews,   \* settings.payment_review_max_attempts
    MaxCrashes,   \* bound: interrupted jobs
    MaxRetries    \* bound: readings asked for by administrators

ASSUME EvidenceAssumption ==
    /\ Workers # {} /\ IsFiniteSet(Workers) /\ Workers \cap Admins = {}
    /\ "NONE" \notin Workers \cup Admins
    /\ \A x \in Readings : x.amount \in Nat
    /\ MaxReceipts \in Nat \ {0} /\ Linked \subseteq 1..MaxReceipts
    /\ Kinds \subseteq {"IMAGE", "PDF", "OTHER"}
    /\ Price \in Nat \ {0} /\ Percent \in 1..100 /\ Amounts \subseteq Nat \ {0}
    /\ MAX_DOWNLOAD_ATTEMPTS \in Nat \ {0} /\ MaxReviews \in Nat \ {0}
    /\ MaxCrashes \in Nat /\ MaxRetries \in Nat

VARIABLES
    receipts, \* payment_evidence, oldest first
    file,     \* the file of each receipt in the private directory
    reviews,  \* payment_evidence_review of each receipt
    job,      \* what each worker and each request is doing
    booking,  \* the reservation: "REQUESTED" (PAYMENT_PENDING or PAYMENT_REVIEW), "RESERVED"
              \* or "CLOSED" (EXPIRED or CANCELLED), and the amount paid
    crashes, retries

pvars == <<receipts, file, reviews, job, booking, crashes, retries>>

None == "NONE"
Ids == DOMAIN receipts
Actors == Workers \cup Admins

\* Mutant: a status the CHECK constraint does not know.
NewReceiptMisnamed(kind, linked) ==
    [ kind |-> kind, linked |-> linked, download |-> "RECEIVED", attempts |-> 0, due |-> TRUE,
      old |-> FALSE, decision |-> "PENDING_REVIEW", amount |-> 0, lease |-> None, live |-> FALSE ]

\* "due" is next_attempt_at <= now; "lease" the holder of the token, "live" until
\* outbox_sending_timeout_seconds have passed.
NewReceipt(kind, linked) ==
    [ kind |-> kind, linked |-> linked, download |-> "PENDING", attempts |-> 0, due |-> TRUE,
      old |-> FALSE, decision |-> "PENDING_REVIEW", amount |-> 0, lease |-> None, live |-> FALSE ]

NoReading == [legible |-> FALSE, amount |-> 0, cop |-> TRUE, account |-> "UNREAD", date |-> "UNREAD",
              reference |-> None, confidence |-> "FAIL"]
Idle == [pc |-> "idle", id |-> 0, permanent |-> FALSE, status |-> None, reading |-> NoReading,
         download |-> None]

PInit ==
    /\ receipts = << >> /\ file = << >> /\ reviews = << >>
    /\ job = [a \in Actors |-> Idle]
    /\ booking = [status |-> "REQUESTED", paid |-> 0]
    /\ crashes = 0 /\ retries = 0

(***************************************************************************)
(* The receipt arrives                                                     *)
(***************************************************************************)
\* payment_reservation_candidate: an open reservation with something left to pay.
Candidate == booking.status = "REQUESTED" \/ (booking.status = "RESERVED" /\ booking.paid < Price)

\* It is linked to its customer's reservation, unless the event has begun.
create_payment_evidence(kind, linked) ==
    /\ Len(receipts) < MaxReceipts
    /\ linked => Len(receipts) + 1 \in Linked /\ Candidate
    /\ receipts' = Append(receipts, NewReceipt(kind, linked))
    /\ file' = Append(file, None)
    /\ reviews' = Append(reviews, << >>)
    /\ UNCHANGED <<job, booking, crashes, retries>>

(***************************************************************************)
(* Download                                                                *)
(***************************************************************************)
\* Mutant: the status is not looked at.
ClaimableInAnyStatus(id) == receipts[id].due

\* Mutant: a failed download is not tried again.
ClaimableOnlyPending(id) == receipts[id].download = "PENDING" /\ receipts[id].due

Claimable(id) == receipts[id].download \in {"PENDING", "FAILED_RETRYABLE"} /\ receipts[id].due

\* The oldest due receipt; without one the loop goes on to the readings.
claim_one_evidence(w) ==
    LET claimable == {id \in Ids : Claimable(id)} IN
    /\ job[w].pc = "idle"
    /\ UNCHANGED <<file, reviews, booking, crashes, retries>>
    /\ IF claimable = {}
       THEN /\ job' = [job EXCEPT ![w].pc = "review"]
            /\ UNCHANGED receipts
       ELSE LET id == CHOOSE i \in claimable : \A j \in claimable : i <= j IN
            /\ receipts' = [receipts EXCEPT ![id].attempts = @ + 1, ![id].due = FALSE]
            /\ job' = [job EXCEPT ![w] = [Idle EXCEPT !.pc = "download", !.id = id]]

\* Types that are not stored, and receipts older than MEDIA_DOWNLOAD_WINDOW, fail
\* without a call.
Refused(id) == receipts[id].kind = "OTHER" \/ receipts[id].old

\* Mutant: any bytes are stored.
ValidAnyBytes(bytes) == TRUE

\* validate_download: the bytes hash to what the message declared.
validate_download(bytes) == bytes = "DECLARED"

\* download_inbound_media answered with bytes; what does not match is never stored.
Downloaded(w, bytes) ==
    LET id == job[w].id IN
    /\ job[w].pc = "download" /\ ~Refused(id)
    /\ IF validate_download(bytes)
       THEN /\ file' = [file EXCEPT ![id] = bytes]
            /\ job' = [job EXCEPT ![w].pc = "stored"]
       ELSE /\ job' = [job EXCEPT ![w].pc = "failed", ![w].permanent = TRUE]
            /\ UNCHANGED file
    /\ UNCHANGED <<receipts, reviews, booking, crashes, retries>>

\* A refusal, a file that is too large, an HTTP error or a full disk.
NotDownloaded(w, permanent) ==
    LET id == job[w].id IN
    /\ job[w].pc = "download"
    /\ Refused(id) => permanent
    /\ job' = [job EXCEPT ![w].pc = "failed", ![w].permanent = permanent]
    /\ UNCHANGED <<receipts, file, reviews, booking, crashes, retries>>

settle_success(w) ==
    /\ job[w].pc = "stored"
    /\ receipts' = [receipts EXCEPT ![job[w].id].download = "DOWNLOADED"]
    /\ job' = [job EXCEPT ![w] = [Idle EXCEPT !.pc = "review"]]
    /\ UNCHANGED <<file, reviews, booking, crashes, retries>>

PermanentFailure(w) ==
    job[w].permanent \/ receipts[job[w].id].attempts >= MAX_DOWNLOAD_ATTEMPTS

settle_failure(w) ==
    /\ job[w].pc = "failed"
    /\ receipts' = [receipts EXCEPT ![job[w].id].download =
                        IF PermanentFailure(w) THEN "FAILED_PERMANENT" ELSE "FAILED_RETRYABLE"]
    /\ job' = [job EXCEPT ![w] = [Idle EXCEPT !.pc = "review"]]
    /\ UNCHANGED <<file, reviews, booking, crashes, retries>>

(***************************************************************************)
(* The deterministic checks (evaluate_receipt)                             *)
(***************************************************************************)
\* Mutant: the deposit is rounded down.
DepositRoundedDown == ((Price * Percent) \div 100000) * 1000

\* The pre-review rounds the deposit itself, up to thousands; deposit_amount is not called.
deposit == ((Price * Percent + 99999) \div 100000) * 1000

Target(b) == IF b.status = "RESERVED" THEN Price ELSE deposit

AmountCheck(x, linked, b) ==
    IF ~linked \/ ~x.legible THEN "UNKNOWN" ELSE IF x.amount = 0 THEN "FAIL"
    ELSE IF x.amount + b.paid >= Target(b) THEN "OK" ELSE "WARN"
AccountCheck(x) ==
    CASE x.account = "UNREAD" -> "UNKNOWN" [] x.account = "OURS" -> "OK" [] OTHER -> "FAIL"
DateCheck(x, linked) ==
    CASE x.date = "UNREAD" -> "UNKNOWN"
      [] x.date = "FUTURE" -> "FAIL"
      [] x.date \in {"EARLY", "INSIDE"} /\ ~linked -> "UNKNOWN"
      [] x.date = "EARLY" /\ linked -> "WARN"
      [] OTHER -> "OK"
ReferenceCheck(x, used) ==
    IF x.reference = None THEN "UNKNOWN" ELSE IF x.reference \in used THEN "FAIL" ELSE "OK"

checks(x, linked, b, used) ==
    [ AMOUNT |-> AmountCheck(x, linked, b), CURRENCY |-> IF x.cop THEN "OK" ELSE "FAIL",
      ACCOUNT |-> AccountCheck(x), DATE |-> DateCheck(x, linked),
      REFERENCE |-> ReferenceCheck(x, used), CONFIDENCE |-> x.confidence ]

suggestion(c) ==
    IF \E code \in {"ACCOUNT", "REFERENCE"} : c[code] = "FAIL" THEN "REJECT"
    ELSE IF \A code \in DOMAIN c :
              c[code] = "OK" \/ (c[code] = "UNKNOWN" /\ code \in {"DATE", "REFERENCE"})
         THEN "ACCEPT" ELSE "REVIEW"

evaluate_receipt(x, linked, b, used) == suggestion(checks(x, linked, b, used))

(***************************************************************************)
(* Readings                                                                *)
(***************************************************************************)
\* Mutant: a lease never ends by itself.
LeaseReleased(id) == receipts[id].lease = None

LeaseAvailable(id) == receipts[id].lease = None \/ ~receipts[id].live
HasFileOrFailed(id) == receipts[id].download \in {"DOWNLOADED", "FAILED_PERMANENT"}
Terminal(review) == review.status \in {"COMPLETED", "SKIPPED"}

\* Which receipts the worker reads by itself.
Reviewable(id) ==
    /\ HasFileOrFailed(id)
    /\ receipts[id].decision = "PENDING_REVIEW"
    /\ \A n \in DOMAIN reviews[id] : ~Terminal(reviews[id][n])
    /\ Len(reviews[id]) < MaxReviews
    /\ LeaseAvailable(id)

\* TX1: the lease is taken and committed; the claim is a snapshot.
Lease(a, id) ==
    /\ receipts' = [receipts EXCEPT ![id].lease = a, ![id].live = TRUE]
    /\ job' = [job EXCEPT ![a] = [Idle EXCEPT !.pc = "read", !.id = id,
                                              !.download = receipts[id].download]]
    /\ UNCHANGED <<file, reviews, booking, crashes>>

claim_prereview_evidence(w) ==
    LET reviewable == {id \in Ids : Reviewable(id)} IN
    /\ job[w].pc = "review"
    /\ UNCHANGED retries
    /\ IF reviewable = {}
       THEN /\ job' = [job EXCEPT ![w] = Idle]
            /\ UNCHANGED <<receipts, file, reviews, booking, crashes>>
       ELSE Lease(w, CHOOSE i \in reviewable : \A j \in reviewable : i <= j)

\* The administrator's request: neither earlier readings nor their number matter.
retry_payment_prereview(a, id) ==
    /\ job[a].pc = "idle" /\ retries < MaxRetries
    /\ receipts[id].decision = "PENDING_REVIEW"
    /\ HasFileOrFailed(id) /\ LeaseAvailable(id)
    /\ retries' = retries + 1
    /\ Lease(a, id)

\* Nothing is read from a failed download or a PDF.
Skipped(a) == job[a].download = "FAILED_PERMANENT" \/ receipts[job[a].id].kind # "IMAGE"

\* The reading, outside any transaction: the file, then the model.
Read(a, status, reading) ==
    /\ job[a].pc = "read"
    /\ status \in IF Skipped(a) THEN {"SKIPPED"}
                  ELSE IF file[job[a].id] = None THEN {"FAILED"} ELSE {"COMPLETED", "FAILED"}
    /\ status # "COMPLETED" => reading = NoReading
    /\ job' = [job EXCEPT ![a].pc = "settle", ![a].status = status, ![a].reading = reading]
    /\ UNCHANGED <<receipts, file, reviews, booking, crashes, retries>>

\* The references of the last completed reading of every accepted receipt.
LastCompleted(id) == SelectLastInSeq(reviews[id], LAMBDA r : r.status = "COMPLETED")
accepted_references ==
    {reviews[id][LastCompleted(id)].reference :
        id \in {i \in Ids : receipts[i].decision = "ACCEPTED" /\ LastCompleted(i) # 0}} \ {None}

\* Mutants: the lease, or the decision, is not looked at again.
OwnsIfUndecided(a) == receipts[job[a].id].decision = "PENDING_REVIEW"
OwnsIfLeased(a) == receipts[job[a].id].lease = a

\* TX2 looks at the decision and at the token again.
StillOwns(a) ==
    /\ receipts[job[a].id].decision = "PENDING_REVIEW"
    /\ receipts[job[a].id].lease = a

NewReview(a) ==
    LET id == job[a].id
        x == job[a].reading
        done == job[a].status = "COMPLETED"
    IN  [ status |-> job[a].status, auto |-> a \in Workers, reference |-> x.reference,
          suggestion |-> IF done
                         THEN evaluate_receipt(x, receipts[id].linked, booking, accepted_references)
                         ELSE "REVIEW",
          amount |-> x.amount, seen |-> booking ]

\* prereview_evidence, second transaction; a lost lease leaves no review.
prereview_evidence(a) ==
    LET id == job[a].id IN
    /\ job[a].pc = "settle"
    /\ reviews' = IF StillOwns(a) THEN [reviews EXCEPT ![id] = Append(@, NewReview(a))]
                  ELSE reviews
    /\ receipts' = IF receipts[id].lease = a
                   THEN [receipts EXCEPT ![id].lease = None, ![id].live = FALSE]
                   ELSE receipts
    /\ job' = [job EXCEPT ![a] = Idle]
    /\ UNCHANGED <<file, booking, crashes, retries>>

(***************************************************************************)
(* The decision                                                            *)
(***************************************************************************)
deposit_amount(price) == ((price * Percent + 100000 - 1) \div 100000) * 1000

\* accept_payment takes no money for a reservation that expired or was cancelled.
TakesPayment(b) == b.status \in {"REQUESTED", "RESERVED"}

\* What it does to the others: the deposit confirms a request unless its slot was taken
\* (Reservation says when), more pays the balance.
AfterPayment(b, amount, taken) ==
    [b EXCEPT !.paid = @ + amount,
              !.status = IF b.paid + amount >= deposit_amount(Price) /\ ~taken
                         THEN "RESERVED" ELSE @]

\* settle_payment_evidence: what is read before its transaction is checked again in it, and a
\* refusal of accept_payment rolls everything back.
accept_payment_evidence(id, amount, taken) ==
    /\ receipts[id].decision = "PENDING_REVIEW"
    /\ receipts[id].download # "FAILED_PERMANENT"
    /\ receipts[id].linked => TakesPayment(booking)
    /\ receipts' = [receipts EXCEPT ![id].decision = "ACCEPTED", ![id].amount = amount]
    /\ booking' = IF receipts[id].linked THEN AfterPayment(booking, amount, taken) ELSE booking
    /\ UNCHANGED <<file, reviews, job, crashes, retries>>

reject_payment_evidence(id) ==
    /\ receipts[id].decision = "PENDING_REVIEW"
    /\ receipts' = [receipts EXCEPT ![id].decision = "REJECTED"]
    /\ UNCHANGED <<file, reviews, job, booking, crashes, retries>>

\* cancel_reservation, or expire_pending_reservations.  Before a receipt is linked to it the
\* reservation is none of theirs.
CloseReservation ==
    /\ booking.status # "CLOSED"
    /\ \E id \in Ids : receipts[id].linked
    /\ booking' = [booking EXCEPT !.status = "CLOSED"]
    /\ UNCHANGED <<receipts, file, reviews, job, crashes, retries>>

(***************************************************************************)
(* Time and failures                                                       *)
(***************************************************************************)
\* A backoff or a download lease is over.
Due(id) ==
    /\ receipts[id].download \in {"PENDING", "FAILED_RETRYABLE"} /\ ~receipts[id].due
    /\ receipts' = [receipts EXCEPT ![id].due = TRUE]
    /\ UNCHANGED <<file, reviews, job, booking, crashes, retries>>
LeaseEnds(id) ==
    /\ receipts[id].live
    /\ receipts' = [receipts EXCEPT ![id].live = FALSE]
    /\ UNCHANGED <<file, reviews, job, booking, crashes, retries>>
GrowsOld(id) ==
    /\ receipts[id].download \in {"PENDING", "FAILED_RETRYABLE"} /\ ~receipts[id].old
    /\ receipts' = [receipts EXCEPT ![id].old = TRUE]
    /\ UNCHANGED <<file, reviews, job, booking, crashes, retries>>

\* The process dies, or the loop catches an exception: the claim is left behind.
Crash(a) ==
    /\ crashes < MaxCrashes /\ job[a] # Idle
    /\ job' = [job EXCEPT ![a] = Idle]
    /\ crashes' = crashes + 1
    /\ UNCHANGED <<receipts, file, reviews, booking, retries>>

WorkerStep(w) ==
    \/ claim_one_evidence(w)
    \/ \E bytes \in {"DECLARED", "OTHER"} : Downloaded(w, bytes)
    \/ \E permanent \in BOOLEAN : NotDownloaded(w, permanent)
    \/ settle_success(w) \/ settle_failure(w)
    \/ claim_prereview_evidence(w)
ReadingStep(a) ==
    \/ \E status \in {"COMPLETED", "FAILED", "SKIPPED"}, x \in Readings \cup {NoReading} :
          Read(a, status, x)
    \/ prereview_evidence(a)

PNext ==
    \/ \E kind \in Kinds, linked \in BOOLEAN : create_payment_evidence(kind, linked)
    \/ \E w \in Workers : WorkerStep(w)
    \/ \E a \in Actors : ReadingStep(a) \/ Crash(a)
    \/ \E a \in Admins, id \in Ids : retry_payment_prereview(a, id)
    \/ \E id \in Ids, amount \in Amounts, taken \in BOOLEAN :
          accept_payment_evidence(id, amount, taken)
    \/ \E id \in Ids : reject_payment_evidence(id)
    \/ CloseReservation
    \/ \E id \in Ids : Due(id) \/ LeaseEnds(id) \/ GrowsOld(id)

PSpec == PInit /\ [][PNext]_pvars

\* The loop runs for ever, and so does the clock.
PFairness ==
    /\ \A w \in Workers : WF_pvars(WorkerStep(w)) /\ WF_pvars(ReadingStep(w))
    /\ \A id \in 1..MaxReceipts :
          /\ WF_pvars(id \in Ids /\ Due(id))
          /\ WF_pvars(id \in Ids /\ LeaseEnds(id))

FairPSpec == PSpec /\ PFairness

(***************************************************************************)
(* Properties                                                              *)
(***************************************************************************)
\* The columns keep the values of their CHECK constraints, and a lease has a holder.
PTypeOK ==
    /\ Len(file) = Len(receipts) /\ Len(reviews) = Len(receipts)
    /\ \A id \in Ids :
        /\ receipts[id].download \in
               {"PENDING", "DOWNLOADED", "FAILED_RETRYABLE", "FAILED_PERMANENT"}
        /\ receipts[id].decision \in {"PENDING_REVIEW", "ACCEPTED", "REJECTED"}
        /\ receipts[id].attempts \in Nat
        /\ receipts[id].lease \in Actors \cup {None}
        /\ receipts[id].live => receipts[id].lease # None
        /\ (receipts[id].decision = "ACCEPTED") = (receipts[id].amount > 0)
        /\ \A n \in DOMAIN reviews[id] :
              reviews[id][n].status \in {"COMPLETED", "FAILED", "SKIPPED"}
    /\ \A a \in Actors : job[a].pc # "idle" /\ job[a].id # 0 => job[a].id \in Ids
    /\ booking.status \in {"REQUESTED", "RESERVED", "CLOSED"} /\ booking.paid \in Nat

\* What is shown as downloaded is on disk, and is the file the message declared,
\* whatever crashed between storing it and recording it.
DownloadedIsVerified ==
    \A id \in Ids : receipts[id].download = "DOWNLOADED" => file[id] = "DECLARED"

KeepsDownloaded ==
    \A id \in Ids : receipts[id].download = "DOWNLOADED" => receipts'[id].download = "DOWNLOADED"

\* With the one worker the deployment runs, a downloaded receipt stays downloaded: a
\* late failure of an earlier claim never takes it back.
DownloadedStays == [][Cardinality(Workers) = 1 => KeepsDownloaded]_pvars

AutoReviews(id) == {n \in DOMAIN reviews[id] : reviews[id][n].auto}

\* The worker records at most MaxReviews readings of a receipt and none after one
\* that settled it, however its leases end and whoever reads in between.
AutomaticReviewsBounded ==
    \A id \in Ids :
        /\ Cardinality(AutoReviews(id)) <= MaxReviews
        /\ \A n \in AutoReviews(id) : n <= MaxReviews
        /\ \A n \in AutoReviews(id), m \in DOMAIN reviews[id] :
              m < n => ~Terminal(reviews[id][m])

\* Receipts are well formed: a downloaded one has the bytes that were declared, also after a
\* crash between storing and recording them, and the worker reads no receipt on its own more
\* often than it may, whatever leases end under it.
ReceiptsAccountedFor == PTypeOK /\ DownloadedIsVerified /\ AutomaticReviewsBounded

\* A decision closes the receipt: a reading that comes later is discarded.
NoReviewAfterDecision ==
    [][\A id \in Ids : receipts[id].decision # "PENDING_REVIEW" =>
          reviews'[id] = reviews[id]]_pvars

\* A proposal to accept is worth a settlement as long as the reservation has the open status
\* it was read against: accepting the amount the proposal names completes the deposit, rounded
\* as accept_payment rounds it, or the balance once reserved, whatever else was paid meanwhile.
\* A reservation closed since, or before the reading, takes no money (TakesPayment).
AcceptSuggestionSettles ==
    \A id \in Ids : \A n \in DOMAIN reviews[id] :
        LET r == reviews[id][n]
            after == AfterPayment(booking, r.amount, FALSE)
        IN  (/\ receipts[id].linked /\ r.suggestion = "ACCEPT"
             /\ TakesPayment(booking) /\ r.seen.status = booking.status)
              => after.status = "RESERVED" /\ (booking.status = "RESERVED" => after.paid >= Price)

\* What the model proposes to accept can be accepted when it is proposed (review.py: "Monto
\* suficiente para el anticipo").
AcceptSuggestionStands ==
    \A id \in Ids : \A n \in DOMAIN reviews[id] :
        receipts[id].linked /\ reviews[id][n].suggestion = "ACCEPT" =>
            TakesPayment(reviews[id][n].seen)

\* A sixth attempt is the last one (flows.md: "sexto intento").
AttemptsBounded == \A id \in Ids : receipts[id].attempts <= MAX_DOWNLOAD_ATTEMPTS

\* A receipt is accepted from its file (flows.md: "revisa el archivo local").
AcceptedWithItsFile ==
    \A id \in Ids : receipts[id].decision = "ACCEPTED" => file[id] = "DECLARED"

\* Every receipt is downloaded or given up, even if the worker dies in between.
DownloadSettles ==
    \A id \in 1..MaxReceipts :
        id \in Ids ~> (id \in Ids /\ HasFileOrFailed(id))

Proposed(id) ==
    \/ receipts[id].decision # "PENDING_REVIEW"
    \/ \E n \in DOMAIN reviews[id] : Terminal(reviews[id][n])
    \/ Len(reviews[id]) >= MaxReviews

\* Every receipt is decided, read, or has failed to be read often enough: no lease
\* left behind keeps it from being read.
ReadingSettles ==
    \A id \in 1..MaxReceipts : id \in Ids ~> (id \in Ids /\ Proposed(id))
=============================================================================
