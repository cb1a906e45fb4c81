------------------------ MODULE PaymentEvidenceProofs ------------------------
(***************************************************************************)
(* Proofs about PaymentEvidence: whatever crashes, whichever leases end    *)
(* and whoever reads or decides in between, a receipt shown as downloaded  *)
(* has the bytes its message declared, the worker reads it at most         *)
(* MaxReviews times and never after a reading that settled it, a proposal  *)
(* to accept is worth a settlement, and a decision ends the readings.  For *)
(* every number of workers, administrators, receipts and attempts.         *)
(***************************************************************************)
EXTENDS PaymentEvidence, FiniteSetTheorems, WellFoundedInduction, TLAPS

Downloads == {"PENDING", "DOWNLOADED", "FAILED_RETRYABLE", "FAILED_PERMANENT"}
Retriable == {"PENDING", "FAILED_RETRYABLE"}
Outcomes == {"COMPLETED", "FAILED", "SKIPPED"}
Fetching == {"download", "stored", "failed"}
Reviewing == {"read", "settle"}

Receipt == [kind : Kinds, linked : BOOLEAN, download : Downloads, attempts : Nat, due : BOOLEAN, old : BOOLEAN,
            decision : {"PENDING_REVIEW", "ACCEPTED", "REJECTED"}, amount : Nat,
            lease : Actors \cup {None}, live : BOOLEAN]
Booking == [status : {"REQUESTED", "RESERVED", "CLOSED"}, paid : Nat]
Review == [status : Outcomes, auto : BOOLEAN,
           reference : {x.reference : x \in Readings \cup {NoReading}},
           suggestion : {"ACCEPT", "REVIEW", "REJECT"}, amount : Nat, seen : Booking]
Job == [pc : {"idle", "review"} \cup Fetching \cup Reviewing, id : Nat, permanent : BOOLEAN,
        status : Outcomes \cup {None}, reading : Readings \cup {NoReading},
        download : Downloads \cup {None}]

EvidenceType ==
    /\ receipts \in Seq(Receipt)
    /\ file \in Seq({None, "DECLARED"}) /\ Len(file) = Len(receipts)
    /\ reviews \in Seq(Seq(Review)) /\ Len(reviews) = Len(receipts)
    /\ job \in [Actors -> Job]
    /\ booking \in Booking
    /\ crashes \in Nat /\ retries \in Nat

\* A lease has a holder, and what was accepted an amount.
RowOK(r) == /\ r.live => r.lease # None
            /\ (r.decision = "ACCEPTED") = (r.amount > 0)

\* The worker may still read the receipt with these readings.
Unsettled(seq) == Len(seq) < MaxReviews /\ \A n \in DOMAIN seq : ~Terminal(seq[n])

\* A reading of the worker's own came early enough.
InBounds(seq) ==
    \A n \in DOMAIN seq : seq[n].auto =>
        n <= MaxReviews /\ \A m \in DOMAIN seq : m < n => ~Terminal(seq[m])

\* Accepting what the reading proposes completes what the reservation it saw asked for: its
\* balance, or its deposit.
Worth(r) ==
    r.suggestion = "ACCEPT" =>
        /\ r.seen.status = "RESERVED" => r.seen.paid + r.amount >= Price
        /\ r.seen.status # "RESERVED" => r.seen.paid + r.amount >= deposit_amount(Price)

Alone == \A v, w \in Workers : v = w

\* What j, the job of a, may rely on: a receipt that exists, bytes it has stored, and, for
\* the worker, that the receipt it holds the lease of is still as it was when it was taken.
\* Only a lone worker knows that nobody else settled the download it is busy with.
JobFits(a, j) ==
    /\ j.pc \in Fetching \cup Reviewing => j.id \in Ids
    /\ j.pc \notin Fetching \cup Reviewing => j.id = 0
    /\ j.pc = "stored" => file[j.id] = "DECLARED"
    /\ j.pc = "settle" => j.status \in Outcomes
    /\ a \in Workers /\ j.pc \in Reviewing /\ receipts[j.id].lease = a => Unsettled(reviews[j.id])
    /\ a \in Workers /\ Alone /\ j.pc \in Fetching => receipts[j.id].download \in Retriable

JobsFit == \A a \in Actors : JobFits(a, job[a])
RowsOK == \A id \in Ids : RowOK(receipts[id])
ReviewsOK ==
    \A id \in Ids : /\ InBounds(reviews[id])
                    /\ receipts[id].linked => \A n \in DOMAIN reviews[id] : Worth(reviews[id][n])

\* No reading saw more paid than is paid now.
NotAhead == \A id \in Ids : \A n \in DOMAIN reviews[id] : reviews[id][n].seen.paid <= booking.paid

\* What a step may do to the reservation as far as the receipts care: nothing is paid back.
BookingStep == booking' \in Booking /\ booking'.paid >= booking.paid

\* The inductive invariant.
PInv == EvidenceType /\ RowsOK /\ DownloadedIsVerified /\ JobsFit /\ ReviewsOK /\ NotAhead

\* What the assumptions on the constants give.
LEMMA Constants ==
    /\ Workers \cap Admins = {} /\ None \notin Actors /\ Workers \subseteq Actors /\ Admins \subseteq Actors
    /\ \A x \in Readings \cup {NoReading} : x.amount \in Nat
    /\ Price \in Nat /\ MaxReviews \in Nat /\ Amounts \subseteq Nat \ {0}
    /\ NoReading.amount = 0
  BY EvidenceAssumption DEF Actors, None, NoReading

\* The pre-review and the settlement round the deposit alike.
LEMMA SameDeposit == deposit = deposit_amount(Price) /\ deposit \in Int
  <1>1. PICK n : n = Price * Percent
      OBVIOUS
  <1>2. n \in Int
      BY <1>1, EvidenceAssumption
  <1>3. n + 99999 = n + 100000 - 1
      BY <1>2
  <1> QED
      BY <1>1, <1>2, <1>3 DEF deposit, deposit_amount

\* The values PInit and an idle actor start from.
LEMMA IdleFits ==
    /\ Idle \in Job
    /\ \A a : JobFits(a, Idle)
    /\ [Idle EXCEPT !.pc = "review"] \in Job
    /\ \A a : JobFits(a, [Idle EXCEPT !.pc = "review"])
  BY DEF Idle, Job, JobFits, Fetching, Reviewing, Outcomes, Downloads, None

\* The initial state satisfies the inductive invariant.
LEMMA InitOK == PInit => PInv
  <1> SUFFICES ASSUME PInit PROVE PInv
      OBVIOUS
  <1>1. EvidenceType
    <2>1. booking \in Booking
        BY DEF PInit, Booking
    <2>2. job \in [Actors -> Job]
        BY IdleFits DEF PInit
    <2> QED
        BY <2>1, <2>2 DEF PInit, EvidenceType
  <1>2. Ids = {}
      BY DEF PInit, Ids
  <1>3. JobsFit
      BY IdleFits DEF PInit, JobsFit
  <1> QED
      BY <1>1, <1>2, <1>3 DEF PInv, RowsOK, DownloadedIsVerified, ReviewsOK, NotAhead

\* A step that leaves the reservation alone.
LEMMA BookingSame == ASSUME PInv, booking' = booking PROVE BookingStep
  BY DEF PInv, EvidenceType, BookingStep, Booking

\* The two kinds of fact an action has to give about jobs: its own fits afterwards, and
\* what the others rely on is still there.
LEMMA JobsKeep ==
    ASSUME PInv, EvidenceType', NEW a,
           \A i \in Ids : i \in Ids',
           \A i \in Ids : file[i] = "DECLARED" => file'[i] = "DECLARED",
           \A b \in Actors \ {a} : job'[b] = job[b],
           a \in Actors => JobFits(a, job[a])',
           \A i \in Ids, b \in Workers \ {a} :
               receipts'[i].lease = b => receipts[i].lease = b /\ reviews'[i] = reviews[i],
           \A i \in Ids, b \in Workers \ {a} :
               Alone /\ receipts[i].download \in Retriable => receipts'[i].download \in Retriable
    PROVE  JobsFit'
  <1> SUFFICES ASSUME NEW b \in Actors, b # a PROVE JobFits(b, job[b])'
      BY DEF JobsFit, Actors
  <1>1. PICK j : j = job[b]
      OBVIOUS
  <1>2. JobFits(b, j)
      BY <1>1 DEF PInv, JobsFit
  <1>3. job'[b] = j
      BY <1>1
  <1>4. j.pc \in Fetching \cup Reviewing => j.id \in Ids /\ j.id \in Ids'
      BY <1>2 DEF JobFits
  <1>5. j.pc = "stored" => file'[j.id] = "DECLARED"
      BY <1>2, <1>4 DEF JobFits, Fetching
  <1>6. b \in Workers /\ j.pc \in Reviewing /\ receipts'[j.id].lease = b => Unsettled(reviews'[j.id])
      BY <1>2, <1>4 DEF JobFits
  <1>7. b \in Workers /\ Alone /\ j.pc \in Fetching => receipts'[j.id].download \in Retriable
      BY <1>2, <1>4 DEF JobFits
  <1>8. j.pc \notin Fetching \cup Reviewing => j.id = 0
      BY <1>2 DEF JobFits
  <1>9. j.pc = "settle" => j.status \in Outcomes
      BY <1>2 DEF JobFits
  <1> QED
      BY <1>3, <1>4, <1>5, <1>6, <1>7, <1>8, <1>9 DEF JobFits, Unsettled, Terminal, Alone

\* One row changes to k.
RowStep(id, k) == receipts' = [receipts EXCEPT ![id] = k]

\* The rows after one of them changed.
LEMMA RowStepFacts ==
    ASSUME PInv, NEW id \in Ids, NEW k \in Receipt, RowOK(k), RowStep(id, k),
           file' = file,
           k.download = "DOWNLOADED" => file[id] = "DECLARED"
    PROVE  /\ receipts' \in Seq(Receipt) /\ Len(receipts') = Len(receipts) /\ Ids' = Ids
           /\ receipts'[id] = k
           /\ \A i \in Ids \ {id} : receipts'[i] = receipts[i]
           /\ RowsOK' /\ DownloadedIsVerified'
  <1>1. receipts \in Seq(Receipt)
      BY DEF PInv, EvidenceType
  <1>2. /\ receipts' \in Seq(Receipt) /\ Len(receipts') = Len(receipts) /\ Ids' = Ids
        /\ receipts'[id] = k
        /\ \A i \in Ids \ {id} : receipts'[i] = receipts[i]
      BY <1>1 DEF RowStep, Ids
  <1>3. RowsOK'
    <2> SUFFICES ASSUME NEW i \in Ids PROVE RowOK(receipts'[i])
        BY <1>2 DEF RowsOK, RowOK
    <2> QED
        BY <1>2 DEF PInv, RowsOK
  <1>4. DownloadedIsVerified'
      BY <1>2 DEF PInv, DownloadedIsVerified
  <1> QED
      BY <1>2, <1>3, <1>4

\* Readings that do not change stay in bounds.
LEMMA ReviewsSame ==
    ASSUME PInv, Ids' = Ids, reviews' = reviews, BookingStep,
           \A i \in Ids : receipts'[i].linked = receipts[i].linked
    PROVE  ReviewsOK' /\ NotAhead'
  <1>1. ReviewsOK'
      BY DEF PInv, ReviewsOK, InBounds, Worth, Terminal
  <1>2. NotAhead'
    <2> SUFFICES ASSUME NEW i \in Ids, NEW n \in DOMAIN reviews[i]
                 PROVE  reviews[i][n].seen.paid <= booking'.paid
        BY DEF NotAhead
    <2>1. reviews[i] \in Seq(Review) /\ booking \in Booking /\ reviews[i][n].seen.paid <= booking.paid
        BY DEF PInv, EvidenceType, Ids, NotAhead
    <2>2. reviews[i][n] \in Review
        BY <2>1
    <2>3. reviews[i][n].seen.paid \in Nat /\ booking.paid \in Nat /\ booking'.paid \in Nat
        BY <2>1, <2>2 DEF Review, Booking, BookingStep
    <2> QED
        BY <2>1, <2>3 DEF BookingStep
  <1> QED
      BY <1>1, <1>2

\* A row and perhaps a job change; the row keeps its lease and its download, or at least
\* stays one that may be tried again.
LEMMA RowAndJob ==
    ASSUME PInv, NEW id \in Ids, NEW k \in Receipt, RowOK(k), RowStep(id, k),
           NEW a, a \in Actors => JobFits(a, job[a])', job' \in [Actors -> Job],
           \A b \in Actors \ {a} : job'[b] = job[b],
           k.lease \in {receipts[id].lease, None, a}, k.linked = receipts[id].linked,
           \/ k.download = receipts[id].download
           \/ a \in Workers /\ (k.download = "DOWNLOADED" => file[id] = "DECLARED"),
           UNCHANGED <<file, reviews>>,
           BookingStep, crashes' \in Nat, retries' \in Nat
    PROVE  PInv'
  <1>1. k.download = "DOWNLOADED" => file[id] = "DECLARED"
      BY DEF PInv, DownloadedIsVerified
  <1>2. /\ receipts' \in Seq(Receipt) /\ Len(receipts') = Len(receipts) /\ Ids' = Ids
        /\ receipts'[id] = k
        /\ \A i \in Ids \ {id} : receipts'[i] = receipts[i]
        /\ RowsOK' /\ DownloadedIsVerified'
      BY <1>1, RowStepFacts
  <1>3. EvidenceType'
      BY <1>2 DEF PInv, EvidenceType, BookingStep
  <1>4. \A i \in Ids, b \in Workers \ {a} :
            receipts'[i].lease = b => receipts[i].lease = b /\ reviews'[i] = reviews[i]
      BY <1>2, Constants
  <1>5. \A i \in Ids, b \in Workers \ {a} :
            Alone /\ receipts[i].download \in Retriable => receipts'[i].download \in Retriable
      BY <1>2 DEF Alone
  <1>6. JobsFit'
      BY <1>2, <1>3, <1>4, <1>5, JobsKeep
  <1>7. ReviewsOK' /\ NotAhead'
      BY <1>2, ReviewsSame
  <1> QED
      BY <1>2, <1>3, <1>6, <1>7 DEF PInv

\* Only a job changes.
LEMMA JobOnly ==
    ASSUME PInv, NEW a \in Actors, NEW j \in Job, job' = [job EXCEPT ![a] = j],
           JobFits(a, j), UNCHANGED <<receipts, reviews, file>>,
           BookingStep, crashes' \in Nat, retries' \in Nat
    PROVE  PInv'
  <1>1. EvidenceType'
      BY DEF PInv, EvidenceType, BookingStep
  <1>2. job'[a] = j /\ \A b \in Actors \ {a} : job'[b] = job[b]
      BY DEF PInv, EvidenceType
  <1>3. JobFits(a, job[a])'
      BY <1>2 DEF JobFits, Unsettled, Terminal, Alone, Ids
  <1>4. Ids' = Ids
      BY DEF Ids
  <1>5. JobsFit'
      BY <1>1, <1>2, <1>3, <1>4, JobsKeep
  <1>6. ReviewsOK' /\ NotAhead'
      BY <1>4, ReviewsSame
  <1>7. RowsOK' /\ DownloadedIsVerified'
      BY <1>4 DEF PInv, RowsOK, RowOK, DownloadedIsVerified
  <1> QED
      BY <1>1, <1>5, <1>6, <1>7 DEF PInv

\* Only a row changes, and neither its lease nor its download.
LEMMA RowOnly ==
    ASSUME PInv, NEW id \in Ids, NEW k \in Receipt, RowOK(k), RowStep(id, k),
           k.lease = receipts[id].lease, k.download = receipts[id].download,
           k.linked = receipts[id].linked,
           UNCHANGED <<file, reviews, job, crashes, retries>>, BookingStep
    PROVE  PInv'
  <1>1. None \notin Actors
      BY Constants
  <1>2. job' \in [Actors -> Job] /\ crashes' \in Nat /\ retries' \in Nat
      BY DEF PInv, EvidenceType
  <1> QED
      BY <1>1, <1>2, RowAndJob

\* What is known of a row.
LEMMA RowFacts ==
    ASSUME PInv, NEW id \in Ids
    PROVE  /\ receipts[id] \in Receipt /\ RowOK(receipts[id])
           /\ id \in DOMAIN file /\ id \in DOMAIN reviews /\ reviews[id] \in Seq(Review)
           /\ file[id] \in {None, "DECLARED"} /\ id \in Nat
  BY DEF PInv, EvidenceType, RowsOK, Ids

\* What is known of a job.
LEMMA JobFacts ==
    ASSUME PInv, NEW a \in Actors
    PROVE  job[a] \in Job /\ JobFits(a, job[a])
  BY DEF PInv, EvidenceType, JobsFit

\* A receipt arrives.
LEMMA CreateKeeps ==
    ASSUME PInv, NEW kind \in Kinds, NEW linked \in BOOLEAN, create_payment_evidence(kind, linked)
    PROVE  PInv'
  <1>1. PICK r : r = NewReceipt(kind, linked)
      OBVIOUS
  <1>2. r \in Receipt /\ RowOK(r) /\ r.lease = None /\ r.download = "PENDING"
      BY <1>1 DEF NewReceipt, Receipt, RowOK, Downloads
  <1>3. receipts \in Seq(Receipt) /\ file \in Seq({None, "DECLARED"}) /\ reviews \in Seq(Seq(Review))
        /\ Len(file) = Len(receipts) /\ Len(reviews) = Len(receipts)
      BY DEF PInv, EvidenceType
  <1>4. << >> \in Seq(Review)
      OBVIOUS
  <1>5. /\ receipts' \in Seq(Receipt) /\ Len(receipts') = Len(receipts) + 1
        /\ Ids' = Ids \cup {Len(receipts) + 1}
        /\ receipts'[Len(receipts) + 1] = r
        /\ \A i \in Ids : receipts'[i] = receipts[i]
      BY <1>1, <1>2, <1>3 DEF create_payment_evidence, Ids
  <1>6. /\ file' \in Seq({None, "DECLARED"}) /\ Len(file') = Len(receipts')
        /\ \A i \in Ids : file'[i] = file[i]
      BY <1>3, <1>5 DEF create_payment_evidence, Ids
  <1>7. /\ reviews' \in Seq(Seq(Review)) /\ Len(reviews') = Len(receipts')
        /\ reviews'[Len(receipts) + 1] = << >>
        /\ \A i \in Ids : reviews'[i] = reviews[i]
      BY <1>3, <1>4, <1>5 DEF create_payment_evidence, Ids
  <1>8. EvidenceType'
      BY <1>5, <1>6, <1>7 DEF create_payment_evidence, PInv, EvidenceType
  <1>9. RowsOK'
    <2> SUFFICES ASSUME NEW i \in Ids' PROVE RowOK(receipts'[i])
        BY DEF RowsOK, RowOK
    <2> QED
        BY <1>2, <1>5 DEF PInv, RowsOK
  <1>10. DownloadedIsVerified'
      BY <1>2, <1>5, <1>6 DEF PInv, DownloadedIsVerified
  <1>11. job' = job
      BY DEF create_payment_evidence
  <1>12. JobsFit'
    <2>1. None \notin Actors
        BY Constants
    <2>2. \A i \in Ids : i \in Ids'
        BY <1>5
    <2>3. \A i \in Ids : file[i] = "DECLARED" => file'[i] = "DECLARED"
        BY <1>6
    <2>4. \A i \in Ids, b \in Workers \ {None} :
              receipts'[i].lease = b => receipts[i].lease = b /\ reviews'[i] = reviews[i]
        BY <1>5, <1>7
    <2>5. \A i \in Ids, b \in Workers \ {None} :
              Alone /\ receipts[i].download \in Retriable => receipts'[i].download \in Retriable
        BY <1>5
    <2> QED
        BY <1>8, <1>11, <2>1, <2>2, <2>3, <2>4, <2>5, JobsKeep
  <1>13. ReviewsOK'
    <2> SUFFICES ASSUME NEW i \in Ids'
                 PROVE  /\ InBounds(reviews'[i])
                        /\ receipts'[i].linked => \A n \in DOMAIN reviews'[i] : Worth(reviews'[i][n])
        BY DEF ReviewsOK, InBounds, Worth, Terminal
    <2>1. CASE i \in Ids
        BY <2>1, <1>5, <1>7 DEF PInv, ReviewsOK
    <2>2. CASE i = Len(receipts) + 1
        BY <2>2, <1>7 DEF InBounds
    <2> QED
        BY <1>5, <2>1, <2>2
  <1>14. NotAhead'
    <2> SUFFICES ASSUME NEW i \in Ids', NEW n \in DOMAIN reviews'[i]
                 PROVE  reviews'[i][n].seen.paid <= booking'.paid
        BY DEF NotAhead
    <2>1. booking' = booking
        BY DEF create_payment_evidence
    <2>2. CASE i \in Ids
        BY <2>1, <2>2, <1>5, <1>7 DEF PInv, NotAhead
    <2>3. CASE i = Len(receipts) + 1
        BY <2>3, <1>7
    <2> QED
        BY <1>5, <2>2, <2>3
  <1> QED
      BY <1>8, <1>9, <1>10, <1>12, <1>13, <1>14 DEF PInv

\* The loop takes the oldest of the receipts it may take.
LEMMA OldestExists ==
    ASSUME NEW S, S \subseteq Nat, S # {} PROVE \E i \in S : \A j \in S : i <= j
  <1> DEFINE R == OpToRel(<, Nat)
  <1>1. \A i, j \in Nat : <<i, j>> \in R <=> i < j
      BY DEF OpToRel
  <1>2. IsWellFoundedOn(R, Nat)
      BY NatLessThanWellFounded
  <1> HIDE DEF R
  <1>3. PICK k \in S : \A j \in S : ~(<<j, k>> \in R)
      BY <1>2, WFMin
  <1>4. ASSUME NEW j \in S PROVE k <= j
    <2>1. ~(j < k) /\ j \in Nat /\ k \in Nat
        BY <1>1, <1>3
    <2> QED
        BY <2>1
  <1> QED
      BY <1>4

\* The worker claims a download, or goes on to the readings.
LEMMA ClaimKeeps ==
    ASSUME PInv, NEW w \in Workers, claim_one_evidence(w) PROVE PInv'
  <1> DEFINE claimable == {i \in Ids : Claimable(i)}
  <1>0. w \in Actors /\ BookingStep /\ crashes' \in Nat /\ retries' \in Nat
        /\ UNCHANGED <<file, reviews>>
      BY BookingSame DEF claim_one_evidence, PInv, EvidenceType, Actors
  <1>1. job[w] \in Job /\ JobFits(w, job[w]) /\ job[w].pc = "idle" /\ job \in [Actors -> Job]
      BY <1>0, JobFacts DEF claim_one_evidence, PInv, EvidenceType
  <1>2. CASE claimable = {}
    <2>1. PICK j : j = [job[w] EXCEPT !.pc = "review"]
        OBVIOUS
    <2>2. j \in Job /\ j.pc = "review" /\ j.id = job[w].id
        BY <1>1, <2>1 DEF Job
    <2>3. job' = [job EXCEPT ![w] = j] /\ receipts' = receipts
        BY <1>0, <1>1, <1>2, <2>1 DEF claim_one_evidence
    <2>4. JobFits(w, j)
        BY <1>1, <2>2 DEF JobFits, Fetching, Reviewing
    <2> QED
        BY <1>0, <2>2, <2>3, <2>4, JobOnly
  <1>3. CASE claimable # {}
    <2>1. PICK id : id = CHOOSE i \in claimable : \A j \in claimable : i <= j
        OBVIOUS
    <2>2. /\ receipts' = [receipts EXCEPT ![id].attempts = @ + 1, ![id].due = FALSE]
          /\ job' = [job EXCEPT ![w] = [Idle EXCEPT !.pc = "download", !.id = id]]
        BY <1>3, <2>1 DEF claim_one_evidence
    <2>3. id \in Ids /\ Claimable(id)
      <3>1. claimable \subseteq Nat
          BY RowFacts
      <3>2. \E i \in claimable : \A j \in claimable : i <= j
          BY <1>3, <3>1, OldestExists
      <3> QED
          BY <2>1, <3>2
    <2>4. PICK r : r = receipts[id]
        OBVIOUS
    <2>5. r \in Receipt /\ RowOK(r) /\ r.download \in Retriable
        BY <2>3, <2>4, RowFacts DEF Claimable, Retriable
    <2>6. PICK n : n = r.attempts + 1
        OBVIOUS
    <2>7. n \in Nat
        BY <2>5, <2>6 DEF Receipt
    <2>8. PICK k : k = [r EXCEPT !.attempts = n, !.due = FALSE]
        OBVIOUS
    <2>9. k \in Receipt /\ k.lease = r.lease /\ k.linked = r.linked /\ k.download = r.download
          /\ k.live = r.live /\ k.decision = r.decision /\ k.amount = r.amount
        BY <2>5, <2>7, <2>8 DEF Receipt
    <2>10. RowOK(k)
        BY <2>5, <2>9 DEF RowOK
    <2>11. RowStep(id, k)
        BY <2>2, <2>3, <2>4, <2>6, <2>8 DEF RowStep, Ids
    <2>12. PICK j : j = [Idle EXCEPT !.pc = "download", !.id = id]
        OBVIOUS
    <2>13. j \in Job /\ j.pc = "download" /\ j.id = id
        BY <2>3, <2>12, IdleFits, RowFacts DEF Job, Fetching, Idle
    <2>14. job' = [job EXCEPT ![w] = j]
        BY <2>2, <2>12
    <2>15. job'[w] = j /\ job' \in [Actors -> Job] /\ \A b \in Actors \ {w} : job'[b] = job[b]
        BY <1>0, <1>1, <2>13, <2>14
    <2>16. receipts'[id] = k /\ id \in Ids'
        BY <2>3, <2>11 DEF RowStep, Ids
    <2>17. JobFits(w, job[w])'
        BY <2>5, <2>9, <2>13, <2>15, <2>16, <2>4 DEF JobFits, Fetching, Reviewing
    <2> QED
        BY <1>0, <2>3, <2>4, <2>9, <2>10, <2>11, <2>15, <2>17, RowAndJob
  <1> QED
      BY <1>2, <1>3

\* The bytes arrive.
LEMMA DownloadedKeeps ==
    ASSUME PInv, NEW w \in Workers, NEW bytes, Downloaded(w, bytes) PROVE PInv'
  <1>0. w \in Actors /\ BookingStep /\ crashes' \in Nat /\ retries' \in Nat
        /\ UNCHANGED <<receipts, reviews>>
      BY BookingSame DEF Downloaded, PInv, EvidenceType, Actors
  <1>1. PICK id : id = job[w].id
      OBVIOUS
  <1>2. PICK o : o = job[w]
      OBVIOUS
  <1>3. o \in Job /\ JobFits(w, o) /\ o.pc = "download" /\ o.id = id /\ job \in [Actors -> Job]
      BY <1>0, <1>1, <1>2, JobFacts DEF Downloaded, PInv, EvidenceType
  <1>4. id \in Ids /\ (Alone => receipts[id].download \in Retriable)
      BY <1>3 DEF JobFits, Fetching
  <1>5. CASE validate_download(bytes)
    <2>1. file' = [file EXCEPT ![id] = "DECLARED"]
        BY <1>1, <1>5 DEF Downloaded, validate_download
    <2>2. PICK j : j = [o EXCEPT !.pc = "stored"]
        OBVIOUS
    <2>3. j \in Job /\ j.pc = "stored" /\ j.id = id
        BY <1>3, <2>2 DEF Job, Fetching
    <2>4. job' = [job EXCEPT ![w] = j]
        BY <1>2, <1>5, <2>2 DEF Downloaded
    <2>5. file \in Seq({None, "DECLARED"}) /\ id \in DOMAIN file /\ Len(file) = Len(receipts)
        BY <1>4, RowFacts DEF PInv, EvidenceType
    <2>6. file' \in Seq({None, "DECLARED"}) /\ Len(file') = Len(receipts') /\ file'[id] = "DECLARED"
          /\ \A i \in Ids : file[i] = "DECLARED" => file'[i] = "DECLARED"
        BY <1>0, <2>1, <2>5 DEF Ids
    <2>7. Ids' = Ids
        BY <1>0 DEF Ids
    <2>8. job' \in [Actors -> Job] /\ job'[w] = j /\ \A b \in Actors \ {w} : job'[b] = job[b]
        BY <1>0, <1>3, <2>3, <2>4
    <2>9. EvidenceType'
        BY <1>0, <2>6, <2>8 DEF PInv, EvidenceType, BookingStep
    <2>10. JobFits(w, job[w])'
        BY <1>0, <1>4, <2>3, <2>6, <2>7, <2>8 DEF JobFits, Fetching, Reviewing, Alone
    <2>11. JobsFit'
        BY <1>0, <2>6, <2>7, <2>8, <2>9, <2>10, JobsKeep
    <2>12. ReviewsOK' /\ NotAhead'
        BY <1>0, <2>7, ReviewsSame
    <2>13. RowsOK'
        BY <1>0, <2>7 DEF PInv, RowsOK, RowOK
    <2>14. DownloadedIsVerified'
        BY <1>0, <2>6, <2>7 DEF PInv, DownloadedIsVerified
    <2> QED
        BY <2>9, <2>11, <2>12, <2>13, <2>14 DEF PInv
  <1>6. CASE ~validate_download(bytes)
    <2>1. file' = file
        BY <1>6 DEF Downloaded
    <2>2. PICK j : j = [o EXCEPT !.pc = "failed", !.permanent = TRUE]
        OBVIOUS
    <2>3. j \in Job /\ j.pc = "failed" /\ j.id = id
        BY <1>3, <2>2 DEF Job, Fetching
    <2>4. job' = [job EXCEPT ![w] = j]
        BY <1>2, <1>6, <2>2 DEF Downloaded
    <2>5. JobFits(w, j)
        BY <1>4, <2>3 DEF JobFits, Fetching, Reviewing
    <2> QED
        BY <1>0, <2>1, <2>3, <2>4, <2>5, JobOnly
  <1> QED
      BY <1>5, <1>6

\* The download is refused, or fails.
LEMMA NotDownloadedKeeps ==
    ASSUME PInv, NEW w \in Workers, NEW permanent \in BOOLEAN, NotDownloaded(w, permanent)
    PROVE  PInv'
  <1>0. w \in Actors /\ BookingStep /\ crashes' \in Nat /\ retries' \in Nat
        /\ UNCHANGED <<receipts, reviews, file>>
      BY BookingSame DEF NotDownloaded, PInv, EvidenceType, Actors
  <1>2. PICK o : o = job[w]
      OBVIOUS
  <1>3. o \in Job /\ JobFits(w, o) /\ o.pc = "download"
      BY <1>0, <1>2, JobFacts DEF NotDownloaded
  <1>4. PICK j : j = [o EXCEPT !.pc = "failed", !.permanent = permanent]
      OBVIOUS
  <1>5. j \in Job /\ j.pc = "failed" /\ j.id = o.id
      BY <1>3, <1>4 DEF Job, Fetching
  <1>6. job' = [job EXCEPT ![w] = j]
      BY <1>2, <1>4 DEF NotDownloaded
  <1>7. JobFits(w, j)
      BY <1>3, <1>5 DEF JobFits, Fetching, Reviewing
  <1> QED
      BY <1>0, <1>5, <1>6, <1>7, JobOnly

\* The download of w is settled as d.
LEMMA SettleKeeps ==
    ASSUME PInv, NEW w \in Workers, NEW d \in Downloads, job[w].pc \in Fetching,
           d = "DOWNLOADED" => job[w].pc = "stored",
           receipts' = [receipts EXCEPT ![job[w].id].download = d],
           job' = [job EXCEPT ![w] = [Idle EXCEPT !.pc = "review"]],
           UNCHANGED <<file, reviews, booking, crashes, retries>>
    PROVE  PInv'
  <1>0. w \in Actors /\ BookingStep /\ crashes' \in Nat /\ retries' \in Nat
      BY BookingSame DEF PInv, EvidenceType, Actors
  <1>1. PICK id : id = job[w].id
      OBVIOUS
  <1>2. id \in Ids /\ (d = "DOWNLOADED" => file[id] = "DECLARED")
      BY <1>0, <1>1, JobFacts DEF JobFits
  <1>3. PICK r : r = receipts[id]
      OBVIOUS
  <1>4. r \in Receipt /\ RowOK(r)
      BY <1>2, <1>3, RowFacts
  <1>5. PICK k : k = [r EXCEPT !.download = d]
      OBVIOUS
  <1>6. k \in Receipt /\ k.linked = r.linked /\ k.download = d /\ k.lease = r.lease /\ k.live = r.live
        /\ k.decision = r.decision /\ k.amount = r.amount
      BY <1>4, <1>5 DEF Receipt
  <1>7. RowOK(k)
      BY <1>4, <1>6 DEF RowOK
  <1>8. RowStep(id, k)
      BY <1>1, <1>2, <1>3, <1>5 DEF RowStep, Ids
  <1>9. PICK j : j = [Idle EXCEPT !.pc = "review"]
      OBVIOUS
  <1>10. j \in Job /\ j.pc = "review" /\ j.id = 0
      BY <1>9, IdleFits DEF Idle
  <1>11. job' \in [Actors -> Job] /\ job'[w] = j /\ \A b \in Actors \ {w} : job'[b] = job[b]
      BY <1>0, <1>9, <1>10 DEF PInv, EvidenceType
  <1>12. JobFits(w, job[w])'
      BY <1>10, <1>11 DEF JobFits, Fetching, Reviewing
  <1> QED
      BY <1>0, <1>2, <1>3, <1>6, <1>7, <1>8, <1>11, <1>12, RowAndJob

\* The stored bytes are recorded.
LEMMA SettleSuccessKeeps ==
    ASSUME PInv, NEW w \in Workers, settle_success(w) PROVE PInv'
  <1>1. "DOWNLOADED" \in Downloads /\ "stored" \in Fetching
      BY DEF Downloads, Fetching
  <1> QED
      BY <1>1, SettleKeeps DEF settle_success

\* The failure is recorded, for good or until the next attempt.
LEMMA SettleFailureKeeps ==
    ASSUME PInv, NEW w \in Workers, settle_failure(w) PROVE PInv'
  <1>1. PICK d : d = IF PermanentFailure(w) THEN "FAILED_PERMANENT" ELSE "FAILED_RETRYABLE"
      OBVIOUS
  <1>2. d \in Downloads /\ d # "DOWNLOADED" /\ "failed" \in Fetching
      BY <1>1 DEF Downloads, Fetching
  <1>3. receipts' = [receipts EXCEPT ![job[w].id].download = d]
      BY <1>1 DEF settle_failure
  <1> QED
      BY <1>2, <1>3, SettleKeeps DEF settle_failure

\* a takes the lease of a receipt; a worker only of one it may still read.
LEMMA LeaseKeeps ==
    ASSUME PInv, NEW a \in Actors, NEW id \in Ids, Lease(a, id), retries' \in Nat,
           a \in Workers => Unsettled(reviews[id])
    PROVE  PInv'
  <1>0. BookingStep /\ crashes' \in Nat /\ UNCHANGED <<reviews, file>>
      BY BookingSame DEF Lease, PInv, EvidenceType
  <1>1. PICK r : r = receipts[id]
      OBVIOUS
  <1>2. r \in Receipt /\ RowOK(r) /\ id \in Nat
      BY <1>1, RowFacts
  <1>3. PICK k : k = [r EXCEPT !.lease = a, !.live = TRUE]
      OBVIOUS
  <1>4. k \in Receipt /\ k.linked = r.linked /\ k.download = r.download /\ k.lease = a
        /\ k.decision = r.decision /\ k.amount = r.amount
      BY <1>2, <1>3 DEF Receipt
  <1>5. RowOK(k)
      BY <1>2, <1>4, Constants DEF RowOK
  <1>6. RowStep(id, k)
      BY <1>1, <1>3 DEF RowStep, Ids, Lease
  <1>7. PICK j : j = [Idle EXCEPT !.pc = "read", !.id = id, !.download = r.download]
      OBVIOUS
  <1>8. j.pc = "read" /\ j.id = id /\ j \in Job
    <2>1. r.download \in Downloads
        BY <1>2 DEF Receipt
    <2> QED
        BY <1>2, <1>7, <2>1, IdleFits DEF Job, Reviewing, Idle
  <1>9. job' = [job EXCEPT ![a] = j]
      BY <1>1, <1>7 DEF Lease
  <1>10. job' \in [Actors -> Job] /\ job'[a] = j /\ \A b \in Actors \ {a} : job'[b] = job[b]
      BY <1>8, <1>9 DEF PInv, EvidenceType
  <1>11. id \in Ids'
      BY <1>6 DEF RowStep, Ids
  <1>12. a \in Workers => Unsettled(reviews'[id])
      BY <1>0
  <1>13. JobFits(a, job[a])'
      BY <1>8, <1>10, <1>11, <1>12 DEF JobFits, Fetching, Reviewing, Unsettled, Terminal
  <1> QED
      BY <1>0, <1>1, <1>4, <1>5, <1>6, <1>10, <1>13, RowAndJob

\* The worker takes the oldest receipt it may read, or starts over.
LEMMA PrereviewClaimKeeps ==
    ASSUME PInv, NEW w \in Workers, claim_prereview_evidence(w) PROVE PInv'
  <1> DEFINE reviewable == {i \in Ids : Reviewable(i)}
  <1>0. w \in Actors /\ retries' \in Nat
      BY DEF claim_prereview_evidence, PInv, EvidenceType, Actors
  <1>1. CASE reviewable = {}
      BY <1>0, <1>1, BookingSame, IdleFits, JobOnly DEF claim_prereview_evidence, PInv, EvidenceType
  <1>2. CASE reviewable # {}
    <2>1. PICK id : id = CHOOSE i \in reviewable : \A j \in reviewable : i <= j
        OBVIOUS
    <2>2. Lease(w, id)
        BY <1>2, <2>1 DEF claim_prereview_evidence
    <2>3. id \in Ids /\ Reviewable(id)
      <3>1. reviewable \subseteq Nat
          BY RowFacts
      <3>2. \E i \in reviewable : \A j \in reviewable : i <= j
          BY <1>2, <3>1, OldestExists
      <3> QED
          BY <2>1, <3>2
    <2>4. Unsettled(reviews[id])
        BY <2>3 DEF Reviewable, Unsettled
    <2> QED
        BY <1>0, <2>2, <2>3, <2>4, LeaseKeeps
  <1> QED
      BY <1>1, <1>2

\* An administrator asks for another reading.
LEMMA RetryKeeps ==
    ASSUME PInv, NEW a \in Admins, NEW id \in Ids, retry_payment_prereview(a, id) PROVE PInv'
  <1>1. a \in Actors /\ a \notin Workers
      BY Constants
  <1>2. retries' \in Nat /\ Lease(a, id)
      BY DEF retry_payment_prereview, PInv, EvidenceType
  <1> QED
      BY <1>1, <1>2, LeaseKeeps

\* The reading itself changes nothing but the job.
LEMMA ReadKeeps ==
    ASSUME PInv, NEW a \in Actors, NEW status \in Outcomes, NEW x \in Readings \cup {NoReading},
           Read(a, status, x)
    PROVE  PInv'
  <1>0. BookingStep /\ crashes' \in Nat /\ retries' \in Nat
        /\ UNCHANGED <<receipts, reviews, file>>
      BY BookingSame DEF Read, PInv, EvidenceType
  <1>1. PICK o : o = job[a]
      OBVIOUS
  <1>2. o \in Job /\ JobFits(a, o) /\ o.pc = "read"
      BY <1>1, JobFacts DEF Read
  <1>3. PICK j : j = [o EXCEPT !.pc = "settle", !.status = status, !.reading = x]
      OBVIOUS
  <1>4. j \in Job /\ j.pc = "settle" /\ j.id = o.id /\ j.status = status
      BY <1>2, <1>3 DEF Job, Reviewing
  <1>5. job' = [job EXCEPT ![a] = j]
      BY <1>1, <1>3 DEF Read
  <1>6. JobFits(a, j)
      BY <1>2, <1>4 DEF JobFits, Fetching, Reviewing
  <1> QED
      BY <1>0, <1>4, <1>5, <1>6, JobOnly

\* A crash forgets the job and leaves the rows as they are.
LEMMA CrashKeeps ==
    ASSUME PInv, NEW a \in Actors, Crash(a) PROVE PInv'
  <1>1. BookingStep /\ crashes' \in Nat /\ retries' \in Nat
        /\ UNCHANGED <<receipts, reviews, file>>
      BY BookingSame DEF Crash, PInv, EvidenceType
  <1>2. job' = [job EXCEPT ![a] = Idle]
      BY DEF Crash
  <1>3. Idle \in Job /\ JobFits(a, Idle)
      BY IdleFits
  <1> QED
      BY <1>1, <1>2, <1>3, JobOnly

(***************************************************************************)
(* The second transaction of a reading                                     *)
(***************************************************************************)

\* A proposal to accept a linked receipt is worth a settlement when it is made.
LEMMA AcceptIsWorth ==
    ASSUME NEW x, x.amount \in Nat, NEW b \in Booking, NEW used, NEW linked \in BOOLEAN, linked,
           evaluate_receipt(x, linked, b, used) = "ACCEPT"
    PROVE  /\ b.status = "RESERVED" => b.paid + x.amount >= Price
           /\ b.status # "RESERVED" => b.paid + x.amount >= deposit_amount(Price)
  <1> DEFINE c == checks(x, linked, b, used)
  <1>1. \A code \in DOMAIN c : c[code] = "OK" \/ (c[code] = "UNKNOWN" /\ code \in {"DATE", "REFERENCE"})
      BY DEF evaluate_receipt, suggestion
  <1>2. "AMOUNT" \in DOMAIN c /\ c["AMOUNT"] = AmountCheck(x, linked, b)
      BY DEF checks
  <1>3. AmountCheck(x, linked, b) = "OK"
      BY <1>1, <1>2
  <1>4. x.amount + b.paid >= Target(b)
      BY <1>3 DEF AmountCheck
  <1>5. b.paid \in Nat
      BY DEF Booking
  <1>6. CASE b.status = "RESERVED"
    <2>1. x.amount + b.paid >= Price
        BY <1>4, <1>6 DEF Target
    <2> QED
        BY <1>5, <1>6, <2>1
  <1>7. CASE b.status # "RESERVED"
    <2>1. PICK d : d = deposit
        OBVIOUS
    <2>2. d \in Int /\ d = deposit_amount(Price) /\ x.amount + b.paid >= d
        BY <1>4, <1>7, <2>1, SameDeposit DEF Target
    <2> QED
        BY <1>5, <1>7, <2>2
  <1> QED
      BY <1>6, <1>7

\* The reading that is recorded has the columns' types.
LEMMA NewReviewFacts ==
    ASSUME PInv, NEW a \in Actors, job[a].pc = "settle"
    PROVE  /\ NewReview(a) \in Review
           /\ NewReview(a).auto = (a \in Workers)
           /\ receipts[job[a].id].linked => Worth(NewReview(a))
           /\ NewReview(a).seen = booking
  <1>1. PICK o : o = job[a]
      OBVIOUS
  <1>2. o \in Job /\ JobFits(a, o) /\ o.pc = "settle"
      BY <1>1, JobFacts
  <1>3. o.status \in Outcomes /\ o.reading \in Readings \cup {NoReading}
      BY <1>2 DEF JobFits, Job
  <1>4. PICK x : x = o.reading
      OBVIOUS
  <1>5. x.amount \in Nat /\ x.reference \in {y.reference : y \in Readings \cup {NoReading}}
      BY <1>3, <1>4, Constants
  <1>6. PICK linked : linked = receipts[o.id].linked
      OBVIOUS
  <1>7. PICK s : s = IF o.status = "COMPLETED"
                     THEN evaluate_receipt(x, linked, booking, accepted_references) ELSE "REVIEW"
      OBVIOUS
  <1>8. s \in {"ACCEPT", "REVIEW", "REJECT"}
      BY <1>7 DEF evaluate_receipt, suggestion
  <1>9. booking \in Booking
      BY DEF PInv, EvidenceType
  <1>10. NewReview(a) = [status |-> o.status, auto |-> a \in Workers, reference |-> x.reference,
                         suggestion |-> s, amount |-> x.amount, seen |-> booking]
      BY <1>1, <1>4, <1>6, <1>7 DEF NewReview
  <1>11. NewReview(a) \in Review
      BY <1>3, <1>5, <1>8, <1>9, <1>10 DEF Review
  <1>12. ASSUME linked, s = "ACCEPT"
         PROVE  /\ booking.status = "RESERVED" => booking.paid + x.amount >= Price
                /\ booking.status # "RESERVED" =>
                        booking.paid + x.amount >= deposit_amount(Price)
    <2>1. evaluate_receipt(x, linked, booking, accepted_references) = "ACCEPT"
        BY <1>7, <1>12
    <2>2. linked \in BOOLEAN
      <3>1. receipts[o.id] \in Receipt
          BY <1>2, RowFacts DEF JobFits, Reviewing
      <3> QED
          BY <1>6, <3>1 DEF Receipt
    <2> QED
        BY <1>5, <1>9, <1>12, <2>1, <2>2, AcceptIsWorth
  <1>13. linked => Worth(NewReview(a))
      BY <1>10, <1>12 DEF Worth
  <1>14. receipts[job[a].id].linked => linked
      BY <1>1, <1>6, Zenon
  <1>15. NewReview(a).auto = (a \in Workers) /\ NewReview(a).seen = booking
      BY <1>10
  <1> QED
      BY <1>11, <1>13, <1>14, <1>15, Zenon

\* Appending a reading to the readings of one receipt.
LEMMA AppendKeeps ==
    ASSUME NEW seq \in Seq(Review), NEW r \in Review, InBounds(seq),
           r.auto => Unsettled(seq)
    PROVE  InBounds(Append(seq, r))
  <1>1. PICK t : t = Append(seq, r)
      OBVIOUS
  <1>2. t \in Seq(Review) /\ Len(t) = Len(seq) + 1 /\ t[Len(seq) + 1] = r
        /\ \A n \in DOMAIN seq : t[n] = seq[n]
        /\ DOMAIN t = 1..(Len(seq) + 1) /\ DOMAIN seq = 1..Len(seq) /\ Len(seq) \in Nat
      BY <1>1
  <1> SUFFICES ASSUME NEW n \in DOMAIN t, t[n].auto
               PROVE  n <= MaxReviews /\ \A m \in DOMAIN t : m < n => ~Terminal(t[m])
      BY <1>1 DEF InBounds
  <1>3. CASE n \in DOMAIN seq
      BY <1>2, <1>3 DEF InBounds
  <1>4. CASE n = Len(seq) + 1
    <2>1. Unsettled(seq)
        BY <1>2, <1>4
    <2>2. n <= MaxReviews
        BY <1>2, <1>4, <2>1, Constants DEF Unsettled
    <2>3. ASSUME NEW m \in DOMAIN t, m < n PROVE ~Terminal(t[m])
      <3>1. m \in DOMAIN seq
          BY <1>2, <1>4, <2>3
      <3> QED
          BY <1>2, <2>1, <3>1 DEF Unsettled
    <2> QED
        BY <2>2, <2>3
  <1> QED
      BY <1>2, <1>3, <1>4

\* The reading is recorded if the lease is still the reader's, and the lease given back.
LEMMA PrereviewKeeps ==
    ASSUME PInv, NEW a \in Actors, prereview_evidence(a) PROVE PInv'
  <1>0. BookingStep /\ crashes' \in Nat /\ retries' \in Nat /\ file' = file
        /\ job[a].pc = "settle"
      BY BookingSame DEF prereview_evidence, PInv, EvidenceType
  <1>1. PICK id : id = job[a].id
      OBVIOUS
  <1>2. id \in Ids /\ (a \in Workers /\ receipts[id].lease = a => Unsettled(reviews[id]))
      BY <1>0, <1>1, JobFacts DEF JobFits, Reviewing
  <1>3. Idle \in Job /\ JobFits(a, Idle)'
      BY DEF Idle, Job, JobFits, Fetching, Reviewing, Outcomes, Downloads, None
  <1>4. job' = [job EXCEPT ![a] = Idle]
      BY DEF prereview_evidence
  <1>5. job' \in [Actors -> Job] /\ job'[a] = Idle /\ \A b \in Actors \ {a} : job'[b] = job[b]
      BY <1>3, <1>4 DEF PInv, EvidenceType
  <1>6. JobFits(a, job[a])'
      BY <1>3, <1>5
  <1>7. CASE receipts[id].lease # a
    <2>1. receipts' = receipts /\ reviews' = reviews
        BY <1>1, <1>7 DEF prereview_evidence, StillOwns
    <2>2. JobFits(a, Idle)
        BY IdleFits
    <2> QED
        BY <1>0, <1>3, <1>4, <2>1, <2>2, JobOnly
  <1>8. CASE receipts[id].lease = a
    <2>1. PICK r : r = receipts[id]
        OBVIOUS
    <2>2. r \in Receipt /\ RowOK(r) /\ reviews[id] \in Seq(Review) /\ id \in DOMAIN reviews
        BY <1>2, <2>1, RowFacts
    <2>3. PICK k : k = [r EXCEPT !.lease = None, !.live = FALSE]
        OBVIOUS
    <2>4. k \in Receipt /\ k.linked = r.linked /\ k.download = r.download /\ k.lease = None /\ ~k.live
          /\ k.decision = r.decision /\ k.amount = r.amount
        BY <2>2, <2>3 DEF Receipt
    <2>5. RowOK(k)
        BY <2>2, <2>4 DEF RowOK
    <2>6. RowStep(id, k)
        BY <1>1, <1>2, <1>8, <2>1, <2>3 DEF RowStep, Ids, prereview_evidence
    <2>7. CASE ~StillOwns(a)
      <3>1. reviews' = reviews
          BY <2>7 DEF prereview_evidence
      <3> QED
          BY <1>0, <1>2, <1>5, <1>6, <2>1, <2>4, <2>5, <2>6, <3>1, RowAndJob
    <2>8. CASE StillOwns(a)
      <3>1. PICK v : v = NewReview(a)
          OBVIOUS
      <3>2. v \in Review /\ v.auto = (a \in Workers) /\ (r.linked => Worth(v))
            /\ v.seen = booking
          BY <1>0, <1>1, <2>1, <3>1, NewReviewFacts
      <3>3. PICK t : t = Append(reviews[id], v)
          OBVIOUS
      <3>4. t \in Seq(Review) /\ InBounds(t)
        <4>1. InBounds(reviews[id])
            BY <1>2 DEF PInv, ReviewsOK
        <4>2. v.auto => Unsettled(reviews[id])
            BY <1>2, <1>8, <3>2
        <4>3. InBounds(Append(reviews[id], v))
            BY <2>2, <3>2, <4>1, <4>2, AppendKeeps
        <4> QED
            BY <2>2, <3>2, <3>3, <4>3
      <3>5. reviews' = [reviews EXCEPT ![id] = t]
          BY <1>1, <2>8, <3>1, <3>3 DEF prereview_evidence
      <3>6. /\ reviews' \in Seq(Seq(Review)) /\ Len(reviews') = Len(reviews) /\ reviews'[id] = t
            /\ \A i \in Ids \ {id} : reviews'[i] = reviews[i]
          BY <2>2, <3>4, <3>5 DEF PInv, EvidenceType, Ids
      <3>7. k.download = "DOWNLOADED" => file[id] = "DECLARED"
          BY <1>2, <2>1, <2>4 DEF PInv, DownloadedIsVerified
      <3>8. /\ receipts' \in Seq(Receipt) /\ Len(receipts') = Len(receipts) /\ Ids' = Ids
            /\ receipts'[id] = k
            /\ \A i \in Ids \ {id} : receipts'[i] = receipts[i]
            /\ RowsOK' /\ DownloadedIsVerified'
          BY <1>0, <1>2, <2>4, <2>5, <2>6, <3>7, RowStepFacts
      <3>9. EvidenceType'
          BY <1>0, <1>5, <3>6, <3>8 DEF PInv, EvidenceType, BookingStep
      <3>10. \A i \in Ids, b \in Workers \ {a} :
                receipts'[i].lease = b => receipts[i].lease = b /\ reviews'[i] = reviews[i]
          BY <2>4, <3>6, <3>8, Constants
      <3>11. \A i \in Ids, b \in Workers \ {a} :
                Alone /\ receipts[i].download \in Retriable => receipts'[i].download \in Retriable
          BY <2>1, <2>4, <3>8
      <3>12. JobsFit'
          BY <1>0, <1>5, <1>6, <3>8, <3>9, <3>10, <3>11, JobsKeep
      <3>13. /\ \A n \in DOMAIN t : r.linked => Worth(t[n])
             /\ \A n \in DOMAIN t : t[n].seen.paid <= booking.paid
        <4>0. booking \in Booking /\ v.seen.paid <= booking.paid
            BY <3>2 DEF PInv, EvidenceType, Booking
        <4>1. \A n \in DOMAIN reviews[id] :
                  (r.linked => Worth(reviews[id][n])) /\ reviews[id][n].seen.paid <= booking.paid
            BY <1>2, <2>1 DEF PInv, ReviewsOK, NotAhead
        <4>2. \A n \in DOMAIN t : t[n] = v \/ (n \in DOMAIN reviews[id] /\ t[n] = reviews[id][n])
            BY <2>2, <3>2, <3>3
        <4> QED
            BY <3>2, <4>0, <4>1, <4>2
      <3>14. ReviewsOK'
        <4> SUFFICES ASSUME NEW i \in Ids
                     PROVE  /\ InBounds(reviews'[i])
                            /\ receipts'[i].linked =>
                                   \A n \in DOMAIN reviews'[i] : Worth(reviews'[i][n])
            BY <3>8 DEF ReviewsOK, InBounds, Worth, Terminal
        <4>1. CASE i = id
            BY <4>1, <2>4, <3>4, <3>6, <3>8, <3>13
        <4>2. CASE i # id
            BY <4>2, <3>6, <3>8 DEF PInv, ReviewsOK
        <4> QED
            BY <4>1, <4>2
      <3>15. booking' = booking
          BY DEF prereview_evidence
      <3>16. NotAhead'
          BY <3>6, <3>8, <3>13, <3>15 DEF PInv, NotAhead
      <3> QED
          BY <3>8, <3>9, <3>12, <3>14, <3>16 DEF PInv
    <2> QED
        BY <2>7, <2>8
  <1> QED
      BY <1>7, <1>8

(***************************************************************************)
(* The decision, time                                                      *)
(***************************************************************************)
\* What a payment does to the reservation.
LEMMA PaymentFacts ==
    ASSUME NEW b \in Booking, NEW amount \in Nat, NEW taken \in BOOLEAN
    PROVE  /\ AfterPayment(b, amount, taken) \in Booking
           /\ AfterPayment(b, amount, taken).paid = b.paid + amount
           /\ b.paid + amount >= deposit_amount(Price) /\ ~taken =>
                  AfterPayment(b, amount, taken).status = "RESERVED"
           /\ b.status = "RESERVED" => AfterPayment(b, amount, taken).status = "RESERVED"
  <1>1. PICK n : n = b.paid + amount
      OBVIOUS
  <1>2. n \in Nat
      BY <1>1 DEF Booking
  <1>3. PICK q : q = IF n >= deposit_amount(Price) /\ ~taken THEN "RESERVED" ELSE b.status
      OBVIOUS
  <1>4. q \in {"REQUESTED", "RESERVED", "CLOSED"}
      BY <1>3 DEF Booking
  <1>5. AfterPayment(b, amount, taken) = [b EXCEPT !.paid = n, !.status = q]
      BY <1>1, <1>3 DEF AfterPayment, Booking
  <1>6. PICK a : a = [b EXCEPT !.paid = n, !.status = q]
      OBVIOUS
  <1>7. a \in Booking /\ a.paid = n /\ a.status = q
      BY <1>2, <1>4, <1>6 DEF Booking
  <1> QED
      BY <1>1, <1>3, <1>5, <1>6, <1>7

\* An administrator accepts an amount.
LEMMA AcceptKeeps ==
    ASSUME PInv, NEW id \in Ids, NEW amount \in Amounts, NEW taken \in BOOLEAN,
           accept_payment_evidence(id, amount, taken)
    PROVE  PInv'
  <1>0. UNCHANGED <<file, reviews, job, crashes, retries>>
      BY DEF accept_payment_evidence
  <1>1. amount \in Nat /\ amount > 0
      BY Constants
  <1>2. BookingStep
    <2>1. booking \in Booking /\ booking.paid \in Nat
        BY DEF PInv, EvidenceType, Booking
    <2>2. CASE receipts[id].linked
      <3>1. booking' = AfterPayment(booking, amount, taken)
          BY <2>2 DEF accept_payment_evidence
      <3>2. AfterPayment(booking, amount, taken) \in Booking
            /\ AfterPayment(booking, amount, taken).paid = booking.paid + amount
          BY <1>1, <2>1, PaymentFacts
      <3> QED
          BY <1>1, <2>1, <3>1, <3>2 DEF BookingStep
    <2>3. CASE ~receipts[id].linked
      <3>1. booking' = booking
          BY <2>3 DEF accept_payment_evidence
      <3> QED
          BY <3>1, BookingSame
    <2> QED
        BY <2>2, <2>3
  <1>3. PICK r : r = receipts[id]
      OBVIOUS
  <1>4. r \in Receipt /\ RowOK(r)
      BY <1>3, RowFacts
  <1>5. PICK k : k = [r EXCEPT !.decision = "ACCEPTED", !.amount = amount]
      OBVIOUS
  <1>6. k \in Receipt /\ k.linked = r.linked /\ k.download = r.download /\ k.lease = r.lease /\ k.live = r.live
        /\ k.decision = "ACCEPTED" /\ k.amount = amount
      BY <1>1, <1>4, <1>5 DEF Receipt
  <1>7. RowOK(k)
      BY <1>1, <1>4, <1>6 DEF RowOK
  <1>8. RowStep(id, k)
      BY <1>3, <1>5 DEF RowStep, Ids, accept_payment_evidence
  <1> QED
      BY <1>0, <1>2, <1>3, <1>6, <1>7, <1>8, RowOnly

\* An administrator rejects the receipt.
LEMMA RejectKeeps ==
    ASSUME PInv, NEW id \in Ids, reject_payment_evidence(id) PROVE PInv'
  <1>0. UNCHANGED <<file, reviews, job, crashes, retries>> /\ BookingStep
      BY BookingSame DEF reject_payment_evidence, PInv, EvidenceType
  <1>1. PICK r : r = receipts[id]
      OBVIOUS
  <1>2. r \in Receipt /\ RowOK(r) /\ r.decision = "PENDING_REVIEW"
      BY <1>1, RowFacts DEF reject_payment_evidence
  <1>3. PICK k : k = [r EXCEPT !.decision = "REJECTED"]
      OBVIOUS
  <1>4. k \in Receipt /\ k.linked = r.linked /\ k.download = r.download /\ k.lease = r.lease /\ k.live = r.live
        /\ k.decision = "REJECTED" /\ k.amount = r.amount
      BY <1>2, <1>3 DEF Receipt
  <1>5. RowOK(k)
      BY <1>2, <1>4 DEF RowOK
  <1>6. RowStep(id, k)
      BY <1>1, <1>3 DEF RowStep, Ids, reject_payment_evidence
  <1> QED
      BY <1>0, <1>1, <1>4, <1>5, <1>6, RowOnly

\* The reservation is cancelled or expires.
LEMMA CloseKeeps == ASSUME PInv, CloseReservation PROVE PInv'
  <1>1. PICK id \in Ids : receipts[id].linked
      BY DEF CloseReservation
  <1>2. PICK k : k = receipts[id]
      OBVIOUS
  <1>3. k \in Receipt /\ RowOK(k)
      BY <1>2, RowFacts
  <1>4. RowStep(id, k)
    <2>1. receipts \in Seq(Receipt) /\ receipts' = receipts
        BY DEF PInv, EvidenceType, CloseReservation
    <2> QED
        BY <1>2, <2>1 DEF RowStep, Ids
  <1>5. BookingStep
    <2>1. booking \in Booking /\ booking' = [booking EXCEPT !.status = "CLOSED"]
        BY DEF PInv, EvidenceType, CloseReservation
    <2> QED
        BY <2>1 DEF Booking, BookingStep
  <1>6. UNCHANGED <<file, reviews, job, crashes, retries>>
      BY DEF CloseReservation
  <1> QED
      BY <1>2, <1>3, <1>4, <1>5, <1>6, RowOnly

\* A flag of the clock changes: neither the lease's holder nor the download.
LEMMA TimeKeeps ==
    ASSUME PInv, NEW id \in Ids, Due(id) \/ LeaseEnds(id) \/ GrowsOld(id) PROVE PInv'
  <1>0. UNCHANGED <<file, reviews, job, crashes, retries>> /\ BookingStep
      BY BookingSame DEF Due, LeaseEnds, GrowsOld, PInv, EvidenceType
  <1>1. PICK r : r = receipts[id]
      OBVIOUS
  <1>2. r \in Receipt /\ RowOK(r)
      BY <1>1, RowFacts
  <1>3. PICK k : /\ k \in {[r EXCEPT !.due = TRUE], [r EXCEPT !.live = FALSE], [r EXCEPT !.old = TRUE]}
                 /\ RowStep(id, k)
    <2>1. CASE Due(id)
        BY <1>1, <2>1 DEF Due, RowStep, Ids
    <2>2. CASE LeaseEnds(id)
        BY <1>1, <2>2 DEF LeaseEnds, RowStep, Ids
    <2>3. CASE GrowsOld(id)
        BY <1>1, <2>3 DEF GrowsOld, RowStep, Ids
    <2> QED
        BY <2>1, <2>2, <2>3
  <1>4. k \in Receipt /\ k.linked = r.linked /\ k.download = r.download /\ k.lease = r.lease /\ (k.live => r.live)
        /\ k.decision = r.decision /\ k.amount = r.amount
    <2>1. CASE k = [r EXCEPT !.due = TRUE]
        BY <1>2, <2>1 DEF Receipt
    <2>2. CASE k = [r EXCEPT !.live = FALSE]
        BY <1>2, <2>2 DEF Receipt
    <2>3. CASE k = [r EXCEPT !.old = TRUE]
        BY <1>2, <2>3 DEF Receipt
    <2> QED
        BY <1>3, <2>1, <2>2, <2>3
  <1>5. RowOK(k)
      BY <1>2, <1>4 DEF RowOK
  <1> QED
      BY <1>0, <1>1, <1>3, <1>4, <1>5, RowOnly

\* Every step keeps the inductive invariant.
LEMMA NextOK == PInv /\ [PNext]_pvars => PInv'
  <1> SUFFICES ASSUME PInv, [PNext]_pvars PROVE PInv'
      OBVIOUS
  <1>1. CASE UNCHANGED pvars
    <2>1. PInv' = PInv
        BY <1>1 DEF pvars, PInv, EvidenceType, RowsOK, DownloadedIsVerified, JobsFit, ReviewsOK,
                    NotAhead, Ids, RowOK, JobFits, InBounds, Worth, Unsettled, Terminal, Alone
    <2> QED
        BY <2>1
  <1>2. CASE \E kind \in Kinds, linked \in BOOLEAN : create_payment_evidence(kind, linked)
      BY <1>2, CreateKeeps
  <1>3. ASSUME NEW w \in Workers, WorkerStep(w) PROVE PInv'
      BY <1>3, ClaimKeeps, DownloadedKeeps, NotDownloadedKeeps, SettleSuccessKeeps,
         SettleFailureKeeps, PrereviewClaimKeeps DEF WorkerStep
  <1>4. ASSUME NEW a \in Actors, ReadingStep(a) \/ Crash(a) PROVE PInv'
      BY <1>4, ReadKeeps, PrereviewKeeps, CrashKeeps DEF ReadingStep, Outcomes
  <1>5. CASE \E a \in Admins, id \in Ids : retry_payment_prereview(a, id)
      BY <1>5, RetryKeeps
  <1>6. CASE \E id \in Ids, amount \in Amounts, taken \in BOOLEAN :
                accept_payment_evidence(id, amount, taken)
      BY <1>6, AcceptKeeps
  <1>7. CASE \E id \in Ids : reject_payment_evidence(id)
      BY <1>7, RejectKeeps
  <1>8. CASE \E id \in Ids : Due(id) \/ LeaseEnds(id) \/ GrowsOld(id)
      BY <1>8, TimeKeeps
  <1>9. CASE CloseReservation
      BY <1>9, CloseKeeps
  <1> QED
      BY <1>1, <1>2, <1>3, <1>4, <1>5, <1>6, <1>7, <1>8, <1>9 DEF PNext

\* Every reachable state satisfies the inductive invariant.
THEOREM PInvariant == PSpec => []PInv
  <1>1. PInit => PInv
      BY InitOK
  <1>2. PInv /\ [PNext]_pvars => PInv'
      BY NextOK
  <1> QED
      BY <1>1, <1>2, PTL DEF PSpec

(***************************************************************************)
(* What follows                                                            *)
(***************************************************************************)
\* The type invariant of the run follows.
LEMMA TypeFollows == PInv => PTypeOK
  <1> SUFFICES ASSUME PInv PROVE PTypeOK
      OBVIOUS
  <1>1. Len(file) = Len(receipts) /\ Len(reviews) = Len(receipts) /\ booking.paid \in Nat
        /\ booking.status \in {"REQUESTED", "RESERVED", "CLOSED"}
      BY DEF PInv, EvidenceType, Booking
  <1>2. ASSUME NEW id \in Ids
        PROVE  /\ receipts[id].download \in
                      {"PENDING", "DOWNLOADED", "FAILED_RETRYABLE", "FAILED_PERMANENT"}
               /\ receipts[id].decision \in {"PENDING_REVIEW", "ACCEPTED", "REJECTED"}
               /\ receipts[id].attempts \in Nat
               /\ receipts[id].lease \in Actors \cup {None}
               /\ receipts[id].live => receipts[id].lease # None
               /\ (receipts[id].decision = "ACCEPTED") = (receipts[id].amount > 0)
    <2>1. receipts[id] \in Receipt /\ RowOK(receipts[id])
        BY RowFacts
    <2> QED
        BY <2>1 DEF Receipt, RowOK, Downloads
  <1>3. ASSUME NEW id \in Ids, NEW n \in DOMAIN reviews[id]
        PROVE  reviews[id][n].status \in {"COMPLETED", "FAILED", "SKIPPED"}
    <2>1. reviews[id][n] \in Review
        BY RowFacts
    <2> QED
        BY <2>1 DEF Review, Outcomes
  <1>4. ASSUME NEW a \in Actors, job[a].id # 0 PROVE job[a].id \in Ids
      BY <1>4, JobFacts DEF JobFits
  <1> QED
      BY <1>1, <1>2, <1>3, <1>4 DEF PTypeOK

\* A set of early positions is a small set.
LEMMA BoundFollows == PInv => AutomaticReviewsBounded
  <1> SUFFICES ASSUME PInv, NEW id \in Ids
               PROVE  /\ Cardinality(AutoReviews(id)) <= MaxReviews
                      /\ \A n \in AutoReviews(id) : n <= MaxReviews
                      /\ \A n \in AutoReviews(id), m \in DOMAIN reviews[id] :
                            m < n => ~Terminal(reviews[id][m])
      BY DEF AutomaticReviewsBounded
  <1>1. InBounds(reviews[id]) /\ reviews[id] \in Seq(Review)
      BY RowFacts DEF PInv, ReviewsOK
  <1>2. \A n \in AutoReviews(id) : n \in 1..MaxReviews
      BY <1>1, Constants DEF InBounds, AutoReviews
  <1>3. \A n \in AutoReviews(id), m \in DOMAIN reviews[id] : m < n => ~Terminal(reviews[id][m])
      BY <1>1 DEF InBounds, AutoReviews
  <1>4. Cardinality(AutoReviews(id)) <= MaxReviews
    <2>1. IsFiniteSet(1..MaxReviews) /\ Cardinality(1..MaxReviews) = MaxReviews
      <3>1. MaxReviews \in Nat /\ 1 \in Int /\ MaxReviews \in Int
          BY Constants
      <3>2. IsFiniteSet(1..MaxReviews)
            /\ Cardinality(1..MaxReviews) = IF 1 > MaxReviews THEN 0 ELSE MaxReviews - 1 + 1
          BY <3>1, FS_Interval, Zenon
      <3> QED
          BY <3>1, <3>2
    <2>2. AutoReviews(id) \subseteq 1..MaxReviews
        BY <1>2
    <2>3. Cardinality(AutoReviews(id)) <= Cardinality(1..MaxReviews)
        BY <2>1, <2>2, FS_Subset
    <2> QED
        BY <2>1, <2>3
  <1> QED
      BY <1>2, <1>3, <1>4

\* In every reachable state, however workers, administrators, crashes and ending leases
\* interleave, receipts are well formed, a downloaded one has the bytes its message declared,
\* and the worker's own readings are at most MaxReviews and none after a settling one.
THEOREM ReceiptsAccounted == PSpec => []ReceiptsAccountedFor
  <1>1. PInv => ReceiptsAccountedFor
      BY TypeFollows, BoundFollows DEF ReceiptsAccountedFor, PInv
  <1> QED
      BY <1>1, PInvariant, PTL

\* In every reachable state, whatever was paid, cancelled or read meanwhile, accepting what a
\* reading proposes completes the deposit of a requested reservation, or the balance of a
\* confirmed one, if that is what it was when it was read.
THEOREM AcceptSettles == PSpec => []AcceptSuggestionSettles
  <1>1. PInv => AcceptSuggestionSettles
    <2> SUFFICES ASSUME PInv, NEW id \in Ids, NEW n \in DOMAIN reviews[id],
                        receipts[id].linked, reviews[id][n].suggestion = "ACCEPT",
                        TakesPayment(booking), reviews[id][n].seen.status = booking.status
                 PROVE  LET after == AfterPayment(booking, reviews[id][n].amount, FALSE) IN
                        /\ after.status = "RESERVED"
                        /\ booking.status = "RESERVED" => after.paid >= Price
        BY DEF AcceptSuggestionSettles
    <2>1. PICK r : r = reviews[id][n]
        OBVIOUS
    <2>2. Worth(r) /\ r \in Review /\ r.seen.paid <= booking.paid
        BY <2>1, RowFacts DEF PInv, ReviewsOK, NotAhead
    <2>3. booking \in Booking /\ booking.paid \in Nat /\ r.amount \in Nat /\ r.seen.paid \in Nat
        BY <2>2 DEF PInv, EvidenceType, Booking, Review
    <2>4. /\ AfterPayment(booking, r.amount, FALSE).paid = booking.paid + r.amount
          /\ booking.paid + r.amount >= deposit_amount(Price) =>
                 AfterPayment(booking, r.amount, FALSE).status = "RESERVED"
          /\ booking.status = "RESERVED" =>
                 AfterPayment(booking, r.amount, FALSE).status = "RESERVED"
        BY <2>3, PaymentFacts
    <2>5. CASE booking.status = "RESERVED"
      <3>1. r.seen.paid + r.amount >= Price
          BY <2>1, <2>2, <2>5 DEF Worth
      <3>2. booking.paid + r.amount >= Price
          BY <2>2, <2>3, <3>1, Constants
      <3> QED
          BY <2>1, <2>4, <2>5, <3>2
    <2>6. CASE booking.status # "RESERVED"
      <3>1. PICK d : d = deposit_amount(Price)
          OBVIOUS
      <3>2. d \in Int /\ r.seen.paid + r.amount >= d
          BY <2>1, <2>2, <2>6, <3>1, SameDeposit DEF Worth
      <3>3. booking.paid + r.amount >= d
          BY <2>2, <2>3, <3>2
      <3> QED
          BY <2>1, <2>4, <2>6, <3>1, <3>3
    <2> QED
        BY <2>5, <2>6
  <1> QED
      BY <1>1, PInvariant, PTL

\* In every behaviour, a reading that comes after the decision leaves no trace: the second
\* transaction looks at the decision again under the row lock.
THEOREM DecisionEndsReadings == PSpec => NoReviewAfterDecision
  <1>1. PInv /\ [PNext]_pvars =>
            [\A id \in Ids : receipts[id].decision # "PENDING_REVIEW" => reviews'[id] = reviews[id]]_pvars
    <2> SUFFICES ASSUME PInv, PNext, NEW id \in Ids, receipts[id].decision # "PENDING_REVIEW"
                 PROVE  reviews'[id] = reviews[id]
        OBVIOUS
    <2>1. ASSUME NEW kind \in Kinds, NEW linked \in BOOLEAN, create_payment_evidence(kind, linked)
          PROVE  reviews'[id] = reviews[id]
      <3>1. id \in 1..Len(reviews) /\ reviews \in Seq(Seq(Review)) /\ << >> \in Seq(Review)
          BY DEF PInv, EvidenceType, Ids
      <3> QED
          BY <2>1, <3>1 DEF create_payment_evidence
    <2>2. ASSUME NEW a \in Actors, prereview_evidence(a) PROVE reviews'[id] = reviews[id]
      <3>1. CASE job[a].id = id
          BY <2>2, <3>1 DEF prereview_evidence, StillOwns
      <3>2. CASE job[a].id # id
          BY <2>2, <3>2 DEF prereview_evidence, PInv, EvidenceType
      <3> QED
          BY <3>1, <3>2
    <2>3. CASE reviews' = reviews
        BY <2>3
    <2> QED
        BY <2>1, <2>2, <2>3
           DEF PNext, WorkerStep, ReadingStep, claim_one_evidence, Downloaded, NotDownloaded,
               settle_success, settle_failure, claim_prereview_evidence, Lease, Read, Crash,
               retry_payment_prereview, accept_payment_evidence, reject_payment_evidence,
               CloseReservation, Due, LeaseEnds, GrowsOld
  <1> QED
      BY <1>1, PInvariant, PTL DEF PSpec, NoReviewAfterDecision

\* In every behaviour with one worker, a late failure never takes a download back: while it
\* is busy with a receipt nobody else settles it.
THEOREM LoneWorkerKeeps == PSpec => DownloadedStays
  <1>1. PInv /\ [PNext]_pvars => [Cardinality(Workers) = 1 => KeepsDownloaded]_pvars
    <2> SUFFICES ASSUME PInv, PNext, Cardinality(Workers) = 1, NEW id \in Ids,
                        receipts[id].download = "DOWNLOADED"
                 PROVE  receipts'[id].download = "DOWNLOADED"
        BY DEF KeepsDownloaded
    <2>1. Alone
      <3>1. \E x : Workers = {x}
          BY EvidenceAssumption, FS_Singleton
      <3> QED
          BY <3>1 DEF Alone
    <2>2. receipts \in Seq(Receipt) /\ id \in DOMAIN receipts /\ receipts[id] \in Receipt
        BY RowFacts DEF PInv, EvidenceType, Ids
    <2>3. ASSUME NEW w \in Workers, job[w].pc \in Fetching, NEW d,
                 receipts' = [receipts EXCEPT ![job[w].id].download = d]
          PROVE  receipts'[id].download = "DOWNLOADED"
      <3>1. job[w].id # id
        <4>1. JobFits(w, job[w])
            BY JobFacts DEF Actors
        <4>2. receipts[job[w].id].download \in Retriable
            BY <2>1, <2>3, <4>1 DEF JobFits
        <4> QED
            BY <4>2 DEF Retriable
      <3> QED
          BY <2>2, <2>3, <3>1
    <2>4. ASSUME NEW w \in Workers, settle_success(w) \/ settle_failure(w)
          PROVE  receipts'[id].download = "DOWNLOADED"
        BY <2>3, <2>4 DEF settle_success, settle_failure, Fetching
    <2>5. CASE receipts' = receipts
        BY <2>5
    <2>6. ASSUME NEW w \in Workers, claim_one_evidence(w)
          PROVE  receipts'[id].download = "DOWNLOADED"
      <3>1. \/ receipts' = receipts
            \/ \E i : receipts' = [receipts EXCEPT ![i].attempts = @ + 1, ![i].due = FALSE]
          BY <2>6 DEF claim_one_evidence
      <3>2. ASSUME NEW i, receipts' = [receipts EXCEPT ![i].attempts = @ + 1, ![i].due = FALSE]
            PROVE  receipts'[id].download = "DOWNLOADED"
        <4>1. PICK n : n = receipts[i].attempts + 1
            OBVIOUS
        <4>2. receipts' = [receipts EXCEPT ![i].attempts = n, ![i].due = FALSE]
            BY <3>2, <4>1
        <4> QED
            BY <2>2, <4>2 DEF Receipt
      <3> QED
          BY <2>5, <3>1, <3>2
    <2>7. ASSUME NEW kind \in Kinds, NEW linked \in BOOLEAN, create_payment_evidence(kind, linked)
          PROVE  receipts'[id].download = "DOWNLOADED"
      <3>1. PICK r : r = NewReceipt(kind, linked)
          OBVIOUS
      <3>2. receipts' = Append(receipts, r)
          BY <2>7, <3>1 DEF create_payment_evidence
      <3>3. r \in Receipt
          BY <3>1 DEF NewReceipt, Receipt, Downloads
      <3> QED
          BY <2>2, <3>2, <3>3
    <2>8. ASSUME NEW a, NEW i, Lease(a, i) PROVE receipts'[id].download = "DOWNLOADED"
        BY <2>2, <2>8 DEF Lease, Receipt
    <2>9. ASSUME NEW a \in Actors, prereview_evidence(a)
          PROVE  receipts'[id].download = "DOWNLOADED"
        BY <2>2, <2>9 DEF prereview_evidence, Receipt
    <2>10. ASSUME NEW i \in Ids, NEW amount, NEW taken, accept_payment_evidence(i, amount, taken)
           PROVE  receipts'[id].download = "DOWNLOADED"
        BY <2>2, <2>10 DEF accept_payment_evidence, Receipt
    <2>11. ASSUME NEW i \in Ids, reject_payment_evidence(i) \/ Due(i) \/ LeaseEnds(i) \/ GrowsOld(i)
           PROVE  receipts'[id].download = "DOWNLOADED"
      <3>1. CASE reject_payment_evidence(i)
          BY <2>2, <3>1 DEF reject_payment_evidence, Receipt
      <3>2. CASE Due(i)
          BY <2>2, <3>2 DEF Due, Receipt
      <3>3. CASE LeaseEnds(i)
          BY <2>2, <3>3 DEF LeaseEnds, Receipt
      <3>4. CASE GrowsOld(i)
          BY <2>2, <3>4 DEF GrowsOld, Receipt
      <3> QED
          BY <2>11, <3>1, <3>2, <3>3, <3>4
    <2>12. ASSUME NEW w \in Workers, WorkerStep(w) PROVE receipts'[id].download = "DOWNLOADED"
      <3>1. CASE claim_prereview_evidence(w)
        <4>1. receipts' = receipts \/ \E i : Lease(w, i)
            BY <3>1 DEF claim_prereview_evidence
        <4> QED
            BY <2>5, <2>8, <4>1
      <3>2. CASE \/ \E bytes \in {"DECLARED", "OTHER"} : Downloaded(w, bytes)
                 \/ \E permanent \in BOOLEAN : NotDownloaded(w, permanent)
          BY <2>5, <3>2 DEF Downloaded, NotDownloaded
      <3> QED
          BY <2>4, <2>6, <2>12, <3>1, <3>2 DEF WorkerStep
    <2>13. ASSUME NEW a \in Actors, ReadingStep(a) \/ Crash(a)
           PROVE  receipts'[id].download = "DOWNLOADED"
        BY <2>5, <2>9, <2>13 DEF ReadingStep, Read, Crash
    <2> QED
        BY <2>5, <2>7, <2>8, <2>10, <2>11, <2>12, <2>13
           DEF PNext, retry_payment_prereview, CloseReservation
  <1> QED
      BY <1>1, PInvariant, PTL DEF PSpec, DownloadedStays
==============================================================================
