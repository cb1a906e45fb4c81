------------------------- MODULE MCPaymentEvidence --------------------------
(***************************************************************************)
(* Instances of PaymentEvidence for TLC.  The initial state chooses one:   *)
(* workers and an administrator who read one receipt, a worker that        *)
(* downloads two, or readings of every kind of two receipts.               *)
(***************************************************************************)
EXTENDS PaymentEvidence

CONSTANTS w1, w2, a1, Slices
VARIABLE slice

Reading(amount, account, reference) ==
    [legible |-> TRUE, amount |-> amount, cop |-> TRUE, account |-> account, date |-> "INSIDE",
     reference |-> reference, confidence |-> "OK"]

\* One reading that says nothing beyond a sum.
PlainReadings == {Reading(deposit_amount(Price), "OURS", "R1")}

\* Sums, accounts, references and dates that lead to every suggestion.
CheckedReadings ==
    {Reading(amount, "OURS", "R1") : amount \in {0, 1000, deposit_amount(Price), Price}}
    \cup {Reading(Price, account, "R1") : account \in {"UNREAD", "OTHER"}}
    \cup {[Reading(Price, "OURS", "NONE") EXCEPT !.date = d] : d \in {"UNREAD", "FUTURE", "EARLY"}}
    \cup {[Reading(Price, "OURS", "NONE") EXCEPT !.confidence = k] : k \in {"WARN", "FAIL"}}
    \cup {[Reading(Price, "OURS", "NONE") EXCEPT !.cop = FALSE],
          [Reading(0, "OURS", "NONE") EXCEPT !.legible = FALSE]}

Reader == INSTANCE PaymentEvidence WITH MaxReceipts <- 1, Linked <- {}
Download == INSTANCE PaymentEvidence WITH
    Workers <- {w1}, Admins <- {}, Kinds <- {"IMAGE", "OTHER"}, Linked <- {},
    MAX_DOWNLOAD_ATTEMPTS <- 2, MaxReviews <- 1, MaxRetries <- 0
Checks == INSTANCE PaymentEvidence WITH
    Workers <- {w1}, Admins <- {}, Readings <- CheckedReadings,
    Amounts <- {1000, 2000}, MaxReviews <- 1, MaxCrashes <- 0, MaxRetries <- 0

MCInit == slice \in Slices /\ PInit
MCNext ==
    /\ CASE slice = "download" -> Download!PNext
         [] slice = "checks" -> Checks!PNext
         [] slice = "reading" -> Reader!PNext
    /\ UNCHANGED slice
MCSpec == MCInit /\ [][MCNext]_<<pvars, slice>>

\* Where one worker runs, a downloaded receipt stays downloaded: see DownloadedStays.
LoneWorkerKeepsDownloaded == [][slice # "reading" => KeepsDownloaded]_<<pvars, slice>>
=============================================================================
