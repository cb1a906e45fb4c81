----------------------------- MODULE InboxProofs -----------------------------
(***************************************************************************)
(* Proofs about Inbox: whatever the order of deliveries, claims, reapers,  *)
(* cancellations, crashes, resets and manual retries, a message has at     *)
(* most one turn and at most one claim that touches the agenda, turns of a *)
(* conversation are applied in order, an event said to be PROCESSED is     *)
(* done, and a reset leaves nothing to run.  For every number of messages, *)
(* events, claims and attempts.                                            *)
(***************************************************************************)
EXTENDS Inbox, FiniteSetTheorems, WellFoundedInduction, TLAPS

Running == {"PROCESSING", "EXTERNAL"}

EventRow == [status : EventStatus, attempts : 0..MaxAttempts, v2 : BOOLEAN]
JobRow == [status : JobStatus, id : Nat, conv : Conversations, new : BOOLEAN,
           attempts : 0..MaxAttempts, claims : Tokens, token : Tokens, ext : BOOLEAN]
Claim == [pc : Steps, msg : Messages \cup {0}, token : Tokens, seen : Context,
          calls : 0..MaxCalls, mutating : BOOLEAN]

\* An event that may still be expanded has attempts left.
EventOK(ev) == ev.status \in {"ABSENT", "RECEIVED", "FAILED"} => ev.attempts < MaxAttempts

\* A job that may still run has attempts left, and the tokens it drew are paid for by
\* attempts or by the claims people gave back; only EXTERNAL jobs run with the agenda touched.
JobOK(j) ==
    /\ j.status \in {"PENDING", "PROCESSING", "EXTERNAL"} => j.attempts < MaxAttempts
    /\ j.status = "PENDING" => j.claims <= MaxClaims + j.attempts
    /\ j.status \in Running => j.claims <= MaxClaims + j.attempts + 1
    /\ j.status \in {"PENDING", "PROCESSING", "FAILED"} => ~j.ext
    /\ j.status = "EXTERNAL" => j.ext

\* A claim in progress is of a message that has a job of its own, and its turn has
\* replays left.
ClaimOK(k) ==
    /\ k.pc # "idle" => k.msg \in Messages \ Legacy
    /\ k.pc \in {"classify", "apply", "prepare", "call", "record"} => k.calls < MaxCalls

\* A message of the time before jobs is looked at by a person or dropped by a reset.
LegacyRests == \A m \in Legacy : jobs[m].status \in {"NONE", "REVIEW", "COMPLETED"}

\* Claim k is making a call that changes the agenda for message m, as claim t of it.
Calling(k, m, t) == k.pc = "call" /\ k.mutating /\ k.msg = m /\ k.token = t

\* The t-th claim of m changed the agenda, or may be doing so.
Touched(m, t) == <<m, t>> \in mutated \/ \E w \in Claimers : Calling(claim[w], m, t)

\* Such a message is finished, with a person, or still that claim's.
Held(j, t) ==
    /\ j.ext
    /\ j.status \in {"COMPLETED", "REVIEW"} \/ (j.status = "EXTERNAL" /\ j.token = t)

Fenced ==
    \A m \in Messages, t \in Tokens : Touched(m, t) =>
        /\ m \notin Legacy
        /\ Held(jobs[m], t)
        /\ \A u \in Tokens : Touched(m, u) => u = t

\* While a job runs, the earlier ones of its conversation are done.
EarlierDone ==
    \A m, n \in Messages :
        /\ jobs[m].status \in Running
        /\ Exists(n) /\ jobs[n].conv = jobs[m].conv /\ jobs[n].id < jobs[m].id
        => jobs[n].status = "COMPLETED"

Stored == {m \in Messages : Exists(m)}
OpenOnes == {c \in Conversations : ctx[c].stage # "ABSENT"}

\* Jobs are numbered in the order they were stored, and every conversation but the legacy
\* one was opened by a message.
Numbered ==
    /\ \A m \in Stored : jobs[m].id <= Cardinality(Stored)
    /\ Cardinality(OpenOnes) <= 1 + Cardinality(Stored)

\* A job is of a conversation that was opened, and so is every legacy message.
Placed ==
    /\ Legacy # {} => ctx[1].stage # "ABSENT"
    /\ \A m \in Stored : ctx[jobs[m].conv].stage # "ABSENT"

IInv ==
    /\ ITypeOK
    /\ \A e \in Events : EventOK(events[e])
    /\ \A m \in Messages : JobOK(jobs[m])
    /\ \A w \in Claimers : ClaimOK(claim[w])
    /\ LegacyRests /\ Fenced /\ EarlierDone /\ Numbered /\ Placed
    /\ OneTurnPerMessage /\ LegacyNeverReplayed
    /\ ProcessedMeansDone /\ ResetLeavesNothingRunning

(***************************************************************************)
(* Constants and first values                                              *)
(***************************************************************************)

\* What the assumption on the constants says, in the form the proofs use it.
LEMMA Bounds ==
    /\ MaxAttempts \in Nat /\ 0 < MaxAttempts /\ MaxCalls \in Nat /\ 0 < MaxCalls
    /\ MaxClaims \in Nat
    /\ Cardinality(Messages) \in Nat /\ IsFiniteSet(Messages)
    /\ Conversations = 1..(Cardinality(Messages) + 1)
    /\ Tokens = 0..(MaxClaims + MaxAttempts)
    /\ 0 \in Tokens /\ 1 \in Conversations /\ 0 \notin Messages
  <1>1. Cardinality(Messages) \in Nat
    BY InboxAssumption, FS_CardinalityType
  <1>2. MaxAttempts \in Nat \ {0} /\ MaxCalls \in Nat \ {0} /\ MaxClaims \in Nat
    BY InboxAssumption
  <1>3. 0 \notin Messages /\ IsFiniteSet(Messages)
    BY InboxAssumption
  <1> QED
    BY <1>1, <1>2, <1>3 DEF Conversations, Tokens

\* The values rows, claims and conversations start from are well formed.
LEMMA FirstValues ==
    /\ NoContext \in Context /\ NoContext.stage = "ABSENT"
    /\ \A d \in Customers : Opened(d) \in Context /\ Opened(d).stage = "BOT"
    /\ IdleClaim \in Claim /\ ClaimOK(IdleClaim) /\ IdleClaim.pc = "idle"
    /\ NoJob \in JobRow /\ JobOK(NoJob) /\ NoJob.status = "NONE"
  <1>1. NoContext \in Context /\ NoContext.stage = "ABSENT"
    BY InboxAssumption DEF NoContext, Context, Stage
  <1>2. ASSUME NEW d \in Customers PROVE Opened(d) \in Context /\ Opened(d).stage = "BOT"
    BY <1>1 DEF Opened, Context, Stage
  <1>3. IdleClaim \in Claim /\ ClaimOK(IdleClaim) /\ IdleClaim.pc = "idle"
    BY <1>1, Bounds DEF IdleClaim, Claim, ClaimOK, Steps
  <1>4. NoJob \in JobRow /\ JobOK(NoJob) /\ NoJob.status = "NONE"
    BY Bounds DEF NoJob, JobRow, JobOK, JobStatus, Running
  <1> QED
    BY <1>1, <1>2, <1>3, <1>4

\* The tables start well formed.
LEMMA IInvInit == IInit => IInv
  <1> SUFFICES ASSUME IInit PROVE IInv
    OBVIOUS
  <1>1. /\ \A e \in Events : /\ events[e] \in EventRow /\ EventOK(events[e])
                             /\ events[e].status # "PROCESSED"
        /\ events \in [Events -> EventRow]
    BY Bounds DEF IInit, EventRow, EventOK, EventStatus
  <1>2. jobs = [m \in Messages |-> NoJob] /\ claim = [w \in Claimers |-> IdleClaim]
        /\ applied = [m \in Messages |-> 0] /\ mutated = {}
    BY DEF IInit
  <1>3. PICK c1 \in Context :
          ctx = [c \in Conversations |-> IF c = 1 THEN c1 ELSE NoContext]
    <2>1. CASE Legacy = {}
      <3>1. ctx = [c \in Conversations |-> NoContext]
        BY <2>1 DEF IInit
      <3> QED
        BY <3>1, FirstValues
    <2>2. CASE Legacy # {}
      <3>1. (CHOOSE m \in Legacy : TRUE) \in Legacy
        BY <2>2
      <3>2. Sender[CHOOSE m \in Legacy : TRUE] \in Customers
        BY <3>1, InboxAssumption
      <3>3. ctx = [c \in Conversations |->
                     IF c = 1 THEN Opened(Sender[CHOOSE m \in Legacy : TRUE]) ELSE NoContext]
        BY <2>2 DEF IInit
      <3> QED
        BY <3>2, <3>3, FirstValues
    <2> QED
      BY <2>1, <2>2
  <1>4. ctx \in [Conversations -> Context]
    BY <1>3, FirstValues
  <1>12. Legacy # {} => ctx[1].stage # "ABSENT"
    <2> SUFFICES ASSUME Legacy # {} PROVE ctx[1].stage # "ABSENT"
      OBVIOUS
    <2>1. PICK d : d = Sender[CHOOSE m \in Legacy : TRUE]
      OBVIOUS
    <2>2. d \in Customers
      BY <2>1, InboxAssumption
    <2>3. ctx[1] = Opened(d)
      BY <2>1, Bounds DEF IInit
    <2> QED
      BY <2>2, <2>3, FirstValues
  <1>5. ITypeOK
    BY <1>1, <1>2, <1>4, FirstValues DEF ITypeOK, EventRow, JobRow, Claim
  <1>6. Stored = {}
    BY <1>2, FirstValues DEF Stored, Exists
  <1>7. Numbered
    <2>1. OpenOnes \subseteq {1}
      <3>1. \A c \in Conversations : c # 1 => ctx[c] = NoContext
        BY <1>3
      <3> QED
        BY <3>1, FirstValues DEF OpenOnes
    <2>2. Cardinality(OpenOnes) <= 1
      <3>1. IsFiniteSet({1}) /\ Cardinality({1}) = 1
        BY FS_Singleton
      <3>2. Cardinality(OpenOnes) <= Cardinality({1})
        BY <2>1, <3>1, FS_Subset
      <3> QED
        BY <3>1, <3>2
    <2> QED
      BY <1>6, <2>2, FS_EmptySet DEF Numbered
  <1>8. Fenced
    BY <1>2, FirstValues DEF Fenced, Touched, Calling
  <1>9. \A m \in Messages : jobs[m] = NoJob /\ ~Exists(m) /\ applied[m] = 0
    BY <1>2, FirstValues DEF Exists
  <1>10. LegacyRests /\ EarlierDone /\ OneTurnPerMessage /\ LegacyNeverReplayed
    BY <1>2, <1>9, FirstValues, InboxAssumption
       DEF LegacyRests, EarlierDone, OneTurnPerMessage, LegacyNeverReplayed, Running
  <1>11. ProcessedMeansDone /\ ResetLeavesNothingRunning /\ Placed
    BY <1>1, <1>6, <1>9, <1>12 DEF ProcessedMeansDone, ResetLeavesNothingRunning, Placed
  <1> QED
    BY <1>1, <1>2, <1>5, <1>7, <1>8, <1>9, <1>10, <1>11, FirstValues DEF IInv

(***************************************************************************)
(* Steps of jobs                                                           *)
(***************************************************************************)

\* Job j becomes k without leaving its place: a finished job is not written, a job a person
\* must look at is only dropped, and one that touched the agenda is not offered again.
Settles(j, k) ==
    /\ k \in JobRow /\ JobOK(k)
    /\ k.id = j.id /\ k.conv = j.conv
    /\ j.status \notin {"NONE", "COMPLETED"} /\ k.status # "NONE"
    /\ j.status = "REVIEW" => k.status = "COMPLETED"
    /\ j.status = "EXTERNAL" => \/ k.status \in {"COMPLETED", "REVIEW"}
                                \/ k.status = "EXTERNAL" /\ k.token = j.token
    /\ j.ext => k.ext

\* Every job settles or is left alone; only the head of a conversation starts to run.
JobsMove ==
    /\ jobs' \in [Messages -> JobRow]
    /\ \A m \in Messages :
         \/ jobs'[m] = jobs[m]
         \/ /\ Settles(jobs[m], jobs'[m])
            /\ jobs'[m].status \in Running => jobs[m].status \in Running \/ IsHead(m)

\* A failed attempt is counted; it is retried while attempts are left and the agenda was
\* not touched.
LEMMA FailLockedSettles ==
    ASSUME NEW j \in JobRow, JobOK(j), j.status \in Running
    PROVE  Settles(j, FailLocked(j)) /\ FailLocked(j).status \notin Running
  <1>1. PICK k : k = FailLocked(j)
    OBVIOUS
  <1>2. PICK s \in {"REVIEW", "FAILED", "PENDING"} :
          /\ s = "REVIEW" <=> j.ext
          /\ s = "PENDING" => j.attempts + 1 < MaxAttempts
          /\ k = [[j EXCEPT !.status = s, !.token = 0] EXCEPT !.attempts = j.attempts + 1]
    <2>1. CASE j.ext
      BY <1>1, <2>1 DEF FailLocked, Retire
    <2>2. CASE ~j.ext /\ j.attempts + 1 >= MaxAttempts
      BY <1>1, <2>2 DEF FailLocked, Retire
    <2>3. CASE ~j.ext /\ ~(j.attempts + 1 >= MaxAttempts)
      <3>1. j.attempts + 1 < MaxAttempts
        BY <2>3, Bounds DEF JobRow
      <3> QED
        BY <1>1, <2>3, <3>1 DEF FailLocked, Retire
    <2> QED
      BY <2>1, <2>2, <2>3
  <1>3. j.attempts \in Nat /\ j.attempts < MaxAttempts /\ j.claims \in Nat
        /\ j.claims <= MaxClaims + j.attempts + 1
    BY Bounds DEF JobOK, JobRow, Running
  <1>4. j.attempts + 1 \in 0..MaxAttempts /\ 0 \in Tokens /\ s \in JobStatus
    BY <1>3, Bounds DEF JobStatus
  <1>5. /\ k \in JobRow /\ k.status = s /\ k.attempts = j.attempts + 1
        /\ k.id = j.id /\ k.conv = j.conv /\ k.claims = j.claims /\ k.ext = j.ext
    BY <1>2, <1>4 DEF JobRow
  <1>6. JobOK(k)
    BY <1>2, <1>3, <1>5, Bounds DEF JobOK, Running
  <1>7. j.status = "EXTERNAL" => s = "REVIEW"
    BY <1>2 DEF JobOK
  <1>8. Settles(j, k) /\ k.status \notin Running
    BY <1>5, <1>6, <1>7 DEF Settles, Running
  <1> QED
    BY <1>1, <1>8

\* A job is retired: done, dropped, or left to a person.
LEMMA RetireSettles ==
    ASSUME NEW j \in JobRow, JobOK(j), j.status \notin {"NONE", "COMPLETED"},
           NEW s \in {"COMPLETED", "REVIEW"}, j.status = "REVIEW" => s = "COMPLETED"
    PROVE  Settles(j, Retire(j, s)) /\ Retire(j, s).status = s
  <1>1. PICK k : k = [j EXCEPT !.status = s, !.token = 0]
    OBVIOUS
  <1>2. s \in JobStatus /\ 0 \in Tokens
    BY Bounds DEF JobStatus
  <1>3. k \in JobRow /\ k.status = s /\ k.id = j.id /\ k.conv = j.conv /\ k.ext = j.ext
    BY <1>1, <1>2 DEF JobRow
  <1>4. JobOK(k)
    BY <1>3 DEF JobOK, Running
  <1>5. Retire(j, s) = k
    BY <1>1 DEF Retire
  <1> QED
    BY <1>3, <1>4, <1>5 DEF Settles

\* A local job is given back: cancelled while it ran, or retried by the operator.
LEMMA GivenBackSettles ==
    ASSUME NEW j \in JobRow, JobOK(j), j.status \in {"PROCESSING", "FAILED"},
           j.claims < MaxClaims, NEW n \in 0..MaxAttempts, n < MaxAttempts,
           NEW k, k = [Retire(j, "PENDING") EXCEPT !.attempts = n]
    PROVE  Settles(j, k) /\ k.status = "PENDING"
  <1>1. k = [[j EXCEPT !.status = "PENDING", !.token = 0] EXCEPT !.attempts = n]
    BY DEF Retire
  <1>2. "PENDING" \in JobStatus /\ 0 \in Tokens /\ ~j.ext
    BY Bounds DEF JobStatus, JobOK
  <1>3. /\ k \in JobRow /\ k.status = "PENDING" /\ k.attempts = n
        /\ k.id = j.id /\ k.conv = j.conv /\ k.claims = j.claims /\ k.ext = j.ext
    BY <1>1, <1>2 DEF JobRow
  <1>4. j.claims \in Nat /\ n \in Nat /\ k.claims <= MaxClaims + k.attempts
    <2>1. MaxClaims \in Nat /\ MaxAttempts \in Nat /\ Tokens = 0..(MaxClaims + MaxAttempts)
      BY Bounds
    <2>2. j.claims \in Nat
      BY <2>1 DEF JobRow
    <2> QED
      BY <1>3, <2>1, <2>2
  <1>5. JobOK(k)
    BY <1>2, <1>3, <1>4 DEF JobOK, Running
  <1> QED
    BY <1>2, <1>3, <1>5 DEF Settles

\* What jobs that settle keep: done stays done, a held job stays held, nothing is lost, and
\* a conversation's turns stay in order.
LEMMA JobsMoveKeeps ==
    ASSUME IInv, JobsMove
    PROVE  /\ \A m \in Messages : JobOK(jobs'[m])
           /\ \A m \in Messages : jobs'[m].id = jobs[m].id /\ jobs'[m].conv = jobs[m].conv
           /\ \A m \in Messages : jobs'[m].status = "NONE" <=> jobs[m].status = "NONE"
           /\ \A m \in Messages : jobs[m].status = "COMPLETED" => jobs'[m].status = "COMPLETED"
           /\ \A m \in Messages, t \in Tokens : Held(jobs[m], t) => Held(jobs'[m], t)
           /\ LegacyRests' /\ EarlierDone'
  <1>1. \A m \in Messages : JobOK(jobs[m])
    BY DEF IInv
  <1>2. \A m \in Messages : JobOK(jobs'[m])
    BY <1>1 DEF JobsMove, Settles
  <1>3. \A m \in Messages : jobs'[m].id = jobs[m].id /\ jobs'[m].conv = jobs[m].conv
    BY DEF JobsMove, Settles
  <1>4. \A m \in Messages : jobs'[m].status = "NONE" <=> jobs[m].status = "NONE"
    BY DEF JobsMove, Settles
  <1>5. \A m \in Messages : jobs[m].status = "COMPLETED" => jobs'[m].status = "COMPLETED"
    BY DEF JobsMove, Settles
  <1>6. ASSUME NEW m \in Messages, NEW t \in Tokens, Held(jobs[m], t)
        PROVE  Held(jobs'[m], t)
    BY <1>6 DEF JobsMove, Settles, Held
  <1>7. LegacyRests'
    <2> SUFFICES ASSUME NEW m \in Legacy PROVE jobs'[m].status \in {"NONE", "REVIEW", "COMPLETED"}
      BY DEF LegacyRests
    <2>1. m \in Messages /\ jobs[m].status \in {"NONE", "REVIEW", "COMPLETED"}
      BY InboxAssumption DEF IInv, LegacyRests
    <2> QED
      BY <2>1 DEF JobsMove, Settles
  <1>8. EarlierDone'
    <2> SUFFICES ASSUME NEW m \in Messages, NEW n \in Messages,
                        jobs'[m].status \in Running, jobs'[n].status # "NONE",
                        jobs'[n].conv = jobs'[m].conv, jobs'[n].id < jobs'[m].id
                 PROVE  jobs'[n].status = "COMPLETED"
      BY DEF EarlierDone, Exists
    <2>1. jobs[n].status # "NONE" /\ jobs[n].conv = jobs[m].conv /\ jobs[n].id < jobs[m].id
      BY <1>3, <1>4
    <2>2. CASE jobs[m].status \in Running
      BY <1>5, <2>1, <2>2 DEF IInv, EarlierDone, Exists
    <2>3. CASE IsHead(m)
      <3>1. jobs[n].id \in Nat /\ jobs[m].id \in Nat
        BY DEF IInv, ITypeOK
      <3>2. ~(jobs[m].id <= jobs[n].id)
        BY <2>1, <3>1
      <3> QED
        BY <1>5, <2>1, <2>3, <3>2 DEF IsHead, Unfinished
    <2> QED
      BY <2>2, <2>3 DEF JobsMove
  <1> QED
    BY <1>2, <1>3, <1>4, <1>5, <1>6, <1>7, <1>8

(***************************************************************************)
(* The invariant is kept by every step in which jobs move and no new job   *)
(* is stored                                                               *)
(***************************************************************************)

\* Events are refreshed or retried; PROCESSED is said of what is done.
EventsMove ==
    /\ events' \in [Events -> EventRow]
    /\ \A e \in Events :
         /\ EventOK(events'[e])
         /\ events'[e].status = "PROCESSED" =>
              \/ events[e].status = "PROCESSED"
              \/ \A m \in Payload[e] : jobs[m].status = "COMPLETED"

\* No conversation is opened, and one that is closed has all its jobs dropped.
ContextsMove ==
    /\ ctx' \in [Conversations -> Context]
    /\ \A c \in Conversations :
         /\ ctx'[c].stage = "ABSENT" <=> ctx[c].stage = "ABSENT"
         /\ ctx'[c].stage = "CLOSED" =>
              \/ ctx[c].stage = "CLOSED"
              \/ \A m \in Messages : Exists(m) /\ jobs[m].conv = c => jobs'[m].status = "COMPLETED"

\* The agenda is touched by who was about to, or by the only claim that holds the message.
ClaimsMove ==
    /\ claim' \in [Claimers -> Claim]
    /\ \A w \in Claimers : ClaimOK(claim'[w])
    /\ mutated' \in SUBSET (Messages \X Tokens)
    /\ \A m \in Messages, t \in Tokens : Touched(m, t)' =>
         \/ Touched(m, t)
         \/ /\ m \notin Legacy /\ Held(jobs'[m], t)
            /\ \A u \in Tokens : Touched(m, u)' => u = t

\* Turns are committed together with their job.
TurnsMove ==
    /\ applied' \in [Messages -> Nat]
    /\ \A m \in Messages :
         \/ applied'[m] = applied[m]
         \/ /\ m \notin Legacy /\ applied[m] = 0
            /\ applied'[m] = 1 /\ jobs'[m].status = "COMPLETED"

\* Such a step keeps the invariant.
LEMMA MovesKeep ==
    ASSUME IInv, JobsMove, EventsMove, ContextsMove, ClaimsMove, TurnsMove
    PROVE  IInv'
  <1>0. \A m \in Messages : /\ jobs[m].status = "COMPLETED" => jobs'[m].status = "COMPLETED"
                            /\ jobs'[m].id = jobs[m].id /\ jobs'[m].conv = jobs[m].conv
                            /\ jobs'[m].status = "NONE" <=> jobs[m].status = "NONE"
    BY JobsMoveKeeps
  <1>1. ITypeOK'
    BY DEF JobsMove, EventsMove, ContextsMove, ClaimsMove, TurnsMove, ITypeOK,
           EventRow, JobRow, Claim
  <1>2. /\ \A e \in Events : EventOK(events'[e])
        /\ \A m \in Messages : JobOK(jobs'[m])
        /\ \A w \in Claimers : ClaimOK(claim'[w])
    BY JobsMoveKeeps DEF EventsMove, ClaimsMove
  <1>3. LegacyRests' /\ EarlierDone'
    BY JobsMoveKeeps
  <1>4. Fenced'
    <2> SUFFICES ASSUME NEW m \in Messages, NEW t \in Tokens, Touched(m, t)'
                 PROVE  /\ m \notin Legacy /\ Held(jobs'[m], t)
                        /\ \A u \in Tokens : Touched(m, u)' => u = t
      BY DEF Fenced
    <2>1. CASE Touched(m, t)
      <3>1. /\ m \notin Legacy /\ Held(jobs[m], t)
            /\ \A u \in Tokens : Touched(m, u) => u = t
        BY <2>1 DEF IInv, Fenced
      <3>2. Held(jobs'[m], t)
        BY <3>1, JobsMoveKeeps
      <3>3. ASSUME NEW u \in Tokens, Touched(m, u)' PROVE u = t
        BY <3>1, <3>3 DEF ClaimsMove
      <3> QED
        BY <3>1, <3>2, <3>3
    <2>2. CASE ~Touched(m, t)
      BY <2>2 DEF ClaimsMove
    <2> QED
      BY <2>1, <2>2
  <1>5. Numbered'
    <2>1. Stored' = Stored
      BY <1>0 DEF Stored, Exists
    <2>2. OpenOnes' = OpenOnes
      BY DEF OpenOnes, ContextsMove
    <2>3. Numbered
      BY DEF IInv
    <2>4. \A m \in Stored : jobs'[m].id = jobs[m].id
      BY <1>0 DEF Stored
    <2> QED
      BY <2>1, <2>2, <2>3, <2>4 DEF Numbered
  <1>6. OneTurnPerMessage'
    <2> SUFFICES ASSUME NEW m \in Messages
                 PROVE  applied'[m] <= 1 /\ (applied'[m] = 1 => jobs'[m].status = "COMPLETED")
      BY DEF OneTurnPerMessage
    <2>1. applied[m] <= 1 /\ (applied[m] = 1 => jobs[m].status = "COMPLETED")
      BY DEF IInv, OneTurnPerMessage
    <2> QED
      BY <1>0, <2>1 DEF TurnsMove
  <1>7. LegacyNeverReplayed'
    <2> SUFFICES ASSUME NEW m \in Legacy
                 PROVE  applied'[m] = 0 /\ ~\E t \in Tokens : <<m, t>> \in mutated'
      BY DEF LegacyNeverReplayed
    <2>1. m \in Messages /\ applied[m] = 0
      BY InboxAssumption DEF IInv, LegacyNeverReplayed
    <2>2. \A t \in Tokens : <<m, t>> \in mutated' => m \notin Legacy
      BY <1>4, <2>1 DEF Fenced, Touched
    <2> QED
      BY <2>1, <2>2 DEF TurnsMove
  <1>8. ProcessedMeansDone'
    <2> SUFFICES ASSUME NEW e \in Events, events'[e].status = "PROCESSED", NEW m \in Payload[e]
                 PROVE  jobs'[m].status = "COMPLETED"
      BY DEF ProcessedMeansDone
    <2>1. m \in Messages
      BY InboxAssumption
    <2>2. jobs[m].status = "COMPLETED"
      BY DEF IInv, ProcessedMeansDone, EventsMove
    <2> QED
      BY <1>0, <2>1, <2>2
  <1>9. ResetLeavesNothingRunning'
    <2> SUFFICES ASSUME NEW m \in Messages, jobs'[m].status # "NONE",
                        ctx'[jobs'[m].conv].stage = "CLOSED"
                 PROVE  jobs'[m].status = IF m \in Legacy /\ jobs'[m].status # "COMPLETED"
                                          THEN "REVIEW" ELSE "COMPLETED"
      BY DEF ResetLeavesNothingRunning, Exists
    <2>1. jobs[m].status # "NONE" /\ ctx'[jobs[m].conv].stage = "CLOSED"
          /\ jobs[m].conv \in Conversations
      BY <1>0 DEF IInv, ITypeOK
    <2>2. CASE jobs'[m].status = "COMPLETED"
      BY <2>2
    <2>3. CASE jobs'[m].status # "COMPLETED"
      <3>1. ctx[jobs[m].conv].stage = "CLOSED"
        BY <2>1, <2>3 DEF ContextsMove, Exists
      <3>2. m \in Legacy
        BY <1>0, <2>1, <2>3, <3>1 DEF IInv, ResetLeavesNothingRunning, Exists
      <3> QED
        BY <1>3, <2>3, <3>2 DEF LegacyRests
    <2> QED
      BY <2>2, <2>3
  <1>10. Placed'
    <2>1. \A m \in Stored' : m \in Stored /\ jobs'[m].conv = jobs[m].conv
                             /\ jobs[m].conv \in Conversations
      BY <1>0 DEF Stored, Exists, IInv, ITypeOK
    <2> QED
      BY <2>1, Bounds DEF IInv, Placed, ContextsMove
  <1> QED
    BY <1>1, <1>2, <1>3, <1>4, <1>5, <1>6, <1>7, <1>8, <1>9, <1>10 DEF IInv

\* What a step leaves alone moves in no way.
LEMMA Still ==
    ASSUME IInv
    PROVE  /\ UNCHANGED jobs => JobsMove
           /\ UNCHANGED events => EventsMove
           /\ UNCHANGED ctx => ContextsMove
           /\ UNCHANGED <<claim, mutated>> => ClaimsMove
           /\ UNCHANGED applied => TurnsMove
  <1>1. UNCHANGED jobs => JobsMove
    BY DEF IInv, ITypeOK, JobRow, JobsMove
  <1>2. UNCHANGED events => EventsMove
    BY DEF IInv, ITypeOK, EventRow, EventsMove
  <1>3. UNCHANGED ctx => ContextsMove
    BY DEF IInv, ITypeOK, ContextsMove
  <1>4. UNCHANGED <<claim, mutated>> => ClaimsMove
    BY DEF IInv, ITypeOK, Claim, ClaimsMove, Touched
  <1>5. UNCHANGED applied => TurnsMove
    BY DEF IInv, ITypeOK, TurnsMove
  <1> QED
    BY <1>1, <1>2, <1>3, <1>4, <1>5

\* One job settles.
LEMMA OneJob ==
    ASSUME IInv, NEW m \in Messages, NEW k, Settles(jobs[m], k),
           k.status \in Running => jobs[m].status \in Running \/ IsHead(m),
           jobs' = [jobs EXCEPT ![m] = k]
    PROVE  JobsMove /\ jobs'[m] = k
  <1>1. jobs \in [Messages -> JobRow] /\ k \in JobRow
    BY DEF IInv, ITypeOK, JobRow, Settles
  <1>2. jobs' \in [Messages -> JobRow] /\ jobs'[m] = k
        /\ \A n \in Messages \ {m} : jobs'[n] = jobs[n]
    BY <1>1
  <1> QED
    BY <1>2 DEF JobsMove

\* One claim moves, and does not start a call that changes the agenda.
LEMMA OneClaim ==
    ASSUME IInv, NEW w \in Claimers, NEW k \in Claim, ClaimOK(k),
           ~(k.pc = "call" /\ k.mutating),
           claim' = [claim EXCEPT ![w] = k], UNCHANGED mutated
    PROVE  ClaimsMove
  <1>1. claim \in [Claimers -> Claim] /\ \A v \in Claimers : ClaimOK(claim[v])
        /\ mutated \in SUBSET (Messages \X Tokens)
    BY DEF IInv, ITypeOK, Claim
  <1>2. claim' \in [Claimers -> Claim] /\ claim'[w] = k
        /\ \A v \in Claimers \ {w} : claim'[v] = claim[v]
    BY <1>1
  <1>3. ASSUME NEW m \in Messages, NEW t \in Tokens, Touched(m, t)' PROVE Touched(m, t)
    BY <1>2, <1>3 DEF Touched, Calling
  <1> QED
    BY <1>1, <1>2, <1>3 DEF ClaimsMove

\* A claim is over.
LEMMA ReleaseMoves ==
    ASSUME IInv, NEW w \in Claimers, Release(w), UNCHANGED mutated
    PROVE  ClaimsMove
  <1>1. ~(IdleClaim.pc = "call")
    BY FirstValues
  <1> QED
    BY <1>1, FirstValues, OneClaim DEF Release

\* A claim goes on to another step than the call.
LEMMA GotoMoves ==
    ASSUME IInv, NEW w \in Claimers, NEW pc \in Steps \ {"idle", "call"}, Goto(w, pc),
           claim[w].pc # "idle", pc # "fail" => claim[w].pc \in
               {"classify", "apply", "prepare", "call", "record"}, UNCHANGED mutated
    PROVE  ClaimsMove
  <1>1. claim[w] \in Claim /\ ClaimOK(claim[w])
    BY DEF IInv, ITypeOK, Claim
  <1>2. PICK k : k = [claim[w] EXCEPT !.pc = pc]
    OBVIOUS
  <1>3. k \in Claim /\ k.pc = pc /\ k.msg = claim[w].msg /\ k.calls = claim[w].calls
    BY <1>1, <1>2 DEF Claim
  <1>4. ClaimOK(k)
    BY <1>1, <1>3 DEF ClaimOK
  <1>5. claim' = [claim EXCEPT ![w] = k]
    BY <1>2 DEF Goto
  <1> QED
    BY <1>3, <1>4, <1>5, OneClaim

\* The turn is run again with the answer of a call, while replays are left.
LEMMA NextApplyWrites ==
    ASSUME IInv, NEW w \in Claimers, NextApply(w), claim[w].pc \in {"call", "record"}
    PROVE  \E k \in Claim : claim' = [claim EXCEPT ![w] = k] /\ ClaimOK(k) /\ k.pc # "call"
  <1>1. claim[w] \in Claim /\ ClaimOK(claim[w])
    BY DEF IInv, ITypeOK, Claim
  <1>2. PICK pc \in {"fail", "apply"} :
          /\ pc = "apply" => claim[w].calls + 1 # MaxCalls
          /\ claim' = [claim EXCEPT ![w].calls = claim[w].calls + 1, ![w].pc = pc]
    <2>1. CASE claim[w].calls + 1 = MaxCalls
      BY <2>1 DEF NextApply
    <2>2. CASE claim[w].calls + 1 # MaxCalls
      BY <2>2 DEF NextApply
    <2> QED
      BY <2>1, <2>2
  <1>3. PICK k : k = [claim[w] EXCEPT !.calls = claim[w].calls + 1, !.pc = pc]
    OBVIOUS
  <1>4. claim[w].calls \in Nat /\ claim[w].calls < MaxCalls
    BY <1>1, Bounds DEF Claim, ClaimOK
  <1>5. claim[w].calls + 1 \in 0..MaxCalls /\ pc \in Steps
    BY <1>4, Bounds DEF Steps
  <1>6. k \in Claim /\ k.pc = pc /\ k.msg = claim[w].msg /\ k.calls = claim[w].calls + 1
    BY <1>1, <1>3, <1>5 DEF Claim
  <1>7. ClaimOK(k)
    <2>1. pc = "apply" => claim[w].calls + 1 < MaxCalls
      BY <1>2, <1>4, Bounds
    <2> QED
      BY <1>1, <1>2, <1>6, <2>1 DEF ClaimOK
  <1>8. claim' = [claim EXCEPT ![w] = k]
    BY <1>2, <1>3
  <1> QED
    BY <1>6, <1>7, <1>8

(***************************************************************************)
(* Every action but ExpandEvent                                            *)
(***************************************************************************)

\* The events that are stored, fail to expand, are adopted or refreshed.
LEMMA EventSteps ==
    ASSUME IInv, NEW e \in Events,
           \/ StoreWebhookEvent(e) \/ ExpandEventFails(e) \/ ExpandOldEvent(e)
           \/ AdoptOldEvent(e) \/ RefreshEvent(e)
    PROVE  IInv'
  <1>0. events \in [Events -> EventRow] /\ events[e] \in EventRow /\ EventOK(events[e])
        /\ \A f \in Events : EventOK(events[f])
    BY DEF IInv, ITypeOK, EventRow
  <1>1. UNCHANGED <<jobs, ctx, claim, applied, mutated>>
    BY DEF StoreWebhookEvent, ExpandEventFails, ExpandOldEvent, AdoptOldEvent, RefreshEvent
  <1>2. ASSUME NEW ev \in EventRow, EventOK(ev), events' = [events EXCEPT ![e] = ev],
               ev.status = "PROCESSED" => \A m \in Payload[e] : jobs[m].status = "COMPLETED"
        PROVE  EventsMove
    <2>1. events' \in [Events -> EventRow] /\ events'[e] = ev
          /\ \A f \in Events \ {e} : events'[f] = events[f]
      BY <1>0, <1>2
    <2> QED
      BY <1>0, <1>2, <2>1 DEF EventsMove
  <1>3. CASE StoreWebhookEvent(e)
    <2>1. PICK ev : ev = [events[e] EXCEPT !.status = "RECEIVED"]
      OBVIOUS
    <2>2. ev \in EventRow /\ ev.status = "RECEIVED" /\ ev.attempts = events[e].attempts
      BY <1>0, <2>1 DEF EventRow, EventStatus
    <2>3. events' = [events EXCEPT ![e] = ev]
      BY <1>3, <2>1 DEF StoreWebhookEvent
    <2>4. EventOK(ev)
      BY <1>0, <1>3, <2>2 DEF EventOK, StoreWebhookEvent
    <2> QED
      BY <1>1, <1>2, <2>2, <2>3, <2>4, Still, MovesKeep
  <1>4. CASE ExpandEventFails(e)
    <2>1. events[e].attempts \in Nat /\ events[e].attempts < MaxAttempts
      BY <1>0, <1>4, Bounds DEF ExpandEventFails, Expandable, EventOK, EventRow
    <2>2. PICK s \in {"EXHAUSTED", "FAILED"} :
            /\ s = "FAILED" => events[e].attempts + 1 < MaxAttempts
            /\ events' = [events EXCEPT ![e].attempts = events[e].attempts + 1, ![e].status = s]
      <3>1. CASE events[e].attempts + 1 >= MaxAttempts
        BY <1>4, <3>1 DEF ExpandEventFails
      <3>2. CASE ~(events[e].attempts + 1 >= MaxAttempts)
        <4>1. events[e].attempts + 1 < MaxAttempts
          BY <2>1, <3>2, Bounds
        <4> QED
          BY <1>4, <3>2, <4>1 DEF ExpandEventFails
      <3> QED
        BY <3>1, <3>2
    <2>3. PICK ev : ev = [events[e] EXCEPT !.attempts = events[e].attempts + 1, !.status = s]
      OBVIOUS
    <2>4. events[e].attempts + 1 \in 0..MaxAttempts /\ s \in EventStatus
      BY <2>1, Bounds DEF EventStatus
    <2>5. ev \in EventRow /\ ev.status = s /\ ev.attempts = events[e].attempts + 1
      BY <1>0, <2>3, <2>4 DEF EventRow
    <2>6. events' = [events EXCEPT ![e] = ev]
      BY <2>2, <2>3
    <2>7. EventOK(ev)
      BY <2>2, <2>5 DEF EventOK
    <2> QED
      BY <1>1, <1>2, <2>5, <2>6, <2>7, Still, MovesKeep
  <1>5. CASE ExpandOldEvent(e)
    <2>1. PICK ev : ev = [events[e] EXCEPT !.status = "REVIEW"]
      OBVIOUS
    <2>2. ev \in EventRow /\ ev.status = "REVIEW"
      BY <1>0, <2>1 DEF EventRow, EventStatus
    <2>3. events' = [events EXCEPT ![e] = ev] /\ EventOK(ev)
      BY <1>5, <2>1, <2>2 DEF ExpandOldEvent, EventOK
    <2> QED
      BY <1>1, <1>2, <2>2, <2>3, Still, MovesKeep
  <1>6. CASE AdoptOldEvent(e)
    <2>1. PICK ev : ev = [events[e] EXCEPT !.v2 = TRUE, !.status = "RECEIVED"]
      OBVIOUS
    <2>2. ev \in EventRow /\ ev.status = "RECEIVED" /\ ev.attempts = events[e].attempts
      BY <1>0, <2>1 DEF EventRow, EventStatus
    <2>3. events' = [events EXCEPT ![e] = ev]
      BY <1>6, <2>1 DEF AdoptOldEvent
    <2>4. EventOK(ev)
      BY <1>0, <1>6, <2>2 DEF EventOK, AdoptOldEvent, Expandable
    <2> QED
      BY <1>1, <1>2, <2>2, <2>3, <2>4, Still, MovesKeep
  <1>7. CASE RefreshEvent(e)
    <2>1. PICK s : s = Outcome(e)
      OBVIOUS
    <2>2. s \in {"REVIEW", "PROCESSED", "EXHAUSTED"}
          /\ (s = "PROCESSED" => \A m \in Payload[e] : jobs[m].status = "COMPLETED")
      BY <1>7, <2>1 DEF RefreshEvent, Outcome
    <2>3. PICK ev : ev = [events[e] EXCEPT !.status = s]
      OBVIOUS
    <2>4. ev \in EventRow /\ ev.status = s
      BY <1>0, <2>2, <2>3 DEF EventRow, EventStatus
    <2>5. events' = [events EXCEPT ![e] = ev]
      BY <1>7, <2>1, <2>3 DEF RefreshEvent
    <2>6. EventOK(ev)
      BY <2>2, <2>4 DEF EventOK
    <2> QED
      BY <1>1, <1>2, <2>2, <2>4, <2>5, <2>6, Still, MovesKeep
  <1> QED
    BY <1>3, <1>4, <1>5, <1>6, <1>7

\* The head of a conversation is claimed with a token of its own.
LEMMA ClaimJobKeeps ==
    ASSUME IInv, NEW w \in Claimers, NEW m \in Messages, ClaimJob(w, m)
    PROVE  IInv'
  <1>0. jobs[m] \in JobRow /\ JobOK(jobs[m]) /\ jobs[m].status = "PENDING" /\ IsHead(m)
        /\ ctx[jobs[m].conv] \in Context /\ UNCHANGED <<events, ctx, applied, mutated>>
    <2>1. jobs[m] \in JobRow /\ JobOK(jobs[m]) /\ ctx \in [Conversations -> Context]
      BY DEF IInv, ITypeOK, JobRow
    <2>2. jobs[m].conv \in Conversations
      BY <2>1 DEF JobRow
    <2> QED
      BY <2>1, <2>2 DEF ClaimJob
  <1>1. m \notin Legacy
    BY <1>0 DEF IInv, LegacyRests
  <1>2. PICK t : t = jobs[m].claims + 1
    OBVIOUS
  <1>3. jobs[m].attempts \in Nat /\ jobs[m].attempts < MaxAttempts /\ jobs[m].claims \in Nat
        /\ jobs[m].claims <= MaxClaims + jobs[m].attempts /\ ~jobs[m].ext
    BY <1>0, Bounds DEF JobOK, JobRow
  <1>4. t \in Tokens /\ t <= MaxClaims + jobs[m].attempts + 1
    <2>1. Tokens = 0..(MaxClaims + MaxAttempts) /\ MaxClaims \in Nat /\ MaxAttempts \in Nat
      BY Bounds
    <2>2. t \in Nat /\ t <= MaxClaims + jobs[m].attempts + 1
      BY <1>2, <1>3, <2>1
    <2> QED
      BY <1>3, <2>1, <2>2
  <1>5. PICK k : k = [jobs[m] EXCEPT !.status = "PROCESSING", !.claims = t, !.token = t]
    OBVIOUS
  <1>6. /\ k \in JobRow /\ k.status = "PROCESSING" /\ k.claims = t
        /\ k.attempts = jobs[m].attempts /\ k.ext = jobs[m].ext
        /\ k.id = jobs[m].id /\ k.conv = jobs[m].conv
    BY <1>0, <1>4, <1>5 DEF JobRow, JobStatus
  <1>7. JobOK(k)
    BY <1>3, <1>4, <1>6 DEF JobOK, Running
  <1>8. Settles(jobs[m], k)
    BY <1>0, <1>6, <1>7 DEF Settles
  <1>9. jobs' = [jobs EXCEPT ![m] = k]
    BY <1>2, <1>5 DEF ClaimJob
  <1>10. JobsMove
    BY <1>0, <1>8, <1>9, OneJob
  <1>11. PICK cl : cl = [pc |-> "classify", msg |-> m, token |-> t,
                         seen |-> ctx[jobs[m].conv], calls |-> 0, mutating |-> FALSE]
    OBVIOUS
  <1>12. cl \in Claim /\ ClaimOK(cl) /\ cl.pc = "classify"
    BY <1>0, <1>1, <1>4, <1>11, Bounds DEF Claim, ClaimOK, Steps
  <1>13. claim' = [claim EXCEPT ![w] = cl]
    BY <1>2, <1>11 DEF ClaimJob
  <1>14. ClaimsMove
    <2>1. ~(cl.pc = "call" /\ cl.mutating)
      BY <1>12
    <2> QED
      BY <1>0, <1>12, <1>13, <2>1, OneClaim
  <1> QED
    BY <1>0, <1>10, <1>14, Still, MovesKeep

\* What owned finds: the job runs under this claim's token, and is not a legacy one.
LEMMA OwnedFacts ==
    ASSUME IInv, NEW w \in Claimers, Owned(w), claim[w].pc # "idle"
    PROVE  /\ claim[w].msg \in Messages \ Legacy
           /\ Job(w) = jobs[claim[w].msg]
           /\ Job(w) \in JobRow /\ JobOK(Job(w)) /\ Job(w).status \in Running
           /\ Job(w).token = claim[w].token /\ claim[w].token \in Tokens
           /\ Job(w).status = "PROCESSING" <=> ~Job(w).ext
  <1>1. claim[w] \in Claim /\ ClaimOK(claim[w])
    BY DEF IInv, ITypeOK, Claim
  <1>2. claim[w].msg \in Messages \ Legacy /\ claim[w].token \in Tokens
    BY <1>1 DEF ClaimOK, Claim
  <1>3. jobs[claim[w].msg] \in JobRow /\ JobOK(jobs[claim[w].msg])
    BY <1>2 DEF IInv, ITypeOK, JobRow
  <1>4. Job(w) = jobs[claim[w].msg]
    BY DEF Job
  <1>5. Job(w).status \in Running /\ Job(w).token = claim[w].token
    BY DEF Owned, Running
  <1> QED
    BY <1>2, <1>3, <1>4, <1>5 DEF JobOK, Running

\* A claim that failed or found the context changed settles its job and is over.
LEMMA FailAndRelease ==
    ASSUME IInv, NEW w \in Claimers, Owned(w), claim[w].pc # "idle",
           WriteJob(w, FailLocked(Job(w))), Release(w),
           UNCHANGED <<events, ctx, applied, mutated>>
    PROVE  IInv'
  <1>1. PICK m \in Messages : m = claim[w].msg /\ Job(w) = jobs[m]
    BY OwnedFacts
  <1>2. PICK k : k = FailLocked(jobs[m])
    OBVIOUS
  <1>3. Settles(jobs[m], k) /\ k.status \notin Running
    BY <1>1, <1>2, OwnedFacts, FailLockedSettles
  <1>4. jobs' = [jobs EXCEPT ![m] = k]
    BY <1>1, <1>2 DEF WriteJob
  <1>5. JobsMove
    BY <1>3, <1>4, OneJob
  <1> QED
    BY <1>5, ReleaseMoves, Still, MovesKeep

\* A claim retires its job, done or left to a person, and is over.
LEMMA RetireAndRelease ==
    ASSUME IInv, NEW w \in Claimers, Owned(w), claim[w].pc # "idle",
           NEW s \in {"COMPLETED", "REVIEW"}, WriteJob(w, Retire(Job(w), s)), Release(w),
           UNCHANGED mutated
    PROVE  JobsMove /\ ClaimsMove /\ jobs'[claim[w].msg].status = s
  <1>1. PICK m \in Messages : m = claim[w].msg /\ Job(w) = jobs[m]
    BY OwnedFacts
  <1>2. PICK k : k = Retire(jobs[m], s)
    OBVIOUS
  <1>3. jobs[m] \in JobRow /\ JobOK(jobs[m]) /\ jobs[m].status \in Running
    BY <1>1, OwnedFacts
  <1>4. Settles(jobs[m], k) /\ k.status = s
    BY <1>2, <1>3, RetireSettles DEF Running
  <1>5. jobs' = [jobs EXCEPT ![m] = k]
    BY <1>1, <1>2 DEF WriteJob
  <1>6. JobsMove /\ jobs'[m] = k
    BY <1>3, <1>4, <1>5, OneJob
  <1> QED
    BY <1>1, <1>4, <1>6, ReleaseMoves

\* What an answering turn leaves behind is a conversation, open or said goodbye to.
LEMMA TurnOutcomeOK ==
    ASSUME NEW cv \in Context, NEW next \in TurnOutcome(cv)
    PROVE  next \in Context /\ next.stage \in {"BOT", "PAUSED", "RESOLVED"}
  <1>1. PICK s \in {"BOT", "PAUSED", "RESOLVED"}, d \in Data : next = TurnLeaves(cv, s, d)
    BY DEF TurnOutcome
  <1>2. PICK n : n = IF s = "PAUSED" THEN cv.epoch + 1 ELSE cv.epoch
    OBVIOUS
  <1>3. n \in Nat
    BY <1>2 DEF Context
  <1>4. next = [cv EXCEPT !.stage = s, !.data = d, !.epoch = n]
    BY <1>1, <1>2 DEF TurnLeaves
  <1> QED
    BY <1>3, <1>4 DEF Context, Stage

\* A turn is committed: its message had none, and its job is done with it.
LEMMA ApplyTurnKeeps ==
    ASSUME IInv, NEW w \in Claimers, ApplyTurn(w)
    PROVE  IInv'
  <1>0. /\ claim[w].pc = "apply" /\ Owned(w)
        /\ WriteJob(w, Retire(Job(w), "COMPLETED")) /\ Release(w)
        /\ UNCHANGED <<events, mutated>>
    BY DEF ApplyTurn, Applicable
  <1>1. PICK m \in Messages \ Legacy : m = claim[w].msg /\ Job(w) = jobs[m]
    BY <1>0, OwnedFacts
  <1>2. jobs[m] \in JobRow /\ jobs[m].status \in Running
    BY <1>0, <1>1, OwnedFacts
  <1>3. JobsMove /\ ClaimsMove /\ jobs'[m].status = "COMPLETED"
    BY <1>0, <1>1, RetireAndRelease
  <1>4. TurnsMove
    <2>1. applied \in [Messages -> Nat] /\ applied[m] <= 1
          /\ (applied[m] = 1 => jobs[m].status = "COMPLETED")
      BY DEF IInv, ITypeOK, OneTurnPerMessage
    <2>2. applied[m] = 0
      BY <1>2, <2>1 DEF Running
    <2>3. applied' = [applied EXCEPT ![m] = applied[m] + 1]
      BY <1>1 DEF ApplyTurn
    <2>4. applied' = [applied EXCEPT ![m] = 1]
      BY <2>2, <2>3
    <2> QED
      BY <1>3, <2>1, <2>2, <2>4 DEF TurnsMove
  <1>5. ContextsMove
    <2>1. PICK c : c = jobs[m].conv
      OBVIOUS
    <2>2. c \in Conversations /\ ctx \in [Conversations -> Context]
      BY <1>2, <2>1 DEF IInv, ITypeOK, JobRow
    <2>3. CASE UNCHANGED ctx
      BY <2>3, Still
    <2>4. CASE ~Silent(c) /\ \E next \in TurnOutcome(ctx[c]) : ctx' = [ctx EXCEPT ![c] = next]
      <3>1. PICK next \in TurnOutcome(ctx[c]) : ctx' = [ctx EXCEPT ![c] = next]
        BY <2>4
      <3>4. next \in Context /\ next.stage \in {"BOT", "PAUSED", "RESOLVED"}
        BY <2>2, <3>1, TurnOutcomeOK
      <3>5. ctx[c].stage # "ABSENT"
        BY <1>2, <2>1 DEF IInv, Placed, Stored, Exists, Running
      <3> QED
        BY <2>2, <3>1, <3>4, <3>5 DEF ContextsMove
    <2> QED
      BY <1>1, <2>1, <2>3, <2>4 DEF ApplyTurn
  <1> QED
    BY <1>0, <1>3, <1>4, <1>5, Still, MovesKeep

\* A claim that marks its job EXTERNAL is the only one to touch the agenda for it: a job
\* another claim touched is not PROCESSING, and an EXTERNAL one has this claim's token.
LEMMA PrepareExternalKeeps ==
    ASSUME IInv, NEW w \in Claimers, PrepareExternal(w)
    PROVE  IInv'
  <1>0. claim[w].pc = "prepare" /\ Owned(w) /\ UNCHANGED <<events, ctx, applied, mutated>>
    BY DEF PrepareExternal
  <1>1. CASE ContextChanged(w)
    BY <1>0, <1>1, FailAndRelease DEF PrepareExternal
  <1>2. CASE ~ContextChanged(w) /\ ~claim[w].mutating
    <2>1. UNCHANGED jobs /\ Goto(w, "call")
      BY <1>2 DEF PrepareExternal
    <2>2. claim[w] \in Claim /\ ClaimOK(claim[w])
      BY DEF IInv, ITypeOK, Claim
    <2>3. PICK k : k = [claim[w] EXCEPT !.pc = "call"]
      OBVIOUS
    <2>4. k \in Claim /\ k.pc = "call" /\ k.msg = claim[w].msg /\ k.calls = claim[w].calls
          /\ k.mutating = claim[w].mutating
      BY <2>2, <2>3 DEF Claim, Steps
    <2>5. ClaimOK(k)
      BY <1>0, <2>2, <2>4 DEF ClaimOK
    <2>6. claim' = [claim EXCEPT ![w] = k]
      BY <2>1, <2>3 DEF Goto
    <2>7. ClaimsMove
      BY <1>0, <1>2, <2>4, <2>5, <2>6, OneClaim
    <2> QED
      BY <1>0, <2>1, <2>7, Still, MovesKeep
  <1>3. CASE ~ContextChanged(w) /\ claim[w].mutating
    <2>1. PICK m \in Messages \ Legacy : m = claim[w].msg /\ Job(w) = jobs[m]
      BY <1>0, OwnedFacts
    <2>2. PICK t \in Tokens : t = claim[w].token
      BY <1>0, OwnedFacts
    <2>3. jobs[m] \in JobRow /\ JobOK(jobs[m]) /\ jobs[m].status \in Running /\ jobs[m].token = t
      BY <1>0, <2>1, <2>2, OwnedFacts
    <2>4. PICK j : j = [jobs[m] EXCEPT !.status = "EXTERNAL", !.ext = TRUE]
      OBVIOUS
    <2>5. /\ j \in JobRow /\ j.status = "EXTERNAL" /\ j.ext /\ j.token = t
          /\ j.id = jobs[m].id /\ j.conv = jobs[m].conv
          /\ j.attempts = jobs[m].attempts /\ j.claims = jobs[m].claims
      BY <2>3, <2>4 DEF JobRow, JobStatus
    <2>6. JobOK(j)
      BY <2>3, <2>5 DEF JobOK, Running
    <2>7. Settles(jobs[m], j)
      BY <2>3, <2>5, <2>6 DEF Settles, Running
    <2>8. jobs' = [jobs EXCEPT ![m] = j] /\ Goto(w, "call")
      BY <1>3, <2>1, <2>4 DEF PrepareExternal, WriteJob
    <2>9. JobsMove /\ jobs'[m] = j
      BY <2>3, <2>7, <2>8, OneJob
    <2>10. claim \in [Claimers -> Claim] /\ \A v \in Claimers : ClaimOK(claim[v])
           /\ mutated \in SUBSET (Messages \X Tokens)
      BY DEF IInv, ITypeOK, Claim
    <2>11. PICK k : k = [claim[w] EXCEPT !.pc = "call"]
      OBVIOUS
    <2>12. k \in Claim /\ k.pc = "call" /\ k.msg = m /\ k.token = t /\ k.calls = claim[w].calls
      BY <2>1, <2>2, <2>10, <2>11 DEF Claim, Steps
    <2>13. ClaimOK(k)
      BY <1>0, <2>10, <2>12 DEF ClaimOK
    <2>14. /\ claim' \in [Claimers -> Claim] /\ claim'[w] = k
           /\ \A v \in Claimers \ {w} : claim'[v] = claim[v]
      BY <2>8, <2>10, <2>11, <2>12 DEF Goto
    <2>15. \A u \in Tokens : Touched(m, u) => u = t
      BY <2>3 DEF IInv, Fenced, Held, Running
    <2>16. ASSUME NEW n \in Messages, NEW u \in Tokens, Touched(n, u)'
           PROVE  Touched(n, u) \/ (n = m /\ u = t)
      BY <1>0, <2>12, <2>14, <2>16 DEF Touched, Calling
    <2>17. Held(jobs'[m], t)
      BY <2>5, <2>9 DEF Held
    <2>18. ASSUME NEW n \in Messages, NEW u \in Tokens, Touched(n, u)', ~Touched(n, u)
           PROVE  /\ n \notin Legacy /\ Held(jobs'[n], u)
                  /\ \A v \in Tokens : Touched(n, v)' => v = u
      <3>1. n = m /\ u = t
        BY <2>16, <2>18
      <3>2. ASSUME NEW v \in Tokens, Touched(m, v)' PROVE v = t
        BY <2>15, <2>16, <3>2
      <3> QED
        BY <2>17, <3>1, <3>2
    <2>19. \A v \in Claimers : ClaimOK(claim'[v])
      BY <2>10, <2>13, <2>14
    <2>20. ClaimsMove
      BY <1>0, <2>10, <2>14, <2>18, <2>19 DEF ClaimsMove
    <2> QED
      BY <1>0, <2>9, <2>20, Still, MovesKeep
  <1> QED
    BY <1>1, <1>2, <1>3

\* The service answers or raises; what it changed was about to be changed.
LEMMA CallKeeps ==
    ASSUME IInv, NEW w \in Claimers, Call(w)
    PROVE  IInv'
  <1>0. claim[w].pc = "call" /\ UNCHANGED <<events, jobs, ctx, applied>>
    BY DEF Call
  <1>1. claim \in [Claimers -> Claim] /\ (\A v \in Claimers : ClaimOK(claim[v]))
        /\ mutated \in SUBSET (Messages \X Tokens)
        /\ claim[w].msg \in Messages /\ claim[w].token \in Tokens
    BY <1>0 DEF IInv, ITypeOK, Claim, ClaimOK
  <1>2. PICK k \in Claim :
          /\ claim' = [claim EXCEPT ![w] = k] /\ ClaimOK(k) /\ k.pc # "call"
    <2>1. ASSUME NEW pc \in {"fail", "record"}, Goto(w, pc)
          PROVE  \E k \in Claim : claim' = [claim EXCEPT ![w] = k] /\ ClaimOK(k) /\ k.pc # "call"
      <3>1. PICK k : k = [claim[w] EXCEPT !.pc = pc]
        OBVIOUS
      <3>2. k \in Claim /\ k.pc = pc /\ k.msg = claim[w].msg /\ k.calls = claim[w].calls
        BY <1>1, <3>1 DEF Claim, Steps
      <3>3. ClaimOK(k)
        BY <1>0, <1>1, <3>2 DEF ClaimOK
      <3>4. claim' = [claim EXCEPT ![w] = k]
        BY <2>1, <3>1 DEF Goto
      <3> QED
        BY <3>2, <3>3, <3>4
    <2>2. ASSUME NextApply(w)
          PROVE  \E k \in Claim : claim' = [claim EXCEPT ![w] = k] /\ ClaimOK(k) /\ k.pc # "call"
      BY <1>0, <2>2, NextApplyWrites
    <2> QED
      BY <2>1, <2>2 DEF Call
  <1>3. /\ claim' \in [Claimers -> Claim] /\ claim'[w] = k
        /\ \A v \in Claimers \ {w} : claim'[v] = claim[v]
    BY <1>1, <1>2
  <1>4. \/ UNCHANGED mutated
        \/ claim[w].mutating /\ mutated' = mutated \cup {<<claim[w].msg, claim[w].token>>}
    BY DEF Call
  <1>5. mutated' \in SUBSET (Messages \X Tokens)
    BY <1>1, <1>4
  <1>6. ASSUME NEW m \in Messages, NEW t \in Tokens, Touched(m, t)' PROVE Touched(m, t)
    <2>1. CASE \E v \in Claimers : Calling(claim'[v], m, t)
      BY <1>2, <1>3, <2>1 DEF Touched, Calling
    <2>2. CASE <<m, t>> \in mutated'
      BY <1>0, <1>4, <2>2 DEF Touched, Calling
    <2> QED
      BY <1>6, <2>1, <2>2 DEF Touched
  <1>7. ClaimsMove
    BY <1>1, <1>2, <1>3, <1>5, <1>6 DEF ClaimsMove
  <1> QED
    BY <1>0, <1>7, Still, MovesKeep

\* The steps of a claim.
LEMMA ProcessKeeps ==
    ASSUME IInv, NEW w \in Claimers, Process(w)
    PROVE  IInv'
  <1>1. CASE Classify(w)
    BY <1>1, GotoMoves, Still, MovesKeep DEF Classify, Steps
  <1>2. CASE Raise(w)
    BY <1>2, GotoMoves, Still, MovesKeep DEF Raise, Steps
  <1>3. CASE Discard(w)
    BY <1>3, ReleaseMoves, Still, MovesKeep DEF Discard
  <1>4. CASE ApplyStale(w)
    <2>0. claim[w].pc = "apply" /\ Owned(w) /\ Release(w)
          /\ UNCHANGED <<events, ctx, applied, mutated>>
      BY <1>4 DEF ApplyStale
    <2>1. CASE WriteJob(w, Retire(Job(w), "REVIEW"))
      <3>1. JobsMove /\ ClaimsMove
        BY <2>0, <2>1, RetireAndRelease
      <3> QED
        BY <2>0, <3>1, Still, MovesKeep
    <2>2. CASE WriteJob(w, FailLocked(Job(w)))
      BY <2>0, <2>2, FailAndRelease
    <2> QED
      BY <1>4, <2>1, <2>2 DEF ApplyStale
  <1>5. CASE ApplyTurn(w)
    BY <1>5, ApplyTurnKeeps
  <1>6. ASSUME NEW mutating \in BOOLEAN, DeferCall(w, mutating) PROVE IInv'
    <2>0. claim[w].pc = "apply" /\ UNCHANGED <<events, jobs, ctx, applied, mutated>>
      BY <1>6 DEF DeferCall, Applicable
    <2>1. claim[w] \in Claim /\ ClaimOK(claim[w])
      BY DEF IInv, ITypeOK, Claim
    <2>2. PICK k : k = [claim[w] EXCEPT !.pc = "prepare", !.mutating = mutating]
      OBVIOUS
    <2>3. k \in Claim /\ k.pc = "prepare" /\ k.msg = claim[w].msg /\ k.calls = claim[w].calls
      BY <2>1, <2>2 DEF Claim, Steps
    <2>4. ClaimOK(k)
      BY <2>0, <2>1, <2>3 DEF ClaimOK
    <2>5. claim' = [claim EXCEPT ![w] = k]
      BY <1>6, <2>2 DEF DeferCall
    <2>6. ClaimsMove
      BY <2>0, <2>3, <2>4, <2>5, OneClaim
    <2> QED
      BY <2>0, <2>6, Still, MovesKeep
  <1>7. CASE PrepareExternal(w)
    BY <1>7, PrepareExternalKeeps
  <1>8. CASE Call(w)
    BY <1>8, CallKeeps
  <1>9. CASE RecordExternalResult(w)
    <2>1. PICK k \in Claim : claim' = [claim EXCEPT ![w] = k] /\ ClaimOK(k) /\ k.pc # "call"
      BY <1>9, NextApplyWrites DEF RecordExternalResult
    <2>2. ClaimsMove
      BY <1>9, <2>1, OneClaim DEF RecordExternalResult
    <2> QED
      BY <1>9, <2>2, Still, MovesKeep DEF RecordExternalResult
  <1>10. CASE SettleInboxFailure(w)
    BY <1>10, FailAndRelease DEF SettleInboxFailure
  <1> QED
    BY <1>1, <1>2, <1>3, <1>4, <1>5, <1>6, <1>7, <1>8, <1>9, <1>10 DEF Process

\* A claim is given back in an orderly way, or lost with its process.
LEMMA CancelKeeps ==
    ASSUME IInv, NEW w \in Claimers, Cancel(w) \/ Crash(w)
    PROVE  IInv'
  <1>0. claim[w].pc # "idle" /\ Release(w) /\ UNCHANGED <<events, ctx, applied, mutated>>
    BY DEF Cancel, Crash
  <1>1. CASE UNCHANGED jobs
    BY <1>0, <1>1, ReleaseMoves, Still, MovesKeep
  <1>2. CASE Cancel(w) /\ Owned(w)
    <2>1. PICK m \in Messages : m = claim[w].msg /\ Job(w) = jobs[m]
      BY <1>0, <1>2, OwnedFacts
    <2>2. jobs[m] \in JobRow /\ JobOK(jobs[m]) /\ jobs[m].status \in Running
          /\ (jobs[m].status = "PROCESSING" <=> ~jobs[m].ext) /\ jobs[m].claims < MaxClaims
      BY <1>0, <1>2, <2>1, OwnedFacts DEF Cancel
    <2>3. CASE jobs[m].ext
      <3>1. WriteJob(w, Retire(Job(w), "REVIEW"))
        BY <1>2, <2>1, <2>3 DEF Cancel
      <3>2. JobsMove /\ ClaimsMove
        BY <1>0, <1>2, <3>1, RetireAndRelease
      <3> QED
        BY <1>0, <3>2, Still, MovesKeep
    <2>4. CASE ~jobs[m].ext
      <3>1. PICK k : k = Retire(jobs[m], "PENDING")
        OBVIOUS
      <3>2. k = [Retire(jobs[m], "PENDING") EXCEPT !.attempts = jobs[m].attempts]
        BY <2>2, <3>1 DEF Retire, JobRow
      <3>3. jobs[m].attempts \in 0..MaxAttempts /\ jobs[m].attempts < MaxAttempts
        BY <2>2 DEF JobOK, JobRow, Running
      <3>4. Settles(jobs[m], k) /\ k.status = "PENDING"
        BY <2>2, <2>4, <3>2, <3>3, GivenBackSettles
      <3>5. jobs' = [jobs EXCEPT ![m] = k]
        BY <1>2, <2>1, <2>4, <3>1 DEF Cancel, WriteJob
      <3>6. JobsMove
        BY <2>2, <3>4, <3>5, OneJob
      <3> QED
        BY <1>0, <3>6, ReleaseMoves, Still, MovesKeep
    <2> QED
      BY <2>3, <2>4
  <1> QED
    BY <1>1, <1>2 DEF Cancel, Crash

\* The reaper fails a job nobody works on; the operator gives a local one a new budget.
LEMMA ReaperKeeps ==
    ASSUME IInv, NEW m \in Messages, RecoverStale(m) \/ RetryJob(m)
    PROVE  IInv'
  <1>0. jobs[m] \in JobRow /\ JobOK(jobs[m]) /\ UNCHANGED <<ctx, claim, applied, mutated>>
    BY DEF IInv, ITypeOK, JobRow, RecoverStale, RetryJob
  <1>1. CASE RecoverStale(m)
    <2>1. PICK k : k = FailLocked(jobs[m])
      OBVIOUS
    <2>2. Settles(jobs[m], k) /\ k.status \notin Running
      BY <1>0, <1>1, <2>1, FailLockedSettles DEF RecoverStale, Running
    <2>3. jobs' = [jobs EXCEPT ![m] = k]
      BY <1>1, <2>1 DEF RecoverStale
    <2>4. JobsMove
      BY <2>2, <2>3, OneJob
    <2> QED
      BY <1>0, <1>1, <2>4, Still, MovesKeep DEF RecoverStale
  <1>2. CASE RetryJob(m)
    <2>1. PICK k : k = [Retire(jobs[m], "PENDING") EXCEPT !.attempts = 0]
      OBVIOUS
    <2>2. 0 \in 0..MaxAttempts /\ 0 < MaxAttempts
      BY Bounds
    <2>3. Settles(jobs[m], k) /\ k.status = "PENDING"
      BY <1>0, <1>2, <2>1, <2>2, GivenBackSettles DEF RetryJob
    <2>4. jobs' = [jobs EXCEPT ![m] = k]
      BY <1>2, <2>1 DEF RetryJob
    <2>5. JobsMove
      BY <2>3, <2>4, OneJob DEF Running
    <2>6. EventsMove
      <3>1. events \in [Events -> EventRow] /\ \A e \in Events : EventOK(events[e])
        BY DEF IInv, ITypeOK, EventRow
      <3>2. /\ DOMAIN events' = Events /\ events' = [e \in Events |-> events'[e]]
            /\ \A e \in Events : \/ events'[e] = events[e]
                                 \/ events'[e] = [events[e] EXCEPT !.status = "PREPARED"]
        BY <1>2 DEF RetryJob
      <3>3. ASSUME NEW e \in Events
            PROVE  /\ events'[e] \in EventRow /\ EventOK(events'[e])
                   /\ events'[e].status \in {events[e].status, "PREPARED"}
        <4>1. CASE events'[e] = events[e]
          BY <3>1, <4>1
        <4>2. ASSUME NEW ev, ev = [events[e] EXCEPT !.status = "PREPARED"]
              PROVE  ev \in EventRow /\ EventOK(ev) /\ ev.status = "PREPARED"
          BY <3>1, <4>2 DEF EventRow, EventOK, EventStatus
        <4> QED
          BY <3>2, <4>1, <4>2
      <3> QED
        BY <3>2, <3>3 DEF EventsMove
    <2> QED
      BY <1>0, <2>5, <2>6, Still, MovesKeep
  <1> QED
    BY <1>1, <1>2

\* A person pauses, resumes or edits an open conversation.
LEMMA HumanChangeKeeps ==
    ASSUME IInv, NEW c \in Conversations, HumanChange(c)
    PROVE  IInv'
  <1>0. ctx \in [Conversations -> Context] /\ ctx[c] \in Context
        /\ ctx[c].stage \in {"BOT", "PAUSED", "RESOLVED"}
        /\ UNCHANGED <<events, jobs, claim, applied, mutated>>
    BY DEF IInv, ITypeOK, HumanChange
  <1>1. PICK cv \in Context :
          ctx' = [ctx EXCEPT ![c] = cv] /\ cv.stage \in {"BOT", "PAUSED", "RESOLVED"}
    <2>1. ASSUME ctx' = [ctx EXCEPT ![c].stage = IF @ = "PAUSED" THEN "BOT" ELSE "PAUSED",
                                    ![c].epoch = @ + 1]
          PROVE  \E cv \in Context : ctx' = [ctx EXCEPT ![c] = cv]
                                     /\ cv.stage \in {"BOT", "PAUSED", "RESOLVED"}
      <3>1. PICK s : s = IF ctx[c].stage = "PAUSED" THEN "BOT" ELSE "PAUSED"
        OBVIOUS
      <3>2. PICK cv : cv = [ctx[c] EXCEPT !.stage = s, !.epoch = ctx[c].epoch + 1]
        OBVIOUS
      <3>3. s \in {"BOT", "PAUSED"} /\ ctx[c].epoch + 1 \in Nat
        BY <1>0, <3>1 DEF Context
      <3>4. cv \in Context /\ cv.stage = s
        BY <1>0, <3>2, <3>3 DEF Context, Stage
      <3>5. ctx' = [ctx EXCEPT ![c] = cv]
        BY <2>1, <3>1, <3>2
      <3> QED
        BY <3>3, <3>4, <3>5
    <2>2. ASSUME NEW d \in Data, ctx' = [ctx EXCEPT ![c].data = d]
          PROVE  \E cv \in Context : ctx' = [ctx EXCEPT ![c] = cv]
                                     /\ cv.stage \in {"BOT", "PAUSED", "RESOLVED"}
      <3>1. PICK cv : cv = [ctx[c] EXCEPT !.data = d]
        OBVIOUS
      <3>2. cv \in Context /\ cv.stage = ctx[c].stage
        BY <1>0, <3>1 DEF Context
      <3>3. ctx' = [ctx EXCEPT ![c] = cv]
        BY <2>2, <3>1
      <3> QED
        BY <1>0, <3>2, <3>3
    <2> QED
      BY <2>1, <2>2 DEF HumanChange
  <1>2. ContextsMove
    BY <1>0, <1>1 DEF ContextsMove
  <1> QED
    BY <1>0, <1>2, Still, MovesKeep

\* A reset closes the customer's conversations and drops their unfinished jobs, none of
\* which runs.
LEMMA ResetKeeps ==
    ASSUME IInv, NEW customer \in Customers, ResetConversation(customer)
    PROVE  IInv'
  <1>1. PICK mine : mine = {c \in Conversations : ctx[c].stage # "ABSENT"
                                                  /\ ctx[c].customer = customer}
    OBVIOUS
  <1>2. /\ ctx' = [c \in Conversations |->
                     IF c \in mine
                     THEN [ctx[c] EXCEPT !.stage = "CLOSED", !.epoch = @ + 1,
                                         !.data = NoContext.data]
                     ELSE ctx[c]]
        /\ jobs' = [m \in Messages |->
                      IF Unfinished(m) /\ jobs[m].conv \in mine
                      THEN Retire(jobs[m], "COMPLETED") ELSE jobs[m]]
        /\ UNCHANGED <<events, claim, applied, mutated>>
    BY <1>1 DEF ResetConversation
  <1>3. /\ jobs \in [Messages -> JobRow] /\ (\A m \in Messages : JobOK(jobs[m]))
        /\ ctx \in [Conversations -> Context]
    BY DEF IInv, ITypeOK, JobRow
  <1>4. ASSUME NEW m \in Messages, Unfinished(m), jobs[m].conv \in mine
        PROVE  Settles(jobs[m], jobs'[m]) /\ jobs'[m].status = "COMPLETED"
    <2>1. jobs'[m] = Retire(jobs[m], "COMPLETED")
      BY <1>2, <1>4
    <2> QED
      BY <1>3, <1>4, <2>1, RetireSettles DEF Unfinished
  <1>5. ASSUME NEW m \in Messages, ~(Unfinished(m) /\ jobs[m].conv \in mine)
        PROVE  jobs'[m] = jobs[m]
    BY <1>2, <1>5
  <1>6. JobsMove
    <2>1. \A m \in Messages : jobs'[m] \in JobRow
      BY <1>3, <1>4, <1>5 DEF Settles
    <2>2. jobs' \in [Messages -> JobRow]
      BY <1>2, <2>1
    <2> QED
      BY <1>4, <1>5, <2>2 DEF JobsMove, Running
  <1>7. ASSUME NEW c \in mine PROVE ctx'[c] \in Context /\ ctx'[c].stage = "CLOSED"
    <2>1. c \in Conversations /\ ctx[c] \in Context /\ NoContext.data \in Data
      BY <1>1, <1>3, FirstValues DEF Context
    <2>2. PICK n, d : n = ctx[c].epoch + 1 /\ d = NoContext.data
      OBVIOUS
    <2>3. ctx'[c] = [ctx[c] EXCEPT !.stage = "CLOSED", !.epoch = n, !.data = d]
      BY <1>2, <2>1, <2>2
    <2>4. n \in Nat /\ d \in Data
      BY <2>1, <2>2 DEF Context
    <2> QED
      BY <2>1, <2>3, <2>4 DEF Context, Stage
  <1>8. \A c \in Conversations \ mine : ctx'[c] = ctx[c]
    BY <1>2
  <1>9. ContextsMove
    <2>1. \A c \in Conversations : ctx'[c] \in Context
      BY <1>3, <1>7, <1>8
    <2>2. ctx' \in [Conversations -> Context]
      BY <1>2, <2>1
    <2>3. ASSUME NEW c \in mine, NEW m \in Messages, Exists(m), jobs[m].conv = c
          PROVE  jobs'[m].status = "COMPLETED"
      BY <1>4, <1>5, <2>3 DEF Unfinished, Exists
    <2>4. \A c \in mine : c \in Conversations /\ ctx[c].stage # "ABSENT"
      BY <1>1
    <2>5. ASSUME NEW c \in Conversations
          PROVE  /\ ctx'[c].stage = "ABSENT" <=> ctx[c].stage = "ABSENT"
                 /\ ctx'[c].stage = "CLOSED" =>
                      \/ ctx[c].stage = "CLOSED"
                      \/ \A m \in Messages :
                           Exists(m) /\ jobs[m].conv = c => jobs'[m].status = "COMPLETED"
      <3>1. CASE c \in mine
        BY <1>7, <2>3, <2>4, <3>1
      <3>2. CASE c \notin mine
        BY <1>8, <3>2
      <3> QED
        BY <3>1, <3>2
    <2> QED
      BY <2>2, <2>5 DEF ContextsMove
  <1> QED
    BY <1>2, <1>6, <1>9, Still, MovesKeep

(***************************************************************************)
(* ExpandEvent: the conversations and jobs a payload opens                 *)
(***************************************************************************)

\* A set of numbers up to n that is not empty has a last one.
LEMMA LastOne ==
    ASSUME NEW n \in Nat, NEW S \in SUBSET (1..n), S # {}
    PROVE  \E c \in S : \A d \in S : d <= c
  <1> DEFINE R == OpToRel(<, Nat)
             T == {k \in Nat : \E c \in S : k = n - c}
  <1>1. \A x, y \in Nat : x < y => <<x, y>> \in R
    BY DEF OpToRel
  <1>2. IsWellFoundedOn(R, Nat)
    BY NatLessThanWellFounded
  <1>3. T \subseteq Nat /\ T # {}
    <2>1. PICK c \in S : TRUE
      OBVIOUS
    <2>2. n - c \in Nat
      BY <2>1
    <2> QED
      BY <2>1, <2>2
  <1> HIDE DEF R
  <1>4. PICK k \in T : \A j \in T : ~(<<j, k>> \in R)
    BY <1>2, <1>3, WFMin
  <1>5. PICK c \in S : k = n - c
    BY <1>4
  <1>6. ASSUME NEW d \in S PROVE d <= c
    <2>1. n - d \in T
      OBVIOUS
    <2>2. ~(n - d < k)
      BY <1>1, <1>4, <2>1
    <2> QED
      BY <1>5, <2>2
  <1> QED
    BY <1>6

\* A part of a finite set, with an element in it, counts between one and all of them.
LEMMA PartCount ==
    ASSUME NEW S, IsFiniteSet(S), NEW T \in SUBSET S, NEW x \in T
    PROVE  /\ Cardinality(S) \in Nat /\ Cardinality(T) \in Nat
           /\ 1 <= Cardinality(T) /\ Cardinality(T) <= Cardinality(S)
  <1>1. IsFiniteSet(T) /\ Cardinality(T) <= Cardinality(S)
    BY FS_Subset
  <1>2. Cardinality(S) \in Nat /\ Cardinality(T) \in Nat
    BY <1>1, FS_CardinalityType
  <1>3. Cardinality(T) # 0
    BY <1>1, FS_EmptySet
  <1> QED
    BY <1>1, <1>2, <1>3

\* What a function makes of a finite set is finite and not larger.
LEMMA ImageCount ==
    ASSUME NEW S, IsFiniteSet(S), NEW f, DOMAIN f = S, f = [x \in S |-> f[x]],
           NEW T, T = {f[x] : x \in S}
    PROVE  IsFiniteSet(T) /\ Cardinality(T) <= Cardinality(S)
  <1>1. f \in Surjection(S, T)
    BY DEF Surjection
  <1> QED
    BY <1>1, FS_Surjection

\* A message that has no job is no longer offered one once it has.
LEMMA MissingFacts ==
    ASSUME NEW e \in Events
    PROVE  /\ Missing(e) \subseteq Messages /\ Missing(e) \cap Stored = {}
           /\ IsFiniteSet(Stored) /\ IsFiniteSet(Missing(e)) /\ IsFiniteSet(Stored \cup Missing(e))
           /\ Cardinality(Stored) \in Nat /\ Cardinality(Missing(e)) \in Nat
           /\ Cardinality(Stored \cup Missing(e)) = Cardinality(Stored) + Cardinality(Missing(e))
           /\ Cardinality(Stored \cup Missing(e)) <= Cardinality(Messages)
  <1>1. Missing(e) \subseteq Messages /\ Missing(e) \cap Stored = {} /\ Stored \subseteq Messages
    BY InboxAssumption DEF Missing, Stored
  <1>2. IsFiniteSet(Stored) /\ IsFiniteSet(Missing(e))
    BY <1>1, Bounds, FS_Subset
  <1>3. Cardinality(Stored) \in Nat /\ Cardinality(Missing(e)) \in Nat
    BY <1>2, FS_CardinalityType
  <1>4. IsFiniteSet(Stored \cup Missing(e))
        /\ Cardinality(Stored \cup Missing(e))
             = Cardinality(Stored) + Cardinality(Missing(e)) - Cardinality(Stored \cap Missing(e))
    BY <1>2, FS_Union
  <1>5. Cardinality(Stored \cap Missing(e)) = 0
    <2>1. Stored \cap Missing(e) = {}
      BY <1>1
    <2> QED
      BY <2>1, FS_EmptySet
  <1>6. Cardinality(Stored \cup Missing(e)) <= Cardinality(Messages)
    <2>1. (Stored \cup Missing(e)) \in SUBSET Messages
      BY <1>1
    <2> QED
      BY <2>1, Bounds, FS_Subset
  <1> QED
    BY <1>1, <1>2, <1>3, <1>4, <1>5, <1>6

\* Every customer who needs a conversation has a message without a job.
LEMMA OpenersFacts ==
    ASSUME NEW e \in Events
    PROVE  /\ Openers(e) \subseteq Customers /\ IsFiniteSet(Openers(e))
           /\ Cardinality(Openers(e)) \in Nat
           /\ Cardinality(Openers(e)) <= Cardinality(Missing(e))
  <1> DEFINE asking == {n \in Missing(e) \ Legacy : ActiveConversation(Sender[n]) = 0}
             f == [n \in asking |-> Sender[n]]
  <1>1. asking \in SUBSET Missing(e) /\ IsFiniteSet(Missing(e)) /\ asking \subseteq Messages
    BY MissingFacts
  <1>2. IsFiniteSet(asking) /\ Cardinality(asking) <= Cardinality(Missing(e))
    BY <1>1, FS_Subset
  <1>3. Openers(e) = {f[n] : n \in asking}
    BY DEF Openers
  <1>4. Openers(e) \subseteq Customers
    BY <1>1, InboxAssumption DEF Openers
  <1> HIDE DEF asking
  <1>5. IsFiniteSet(Openers(e)) /\ Cardinality(Openers(e)) <= Cardinality(asking)
    BY <1>2, <1>3, ImageCount
  <1>6. Cardinality(Openers(e)) \in Nat /\ Cardinality(asking) \in Nat
        /\ Cardinality(Missing(e)) \in Nat
    BY <1>1, <1>2, <1>5, FS_CardinalityType
  <1> QED
    BY <1>2, <1>4, <1>5, <1>6

\* There is room for the conversations a payload opens.
LEMMA OpenedAsFits ==
    ASSUME IInv, NEW e \in Events
    PROVE  /\ \A d \in Openers(e) : OpenedAs(e, d) \in Conversations
           /\ \A S \in SUBSET (OpenOnes \cup {OpenedAs(e, d) : d \in Openers(e)}) :
                Cardinality(S) <= 1 + Cardinality(Stored \cup Missing(e))
  <1>1. IsFiniteSet(OpenOnes) /\ Cardinality(OpenOnes) \in Nat
    <2>1. OpenOnes \in SUBSET Conversations /\ IsFiniteSet(Conversations)
      BY Bounds, FS_Interval DEF OpenOnes
    <2> QED
      BY <2>1, FS_Subset, FS_CardinalityType
  <1>2. Cardinality(OpenOnes) <= 1 + Cardinality(Stored)
    BY DEF IInv, Numbered
  <1>3. /\ Cardinality(OpenOnes) + Cardinality(Openers(e)) <= 1 + Cardinality(Stored \cup Missing(e))
        /\ Cardinality(Stored \cup Missing(e)) \in Nat /\ Cardinality(Openers(e)) \in Nat
        /\ Cardinality(Stored \cup Missing(e)) <= Cardinality(Messages)
    <2>1. /\ Cardinality(Stored) \in Nat /\ Cardinality(Missing(e)) \in Nat
          /\ Cardinality(Stored \cup Missing(e)) = Cardinality(Stored) + Cardinality(Missing(e))
          /\ Cardinality(Stored \cup Missing(e)) <= Cardinality(Messages)
      BY MissingFacts
    <2>2. Cardinality(Openers(e)) \in Nat /\ Cardinality(Openers(e)) <= Cardinality(Missing(e))
      BY OpenersFacts
    <2> QED
      BY <1>1, <1>2, <2>1, <2>2
  <1>4. ASSUME NEW d \in Openers(e) PROVE OpenedAs(e, d) \in Conversations
    <2>1. PICK T : T = {c \in Openers(e) : c <= d}
      OBVIOUS
    <2>2. d \in T /\ T \in SUBSET Openers(e)
      <3>1. Openers(e) \subseteq Customers
        BY OpenersFacts
      <3>2. d \in Nat
        BY <3>1, InboxAssumption
      <3> QED
        BY <2>1, <3>2
    <2>3. Cardinality(T) \in Nat /\ 1 <= Cardinality(T) /\ Cardinality(T) <= Cardinality(Openers(e))
      BY <2>2, OpenersFacts, PartCount
    <2>4. OpenedAs(e, d) = Cardinality(OpenOnes) + Cardinality(T)
      BY <2>1 DEF OpenedAs, OpenOnes
    <2> QED
      BY <1>1, <1>3, <2>3, <2>4, Bounds
  <1>5. ASSUME NEW S \in SUBSET (OpenOnes \cup {OpenedAs(e, d) : d \in Openers(e)})
        PROVE  Cardinality(S) <= 1 + Cardinality(Stored \cup Missing(e))
    <2>1. PICK f : f = [d \in Openers(e) |-> OpenedAs(e, d)]
      OBVIOUS
    <2>2. PICK T : T = {OpenedAs(e, d) : d \in Openers(e)}
      OBVIOUS
    <2>3. T = {f[d] : d \in Openers(e)} /\ DOMAIN f = Openers(e)
          /\ f = [d \in Openers(e) |-> f[d]]
      BY <2>1, <2>2
    <2>4. IsFiniteSet(T) /\ Cardinality(T) <= Cardinality(Openers(e))
      BY <2>3, OpenersFacts, ImageCount
    <2>5. IsFiniteSet(OpenOnes \cup T)
          /\ Cardinality(OpenOnes \cup T)
               = Cardinality(OpenOnes) + Cardinality(T) - Cardinality(OpenOnes \cap T)
      BY <1>1, <2>4, FS_Union
    <2>6. Cardinality(T) \in Nat /\ Cardinality(OpenOnes \cap T) \in Nat
          /\ Cardinality(OpenOnes \cup T) \in Nat
      <3>1. IsFiniteSet(OpenOnes \cap T)
        BY <1>1, FS_Subset
      <3> QED
        BY <2>4, <2>5, <3>1, FS_CardinalityType
    <2>7. Cardinality(S) <= Cardinality(OpenOnes \cup T) /\ Cardinality(S) \in Nat
      <3>1. S \in SUBSET (OpenOnes \cup T)
        BY <2>2
      <3> QED
        BY <2>5, <3>1, FS_Subset, FS_CardinalityType
    <2> QED
      BY <1>1, <1>3, <2>4, <2>5, <2>6, <2>7
  <1> QED
    BY <1>4, <1>5

\* New jobs are numbered behind the ones stored.
LEMMA JobIdFits ==
    ASSUME NEW e \in Events, NEW m \in Missing(e)
    PROVE  /\ JobId(e, m) \in Nat /\ Cardinality(Stored) < JobId(e, m)
           /\ JobId(e, m) <= Cardinality(Stored \cup Missing(e))
  <1>1. PICK T : T = {n \in Missing(e) : \/ Sender[n] < Sender[m]
                                         \/ Sender[n] = Sender[m] /\ n <= m}
    OBVIOUS
  <1>2. m \in Nat
    BY MissingFacts, InboxAssumption
  <1>3. m \in T /\ T \in SUBSET Missing(e)
    BY <1>1, <1>2
  <1>4. Cardinality(T) \in Nat /\ 1 <= Cardinality(T) /\ Cardinality(T) <= Cardinality(Missing(e))
    BY <1>3, MissingFacts, PartCount
  <1>5. JobId(e, m) = Cardinality(Stored) + Cardinality(T)
    BY <1>1 DEF JobId, Stored
  <1> QED
    <2>1. /\ Cardinality(Stored) \in Nat /\ Cardinality(Missing(e)) \in Nat
          /\ Cardinality(Stored \cup Missing(e)) = Cardinality(Stored) + Cardinality(Missing(e))
      BY MissingFacts
    <2> QED
      BY <1>4, <1>5, <2>1

\* The conversation a customer is in is open.
LEMMA ActiveIsOpen ==
    ASSUME NEW d \in Customers, ActiveConversation(d) # 0
    PROVE  /\ ActiveConversation(d) \in Conversations
           /\ ctx[ActiveConversation(d)].stage \in {"BOT", "PAUSED"}
  <1>1. PICK mine : mine = {c \in Conversations : /\ ctx[c].customer = d
                                                  /\ ctx[c].stage \in {"BOT", "PAUSED"}}
    OBVIOUS
  <1>2. mine # {} /\ ActiveConversation(d) = CHOOSE c \in mine : \A b \in mine : b <= c
    BY <1>1 DEF ActiveConversation
  <1>3. \E c \in mine : \A b \in mine : b <= c
    <2>1. mine \in SUBSET (1..(Cardinality(Messages) + 1))
      BY <1>1, Bounds
    <2>2. Cardinality(Messages) + 1 \in Nat
      BY Bounds
    <2> QED
      BY <1>2, <2>1, <2>2, LastOne
  <1>4. ActiveConversation(d) \in mine
    BY <1>2, <1>3
  <1> QED
    BY <1>1, <1>4

\* A new job waits in a conversation that is open when the event is expanded; the job of a
\* legacy message is for a person.
LEMMA NewJobFits ==
    ASSUME IInv, NEW e \in Events, NEW m \in Missing(e), NEW k, k = NewJob(e, m)
    PROVE  /\ k \in JobRow /\ JobOK(k) /\ k.id = JobId(e, m)
           /\ m \in Legacy => k.status = "REVIEW" /\ k.conv = 1
           /\ m \notin Legacy => /\ k.status = "PENDING"
                                 /\ \/ \E d \in Openers(e) : k.conv = OpenedAs(e, d)
                                    \/ ctx[k.conv].stage \in {"BOT", "PAUSED"}
  <1>1. m \in Messages /\ Sender[m] \in Customers /\ JobId(e, m) \in Nat
    BY MissingFacts, InboxAssumption, JobIdFits
  <1>2. PICK i \in Nat : i = JobId(e, m)
    BY <1>1
  <1>0. NoJob \in JobRow /\ NoJob.conv = 1 /\ NoJob.attempts = 0 /\ NoJob.claims = 0
        /\ NoJob.ext = FALSE
    BY FirstValues DEF NoJob
  <1>3. CASE m \in Legacy
    <2>1. k = [NoJob EXCEPT !.status = "REVIEW", !.id = i, !.new = FALSE]
      BY <1>2, <1>3 DEF NewJob
    <2>2. k \in JobRow /\ k.id = i /\ k.status = "REVIEW" /\ k.conv = 1
      BY <1>0, <2>1 DEF JobRow, JobStatus
    <2>3. JobOK(k)
      BY <2>2 DEF JobOK, Running
    <2> QED
      BY <1>2, <1>3, <2>2, <2>3
  <1>4. CASE m \notin Legacy
    <2>1. PICK c : c = IF Sender[m] \in Openers(e) THEN OpenedAs(e, Sender[m])
                       ELSE ActiveConversation(Sender[m])
      OBVIOUS
    <2>2. /\ c \in Conversations
          /\ \/ \E d \in Openers(e) : c = OpenedAs(e, d)
             \/ ctx[c].stage \in {"BOT", "PAUSED"}
      <3>1. CASE Sender[m] \in Openers(e)
        BY <2>1, <3>1, OpenedAsFits
      <3>2. CASE Sender[m] \notin Openers(e)
        <4>1. ActiveConversation(Sender[m]) # 0
          BY <1>4, <3>2 DEF Openers
        <4> QED
          BY <1>1, <2>1, <3>2, <4>1, ActiveIsOpen
      <3> QED
        BY <3>1, <3>2
    <2>3. k = [NoJob EXCEPT !.status = "PENDING", !.id = i, !.conv = c]
      BY <1>2, <1>4, <2>1 DEF NewJob
    <2>4. k \in JobRow /\ k.id = i /\ k.status = "PENDING" /\ k.conv = c
          /\ k.attempts = 0 /\ k.claims = 0 /\ k.ext = FALSE
      BY <1>0, <2>2, <2>3 DEF JobRow, JobStatus
    <2>5. JobOK(k)
      BY <2>4, Bounds DEF JobOK, Running
    <2> QED
      BY <1>2, <1>4, <2>2, <2>4, <2>5
  <1> QED
    BY <1>3, <1>4

\* A payload is expanded: no job that exists is written, and the new ones stand behind them.
LEMMA ExpandEventKeeps ==
    ASSUME IInv, NEW e \in Events, ExpandEvent(e)
    PROVE  IInv'
  <1>1. /\ events' = [events EXCEPT ![e].status = "PREPARED"]
        /\ jobs' = [m \in Messages |-> IF m \in Missing(e) THEN NewJob(e, m) ELSE jobs[m]]
        /\ ctx' = [c \in Conversations |->
                     IF \E d \in Openers(e) : c = OpenedAs(e, d)
                     THEN Opened(CHOOSE d \in Openers(e) : c = OpenedAs(e, d)) ELSE ctx[c]]
        /\ UNCHANGED <<claim, applied, mutated>>
    BY DEF ExpandEvent
  <1>2. /\ events \in [Events -> EventRow] /\ (\A f \in Events : EventOK(events[f]))
        /\ jobs \in [Messages -> JobRow] /\ (\A m \in Messages : JobOK(jobs[m]))
        /\ ctx \in [Conversations -> Context]
    BY DEF IInv, ITypeOK, EventRow, JobRow
  <1>3. /\ Missing(e) \subseteq Messages
        /\ \A m \in Missing(e) : jobs[m].status = "NONE"
    BY MissingFacts DEF Missing, Exists
  <1>4. \A m \in Messages \ Missing(e) : jobs'[m] = jobs[m]
    BY <1>1
  <1>5. ASSUME NEW m \in Missing(e)
        PROVE  /\ jobs'[m] \in JobRow /\ JobOK(jobs'[m]) /\ jobs'[m].id = JobId(e, m)
               /\ m \in Legacy => jobs'[m].status = "REVIEW" /\ jobs'[m].conv = 1
               /\ m \notin Legacy => /\ jobs'[m].status = "PENDING"
                                     /\ \/ \E d \in Openers(e) : jobs'[m].conv = OpenedAs(e, d)
                                        \/ ctx[jobs'[m].conv].stage \in {"BOT", "PAUSED"}
    <2>1. jobs'[m] = NewJob(e, m)
      BY <1>1, <1>3
    <2> QED
      BY <2>1, NewJobFits
  <1>6. ASSUME NEW c \in Conversations
        PROVE  /\ ctx'[c] \in Context
               /\ (\E d \in Openers(e) : c = OpenedAs(e, d)) => ctx'[c].stage = "BOT"
               /\ (~\E d \in Openers(e) : c = OpenedAs(e, d)) => ctx'[c] = ctx[c]
    <2>1. CASE \E d \in Openers(e) : c = OpenedAs(e, d)
      <3>1. PICK b : b = CHOOSE d \in Openers(e) : c = OpenedAs(e, d)
        OBVIOUS
      <3>2. b \in Openers(e)
        BY <2>1, <3>1
      <3>3. b \in Customers
        BY <3>2, OpenersFacts
      <3>4. ctx'[c] = Opened(b)
        BY <1>1, <2>1, <3>1
      <3> QED
        BY <2>1, <3>3, <3>4, FirstValues
    <2>2. CASE ~\E d \in Openers(e) : c = OpenedAs(e, d)
      BY <1>1, <1>2, <2>2
    <2> QED
      BY <2>1, <2>2
  <1>7. /\ events' \in [Events -> EventRow]
        /\ \A f \in Events : /\ EventOK(events'[f])
                             /\ events'[f].status = "PROCESSED" => events[f].status = "PROCESSED"
    <2>1. PICK ev : ev = [events[e] EXCEPT !.status = "PREPARED"]
      OBVIOUS
    <2>2. ev \in EventRow /\ ev.status = "PREPARED"
      BY <1>2, <2>1 DEF EventRow, EventStatus
    <2>3. events' = [events EXCEPT ![e] = ev] /\ EventOK(ev)
      BY <1>1, <2>1, <2>2 DEF EventOK
    <2> QED
      BY <1>2, <2>2, <2>3
  <1>8. jobs' \in [Messages -> JobRow] /\ \A m \in Messages : JobOK(jobs'[m])
    <2>1. \A m \in Messages : jobs'[m] \in JobRow /\ JobOK(jobs'[m])
      BY <1>2, <1>4, <1>5
    <2> QED
      BY <1>1, <2>1
  <1>9. ctx' \in [Conversations -> Context]
    BY <1>1, <1>6
  <1>10. ITypeOK'
    BY <1>1, <1>7, <1>8, <1>9 DEF IInv, ITypeOK, EventRow, JobRow
  <1>11. \A m \in Missing(e) : jobs'[m].status \in {"PENDING", "REVIEW"}
    BY <1>5
  <1>12. LegacyRests'
    <2> SUFFICES ASSUME NEW m \in Legacy PROVE jobs'[m].status \in {"NONE", "REVIEW", "COMPLETED"}
      BY DEF LegacyRests
    <2>1. m \in Messages /\ jobs[m].status \in {"NONE", "REVIEW", "COMPLETED"}
      BY InboxAssumption DEF IInv, LegacyRests
    <2> QED
      BY <1>4, <1>5, <2>1
  <1>13. Fenced'
    <2>1. ASSUME NEW m \in Messages, NEW t \in Tokens PROVE Touched(m, t)' <=> Touched(m, t)
      BY <1>1 DEF Touched
    <2> SUFFICES ASSUME NEW m \in Messages, NEW t \in Tokens, Touched(m, t)'
                 PROVE  /\ m \notin Legacy /\ Held(jobs'[m], t)
                        /\ \A u \in Tokens : Touched(m, u)' => u = t
      BY DEF Fenced
    <2>2. /\ m \notin Legacy /\ Held(jobs[m], t)
          /\ \A u \in Tokens : Touched(m, u) => u = t
      BY <2>1 DEF IInv, Fenced
    <2>3. m \notin Missing(e)
      BY <1>3, <2>2 DEF Held
    <2> QED
      BY <1>4, <2>1, <2>2, <2>3
  <1>14. EarlierDone'
    <2> SUFFICES ASSUME NEW m \in Messages, NEW n \in Messages,
                        jobs'[m].status \in Running, jobs'[n].status # "NONE",
                        jobs'[n].conv = jobs'[m].conv, jobs'[n].id < jobs'[m].id
                 PROVE  jobs'[n].status = "COMPLETED"
      BY DEF EarlierDone, Exists
    <2>1. m \notin Missing(e) /\ jobs'[m] = jobs[m]
      BY <1>4, <1>11 DEF Running
    <2>2. m \in Stored /\ jobs[m].id <= Cardinality(Stored) /\ jobs[m].id \in Nat
      BY <1>2, <2>1 DEF Stored, Exists, Running, IInv, Numbered, JobRow
    <2>3. ASSUME n \in Missing(e) PROVE FALSE
      <3>1. jobs'[n].id \in Nat /\ Cardinality(Stored) < jobs'[n].id /\ Cardinality(Stored) \in Nat
        BY <1>5, <2>3, JobIdFits, MissingFacts
      <3> QED
        BY <2>1, <2>2, <3>1
    <2>4. jobs'[n] = jobs[n]
      BY <1>4, <2>3
    <2> QED
      BY <2>1, <2>4 DEF IInv, EarlierDone, Exists
  <1>15. Stored' = Stored \cup Missing(e)
    BY <1>3, <1>4, <1>11 DEF Stored, Exists
  <1>16. Numbered'
    <2>1. OpenOnes' \in SUBSET (OpenOnes \cup {OpenedAs(e, d) : d \in Openers(e)})
      BY <1>6 DEF OpenOnes
    <2>2. Cardinality(OpenOnes') <= 1 + Cardinality(Stored \cup Missing(e))
      BY <2>1, OpenedAsFits
    <2>3. ASSUME NEW m \in Stored \cup Missing(e)
          PROVE  jobs'[m].id <= Cardinality(Stored \cup Missing(e))
      <3>1. CASE m \in Missing(e)
        BY <1>5, <3>1, JobIdFits
      <3>2. CASE m \in Stored /\ m \notin Missing(e)
        <4>1. jobs'[m] = jobs[m] /\ jobs[m].id \in Nat /\ jobs[m].id <= Cardinality(Stored)
          BY <1>2, <1>4, <3>2 DEF Stored, IInv, Numbered, JobRow
        <4>2. /\ Cardinality(Stored) \in Nat /\ Cardinality(Missing(e)) \in Nat
              /\ Cardinality(Stored \cup Missing(e)) = Cardinality(Stored) + Cardinality(Missing(e))
          BY MissingFacts
        <4> QED
          BY <4>1, <4>2
      <3> QED
        BY <3>1, <3>2
    <2> QED
      BY <1>15, <2>2, <2>3 DEF Numbered
  <1>17. \A c \in Conversations : ctx[c].stage # "ABSENT" => ctx'[c].stage # "ABSENT"
    BY <1>6
  <1>18. Placed'
    <2>1. Legacy # {} => ctx'[1].stage # "ABSENT"
      BY <1>17, Bounds DEF IInv, Placed
    <2>2. ASSUME NEW m \in Stored \cup Missing(e) PROVE ctx'[jobs'[m].conv].stage # "ABSENT"
      <3>0. m \in Messages /\ jobs'[m].conv \in Conversations
        BY <1>3, <1>8 DEF Stored, JobRow
      <3>1. CASE m \in Missing(e) /\ m \in Legacy
        BY <1>5, <2>1, <3>1
      <3>2. CASE m \in Missing(e) /\ m \notin Legacy
        BY <1>5, <1>6, <3>0, <3>2
      <3>3. CASE m \notin Missing(e)
        BY <1>4, <1>17, <3>0, <3>3 DEF IInv, Placed
      <3> QED
        BY <3>1, <3>2, <3>3
    <2> QED
      BY <1>15, <2>1, <2>2 DEF Placed
  <1>19. OneTurnPerMessage' /\ LegacyNeverReplayed'
    <2>1. ASSUME NEW m \in Messages
          PROVE  applied'[m] <= 1 /\ (applied'[m] = 1 => jobs'[m].status = "COMPLETED")
      BY <1>1, <1>3, <1>4 DEF IInv, OneTurnPerMessage
    <2> QED
      BY <1>1, <2>1 DEF IInv, OneTurnPerMessage, LegacyNeverReplayed
  <1>20. ProcessedMeansDone'
    <2> SUFFICES ASSUME NEW f \in Events, events'[f].status = "PROCESSED", NEW m \in Payload[f]
                 PROVE  jobs'[m].status = "COMPLETED"
      BY DEF ProcessedMeansDone
    <2>1. m \in Messages /\ jobs[m].status = "COMPLETED"
      BY <1>7, InboxAssumption DEF IInv, ProcessedMeansDone
    <2> QED
      BY <1>3, <1>4, <2>1
  <1>21. ResetLeavesNothingRunning'
    <2> SUFFICES ASSUME NEW m \in Messages, jobs'[m].status # "NONE",
                        ctx'[jobs'[m].conv].stage = "CLOSED"
                 PROVE  jobs'[m].status = IF m \in Legacy /\ jobs'[m].status # "COMPLETED"
                                          THEN "REVIEW" ELSE "COMPLETED"
      BY DEF ResetLeavesNothingRunning, Exists
    <2>1. PICK c \in Conversations : c = jobs'[m].conv
      BY <1>8 DEF JobRow
    <2>2. (~\E d \in Openers(e) : c = OpenedAs(e, d)) /\ ctx[c].stage = "CLOSED"
      BY <1>6, <2>1
    <2>3. CASE m \in Missing(e)
      <3>1. m \in Legacy
        BY <1>5, <2>1, <2>2, <2>3
      <3> QED
        BY <1>5, <2>3, <3>1
    <2>4. CASE m \notin Missing(e)
      BY <1>4, <2>1, <2>2, <2>4 DEF IInv, ResetLeavesNothingRunning, Exists
    <2> QED
      BY <2>3, <2>4
  <1> QED
    BY <1>1, <1>7, <1>8, <1>10, <1>12, <1>13, <1>14, <1>16, <1>18, <1>19, <1>20, <1>21 DEF IInv

(***************************************************************************)
(* Theorems                                                                *)
(***************************************************************************)

\* Every step keeps the invariant.
LEMMA IInvNext == IInv /\ [INext]_ivars => IInv'
  <1> SUFFICES ASSUME IInv, [INext]_ivars PROVE IInv'
    OBVIOUS
  <1>1. CASE UNCHANGED ivars
    BY <1>1, Still, MovesKeep DEF ivars
  <1>2. ASSUME NEW e \in Events,
               StoreWebhookEvent(e) \/ Expand(e) \/ AdoptOldEvent(e) \/ RefreshEvent(e)
        PROVE  IInv'
    BY <1>2, EventSteps, ExpandEventKeeps DEF Expand
  <1>3. CASE ClaimSome
    BY <1>3, ClaimJobKeeps DEF ClaimSome
  <1>4. ASSUME NEW w \in Claimers, Process(w) \/ Cancel(w) \/ Crash(w) PROVE IInv'
    BY <1>4, ProcessKeeps, CancelKeeps
  <1>5. ASSUME NEW m \in Messages, RecoverStale(m) \/ RetryJob(m) PROVE IInv'
    BY <1>5, ReaperKeeps
  <1>6. ASSUME NEW c \in Conversations, HumanChange(c) PROVE IInv'
    BY <1>6, HumanChangeKeeps
  <1>7. ASSUME NEW customer \in Customers, ResetConversation(customer) PROVE IInv'
    BY <1>7, ResetKeeps
  <1> QED
    BY <1>1, <1>2, <1>3, <1>4, <1>5, <1>6, <1>7 DEF INext

\* Events, jobs, claims and the agenda agree in every reachable state.
THEOREM IInvariant == ISpec => []IInv
  BY IInvInit, IInvNext, PTL DEF ISpec

\* A message has at most one committed turn, however often it is delivered, claimed, recovered
\* and retried, and a message of the time before jobs has none; every table stays well formed.
THEOREM AccountedFor == ISpec => []MessagesAccountedFor
  <1>1. IInv => MessagesAccountedFor
    BY DEF IInv, MessagesAccountedFor
  <1> QED
    BY <1>1, IInvariant, PTL

\* Only one claim of a message ever changes the agenda, and from then on the message is that
\* claim's, finished or with a person: fail_locked, the reaper, a cancellation, a reset and
\* the operator's retry never offer it to another one.
THEOREM AgendaFenced == ISpec => []MutationsFenced
  <1>1. IInv => OneMutatingClaim
    <2> SUFFICES ASSUME IInv, NEW m \in Messages
                 PROVE  Cardinality({t \in Tokens : <<m, t>> \in mutated}) <= 1
      BY DEF OneMutatingClaim
    <2>1. PICK S : S = {t \in Tokens : <<m, t>> \in mutated}
      OBVIOUS
    <2>2. \A t, u \in S : t = u
      BY <2>1 DEF IInv, Fenced, Touched
    <2>3. Cardinality(S) <= 1
      <3>1. CASE S = {}
        <4>1. Cardinality(S) = 0
          BY <3>1, FS_EmptySet
        <4> QED
          BY <4>1
      <3>2. CASE S # {}
        <4>1. PICK t : S = {t}
          BY <2>2, <3>2
        <4>2. Cardinality(S) = 1
          BY <4>1, FS_Singleton
        <4> QED
          BY <4>2
      <3> QED
        BY <3>1, <3>2
    <2> QED
      BY <2>1, <2>3, Zenon
  <1>2. IInv => MutationIsAccountedFor
    BY DEF IInv, Fenced, Touched, Held, MutationIsAccountedFor
  <1> QED
    BY <1>1, <1>2, IInvariant, PTL DEF MutationsFenced

\* An event said to be PROCESSED has all its messages answered, and nothing undoes it.
THEOREM ProcessedIsDone == ISpec => []ProcessedMeansDone
  <1>1. IInv => ProcessedMeansDone
    BY DEF IInv
  <1> QED
    BY <1>1, IInvariant, PTL

\* A reset that was answered leaves no turn to commit, whatever a worker was doing.
THEOREM ResetIsFinal == ISpec => []ResetLeavesNothingRunning
  <1>1. IInv => ResetLeavesNothingRunning
    BY DEF IInv
  <1> QED
    BY <1>1, IInvariant, PTL

\* Only a committed turn is counted, and the claim that commits it owns a running job.
LEMMA OnlyApplyTurns ==
    ASSUME IInv, [INext]_ivars, NEW m \in Messages, applied'[m] # applied[m]
    PROVE  jobs[m].status \in Running
  <1>1. PICK w \in Claimers : ApplyTurn(w)
    <2>1. UNCHANGED applied \/ \E w \in Claimers : ApplyTurn(w)
      <3>1. ASSUME NEW w \in Claimers, Process(w) PROVE UNCHANGED applied \/ ApplyTurn(w)
        BY <3>1 DEF Process, Classify, Raise, Discard, ApplyStale, DeferCall, PrepareExternal,
                    Call, RecordExternalResult, SettleInboxFailure
      <3>2. ASSUME NEW w \in Claimers, Cancel(w) \/ Crash(w) PROVE UNCHANGED applied
        BY <3>2 DEF Cancel, Crash
      <3>3. ASSUME NEW e \in Events,
                   StoreWebhookEvent(e) \/ Expand(e) \/ AdoptOldEvent(e) \/ RefreshEvent(e)
            PROVE  UNCHANGED applied
        BY <3>3 DEF StoreWebhookEvent, Expand, ExpandEvent, ExpandEventFails, ExpandOldEvent,
                    AdoptOldEvent, RefreshEvent
      <3>4. ClaimSome => UNCHANGED applied
        BY DEF ClaimSome, ClaimJob
      <3>5. ASSUME NEW n \in Messages, RecoverStale(n) \/ RetryJob(n) PROVE UNCHANGED applied
        BY <3>5 DEF RecoverStale, RetryJob
      <3>6. ASSUME NEW c \in Conversations, HumanChange(c) PROVE UNCHANGED applied
        BY <3>6 DEF HumanChange
      <3>7. ASSUME NEW customer \in Customers, ResetConversation(customer)
            PROVE  UNCHANGED applied
        BY <3>7 DEF ResetConversation
      <3> QED
        BY <3>1, <3>2, <3>3, <3>4, <3>5, <3>6, <3>7 DEF INext, ivars
    <2> QED
      BY <2>1
  <1>2. claim[w].pc = "apply" /\ Owned(w)
    BY <1>1 DEF ApplyTurn, Applicable
  <1>3. claim[w].msg \in Messages /\ jobs[claim[w].msg].status \in Running
    BY <1>2, OwnedFacts
  <1>4. m = claim[w].msg
    BY <1>1, <1>3 DEF ApplyTurn, IInv, ITypeOK
  <1> QED
    BY <1>3, <1>4

\* Turns of a conversation are committed in the order their messages were accepted.
THEOREM InOrderTurns == ISpec => TurnsInOrder
  <1>1. IInv /\ [INext]_ivars =>
          [\A m \in Messages : applied'[m] # applied[m] =>
             \A n \in Messages :
                Exists(n) /\ jobs[n].conv = jobs[m].conv /\ jobs[n].id < jobs[m].id =>
                    jobs[n].status = "COMPLETED"]_ivars
    BY OnlyApplyTurns DEF IInv, EarlierDone
  <1> QED
    BY <1>1, IInvariant, PTL DEF ISpec, TurnsInOrder
=============================================================================
