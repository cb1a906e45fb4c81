----------------------------- MODULE MCNotices ------------------------------
(***************************************************************************)
(* Instances of BalanceReminders, and with it of Notifications, for TLC.   *)
(* The initial state chooses one: notices to staff claimed by two loops,   *)
(* or a booking whose balance is reminded of, paid and moved while days    *)
(* pass.                                                                   *)
(***************************************************************************)
EXTENDS BalanceReminders, TLC

CONSTANTS w1, w2, c1, r1, b1, Slices
VARIABLE slice

TwoEvents == {[kind |-> "EVIDENCE_RECEIVED", src |-> 1], [kind |-> "BALANCE_OVERDUE", src |-> b1]}
ReminderKeys == {[to |-> b1, kind |-> k, src |-> 0] : k \in ReminderKinds}
OnOff == {[status |-> s, evidence |-> TRUE, pending |-> TRUE] : s \in {"ACTIVE", "INACTIVE"}}

StaffLoops == INSTANCE BalanceReminders WITH ReminderLoops <- {}, MaxAge <- 0, MaxNow <- 1
Balance == INSTANCE BalanceReminders WITH Loops <- {}, ReminderLoops <- {}, MaxAttempts <- 1
Window == INSTANCE BalanceReminders WITH
    Loops <- {w1}, ReminderLoops <- {}, Templates <- {}, WindowLen <- 2, MaxNow <- 3
Customer == INSTANCE BalanceReminders WITH Loops <- {}, ReminderLoops <- {c1}

MCInit == slice \in Slices /\ BInit
MCNext ==
    /\ UNCHANGED slice
    /\ \/ slice = "staff" /\ StaffLoops!BNext /\ UNCHANGED booking
       \/ slice = "balance" /\ Balance!BNext
MCSpec == MCInit /\ [][MCNext]_<<bvars, slice>>

\* One loop without templates, and one customer loop.
WindowSpec == MCInit /\ [][Window!BNext /\ UNCHANGED <<booking, slice>>]_<<bvars, slice>>
CustomerSpec == MCInit /\ [][Customer!BNext /\ UNCHANGED <<recipients, slice>>]_<<bvars, slice>>

\* Symmetric in the loops of two worker processes.
LoopSymmetry == Permutations(Loops)
=============================================================================
