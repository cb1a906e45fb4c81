------------------------------- MODULE MCInbox -------------------------------
(***************************************************************************)
(* A small instance of Inbox for TLC.  Messages 1 and 2 are of customer 1, *)
(* 3 and 4 of customer 2, who wrote message 3 before jobs existed; event 4 *)
(* was stored by the old intake.  A behaviour stays in one of the slices   *)
(*   turns   message 2 alone, two claims, retries, calls and people;       *)
(*   order   messages 1 and 2, the second one redelivered by event 2;      *)
(*   legacy  the old message redelivered and the old event adopted.        *)
(*   whole   no further bound, for a smaller instance.                     *)
(***************************************************************************)
EXTENDS Inbox, TLC

CONSTANT Slices
VARIABLE slice

SenderOf == [m \in Messages |-> IF m <= 2 THEN 1 ELSE 2]
CustomerAndStaff == [m \in Messages |-> IF m = 1 THEN 1 ELSE 2]
Deliveries == [e \in Events |-> IF e = 1 THEN {1, 2} ELSE {e}]
AllMessages == [e \in Events |-> Messages]

Received(e) == events[e].status # "ABSENT"
LegacyAtRest == events[4].status = "RECEIVED" /\ ~Received(3) /\ ctx[1] = Opened(2)

\* No claim was given back or renewed by a person.
NoIntervention ==
    \A m \in Messages :
        jobs[m].claims <= jobs[m].attempts + IF jobs[m].status = "PENDING" THEN 0 ELSE 1
NoCalls == \A w \in Claimers : claim[w].pc \notin {"prepare", "call", "record"}
ContextFixed == \A c \in Conversations : ctx[c].data = 0 /\ ctx[c].epoch <= 1

InSlice ==
    \/ slice = "whole"
    \/ slice = "turns" /\ LegacyAtRest /\ ~Received(1)
    \/ slice = "order" /\ LegacyAtRest /\ NoIntervention /\ NoCalls /\ ContextFixed
    \/ /\ slice = "legacy" /\ ~Received(1) /\ ~Received(2) /\ ContextFixed
       /\ Cardinality({w \in Claimers : claim[w] # IdleClaim}) <= 1
       /\ \A m \in Messages : jobs[m].claims <= 2

MCInit == IInit /\ slice \in Slices /\ InSlice
MCNext == INext /\ UNCHANGED slice /\ InSlice'
MCSpec == MCInit /\ [][MCNext]_<<ivars, slice>>

Symmetry == Permutations(Claimers)
=============================================================================
