------------------------------ MODULE MCOutbox ------------------------------
(***************************************************************************)
(* A small instance of Outbox for TLC.  Pauses, retries and a second row   *)
(* multiply, so a behaviour stays in one slice of the instance:            *)
(*   pause     one row of any origin, two workers, everything people do;   *)
(*   payment   two rows about a receipt, one worker at a time, one claim;  *)
(*   delivery  two rows, two workers, three claims, no case.               *)
(*   whole     no further bound, for the smaller instances.                *)
(***************************************************************************)
EXTENDS Outbox, TLC

CONSTANT Slices
VARIABLE slice

Busy == {w \in Workers : job[w] # IdleJob \/ batch[w] # {}}
Receipts == {e \in Evidence : evidence[e].status # "NONE"}
Legacy(r) == outbox[r].status # "ABSENT" /\ outbox[r].origin = "NONE"

InSlice ==
    \/ slice = "whole"
    \/ slice = "pause" /\ outbox[2].status = "ABSENT"
    \/ /\ slice = "payment"
       /\ Cardinality(Receipts) <= 1 /\ Cardinality(Busy) <= 1
       /\ \A r \in Rows : outbox[r].claims <= 1 /\ ~Legacy(r)
       /\ \A c \in Conversations : conv[c].epoch <= 3 /\ conv[c].state # "RESOLVED"
    \/ /\ slice = "delivery"
       /\ Receipts = {} /\ \A i \in CaseIds : handoffs[i].status = "NONE"
       /\ \A r \in Rows : ~Legacy(r)
       /\ outbox[1].claims + outbox[2].claims <= 3
       /\ \A c \in Conversations : conv[c].epoch <= 1 /\ conv[c].state # "RESOLVED"

MCInit == OInit /\ slice \in Slices /\ InSlice
MCNext == ONext /\ UNCHANGED slice /\ InSlice'
MCSpec == MCInit /\ [][MCNext]_<<vars, slice>>

Symmetry == Permutations(Workers)
=============================================================================
