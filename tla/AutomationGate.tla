--------------------------- MODULE AutomationGate ---------------------------
(***************************************************************************)
(* The promise of Conversation.automation_epoch, stated abstractly.        *)
(*                                                                         *)
(* A conversation is a switch that says whether automatic output is        *)
(* permitted, and an epoch.  Output is stamped with the epoch it was       *)
(* produced in and is worthless in any other, so the one thing that        *)
(* matters is that every change of the switch comes with a new epoch and   *)
(* that no epoch ever comes back.                                          *)
(***************************************************************************)
EXTENDS Naturals

CONSTANT Conversations

VARIABLES on, epoch

gvars == <<on, epoch>>

Init ==
    /\ on = [c \in Conversations |-> TRUE]
    /\ epoch = [c \in Conversations |-> 0]

\* The permission is given or withdrawn, or renewed without changing.
Rotate(c) ==
    /\ \E b \in BOOLEAN : on' = [on EXCEPT ![c] = b]
    /\ epoch'[c] > epoch[c]
    /\ \A d \in Conversations \ {c} : epoch'[d] = epoch[d]

Next == \E c \in Conversations : Rotate(c)

Spec == Init /\ [][Next]_gvars
=============================================================================
