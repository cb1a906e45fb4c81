--------------------------- MODULE MCReservation ---------------------------
(***************************************************************************)
(* Small instances of Reservation for TLC.  The initial state chooses one  *)
(* slice, which bounds what happens in the behaviour: races for a slot,    *)
(* edited plans, money and the clock, the calendar and its failures, or a  *)
(* rescheduling that races the calendar.                                   *)
(***************************************************************************)
EXTENDS Reservation, TLC

CONSTANT Slices
VARIABLE slice

Plain == [exclusive |-> FALSE, overnight |-> FALSE, weekend_only |-> FALSE, active |-> TRUE]
Exclusive == [Plain EXCEPT !.exclusive = TRUE]
AllSettings == {Plain, Exclusive, [Plain EXCEPT !.overnight = TRUE],
                [Plain EXCEPT !.weekend_only = TRUE], [Plain EXCEPT !.active = FALSE]}
HouseAndPlan == [p \in Plans |-> IF p = "house" THEN Exclusive ELSE Plain]
Cheap == [p \in Plans |-> 3000]
Day2 == [first |-> 0, checkin |-> 1, latest |-> 1, end |-> 2]

Bound(plans, rows, receipts, starts, amounts, requests) ==
    /\ Cardinality({e \in Evidence : ev[e].review # "ABSENT"}) <= receipts
    /\ Cardinality({h \in Handlers : job[h].pc # "idle"}) <= requests
    /\ \A h \in Handlers : job[h].pc # "idle" => /\ job[h].amount \in amounts \cup {0}
                                                /\ job[h].start \in starts \cup {0}
    /\ \A r \in Reservations : res[r].status # "ABSENT" => /\ res[r].plan \in plans
                                                           /\ res[r].start \in starts
                                                           /\ r <= rows
    /\ plan["plan"] = Plain

NoClock == now = 0
NoEdit == plan["house"] = Exclusive
NoStaffEvent == busy = {}
NoFault == abandoned = {} /\ \A e \in Evidence : ~ev[e].failed

InSlice ==
    CASE slice = "slots" -> /\ Bound({"house"}, 2, 2, {3, 4}, {2000}, 2)
                            /\ NoClock /\ NoEdit /\ NoStaffEvent /\ NoFault
      [] slice = "plans" -> /\ Bound({"house", "plan"}, 2, 2, {3}, {2000}, 1)
                            /\ \A e \in Evidence : ev[e].review # "REJECTED"
                            /\ \A r \in Reservations : res[r].status # "CANCELLED"
                            /\ NoClock /\ NoStaffEvent /\ NoFault
      [] slice = "money" -> /\ Bound({"plan"}, 1, 2, {2}, {1000, 2000}, 2)
                            /\ NoEdit /\ NoStaffEvent /\ abandoned = {}
      [] slice = "calendar" -> /\ Bound({"house"}, 1, 1, {2}, {2000}, 3)
                               /\ NoClock /\ NoEdit
                               /\ \A e \in Evidence : ~ev[e].failed
      [] slice = "moves" -> /\ Bound({"house"}, 1, 1, {2, 3}, {2000}, 2)
                            /\ NoClock /\ NoEdit /\ NoStaffEvent /\ NoFault

MCInit == slice \in Slices /\ RInit
MCNext == RNext /\ UNCHANGED slice /\ InSlice'
MCSpec == MCInit /\ [][MCNext]_<<rvars, slice>>

\* Symmetric in the requests that are in progress and in the receipts.
Symmetry == Permutations(Handlers) \cup Permutations(Evidence)
=============================================================================
