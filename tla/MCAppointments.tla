--------------------------- MODULE MCAppointments ---------------------------
(***************************************************************************)
(* Small instances of Appointments for TLC.  The initial state chooses a   *)
(* slice: two customers who book and cancel while the calendar and the     *)
(* workers fail and days are closed, two conversations of one customer     *)
(* that race while days pass, or any two calls with no clock.              *)
(***************************************************************************)
EXTENDS Appointments, TLC

CONSTANT Slices
VARIABLE slice

\* The first two callers speak for one customer, the third for another.
CallerCustomer == [c \in Callers |-> IF c = 3 THEN "beto" ELSE "ana"]

NoClosedDays == holidays = {} /\ blocked = {}

InSlice ==
    CASE slice = "booking" -> /\ call[2] = Idle
                              /\ \A c \in Callers : call[c].op # "RESCHEDULE"
                              /\ now = 0
      [] slice = "race" -> /\ call[3] = Idle
                           /\ \A c \in Callers : call[c].pc # "flag"
                           /\ busy = {} /\ NoClosedDays
      [] slice = "moves" -> call[2] = Idle /\ busy = {} /\ NoClosedDays /\ now = 0

MCInit == slice \in Slices /\ AInit
MCNext == ANext /\ UNCHANGED slice /\ InSlice'
MCSpec == MCInit /\ [][MCNext]_<<avars, slice>>
=============================================================================
