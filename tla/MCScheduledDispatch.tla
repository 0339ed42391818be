------------------------ MODULE MCScheduledDispatch ------------------------
(* Small instances of ScheduledDispatch for TLC. *)
EXTENDS ScheduledDispatch

CONSTANTS s1, h1, c1

\* A recurring schedule.
MCSchedules == {{1, 3}}
MCSaved == [t \in Tasks |-> "saved"]
MCHome == [t \in Tasks |-> s1]
MCHost == [t \in Tasks |-> h1]
=============================================================================
