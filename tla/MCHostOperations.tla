-------------------------- MODULE MCHostOperations --------------------------
(* An ordinary operation and one that reboots its host. *)
EXTENDS HostOperations

CONSTANTS plain, reboot, h1

MCTarget == [o \in Ops |-> h1]
MCSteps == [o \in Ops |-> IF o = plain THEN 1 ELSE 2]
MCChecks == [o \in Ops |-> IF o = plain THEN 0 ELSE 1]
=============================================================================
