--------------------------- MODULE HostMaintenance ---------------------------
(***************************************************************************)
(* What host administration promises of a maintenance operation, whatever   *)
(* crashes, lost replies, outages and recoveries happen in between: it is    *)
(* prepared, claimed when no other one is under way, its mutation steps are  *)
(* executed in order and at most once, only while it is under way, and its   *)
(* end is final; it succeeds only after every step.                          *)
(***************************************************************************)
EXTENDS Naturals, Sequences

CONSTANTS Ops,      \* the operations
          Steps,    \* the number of mutation steps of each operation's plan
          Reboots   \* the operations whose final step is a reboot, which the
                    \* host may also have made on its own

VARIABLES phase,    \* where each operation stands
          executed  \* the mutation steps the host has started, in order

avars == <<phase, executed>>

Ends == {"succeeded", "failed", "interrupted"}
Phases == {"none", "prepared", "working", "gone"} \cup Ends

AInit == /\ phase = [o \in Ops |-> "none"]
         /\ executed = [o \in Ops |-> <<>>]

APrepare(o) == /\ phase[o] = "none"
               /\ phase' = [phase EXCEPT ![o] = "prepared"]
               /\ UNCHANGED executed

AClaim(o) == /\ phase[o] = "prepared"
             /\ \A p \in Ops : phase[p] # "working"
             /\ phase' = [phase EXCEPT ![o] = "working"]
             /\ UNCHANGED executed

AStep(o) == /\ phase[o] = "working"
            /\ Len(executed[o]) < Steps[o]
            /\ executed' = [executed EXCEPT ![o] = Append(@, Len(@) + 1)]
            /\ UNCHANGED phase

AEnd(o) == /\ phase[o] = "working"
           /\ \E e \in Ends :
                /\ e = "succeeded" => \/ Len(executed[o]) = Steps[o]
                                      \/ o \in Reboots /\ Len(executed[o]) = Steps[o] - 1
                /\ phase' = [phase EXCEPT ![o] = e]
           /\ UNCHANGED executed

ADelete(o) == /\ phase[o] \in Ends \cup {"prepared"}
              /\ phase' = [phase EXCEPT ![o] = "gone"]
              /\ executed' = [executed EXCEPT ![o] = <<>>]

ANext == \E o \in Ops : APrepare(o) \/ AClaim(o) \/ AStep(o) \/ AEnd(o) \/ ADelete(o)

ASpec == AInit /\ [][ANext]_avars
=============================================================================
