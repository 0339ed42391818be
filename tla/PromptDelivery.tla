--------------------------- MODULE PromptDelivery ---------------------------
(***************************************************************************)
(* What the store promises about queued prompts, whoever calls it and in   *)
(* whatever order: a prompt is accepted under a new id, and either becomes *)
(* a message, once and in its session's order (guidance first, then by     *)
(* age), or is withdrawn.  Nothing that left the queue comes back, and     *)
(* nothing that was accepted changes.                                      *)
(***************************************************************************)
EXTENDS Integers

CONSTANT MaxId     \* bound of the model: last row id

VARIABLES
  last,      \* the last id given out
  prompt,    \* the session of every prompt, and whether it is guidance
  waiting,   \* the prompts in the queue
  sent       \* the prompts that became messages

vars == <<last, prompt, waiting, sent>>

Init == last = 0 /\ waiting = {} /\ sent = {}

Goes(i, j) == \/ prompt[i].guidance /\ ~prompt[j].guidance
              \/ prompt[i].guidance = prompt[j].guidance /\ i < j

\* Prompts arrive and are withdrawn, several at a time.
Change ==
  /\ last' \in last..MaxId
  /\ waiting' \subseteq waiting \cup (last + 1)..last'
  /\ \A i \in 1..last : prompt'[i] = prompt[i]
  /\ UNCHANGED sent

Deliver(i) ==
  /\ i \in waiting \ sent
  /\ \A j \in waiting : prompt[j].session = prompt[i].session => j = i \/ Goes(i, j)
  /\ waiting' = waiting \ {i}
  /\ sent' = sent \cup {i}
  /\ UNCHANGED <<last, prompt>>

Next == Change \/ \E i \in 1..MaxId : Deliver(i)
Spec == Init /\ [][Next]_vars

=============================================================================
