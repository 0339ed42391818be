-------------------------- MODULE MCScheduledStore --------------------------
(* Small instances of ScheduledStore for TLC. *)
EXTENDS ScheduledStore

CONSTANTS s1, s2, h1, h2, c1

\* A recurring schedule.
MCRecurring == {{1, 2, 3}}
MCGoal == [t \in Tasks |-> "goal"]
MCSavedAndMonitor == [t \in Tasks |-> IF t = 1 THEN "saved" ELSE "monitor"]
MCHome == [t \in Tasks |-> s1]
MCMixedHome == [t \in Tasks |-> IF t = 1 THEN NoSession ELSE s1]
MCHost == [t \in Tasks |-> h1]
MCTwoHosts == [t \in Tasks |-> IF t = 1 THEN h1 ELSE h2]

\* Delivery without a user at the keyboard: edits, polls, runs and the clock.
Unattended == Edit \/ Goals \/ Running \/ Tick \/ \E i \in Ids : Consume(i)
UnattendedSpec == Init /\ [][Unattended]_vars

\* Goal work beside a user who sends prompts and rewinds, but removes nothing.
GoalWork ==
  \/ Goals \/ Running \/ Tick
  \/ \E s \in Sessions, g \in BOOLEAN : Enqueue(s, g)
  \/ \E i \in Ids : Consume(i)
  \/ \E s \in Sessions : PrepareRewind(s) \/ CompleteRewind(s)
GoalSpec == Init /\ [][GoalWork]_vars

\* Goal work beside a user who removes its prompts or the session, but neither types
\* nor rewinds.
Removing ==
  \/ Goals \/ Running \/ Tick
  \/ \E s \in Sessions : DeleteSession(s)
  \/ \E i \in Ids : Consume(i) \/ RemoveFind(i)
  \/ RemoveReadGoal \/ RemoveSaveGoal \/ RemoveStopWorker
  \/ RemoveCancel \/ RemoveDelete \/ RemoveAbandoned
RemovalSpec == Init /\ [][Removing]_vars
=============================================================================
