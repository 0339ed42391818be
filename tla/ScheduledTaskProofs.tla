------------------------ MODULE ScheduledTaskProofs ------------------------
(***************************************************************************)
(* The tasks of ScheduledStore and the prompts they have pending, for every *)
(* value of its constants: a monitor checks within its budget and lifetime, *)
(* a queued goal prompt is of the goal as it is, and no queued prompt is    *)
(* left without a task that may deliver it.                                 *)
(*                                                                         *)
(* MonitorFit and TaskFit say what holds of one task, Valid of one queued   *)
(* prompt.  Most passes only curb the work (Curbs): they start no check and *)
(* leave no prompt behind.  What curbs composes along a transaction; the    *)
(* poll and the statements of a removal and of a lease request, which are   *)
(* no transactions, are treated one by one.                                 *)
(***************************************************************************)
EXTENDS ScheduledGoalProofs

\* A monitor that may check again has budget and no check under way; it has had
\* no check before it is started, and no second time after the one that is due.
MonitorFit(d, t) ==
  Kind[t] = "monitor" =>
    /\ d.task[t].state = "new" => \A i \in Ids : d.runs[i].task # t
    /\ d.task[t].enabled => Live(d, t)
    /\ d.task[t].sched = {}
    /\ Live(d, t) => d.mon[t].left >= 0
    /\ d.task[t].enabled /\ d.task[t].next # NoTime => d.mon[t].left > 0 /\ ~HasActive(d, t)

\* A worker that is switched on works for the goal of its conversation as it is.
TaskFit(d, t) ==
  d.task[t].enabled =>
    /\ Live(d, t)
    /\ Kind[t] = "goal"
       => d.goal[Home[t]] = [status |-> "active", rev |-> d.worker[Home[t]].rev]

\* Only the run of a task is pending or under way.
Named(d, i) == d.runs[i].status \in Active => d.runs[i].task \in Tasks

\* The run of a prompt that a host may still deliver.
Unstarted(d, i) == d.runs[i].status \in {"queued", "claimed"}

\* The run of a queued prompt and its task are as they should be.  A goal's run may
\* have been cancelled by a lease request that has yet to delete the prompt.
Valid(d, i) ==
  LET t == d.runs[i].task
  IN  /\ Unstarted(d, i) \/ (Kind[t] = "goal" /\ d.runs[i].status = "cancelled")
      /\ Live(d, t) /\ d.task[t].enabled
      /\ Kind[t] = "goal"
         => d.goal[Home[t]] = [status |-> "active", rev |-> d.runs[i].grev]

\* Every queued prompt of a task is valid, those of X excepted that are no goal's.
Pending(d, X) ==
  \A i \in d.queue :
    Scheduled(d, i) /\ (i \notin X \/ Kind[d.runs[i].task] = "goal") => Valid(d, i)

\* No queued prompt of a goal is dead, those of the tasks in Y excepted.
Alive(d, Y) ==
  \A i \in d.queue :
    /\ Scheduled(d, i) /\ Kind[d.runs[i].task] = "goal" /\ d.runs[i].task \notin Y
    => Unstarted(d, i)

Keeps(d, e, i) == (Valid(d, i) => Valid(e, i)) /\ (Unstarted(d, i) => Unstarted(e, i))

\* A pass that starts no check, or none that is not due, and gives out no run.
Slows(d, e) ==
  /\ \A t \in Tasks : MonitorFit(d, t) => MonitorFit(e, t)
  /\ \A i \in Ids : e.runs[i].status = "claimed" => d.runs[i].status = "claimed"

\* A pass that leaves no queued prompt without its task, nor a worker without its goal.
Tidies(d, e) ==
  /\ \A t \in Tasks : TaskFit(d, t) => TaskFit(e, t)
  /\ \A i \in Ids : Named(d, i) => Named(e, i)
  /\ \A i \in e.queue : Scheduled(e, i) =>
       i \in d.queue /\ e.runs[i].task = d.runs[i].task /\ Keeps(d, e, i)

-----------------------------------------------------------------------------
(* The relations compose.                                                   *)

LEMMA SlowsTwice ==
  ASSUME NEW c, NEW d, NEW e, Slows(c, d), Slows(d, e)
  PROVE  Slows(c, e)
  BY DEF Slows

LEMMA TidiesTwice ==
  ASSUME NEW c, NEW d, NEW e, Tidies(c, d), Tidies(d, e)
  PROVE  Tidies(c, e)
  BY DEF Tidies, Scheduled, Keeps

LEMMA TidiesPending ==
  ASSUME NEW d, NEW e, NEW X, Tidies(d, e), Pending(d, X)
  PROVE  Pending(e, X)
  BY DEF Tidies, Pending, Scheduled, Keeps

LEMMA TidiesAlive ==
  ASSUME NEW d, NEW e, NEW Y, Tidies(d, e), Alive(d, Y)
  PROVE  Alive(e, Y)
  BY DEF Tidies, Alive, Scheduled, Keeps

\* A monitor whose runs only end, and that goes on as it was, is switched off or gone.
LEMMA MonitorRests ==
  ASSUME NEW d, NEW e, NEW t \in Tasks,
         \/ e.task[t].state = "gone" /\ ~e.task[t].enabled /\ e.task[t].sched = {}
         \/ /\ e.task[t].state = d.task[t].state /\ e.task[t].sched = d.task[t].sched
            /\ e.mon[t].left = d.mon[t].left \/ e.mon[t].left = 0
            /\ e.task[t].enabled => /\ d.task[t].enabled /\ e.mon[t].left = d.mon[t].left
                                    /\ e.task[t].next \in {d.task[t].next, NoTime},
         \A i \in Ids : \/ e.runs[i].task = NoTask
                        \/ /\ e.runs[i].task = d.runs[i].task
                           /\ e.runs[i].status \in Active => d.runs[i].status \in Active
  PROVE  MonitorFit(d, t) => MonitorFit(e, t)
<1>. SUFFICES ASSUME MonitorFit(d, t), Kind[t] = "monitor" PROVE MonitorFit(e, t)
  BY DEF MonitorFit
<1>1. \A i \in Ids : e.runs[i].task = t =>
        d.runs[i].task = t /\ (e.runs[i].status \in Active => d.runs[i].status \in Active)
  BY TasksAssumption DEF NoTask
<1>2. HasActive(e, t) => HasActive(d, t)
  BY <1>1 DEF HasActive, RunsOf
<1>3. (\A i \in Ids : d.runs[i].task # t) => \A i \in Ids : e.runs[i].task # t
  BY <1>1
<1>4. CASE e.task[t].state = "gone" /\ ~e.task[t].enabled /\ e.task[t].sched = {}
  BY <1>4 DEF MonitorFit, Live
<1>5. CASE /\ e.task[t].state = d.task[t].state /\ e.task[t].sched = d.task[t].sched
           /\ e.mon[t].left = d.mon[t].left \/ e.mon[t].left = 0
           /\ e.task[t].enabled => /\ d.task[t].enabled /\ e.mon[t].left = d.mon[t].left
                                   /\ e.task[t].next \in {d.task[t].next, NoTime}
  <2>1. Live(e, t) => e.mon[t].left >= 0
    BY <1>5 DEF MonitorFit, Live
  <2>. QED
    BY <1>2, <1>3, <1>5, <2>1 DEF MonitorFit, Live
<1>. QED
  BY <1>4, <1>5

-----------------------------------------------------------------------------
(* What the passes do to the fields that the relations speak of.            *)

Rest(d) == <<d.mon, d.goal, d.worker>>

LEMMA StatusFields ==
  ASSUME NEW d \in Database, NEW I, NEW st
  PROVE  /\ SetStatus(d, I, st).queue = d.queue /\ SetStatus(d, I, st).task = d.task
         /\ Rest(SetStatus(d, I, st)) = Rest(d)
         /\ \A i \in Ids : /\ SetStatus(d, I, st).runs[i].task = d.runs[i].task
                           /\ SetStatus(d, I, st).runs[i].grev = d.runs[i].grev
                           /\ SetStatus(d, I, st).runs[i].status =
                                IF i \in I THEN st ELSE d.runs[i].status
<1>. DEFINE f == [i \in Ids |-> IF i \in I THEN [d.runs[i] EXCEPT !.status = st, !.until = 0]
                                           ELSE d.runs[i]]
            e == [d EXCEPT !.runs = f]
<1>1. SetStatus(d, I, st) = e
  BY DEF SetStatus
<1>2. ASSUME NEW i \in Ids
      PROVE  /\ f[i].task = d.runs[i].task /\ f[i].grev = d.runs[i].grev
             /\ f[i].status = IF i \in I THEN st ELSE d.runs[i].status
  <2>1. d.runs[i] \in Runs
    BY DEF Database
  <2>. QED
    BY <2>1 DEF Runs
<1>. HIDE DEF f
<1>3. e.runs = f /\ e.queue = d.queue /\ e.task = d.task
      /\ e.mon = d.mon /\ e.goal = d.goal /\ e.worker = d.worker
  BY DEF Database
<1>. QED
  BY <1>1, <1>2, <1>3 DEF Rest

LEMMA CancelFields ==
  ASSUME NEW d \in Database, NEW T
  PROVE  LET e == CancelPending(d, T)
         IN  /\ e \in Database
             /\ e.queue = {i \in d.queue : d.runs[i].task \notin T} /\ e.task = d.task
             /\ Rest(e) = Rest(d)
             /\ \A i \in Ids : /\ e.runs[i].task = d.runs[i].task /\ e.runs[i].grev = d.runs[i].grev
                               /\ i \in e.queue => e.runs[i].status = d.runs[i].status
                               /\ e.runs[i].status \in {d.runs[i].status, "cancelled"}
<1>. DEFINE P == {i \in d.queue : d.runs[i].task \in T}
            s == SetStatus(d, P, "cancelled")
            e == CancelPending(d, T)
<1>1. /\ s.queue = d.queue /\ s.task = d.task /\ Rest(s) = Rest(d)
      /\ \A i \in Ids : /\ s.runs[i].task = d.runs[i].task /\ s.runs[i].grev = d.runs[i].grev
                        /\ s.runs[i].status = IF i \in P THEN "cancelled" ELSE d.runs[i].status
  BY StatusFields
<1>2. s \in Database
  BY SetStatusType DEF Ended
<1>3. e = [s EXCEPT !.queue = d.queue \ P] /\ e \in Database
  <2>1. Withdraws(d, e, 0)
    BY CancelPendingWithdraws
  <2>. QED
    BY <2>1 DEF CancelPending, Withdraws
<1>. HIDE DEF s, e
<1>4. e.queue = d.queue \ P /\ e.task = s.task /\ Rest(e) = Rest(s) /\ e.runs = s.runs
  BY <1>2, <1>3 DEF Database, Rest
<1>5. d.queue \ P = {i \in d.queue : d.runs[i].task \notin T}
  OBVIOUS
<1>6. \A i \in d.queue \ P : i \notin P
  OBVIOUS
<1>. HIDE DEF P
<1>. QED
  BY <1>1, <1>3, <1>4, <1>5, <1>6 DEF e

Stop(d, T, nx) == SetTasks(d, T, FALSE, nx)

LEMMA StopFields ==
  ASSUME NEW d \in Database, NEW T, NEW nx, NEW e, e = Stop(d, T, nx)
  PROVE  /\ e.queue = d.queue /\ e.runs = d.runs /\ Rest(e) = Rest(d)
         /\ \A t \in Tasks : /\ e.task[t].state = d.task[t].state
                             /\ e.task[t].sched = d.task[t].sched
                             /\ t \in T => ~e.task[t].enabled
                             /\ t \notin T => e.task[t].enabled = d.task[t].enabled
                             /\ e.task[t].next = IF t \in T THEN nx ELSE d.task[t].next
<1>. DEFINE f == [t \in Tasks |-> IF t \in T THEN [d.task[t] EXCEPT !.enabled = FALSE, !.next = nx]
                                             ELSE d.task[t]]
<1>1. e = [d EXCEPT !.task = f]
  BY DEF Stop, SetTasks
<1>2. ASSUME NEW t \in Tasks
      PROVE  /\ f[t].state = d.task[t].state /\ f[t].sched = d.task[t].sched
             /\ t \in T => ~f[t].enabled
             /\ t \notin T => f[t].enabled = d.task[t].enabled
             /\ f[t].next = IF t \in T THEN nx ELSE d.task[t].next
  <2>1. d.task[t] \in TaskRows
    BY DEF Database
  <2>. QED
    BY <2>1 DEF TaskRows
<1>. HIDE DEF f
<1>3. e.task = f /\ e.queue = d.queue /\ e.runs = d.runs /\ Rest(e) = Rest(d)
  BY <1>1 DEF Database, Rest
<1>. QED
  BY <1>2, <1>3

LEMMA NextFields ==
  ASSUME NEW d \in Database, NEW T, NEW nx, NEW e, e = SetNext(d, T, nx)
  PROVE  /\ e.queue = d.queue /\ e.runs = d.runs /\ Rest(e) = Rest(d)
         /\ \A t \in Tasks : /\ e.task[t].state = d.task[t].state
                             /\ e.task[t].sched = d.task[t].sched
                             /\ e.task[t].enabled = d.task[t].enabled
                             /\ e.task[t].next = IF t \in T THEN nx ELSE d.task[t].next
<1>. DEFINE f == [t \in Tasks |-> IF t \in T THEN [d.task[t] EXCEPT !.next = nx] ELSE d.task[t]]
<1>1. e = [d EXCEPT !.task = f]
  BY DEF SetNext
<1>2. ASSUME NEW t \in Tasks
      PROVE  /\ f[t].state = d.task[t].state /\ f[t].sched = d.task[t].sched
             /\ f[t].enabled = d.task[t].enabled
             /\ f[t].next = IF t \in T THEN nx ELSE d.task[t].next
  <2>1. d.task[t] \in TaskRows
    BY DEF Database
  <2>. QED
    BY <2>1 DEF TaskRows
<1>. HIDE DEF f
<1>3. e.task = f /\ e.queue = d.queue /\ e.runs = d.runs /\ Rest(e) = Rest(d)
  BY <1>1 DEF Database, Rest
<1>. QED
  BY <1>2, <1>3

LEMMA DropFields ==
  ASSUME NEW d \in Database, NEW T
  PROVE  LET e == DropTasks(d, T)
         IN  /\ e.queue = d.queue /\ e.goal = d.goal
             /\ \A t \in Tasks : IF t \in T
                                 THEN /\ e.task[t].state = "gone" /\ ~e.task[t].enabled
                                      /\ e.task[t].sched = {}
                                 ELSE e.task[t] = d.task[t] /\ e.mon[t] = d.mon[t]
             /\ \A i \in Ids : IF d.runs[i].task \in T THEN e.runs[i] = NoRun
                                                      ELSE e.runs[i] = d.runs[i]
             /\ \A s \in Sessions : \/ e.worker[s] = d.worker[s]
                                    \/ \E t \in T : IsGoalTask(t, s)
<1>. DEFINE tk == [t \in Tasks |-> IF t \in T
                      THEN [state |-> "gone", enabled |-> FALSE, next |-> NoTime, sched |-> {}]
                      ELSE d.task[t]]
            rn == [i \in Ids |-> IF d.runs[i].task \in T THEN NoRun ELSE d.runs[i]]
            mn == [t \in Tasks |-> IF t \in T THEN [left |-> 0, until |-> 0] ELSE d.mon[t]]
            wk == [s \in Sessions |-> IF \E t \in T : IsGoalTask(t, s) THEN NoWorker ELSE d.worker[s]]
            e == DropTasks(d, T)
<1>1. e = [d EXCEPT !.task = tk, !.runs = rn, !.mon = mn, !.worker = wk]
  BY DEF DropTasks
<1>2. /\ \A t \in Tasks : IF t \in T
                          THEN tk[t].state = "gone" /\ ~tk[t].enabled /\ tk[t].sched = {}
                          ELSE tk[t] = d.task[t] /\ mn[t] = d.mon[t]
      /\ \A i \in Ids : IF d.runs[i].task \in T THEN rn[i] = NoRun ELSE rn[i] = d.runs[i]
      /\ \A s \in Sessions : wk[s] = d.worker[s] \/ \E t \in T : IsGoalTask(t, s)
  OBVIOUS
<1>. HIDE DEF tk, rn, mn, wk, e
<1>3. /\ e.task = tk /\ e.runs = rn /\ e.mon = mn /\ e.worker = wk
      /\ e.queue = d.queue /\ e.goal = d.goal
  BY <1>1 DEF Database
<1>. QED
  BY <1>2, <1>3 DEF e

-----------------------------------------------------------------------------
(* The passes.                                                              *)

\* A pass that leaves tasks, monitors and the tasks of runs alone, starts no run and
\* takes no valid prompt's.
LEMMA SameTasks ==
  ASSUME NEW d, NEW e, e.task = d.task, Rest(e) = Rest(d),
         \A i \in Ids : /\ e.runs[i].task = d.runs[i].task
                        /\ e.runs[i].status \in Active => d.runs[i].status \in Active
  PROVE  /\ \A t \in Tasks : MonitorFit(d, t) => MonitorFit(e, t)
         /\ \A t \in Tasks : TaskFit(d, t) => TaskFit(e, t)
         /\ \A i \in Ids : Named(d, i) => Named(e, i)
<1>1. e.mon = d.mon /\ e.goal = d.goal /\ e.worker = d.worker
  BY DEF Rest
<1>2. \A t \in Tasks : MonitorFit(d, t) => MonitorFit(e, t)
  BY <1>1, MonitorRests
<1>3. \A t \in Tasks : TaskFit(d, t) => TaskFit(e, t)
  BY <1>1 DEF TaskFit, Live
<1>. QED
  BY <1>2, <1>3 DEF Named

\* A prompt whose run, task, goal and worker are as they were is as valid as it was.
LEMMA SameValid ==
  ASSUME NEW d, NEW e, NEW i, e.task[d.runs[i].task] = d.task[d.runs[i].task], e.goal = d.goal,
         e.runs[i].task = d.runs[i].task, e.runs[i].grev = d.runs[i].grev,
         Unstarted(d, i) => Unstarted(e, i),
         d.runs[i].status = "cancelled" => e.runs[i].status = "cancelled"
  PROVE  Keeps(d, e, i)
  BY DEF Keeps, Valid, Live

\* Fields that no relation speaks of.
LEMMA OtherTidies ==
  ASSUME NEW d, NEW e, e.task = d.task, Rest(e) = Rest(d), e.runs = d.runs,
         \A i \in e.queue : Scheduled(d, i) => i \in d.queue
  PROVE  Slows(d, e) /\ Tidies(d, e)
<1>1. e.goal = d.goal
  BY DEF Rest
<1>2. \A i \in e.queue : Scheduled(d, i) =>
        i \in d.queue /\ e.runs[i].task = d.runs[i].task /\ Keeps(d, e, i)
  BY <1>1, SameValid DEF Unstarted
<1>3. /\ \A t \in Tasks : MonitorFit(d, t) => MonitorFit(e, t)
      /\ \A t \in Tasks : TaskFit(d, t) => TaskFit(e, t)
      /\ \A i \in Ids : Named(d, i) => Named(e, i)
  BY SameTasks
<1>. QED
  BY <1>2, <1>3 DEF Slows, Tidies, Scheduled

\* Withdrawn prompts leave the queue with their runs.
LEMMA CancelTidies ==
  ASSUME NEW d \in Database, NEW T
  PROVE  Slows(d, CancelPending(d, T)) /\ Tidies(d, CancelPending(d, T))
<1>. DEFINE e == CancelPending(d, T)
<1>1. /\ e.queue \subseteq d.queue /\ d.queue \subseteq Ids /\ e.task = d.task /\ Rest(e) = Rest(d)
      /\ \A i \in Ids : /\ e.runs[i].task = d.runs[i].task /\ e.runs[i].grev = d.runs[i].grev
                        /\ i \in e.queue => e.runs[i].status = d.runs[i].status
                        /\ e.runs[i].status \in {d.runs[i].status, "cancelled"}
  <2>1. d.queue \subseteq Ids
    BY DEF Database
  <2>. QED
    BY <2>1, CancelFields
<1>. HIDE DEF e
<1>2. /\ \A t \in Tasks : MonitorFit(d, t) => MonitorFit(e, t)
      /\ \A t \in Tasks : TaskFit(d, t) => TaskFit(e, t)
      /\ \A i \in Ids : Named(d, i) => Named(e, i)
  <2>1. \A i \in Ids : e.runs[i].status \in Active => d.runs[i].status \in Active
    BY <1>1 DEF Active
  <2>. QED
    BY <1>1, <2>1, SameTasks
<1>3. \A i \in Ids : e.runs[i].status = "claimed" => d.runs[i].status = "claimed"
  BY <1>1
<1>4. e.goal = d.goal
  BY <1>1 DEF Rest
<1>5. \A i \in e.queue : Keeps(d, e, i)
  BY <1>1, <1>4, SameValid DEF Unstarted
<1>6. Slows(d, e) /\ Tidies(d, e)
  BY <1>1, <1>2, <1>3, <1>5 DEF Slows, Tidies
<1>. QED
  BY <1>6 DEF e

\* Tasks get another time.
LEMMA NextTidies ==
  ASSUME NEW d \in Database, NEW T, NEW nx
  PROVE  /\ Tidies(d, SetNext(d, T, nx))
         /\ (\A t \in T : t \in Tasks => Kind[t] # "monitor") => Slows(d, SetNext(d, T, nx))
<1>. DEFINE e == SetNext(d, T, nx)
<1>1. /\ e.queue = d.queue /\ e.runs = d.runs /\ Rest(e) = Rest(d)
      /\ \A t \in Tasks : /\ e.task[t].state = d.task[t].state
                          /\ e.task[t].sched = d.task[t].sched
                          /\ e.task[t].enabled = d.task[t].enabled
                          /\ e.task[t].next = IF t \in T THEN nx ELSE d.task[t].next
  BY NextFields
<1>. HIDE DEF e
<1>2. e.mon = d.mon /\ e.goal = d.goal /\ e.worker = d.worker
  BY <1>1 DEF Rest
<1>3. \A t \in Tasks : TaskFit(d, t) => TaskFit(e, t)
  BY <1>1, <1>2 DEF TaskFit, Live
<1>4. \A i \in e.queue : d.runs[i].task \in Tasks => Keeps(d, e, i)
  BY <1>1, <1>2 DEF Keeps, Valid, Unstarted, Live
<1>5. \A i \in e.queue : i \in Ids /\ (Scheduled(d, i) => d.runs[i].task \in Tasks)
  BY <1>1 DEF Database, Runs, Scheduled
<1>6. Tidies(d, e)
  BY <1>1, <1>3, <1>4, <1>5 DEF Tidies, Named, Scheduled
<1>7. ASSUME \A t \in T : t \in Tasks => Kind[t] # "monitor"
      PROVE  Slows(d, e)
  <2>1. ASSUME NEW t \in Tasks PROVE MonitorFit(d, t) => MonitorFit(e, t)
    <3>1. CASE Kind[t] = "monitor"
      <4>1. t \notin T
        BY <1>7, <3>1
      <4>. QED
        BY <1>1, <1>2, <4>1, MonitorRests
    <3>. QED
      BY <3>1 DEF MonitorFit
  <2>. QED
    BY <1>1, <2>1 DEF Slows
<1>. QED
  BY <1>6, <1>7 DEF e

\* Tasks are switched off with their prompts withdrawn.
LEMMA StopTidies ==
  ASSUME NEW d \in Database, NEW T, NEW U, NEW nx \in Nat \cup {NoTime}, U \subseteq T
  PROVE  LET e == Stop(CancelPending(d, T), U, nx)
         IN  e \in Database /\ Slows(d, e) /\ Tidies(d, e)
<1>. DEFINE c == CancelPending(d, T)
            e == Stop(c, U, nx)
<1>1. c \in Database /\ Slows(d, c) /\ Tidies(d, c) /\ \A i \in c.queue : c.runs[i].task \notin T
  <2>1. c.queue = {i \in d.queue : d.runs[i].task \notin T} /\ d.queue \subseteq Ids
        /\ \A i \in Ids : c.runs[i].task = d.runs[i].task
    <3>1. d.queue \subseteq Ids
      BY DEF Database
    <3>. QED
      BY <3>1, CancelFields
  <2>2. c \in Database
    BY CancelFields
  <2>. HIDE DEF c
  <2>3. \A i \in c.queue : c.runs[i].task \notin T
    BY <2>1
  <2>. QED
    BY <2>2, <2>3, CancelTidies DEF c
<1>. HIDE DEF c
<1>2. /\ e.queue = c.queue /\ e.runs = c.runs /\ Rest(e) = Rest(c)
      /\ \A t \in Tasks : /\ e.task[t].state = c.task[t].state
                          /\ e.task[t].sched = c.task[t].sched
                          /\ t \in U => ~e.task[t].enabled
                          /\ t \notin U => e.task[t].enabled = c.task[t].enabled
                          /\ e.task[t].next = IF t \in U THEN nx ELSE c.task[t].next
  BY <1>1, StopFields
<1>3. e \in Database
  <2>. DEFINE f == [t \in Tasks |-> IF t \in U THEN [c.task[t] EXCEPT !.enabled = FALSE, !.next = nx]
                                               ELSE c.task[t]]
  <2>1. \A t \in Tasks : c.task[t] \in TaskRows
    BY <1>1 DEF Database
  <2>2. \A t \in Tasks : f[t] \in TaskRows
    BY <2>1 DEF TaskRows
  <2>3. e = [c EXCEPT !.task = f] /\ f \in [Tasks -> TaskRows]
    BY <2>2 DEF Stop, SetTasks
  <2>. HIDE DEF f, e
  <2>. QED
    BY <1>1, <2>3 DEF Database
<1>. HIDE DEF e
<1>4. e.mon = c.mon /\ e.goal = c.goal /\ e.worker = c.worker
  BY <1>2 DEF Rest
<1>5. \A t \in Tasks : MonitorFit(c, t) => MonitorFit(e, t)
  BY <1>2, <1>4, MonitorRests
<1>6. \A t \in Tasks : TaskFit(c, t) => TaskFit(e, t)
  BY <1>2, <1>4 DEF TaskFit, Live
<1>7. \A i \in e.queue : i \in Ids /\ (Scheduled(c, i) => c.runs[i].task \in Tasks)
  BY <1>1, <1>2 DEF Database, Runs, Scheduled
<1>8. \A i \in e.queue : c.runs[i].task \in Tasks => Keeps(c, e, i)
  BY <1>1, <1>2, <1>4 DEF Keeps, Valid, Unstarted, Live
<1>9. Slows(c, e) /\ Tidies(c, e)
  BY <1>2, <1>5, <1>6, <1>7, <1>8 DEF Slows, Tidies, Named, Scheduled
<1>10. Slows(d, e) /\ Tidies(d, e)
  BY <1>1, <1>9, SlowsTwice, TidiesTwice
<1>. QED
  BY <1>3, <1>10 DEF e, c

\* Tasks are deleted; a worker goes only with the one task of its conversation's goal.
LEMMA DropTidies ==
  ASSUME NEW d \in Database, NEW T \in SUBSET Tasks
  PROVE  Slows(d, DropTasks(d, T)) /\ Tidies(d, DropTasks(d, T))
<1>. DEFINE e == DropTasks(d, T)
<1>1. /\ e.queue = d.queue /\ e.goal = d.goal
      /\ \A t \in Tasks : IF t \in T
                          THEN e.task[t].state = "gone" /\ ~e.task[t].enabled /\ e.task[t].sched = {}
                          ELSE e.task[t] = d.task[t] /\ e.mon[t] = d.mon[t]
      /\ \A i \in Ids : IF d.runs[i].task \in T THEN e.runs[i] = NoRun ELSE e.runs[i] = d.runs[i]
      /\ \A s \in Sessions : e.worker[s] = d.worker[s] \/ \E t \in T : IsGoalTask(t, s)
  BY DropFields
<1>. HIDE DEF e
<1>2. \A t \in Tasks : MonitorFit(d, t) => MonitorFit(e, t)
  BY <1>1, MonitorRests DEF NoRun
<1>3. ASSUME NEW t \in Tasks, TaskFit(d, t) PROVE TaskFit(e, t)
  <2>1. CASE t \in T
    BY <1>1, <2>1 DEF TaskFit
  <2>2. CASE t \notin T /\ Kind[t] = "goal"
    <3>1. Home[t] \in Sessions /\ \A u \in T : ~IsGoalTask(u, Home[t])
      BY <2>2, TasksAssumption DEF IsGoalTask
    <3>. QED
      BY <1>1, <1>3, <2>2, <3>1 DEF TaskFit, Live
  <2>3. CASE t \notin T /\ Kind[t] # "goal"
    BY <1>1, <1>3, <2>3 DEF TaskFit, Live
  <2>. QED
    BY <2>1, <2>2, <2>3
<1>4. \A i \in Ids : Named(d, i) => Named(e, i)
  BY <1>1 DEF Named, NoRun, Active
<1>5. \A i \in e.queue : i \in Ids /\ (Scheduled(d, i) => d.runs[i].task \in Tasks)
  BY <1>1 DEF Database, Runs, Scheduled
<1>6. \A i \in e.queue : Scheduled(e, i) => e.runs[i] = d.runs[i] /\ d.runs[i].task \in Tasks \ T
  BY <1>1, <1>5 DEF Scheduled, NoRun
<1>7. \A i \in e.queue : Scheduled(e, i) => Keeps(d, e, i)
  BY <1>1, <1>6 DEF Keeps, Valid, Unstarted, Live
<1>8. Slows(d, e) /\ Tidies(d, e)
  BY <1>1, <1>2, <1>3, <1>4, <1>6, <1>7 DEF Slows, Tidies, NoRun
<1>. QED
  BY <1>8 DEF e

\* cleanup_monitors stops the monitors that expired, and deletes spent ones.
LEMMA CleanupTidies ==
  ASSUME NEW d \in Database, NEW n
  PROVE  Slows(d, Cleanup(d, n)) /\ Tidies(d, Cleanup(d, n))
<1>. DEFINE E == {t \in Tasks : Kind[t] = "monitor" /\ Live(d, t) /\ d.mon[t].until <= n}
            e == Stop(CancelPending(d, E), E, NoTime)
<1>1. e \in Database /\ Slows(d, e) /\ Tidies(d, e)
  <2>. HIDE DEF E
  <2>. QED
    BY StopTidies
<1>2. ExpireMonitors(d, n) = e
  BY DEF ExpireMonitors, Stop
<1>. HIDE DEF e
<1>3. \E T \in SUBSET Tasks : Cleanup(d, n) = DropTasks(e, T)
  BY <1>2 DEF Cleanup, DropSpent
<1>. QED
  BY <1>1, <1>3, DropTidies, SlowsTwice, TidiesTwice

\* yield_goal_pending withdraws a goal's prompt and puts the worker off.
LEMMA YieldTidies ==
  ASSUME NEW d \in Database, NEW s, NEW n
  PROVE  Slows(d, YieldGoal(d, s, n)) /\ Tidies(d, YieldGoal(d, s, n))
<1>. DEFINE G == GoalWaits(d, s)
            H == {t \in G : d.task[t].enabled}
            c == CancelPending(d, G)
<1>1. YieldGoal(d, s, n) = SetNext(c, H, n + 1)
  BY DEF YieldGoal
<1>2. \A t \in H : Kind[t] # "monitor"
  BY DEF GoalWaits, IsGoalTask
<1>. HIDE DEF G, H
<1>3. c \in Database /\ Slows(d, c) /\ Tidies(d, c)
  BY CancelTidies, CancelFields
<1>. HIDE DEF c
<1>. QED
  BY <1>1, <1>2, <1>3, NextTidies, SlowsTwice, TidiesTwice

-----------------------------------------------------------------------------
(* The commands on tasks and goals.                                         *)

Curbs(d, e) == Slows(d, e) /\ Tidies(d, e)

LEMMA CurbsTwice ==
  ASSUME NEW c, NEW d, NEW e, Curbs(c, d), Curbs(d, e)
  PROVE  Curbs(c, e)
  BY SlowsTwice, TidiesTwice DEF Curbs

LEMMA CleanupCurbs ==
  ASSUME NEW c, NEW d \in Database, Curbs(c, d), NEW n
  PROVE  Curbs(c, Cleanup(d, n))
  BY CleanupTidies, SlowsTwice, TidiesTwice DEF Curbs

\* A saved task is written.  If it is switched off, it has no valid prompt.
LEMMA RowCurbs ==
  ASSUME NEW d \in Database, NEW e, NEW t \in Tasks, Kind[t] = "saved",
         e.queue = d.queue, e.runs = d.runs, Rest(e) = Rest(d), e.task[t].state = "live",
         \A u \in Tasks : u # t => e.task[u] = d.task[u],
         \A i \in d.queue : d.runs[i].task = t => ~Live(d, t) \/ e.task[t].enabled
  PROVE  Curbs(d, e)
<1>1. e.mon = d.mon /\ e.goal = d.goal /\ e.worker = d.worker
  BY DEF Rest
<1>2. ASSUME NEW u \in Tasks PROVE MonitorFit(d, u) => MonitorFit(e, u)
  <2>1. CASE u = t
    BY <2>1 DEF MonitorFit
  <2>2. CASE u # t
    BY <1>1, <2>2, MonitorRests
  <2>. QED
    BY <2>1, <2>2
<1>3. ASSUME NEW u \in Tasks PROVE TaskFit(d, u) => TaskFit(e, u)
  BY <1>1 DEF TaskFit, Live
<1>4. ASSUME NEW i \in e.queue, Scheduled(e, i) PROVE Keeps(d, e, i)
  <2>1. d.runs[i].task \in Tasks
    BY <1>4 DEF Scheduled, Database, Runs
  <2>2. CASE d.runs[i].task = t
    BY <1>1, <1>4, <2>2 DEF Keeps, Valid, Unstarted, Live
  <2>3. CASE d.runs[i].task # t
    BY <1>1, <1>4, <2>1, <2>3 DEF Keeps, Valid, Unstarted, Live
  <2>. QED
    BY <2>2, <2>3
<1>. QED
  BY <1>2, <1>3, <1>4 DEF Curbs, Slows, Tidies, Named

\* A monitor is started that had no checks.
LEMMA StartMonitorCurbs ==
  ASSUME db \in Database, now \in Nat, NEW t \in Tasks, NEW delay \in Delays, NEW checks \in Checks,
         StartMonitor(t, delay, checks)
  PROVE  Curbs(db, db')
<1>. DEFINE row == [state |-> "live", enabled |-> TRUE, next |-> now + delay, sched |-> {}]
            m == [left |-> checks, until |-> now + MonitorLife]
            d == [db EXCEPT !.task[t] = row]
            e == [d EXCEPT !.mon[t] = m]
<1>1. row \in TaskRows /\ m \in [left : Int, until : Nat] /\ checks > 0
  BY TimesAssumption DEF TaskRows
<1>2. Kind[t] = "monitor" /\ db.task[t].state = "new" /\ db' = Cleanup(e, now)
  BY DEF StartMonitor, Save
<1>. HIDE DEF row, m
<1>3. /\ d \in Database /\ d.task = [db.task EXCEPT ![t] = row]
      /\ d.queue = db.queue /\ d.runs = db.runs /\ Rest(d) = Rest(db)
  BY <1>1 DEF Database, Rest
<1>. HIDE DEF d
<1>4. /\ e \in Database /\ e.mon = [d.mon EXCEPT ![t] = m]
      /\ e.queue = d.queue /\ e.runs = d.runs /\ e.task = d.task /\ e.goal = d.goal /\ e.worker = d.worker
  BY <1>1, <1>3 DEF Database
<1>. HIDE DEF e
<1>5. d.mon = db.mon /\ d.goal = db.goal /\ d.worker = db.worker
  BY <1>3 DEF Rest
<1>6. /\ e.task[t] = row /\ e.mon[t] = m
      /\ \A u \in Tasks : u # t => e.task[u] = db.task[u] /\ e.mon[u] = db.mon[u]
  BY <1>3, <1>4, <1>5 DEF Database
<1>7. ASSUME NEW u \in Tasks, MonitorFit(db, u) PROVE MonitorFit(e, u)
  <2>1. CASE u = t
    <3>1. \A i \in Ids : e.runs[i].task # t
      BY <1>2, <1>3, <1>4, <1>7, <2>1 DEF MonitorFit
    <3>2. ~HasActive(e, t)
      BY <3>1 DEF HasActive, RunsOf
    <3>3. e.task[t].state = "live" /\ e.task[t].sched = {} /\ e.mon[t].left = checks
      BY <1>6 DEF row, m
    <3>4. checks >= 0
      BY <1>1, TimesAssumption
    <3>. QED
      BY <1>1, <2>1, <3>2, <3>3, <3>4 DEF MonitorFit, Live
  <2>2. CASE u # t
    <3>1. e.task[u] = db.task[u] /\ e.mon[u] = db.mon[u] /\ e.runs = db.runs
      BY <1>3, <1>4, <1>6, <2>2
    <3>. QED
      BY <1>7, <3>1, MonitorRests
  <2>. QED
    BY <2>1, <2>2
<1>8. ASSUME NEW u \in Tasks, TaskFit(db, u) PROVE TaskFit(e, u)
  <2>1. CASE u = t
    BY <1>2, <1>6, <2>1 DEF TaskFit, Live, row
  <2>2. CASE u # t
    BY <1>4, <1>5, <1>6, <1>8, <2>2 DEF TaskFit, Live
  <2>. QED
    BY <2>1, <2>2
<1>9. ASSUME NEW i \in e.queue, Scheduled(e, i), Valid(db, i) PROVE Valid(e, i)
  <2>1. db.runs[i].task \in Tasks /\ e.runs = db.runs
    BY <1>3, <1>4, <1>9 DEF Scheduled, Database, Runs
  <2>2. db.runs[i].task # t
    BY <1>2, <1>9 DEF Valid, Live
  <2>3. e.task[db.runs[i].task] = db.task[db.runs[i].task]
    BY <1>6, <2>1, <2>2
  <2>4. e.goal = db.goal
    BY <1>4, <1>5
  <2>. QED
    BY <1>9, <2>1, <2>3, <2>4 DEF Valid, Unstarted, Live
<1>10. Curbs(db, e)
  BY <1>3, <1>4, <1>7, <1>8, <1>9 DEF Curbs, Slows, Tidies, Keeps, Unstarted, Named
<1>. QED
  BY <1>2, <1>4, <1>10, CleanupCurbs

LEMMA EditCurbs == ASSUME db \in Database, now \in Nat, Edit PROVE Curbs(db, db')
<1>1. PICK t \in Tasks :
        \/ \E sch \in Schedules, en \in BOOLEAN : CreateTask(t, sch, en) \/ UpdateTask(t, sch, en)
        \/ EnableTask(t) \/ DisableTask(t) \/ DeleteTask(t)
        \/ \E delay \in Delays, checks \in Checks : StartMonitor(t, delay, checks)
        \/ CancelMonitor(t)
  BY DEF Edit
<1>. DEFINE P == CancelPending(db, {t})
<1>2. /\ P \in Database /\ Curbs(db, P)
      /\ P.queue = {i \in db.queue : db.runs[i].task \notin {t}} /\ P.task = db.task
      /\ \A i \in Ids : P.runs[i].task = db.runs[i].task
  BY CancelFields, CancelTidies DEF Curbs
<1>. HIDE DEF P
<1>3. db.queue \subseteq Ids /\ db.task[t] \in TaskRows
  BY DEF Database
<1>4. \A i \in P.queue : P.runs[i].task # t
  BY <1>2, <1>3
<1>5. ASSUME NEW sch \in Schedules, NEW en \in BOOLEAN, CreateTask(t, sch, en)
      PROVE  Curbs(db, db')
  <2>. DEFINE row == [state |-> "live", enabled |-> en, next |-> NextAfter(sch, now), sched |-> sch]
              e == [db EXCEPT !.task[t] = row]
  <2>1. /\ sch \in SUBSET Nat /\ Kind[t] = "saved" /\ db.task[t].state = "new"
        /\ NextAfter(sch, now) # NoTime /\ db' = Cleanup(e, now)
    BY <1>5, TimesAssumption DEF CreateTask, Save
  <2>2. row \in TaskRows /\ row.state = "live"
    BY <2>1, NextAfterLater DEF TaskRows
  <2>. HIDE DEF row
  <2>3. /\ e \in Database /\ e.task = [db.task EXCEPT ![t] = row]
        /\ e.queue = db.queue /\ e.runs = db.runs /\ Rest(e) = Rest(db)
    BY <2>2 DEF Database, Rest
  <2>. HIDE DEF e
  <2>4. e.task[t] = row /\ \A u \in Tasks : u # t => e.task[u] = db.task[u]
    BY <2>3 DEF Database
  <2>5. ~Live(db, t)
    BY <2>1 DEF Live
  <2>6. Curbs(db, e)
    <3>1. e.task[t].state = "live" /\ \A i \in db.queue : db.runs[i].task = t => ~Live(db, t)
      BY <2>2, <2>4, <2>5
    <3>2. \A i \in db.queue : db.runs[i].task = t => ~Live(db, t) \/ e.task[t].enabled
      BY <3>1
    <3>3. Kind[t] = "saved" /\ db \in Database
      BY <2>1
    <3>4. e.queue = db.queue /\ e.runs = db.runs /\ Rest(e) = Rest(db)
      BY <2>3
    <3>. QED
      BY <2>4, <3>1, <3>2, <3>3, <3>4, RowCurbs
  <2>. QED
    BY <2>1, <2>3, <2>6, CleanupCurbs
<1>6. ASSUME NEW sch \in Schedules, NEW en \in BOOLEAN, UpdateTask(t, sch, en)
      PROVE  Curbs(db, db')
  <2>. DEFINE row == [state |-> "live", enabled |-> en, next |-> NextAfter(sch, now), sched |-> sch]
              e == [P EXCEPT !.task[t] = row]
  <2>1. /\ sch \in SUBSET Nat /\ Kind[t] = "saved"
        /\ NextAfter(sch, now) # NoTime /\ db' = Cleanup(e, now)
    BY <1>6, TimesAssumption DEF UpdateTask, P
  <2>2. row \in TaskRows /\ row.state = "live"
    BY <2>1, NextAfterLater DEF TaskRows
  <2>. HIDE DEF row
  <2>3. /\ e \in Database /\ e.task = [P.task EXCEPT ![t] = row]
        /\ e.queue = P.queue /\ e.runs = P.runs /\ Rest(e) = Rest(P)
    BY <1>2, <2>2 DEF Database, Rest
  <2>. HIDE DEF e
  <2>4. e.task[t] = row /\ \A u \in Tasks : u # t => e.task[u] = P.task[u]
    BY <1>2, <2>3 DEF Database
  <2>5. Curbs(P, e)
    <3>1. e.task[t].state = "live" /\ \A i \in P.queue : P.runs[i].task = t => ~Live(P, t)
      BY <1>4, <2>2, <2>4
    <3>2. \A i \in P.queue : P.runs[i].task = t => ~Live(P, t) \/ e.task[t].enabled
      BY <3>1
    <3>. QED
      BY <1>2, <2>1, <2>3, <2>4, <3>1, <3>2, RowCurbs
  <2>. QED
    BY <1>2, <2>1, <2>3, <2>5, CurbsTwice, CleanupCurbs
<1>7. CASE EnableTask(t)
  <2>. DEFINE nx == NextAfter(db.task[t].sched, now)
              f == [u \in Tasks |-> IF u \in {t} THEN [db.task[u] EXCEPT !.enabled = TRUE, !.next = nx]
                                                 ELSE db.task[u]]
              e == [db EXCEPT !.task = f]
  <2>1. /\ Kind[t] = "saved" /\ Live(db, t) /\ nx # NoTime
        /\ db' = Cleanup(SetTasks(db, {t}, TRUE, nx), now)
    BY <1>7 DEF EnableTask
  <2>2. db' = Cleanup(e, now)
    BY <2>1 DEF SetTasks
  <2>3. db.task[t].sched \in SUBSET Nat
    BY <1>3 DEF TaskRows
  <2>4. nx \in Nat \cup {NoTime}
    BY <2>3, NextAfterLater
  <2>. HIDE DEF nx
  <2>5. /\ f[t] \in TaskRows /\ f[t].enabled = TRUE /\ f[t].state = db.task[t].state
        /\ \A u \in Tasks : u # t => f[u] = db.task[u]
    BY <1>3, <2>4 DEF TaskRows
  <2>6. f \in [Tasks -> TaskRows]
    BY <2>5 DEF Database
  <2>. HIDE DEF f
  <2>7. /\ e \in Database /\ e.task = f
        /\ e.queue = db.queue /\ e.runs = db.runs /\ Rest(e) = Rest(db)
    BY <2>6 DEF Database, Rest
  <2>. HIDE DEF e
  <2>8. Curbs(db, e)
    <3>1. e.task[t].state = "live" /\ e.task[t].enabled
      BY <2>1, <2>5, <2>7 DEF Live
    <3>. QED
      BY <2>1, <2>5, <2>7, <3>1, RowCurbs
  <2>. QED
    BY <2>2, <2>7, <2>8, CleanupCurbs
<1>8. ASSUME NEW nx, nx = db.task[t].next
      PROVE  LET e == SetTasks(P, {t}, FALSE, nx) IN e \in Database /\ Curbs(db, e)
  <2>1. nx \in Nat \cup {NoTime}
    BY <1>3, <1>8 DEF TaskRows
  <2>. QED
    BY <2>1, StopTidies DEF Curbs, Stop, P
<1>9. CASE DisableTask(t)
  <2>1. db' = Cleanup(SetTasks(P, {t}, FALSE, db.task[t].next), now)
    BY <1>9 DEF DisableTask, P
  <2>. QED
    BY <1>8, <2>1, CleanupCurbs
<1>10. CASE DeleteTask(t)
  <2>1. db' = Cleanup(DropTasks(P, {t}), now)
    BY <1>10 DEF DeleteTask, P
  <2>2. DropTasks(P, {t}) \in Database
    BY <1>2, DropTasksWithdraws DEF Withdraws
  <2>3. Curbs(P, DropTasks(P, {t}))
    BY <1>2, DropTidies DEF Curbs
  <2>. QED
    BY <1>2, <2>1, <2>2, <2>3, CurbsTwice, CleanupCurbs
<1>11. CASE CancelMonitor(t)
  <2>. DEFINE d == Stop(P, {t}, db.task[t].next)
              e == [d EXCEPT !.mon[t].left = 0]
  <2>1. Kind[t] = "monitor" /\ db' = Cleanup(e, now)
    BY <1>11 DEF CancelMonitor, P, Stop
  <2>2. d \in Database /\ Curbs(db, d)
    BY <1>8 DEF Stop
  <2>3. ~d.task[t].enabled
    BY <1>2, StopFields
  <2>. HIDE DEF d
  <2>4. [d.mon EXCEPT ![t].left = 0] \in [Tasks -> [left : Int, until : Nat]]
    <3>1. d.mon \in [Tasks -> [left : Int, until : Nat]]
      BY <2>2 DEF Database
    <3>2. [d.mon[t] EXCEPT !.left = 0] \in [left : Int, until : Nat]
      BY <3>1
    <3>. QED
      BY <3>1, <3>2
  <2>5. /\ e \in Database /\ e.mon = [d.mon EXCEPT ![t].left = 0] /\ e.task = d.task
        /\ e.queue = d.queue /\ e.runs = d.runs /\ e.goal = d.goal /\ e.worker = d.worker
    BY <2>2, <2>4 DEF Database
  <2>6. e.mon[t].left = 0 /\ \A u \in Tasks : u # t => e.mon[u] = d.mon[u]
    BY <2>2, <2>5 DEF Database
  <2>. HIDE DEF e
  <2>7. \A u \in Tasks : MonitorFit(d, u) => MonitorFit(e, u)
    BY <2>3, <2>5, <2>6, MonitorRests
  <2>8. \A u \in Tasks : TaskFit(d, u) => TaskFit(e, u)
    BY <2>5 DEF TaskFit, Live
  <2>9. \A i \in e.queue : Keeps(d, e, i)
    BY <2>5 DEF Keeps, Valid, Unstarted, Live
  <2>10. Curbs(d, e)
    BY <2>5, <2>7, <2>8, <2>9 DEF Curbs, Slows, Tidies, Named
  <2>. QED
    BY <2>1, <2>2, <2>5, <2>10, CurbsTwice, CleanupCurbs
<1>12. CASE \E delay \in Delays, checks \in Checks : StartMonitor(t, delay, checks)
  BY <1>12, StartMonitorCurbs
<1>. QED
  BY <1>1, <1>5, <1>6, <1>7, <1>9, <1>10, <1>11, <1>12

\* A command gives the goal's worker the goal's new revision, or stops it, and
\* withdraws the prompts it made.
LEMMA GoalCommandCurbs ==
  ASSUME db \in Database, NEW s \in Sessions, NEW status \in {"active", "paused", "completed"},
         NEW from, GoalCommand(s, status, from)
  PROVE  Curbs(db, db')
<1>. DEFINE G == {t \in Tasks : IsGoalTask(t, s)}
            c == CancelPending(db, G)
            r == Revised(db.goal[s], status)
            d == [c EXCEPT !.goal[s] = r]
            on == [state |-> "live", enabled |-> TRUE, next |-> now + 1, sched |-> {}]
            tk == [t \in Tasks |-> IF t \in G THEN on ELSE d.task[t]]
            wk == [rev |-> d.goal[s].rev, turns |-> 0, stalls |-> 0]
            e == [d EXCEPT !.task = tk, !.worker[s] = wk]
            L == {t \in G : Live(d, t)}
            z == Stop(d, L, NoTime)
<1>1. c \in Database /\ Curbs(db, c) /\ \A i \in c.queue : c.runs[i].task \notin G
  <2>1. /\ c.queue = {i \in db.queue : db.runs[i].task \notin G} /\ db.queue \subseteq Ids
        /\ \A i \in Ids : c.runs[i].task = db.runs[i].task
    <3>1. db.queue \subseteq Ids
      BY DEF Database
    <3>. QED
      BY <3>1, CancelFields
  <2>2. c \in Database /\ Curbs(db, c)
    BY CancelFields, CancelTidies DEF Curbs
  <2>. HIDE DEF c, G
  <2>. QED
    BY <2>1, <2>2
<1>2. \/ status = "active" /\ db' = e
      \/ status # "active" /\ db' = z
  BY DEF GoalCommand, Stop
<1>3. \A t \in Tasks : /\ t \in G <=> Kind[t] = "goal" /\ Home[t] = s
  BY DEF IsGoalTask
<1>4. \A i \in c.queue : i \in Ids /\ (Scheduled(c, i) => c.runs[i].task \in Tasks)
  BY <1>1 DEF Database, Runs, Scheduled
<1>5. r = [status |-> status, rev |-> r.rev] /\ r.rev \in Nat
  <2>1. db.goal[s].rev \in Nat
    BY DEF Database
  <2>. QED
    BY <2>1 DEF Revised
<1>. HIDE DEF c, G, r
<1>6. /\ d \in Database /\ d.goal = [c.goal EXCEPT ![s] = r]
      /\ d.queue = c.queue /\ d.runs = c.runs /\ d.task = c.task /\ d.mon = c.mon /\ d.worker = c.worker
  <2>1. r \in [status : {"none", "active", "paused", "completed"}, rev : Nat]
    BY <1>5
  <2>2. [c.goal EXCEPT ![s] = r] \in [Sessions -> [status : {"none", "active", "paused", "completed"},
                                                  rev : Nat]]
    BY <1>1, <2>1 DEF Database
  <2>3. d = [c EXCEPT !.goal = [c.goal EXCEPT ![s] = r]]
    BY <1>1 DEF Database
  <2>. HIDE DEF d
  <2>. QED
    BY <1>1, <2>2, <2>3 DEF Database
<1>7. d.goal[s] = r /\ \A q \in Sessions : q # s => d.goal[q] = c.goal[q]
  BY <1>1, <1>6 DEF Database
<1>. HIDE DEF d
<1>8. \A t \in Tasks : Kind[t] = "goal" => Home[t] \in Sessions
  BY TasksAssumption
<1>9. CASE status = "active"
  <2>1. /\ e.task = tk /\ e.worker = [d.worker EXCEPT ![s] = wk]
        /\ e.queue = c.queue /\ e.runs = c.runs /\ e.mon = c.mon /\ e.goal = d.goal
    BY <1>6 DEF Database
  <2>2. /\ \A t \in G : t \in Tasks => e.task[t] = on
        /\ \A t \in Tasks \ G : e.task[t] = c.task[t]
        /\ e.worker[s].rev = r.rev
        /\ \A q \in Sessions : q # s => e.worker[q] = c.worker[q]
    <3>1. d.worker \in [Sessions -> [rev : Nat, turns : Nat, stalls : Nat]]
      BY <1>6 DEF Database
    <3>. QED
      BY <1>6, <1>7, <2>1, <3>1
  <2>3. on.state = "live" /\ on.enabled
    OBVIOUS
  <2>. HIDE DEF on, e, tk, wk
  <2>4. ASSUME NEW t \in Tasks, MonitorFit(c, t) PROVE MonitorFit(e, t)
    <3>1. CASE t \in G
      BY <1>3, <3>1 DEF MonitorFit
    <3>2. CASE t \notin G
      BY <2>1, <2>2, <2>4, <3>2, MonitorRests
    <3>. QED
      BY <3>1, <3>2
  <2>5. ASSUME NEW t \in Tasks, TaskFit(c, t) PROVE TaskFit(e, t)
    <3>1. CASE t \in G
      <4>1. Home[t] = s /\ e.goal[s] = [status |-> "active", rev |-> e.worker[s].rev]
        BY <1>3, <1>5, <1>7, <1>9, <2>1, <2>2, <3>1
      <4>2. Live(e, t)
        BY <2>2, <2>3, <3>1 DEF Live
      <4>. QED
        BY <4>1, <4>2 DEF TaskFit
    <3>2. CASE t \notin G
      <4>1. e.task[t] = c.task[t] /\ (Kind[t] = "goal" => Home[t] \in Sessions /\ Home[t] # s)
        BY <1>3, <1>8, <2>2, <3>2
      <4>2. Kind[t] = "goal" => e.goal[Home[t]] = c.goal[Home[t]] /\ e.worker[Home[t]] = c.worker[Home[t]]
        BY <1>7, <2>1, <2>2, <4>1
      <4>. QED
        BY <2>5, <4>1, <4>2 DEF TaskFit, Live
    <3>. QED
      BY <3>1, <3>2
  <2>6. ASSUME NEW i \in e.queue, Scheduled(e, i) PROVE Keeps(c, e, i)
    <3>1. i \in c.queue /\ c.runs[i].task \in Tasks \ G /\ e.runs[i] = c.runs[i]
      BY <1>1, <1>4, <2>1, <2>6 DEF Scheduled
    <3>2. Kind[c.runs[i].task] = "goal" => e.goal[Home[c.runs[i].task]] = c.goal[Home[c.runs[i].task]]
      BY <1>3, <1>7, <1>8, <2>1, <3>1
    <3>3. e.task[c.runs[i].task] = c.task[c.runs[i].task]
      BY <2>2, <3>1
    <3>. QED
      BY <2>6, <3>1, <3>2, <3>3 DEF Keeps, Valid, Unstarted, Live
  <2>7. Curbs(c, e)
    BY <2>1, <2>4, <2>5, <2>6 DEF Curbs, Slows, Tidies, Named
  <2>. QED
    BY <1>1, <1>2, <1>9, <2>7, CurbsTwice
<1>10. CASE status # "active"
  <2>1. /\ z.queue = d.queue /\ z.runs = d.runs /\ Rest(z) = Rest(d)
        /\ \A t \in Tasks : /\ z.task[t].state = d.task[t].state
                            /\ z.task[t].sched = d.task[t].sched
                            /\ t \in L => ~z.task[t].enabled
                            /\ t \notin L => z.task[t].enabled = d.task[t].enabled
                            /\ z.task[t].next = IF t \in L THEN NoTime ELSE d.task[t].next
    <3>. HIDE DEF L
    <3>. QED
      BY <1>6, StopFields
  <2>. HIDE DEF z
  <2>2. z.mon = c.mon /\ z.goal = d.goal /\ z.worker = c.worker
    BY <1>6, <2>1 DEF Rest
  <2>3. \A t \in Tasks : MonitorFit(c, t) => MonitorFit(z, t)
    BY <1>6, <2>1, <2>2, MonitorRests
  <2>4. ASSUME NEW t \in Tasks, TaskFit(c, t) PROVE TaskFit(z, t)
    <3>1. CASE t \in G
      BY <1>6, <2>1, <2>4, <3>1 DEF TaskFit, Live
    <3>2. CASE t \notin G
      <4>1. Kind[t] = "goal" => Home[t] \in Sessions /\ Home[t] # s
        BY <1>3, <1>8, <3>2
      <4>2. Kind[t] = "goal" => z.goal[Home[t]] = c.goal[Home[t]]
        BY <1>7, <2>2, <4>1
      <4>3. z.task[t].enabled = c.task[t].enabled /\ z.task[t].state = c.task[t].state
        BY <1>6, <2>1, <3>2
      <4>. QED
        BY <2>2, <2>4, <4>2, <4>3 DEF TaskFit, Live
    <3>. QED
      BY <3>1, <3>2
  <2>5. ASSUME NEW i \in z.queue, Scheduled(z, i) PROVE Keeps(c, z, i)
    <3>1. i \in c.queue /\ c.runs[i].task \in Tasks \ G /\ z.runs[i] = c.runs[i]
      BY <1>1, <1>4, <1>6, <2>1, <2>5 DEF Scheduled
    <3>2. Kind[c.runs[i].task] = "goal" => z.goal[Home[c.runs[i].task]] = c.goal[Home[c.runs[i].task]]
      BY <1>3, <1>7, <1>8, <2>2, <3>1
    <3>3. c.runs[i].task \notin L
      BY <3>1
    <3>4. /\ z.task[c.runs[i].task].state = c.task[c.runs[i].task].state
          /\ z.task[c.runs[i].task].enabled = c.task[c.runs[i].task].enabled
      BY <1>6, <2>1, <3>1, <3>3
    <3>. QED
      BY <2>5, <3>1, <3>2, <3>4 DEF Keeps, Valid, Unstarted, Live
  <2>6. Curbs(c, z)
    BY <1>6, <2>1, <2>3, <2>4, <2>5 DEF Curbs, Slows, Tidies, Named
  <2>. QED
    BY <1>1, <1>2, <1>10, <2>6, CurbsTwice
<1>. QED
  BY <1>9, <1>10

-----------------------------------------------------------------------------
(* The chat queue, leases and upkeep.                                       *)

LEMMA EnqueueCurbs ==
  ASSUME IInv, NEW s \in Sessions, NEW g \in BOOLEAN, Enqueue(s, g)
  PROVE  Curbs(db, db')
<1>. DEFINE d == YieldGoal(db, s, now)
            i == db.last + 1
            p == [session |-> s, guidance |-> g]
<1>1. db \in Database /\ now \in Nat /\ i \in Ids /\ i > db.last
  <2>1. db \in Database /\ now \in Nat
    BY DEF IInv, TypeOK
  <2>2. db.last \in 0..MaxId /\ db.last < MaxId
    BY <2>1 DEF Enqueue, Database
  <2>. QED
    BY <2>1, <2>2, TimesAssumption DEF Ids
<1>2. Withdraws(db, d, now) /\ Curbs(db, d)
  BY <1>1, YieldGoalWithdraws, YieldTidies DEF Curbs
<1>3. db' = [d EXCEPT !.queue = d.queue \cup {i}, !.prompt[i] = p, !.last = i]
  BY DEF Enqueue
<1>4. d \in Database /\ d.runs[i].task = NoTask
  BY <1>1, <1>2 DEF Withdraws, IInv, Sound, Unused
<1>. HIDE DEF d, i, p
<1>5. /\ db'.queue = d.queue \cup {i} /\ db'.task = d.task /\ db'.runs = d.runs
      /\ Rest(db') = Rest(d)
  BY <1>3, <1>4 DEF Database, Rest
<1>6. \A j \in db'.queue : Scheduled(d, j) => j \in d.queue
  BY <1>4, <1>5 DEF Scheduled
<1>7. Curbs(d, db')
  BY <1>5, <1>6, OtherTidies DEF Curbs
<1>. QED
  BY <1>2, <1>7, CurbsTwice

LEMMA ConsumeCurbs ==
  ASSUME db \in Database, NEW i \in Ids, Consume(i)
  PROVE  Curbs(db, db')
<1>. DEFINE r == IF db.runs[i].status \in {"queued", "claimed"}
                 THEN [db.runs[i] EXCEPT !.status = "running", !.until = now + LeaseTime]
                 ELSE db.runs[i]
<1>1. db' = [db EXCEPT !.sent[i] = @ + 1, !.queue = @ \ {i}, !.runs[i] = r]
  BY DEF Consume
<1>2. /\ r.task = db.runs[i].task /\ r.status # "claimed"
      /\ r.status \in Active => db.runs[i].status \in Active
  <2>1. db.runs[i] \in Runs
    BY DEF Database
  <2>. QED
    BY <2>1 DEF Runs, Active
<1>. HIDE DEF r
<1>3. /\ db'.queue = db.queue \ {i} /\ db'.runs = [db.runs EXCEPT ![i] = r]
      /\ db'.task = db.task /\ Rest(db') = Rest(db)
  BY <1>1 DEF Database, Rest
<1>4. \A j \in Ids : db'.runs[j] = IF j = i THEN r ELSE db.runs[j]
  BY <1>3 DEF Database
<1>5. db.queue \subseteq Ids /\ db'.goal = db.goal
  BY <1>3 DEF Database, Rest
<1>6. /\ \A t \in Tasks : MonitorFit(db, t) => MonitorFit(db', t)
      /\ \A t \in Tasks : TaskFit(db, t) => TaskFit(db', t)
      /\ \A j \in Ids : Named(db, j) => Named(db', j)
  <2>. SUFFICES ASSUME NEW d, d = db, NEW e, e = db'
                PROVE  /\ \A t \in Tasks : MonitorFit(d, t) => MonitorFit(e, t)
                       /\ \A t \in Tasks : TaskFit(d, t) => TaskFit(e, t)
                       /\ \A j \in Ids : Named(d, j) => Named(e, j)
    OBVIOUS
  <2>. QED
    BY <1>2, <1>3, <1>4, SameTasks
<1>7. \A j \in db'.queue : j \in db.queue /\ db'.runs[j] = db.runs[j]
  BY <1>3, <1>4, <1>5
<1>8. \A j \in db'.queue : Keeps(db, db', j)
  BY <1>3, <1>5, <1>7 DEF Keeps, Valid, Unstarted, Live
<1>. QED
  BY <1>2, <1>4, <1>6, <1>7, <1>8 DEF Curbs, Slows, Tidies

\* The transactions that write no field the relations speak of.
LEMMA LeaseCurbs ==
  ASSUME db \in Database, NEW s \in Sessions,
         \/ PrepareRewind(s) \/ CompleteRewind(s)
         \/ \E k \in Ids \cup Clients : Lease(s, k) \/ Release(s, k)
  PROVE  Curbs(db, db')
<1>. SUFFICES ASSUME NEW d, d = db, NEW e, e = db' PROVE Curbs(d, e)
  OBVIOUS
<1>1. e.task = d.task /\ Rest(e) = Rest(d) /\ e.runs = d.runs /\ e.queue = d.queue
  BY DEF PrepareRewind, CompleteRewind, Lease, Release, Database, Rest
<1>. QED
  BY <1>1, OtherTidies DEF Curbs

\* A session takes its tasks with it, and their runs.
LEMMA DeleteSessionCurbs ==
  ASSUME db \in Database, NEW s \in Sessions, DeleteSession(s)
  PROVE  Curbs(db, db')
<1>. DEFINE T == {t \in Tasks : Home[t] = s /\ Live(db, t)}
            d == DropTasks(db, T)
            g == [status |-> "none", rev |-> 0]
<1>1. Curbs(db, d) /\ d \in Database
  BY DropTidies, DropTasksWithdraws DEF Curbs, Withdraws
<1>2. \A t \in Tasks : Home[t] = s => ~Live(d, t)
  <2>1. \A t \in Tasks : IF t \in T THEN d.task[t].state = "gone" ELSE d.task[t] = db.task[t]
    <3>. HIDE DEF T
    <3>. QED
      BY DropFields
  <2>. QED
    BY <2>1 DEF Live
<1>3. db' = [d EXCEPT !.sess[s] = "deleted", !.queue = {i \in d.queue : d.prompt[i].session # s},
                      !.lease[s] = NoLease, !.goal[s] = g, !.locked = @ \ {s}]
  BY DEF DeleteSession
<1>. HIDE DEF d, g
<1>4. /\ db'.queue \subseteq d.queue /\ db'.runs = d.runs /\ db'.task = d.task
      /\ db'.mon = d.mon /\ db'.worker = d.worker /\ db'.goal = [d.goal EXCEPT ![s] = g]
  BY <1>1, <1>3 DEF Database
<1>5. \A q \in Sessions : q # s => db'.goal[q] = d.goal[q]
  BY <1>1, <1>4 DEF Database
<1>6. ASSUME NEW t \in Tasks, MonitorFit(d, t) PROVE MonitorFit(db', t)
  BY <1>4, <1>6 DEF MonitorFit, Live, HasActive, RunsOf
<1>7. ASSUME NEW t \in Tasks, Live(d, t), Kind[t] = "goal"
      PROVE  db'.goal[Home[t]] = d.goal[Home[t]]
  BY <1>2, <1>5, <1>7, TasksAssumption
<1>8. ASSUME NEW t \in Tasks, TaskFit(d, t) PROVE TaskFit(db', t)
  BY <1>4, <1>7, <1>8 DEF TaskFit, Live
<1>9. ASSUME NEW i \in db'.queue, Scheduled(db', i) PROVE Keeps(d, db', i)
  <2>1. d.runs[i].task \in Tasks
    BY <1>1, <1>4, <1>9 DEF Scheduled, Database, Runs
  <2>2. Unstarted(d, i) => Unstarted(db', i)
    BY <1>4 DEF Unstarted
  <2>3. ASSUME Valid(d, i) PROVE Valid(db', i)
    <3>1. Live(d, d.runs[i].task)
      BY <2>3 DEF Valid
    <3>. QED
      BY <1>4, <1>7, <2>1, <2>2, <2>3, <3>1 DEF Valid, Live
  <2>. QED
    BY <2>2, <2>3 DEF Keeps
<1>10. Curbs(d, db')
  BY <1>4, <1>6, <1>8, <1>9 DEF Curbs, Slows, Tidies, Named
<1>. QED
  BY <1>1, <1>10, CurbsTwice

-----------------------------------------------------------------------------
(* remove_queued_prompt.  Its statements are no transaction: in between, a  *)
(* worker may be without its goal and a prompt without its run.             *)

LEMMA RemovalSlows ==
  ASSUME db \in Database,
         \/ \E i \in Ids : RemoveFind(i)
         \/ RemoveReadGoal \/ RemoveSaveGoal \/ RemoveStopWorker
         \/ RemoveCancel \/ RemoveDelete \/ RemoveAbandoned
  PROVE  Slows(db, db')
<1>. SUFFICES ASSUME NEW d, d = db, NEW e, e = db' PROVE Slows(d, e)
  OBVIOUS
<1>1. d \in Database
  OBVIOUS
<1>2. CASE (\E i \in Ids : RemoveFind(i)) \/ RemoveReadGoal \/ RemoveAbandoned
  <2>1. d = e
    BY <1>2 DEF RemoveFind, RemoveReadGoal, RemoveAbandoned
  <2>. QED
    BY <2>1 DEF Slows
<1>3. CASE RemoveSaveGoal
  <2>1. e.task = d.task /\ e.runs = d.runs /\ e.mon = d.mon
    BY <1>1, <1>3 DEF RemoveSaveGoal, Database
  <2>. QED
    BY <2>1 DEF Slows, MonitorFit, Live, HasActive, RunsOf
<1>4. CASE RemoveStopWorker
  <2>. DEFINE T == {t \in Tasks : IsGoalTask(t, removal.session) /\ Live(db, t)}
  <2>1. e = Stop(d, T, NoTime)
    BY <1>4 DEF RemoveStopWorker, Stop
  <2>. HIDE DEF T
  <2>2. /\ e.runs = d.runs /\ Rest(e) = Rest(d)
        /\ \A t \in Tasks : /\ e.task[t].state = d.task[t].state
                            /\ e.task[t].sched = d.task[t].sched
                            /\ t \in T => ~e.task[t].enabled
                            /\ t \notin T => e.task[t].enabled = d.task[t].enabled
                            /\ e.task[t].next = IF t \in T THEN NoTime ELSE d.task[t].next
    BY <1>1, <2>1, StopFields
  <2>3. e.mon = d.mon
    BY <2>2 DEF Rest
  <2>4. \A t \in Tasks : MonitorFit(d, t) => MonitorFit(e, t)
    BY <2>2, <2>3, MonitorRests
  <2>. QED
    BY <2>2, <2>4 DEF Slows
<1>5. CASE RemoveCancel
  <2>1. CASE e = d
    BY <2>1 DEF Slows
  <2>2. CASE e = SetStatus(d, {removal.id}, "cancelled")
    <3>1. /\ e.task = d.task /\ Rest(e) = Rest(d)
          /\ \A i \in Ids : /\ e.runs[i].task = d.runs[i].task
                            /\ e.runs[i].status = IF i \in {removal.id} THEN "cancelled"
                                                                       ELSE d.runs[i].status
      BY <1>1, <2>2, StatusFields
    <3>2. \A i \in Ids : /\ e.runs[i].status \in Active => d.runs[i].status \in Active
                         /\ e.runs[i].status = "claimed" => d.runs[i].status = "claimed"
      BY <3>1 DEF Active
    <3>3. \A t \in Tasks : MonitorFit(d, t) => MonitorFit(e, t)
      BY <3>1, <3>2, SameTasks
    <3>. QED
      BY <3>2, <3>3 DEF Slows
  <2>. QED
    BY <1>5, <2>1, <2>2 DEF RemoveCancel
<1>6. CASE RemoveDelete
  <2>1. e.task = d.task /\ Rest(e) = Rest(d) /\ e.runs = d.runs /\ e.queue \subseteq d.queue
    BY <1>1, <1>6 DEF RemoveDelete, Database, Rest
  <2>. QED
    BY <2>1, OtherTidies
<1>. QED
  BY <1>2, <1>3, <1>4, <1>5, <1>6

\* Deleting the row takes a prompt out of the queue.
LEMMA RemoveDeleteTidies ==
  ASSUME db \in Database, RemoveDelete
  PROVE  Tidies(db, db') /\ removal.id \notin db'.queue
<1>1. db'.task = db.task /\ Rest(db') = Rest(db) /\ db'.runs = db.runs
      /\ db'.queue = db.queue \ {removal.id}
  BY DEF RemoveDelete, Database, Rest
<1>. QED
  BY <1>1, OtherTidies

\* Cancelling its run leaves the prompt, if it still is in the queue, dead.
LEMMA RemoveCancelPending ==
  ASSUME db \in Database, RemoveCancel, NEW X, NEW Y, removal.id \in X, Pending(db, X), Alive(db, Y),
         removal.id \in db.queue /\ Scheduled(db, removal.id)
           => Kind[db.runs[removal.id].task] # "goal"
  PROVE  /\ \A t \in Tasks : TaskFit(db, t) => TaskFit(db', t)
         /\ \A i \in Ids : Named(db, i) => Named(db', i)
         /\ Pending(db', X) /\ Alive(db', Y) /\ db'.queue = db.queue
         /\ \A i \in Ids : db'.runs[i].task = db.runs[i].task
<1>. SUFFICES ASSUME NEW d, d = db, NEW e, e = db'
              PROVE  /\ \A t \in Tasks : TaskFit(d, t) => TaskFit(e, t)
                     /\ \A i \in Ids : Named(d, i) => Named(e, i)
                     /\ Pending(e, X) /\ Alive(e, Y) /\ e.queue = d.queue
                     /\ \A i \in Ids : e.runs[i].task = d.runs[i].task
  OBVIOUS
<1>1. CASE e = d
  BY <1>1
<1>2. CASE e = SetStatus(d, {removal.id}, "cancelled")
  <2>1. /\ e.task = d.task /\ Rest(e) = Rest(d) /\ e.queue = d.queue
        /\ \A i \in Ids : /\ e.runs[i].task = d.runs[i].task /\ e.runs[i].grev = d.runs[i].grev
                          /\ e.runs[i].status = IF i \in {removal.id} THEN "cancelled"
                                                                     ELSE d.runs[i].status
    BY <1>2, StatusFields
  <2>2. e.goal = d.goal /\ d.queue \subseteq Ids
    BY <2>1 DEF Rest, Database
  <2>3. ASSUME NEW i \in e.queue, Scheduled(e, i), i \notin X \/ Kind[e.runs[i].task] = "goal"
        PROVE  Scheduled(d, i) /\ Keeps(d, e, i)
    <3>1. i \in Ids /\ i \in d.queue
      BY <2>1, <2>2, <2>3
    <3>2. i # removal.id /\ Scheduled(d, i)
      BY <2>1, <2>3, <3>1 DEF Scheduled
    <3>. QED
      BY <2>1, <2>2, <3>1, <3>2, SameValid DEF Unstarted
  <2>4. \A i \in Ids : e.runs[i].status \in Active => d.runs[i].status \in Active
    BY <2>1 DEF Active
  <2>5. /\ \A t \in Tasks : TaskFit(d, t) => TaskFit(e, t)
        /\ \A i \in Ids : Named(d, i) => Named(e, i)
    BY <2>1, <2>4, SameTasks
  <2>. QED
    BY <2>1, <2>2, <2>3, <2>5 DEF Pending, Alive, Keeps
<1>. QED
  BY <1>1, <1>2 DEF RemoveCancel

-----------------------------------------------------------------------------
(* session_run_lease.  Its statements are no transaction: in between, a goal's *)
(* prompt may be queued with its run cancelled.                               *)

\* The tasks whose prompts a lease request has cancelled and may not have deleted.
Withdrawn == IF CutOff THEN Tasks
             ELSE UNION {GoalTasks(c) : c \in {b \in Clients : yields[b].stage = "cancelled"}}

LEMMA LeaseWithdrawn ==
  ASSUME yields \in [Clients -> Yields \cup {NoYield}], NEW s \in Sessions, NEW k \in Ids \cup Clients,
         Lease(s, k)
  PROVE  Withdrawn' = Withdrawn
<1>1. CASE yields' = yields
  BY <1>1 DEF Withdrawn, GoalTasks
<1>2. CASE yields' # yields
  <2>. DEFINE y == [stage |-> "leased", session |-> s, at |-> now]
  <2>1. k \in Clients /\ yields[k].stage # "cancelled" /\ yields' = [yields EXCEPT ![k] = y]
    BY <1>2 DEF Lease, NoYield
  <2>2. y.stage # "cancelled"
    OBVIOUS
  <2>. HIDE DEF y
  <2>3. \A b \in Clients : yields'[b] = IF b = k THEN y ELSE yields[b]
    BY <2>1
  <2>4. {b \in Clients : yields'[b].stage = "cancelled"} = {b \in Clients : yields[b].stage = "cancelled"}
    BY <2>1, <2>2, <2>3
  <2>5. \A b \in Clients : yields[b].stage = "cancelled" => GoalTasks(b)' = GoalTasks(b)
    BY <2>1, <2>3 DEF GoalTasks
  <2>. QED
    BY <2>4, <2>5 DEF Withdrawn
<1>. QED
  BY <1>1, <1>2

\* What a step of a lease request keeps, even when it cancels a run.
Thins(d, e) ==
  /\ \A t \in Tasks : TaskFit(d, t) => TaskFit(e, t)
  /\ \A i \in Ids : Named(d, i) => Named(e, i)
  /\ \A i \in e.queue : Scheduled(e, i) =>
       i \in d.queue /\ e.runs[i].task = d.runs[i].task /\ (Valid(d, i) => Valid(e, i))

LEMMA ThinsPending ==
  ASSUME NEW d, NEW e, NEW X, Thins(d, e), Pending(d, X)
  PROVE  Pending(e, X)
  BY DEF Thins, Pending, Scheduled

LEMMA TidiesThins ==
  ASSUME NEW d, NEW e, Tidies(d, e)
  PROVE  Thins(d, e)
  BY DEF Thins, Tidies, Keeps

LEMMA CancelRunsThins ==
  ASSUME NEW d \in Database, NEW T, \A t \in T : Kind[t] = "goal"
  PROVE  LET e == CancelRuns(d, T)
         IN  /\ Slows(d, e) /\ Thins(d, e)
             /\ \A Y : Alive(d, Y) => Alive(e, Y \cup T)
<1>. DEFINE I == {i \in d.queue : d.runs[i].task \in T}
            e == CancelRuns(d, T)
<1>1. /\ e.queue = d.queue /\ e.task = d.task /\ Rest(e) = Rest(d)
      /\ \A i \in Ids : /\ e.runs[i].task = d.runs[i].task /\ e.runs[i].grev = d.runs[i].grev
                        /\ e.runs[i].status = IF i \in I THEN "cancelled" ELSE d.runs[i].status
  <2>. HIDE DEF I
  <2>. QED
    BY StatusFields DEF CancelRuns, I
<1>2. \A i \in I : Kind[d.runs[i].task] = "goal" /\ d.runs[i].task \in T
  OBVIOUS
<1>3. \A i \in d.queue : d.runs[i].task \in T => i \in I
  OBVIOUS
<1>. HIDE DEF I, e
<1>4. e.goal = d.goal /\ d.queue \subseteq Ids
  BY <1>1 DEF Rest, Database
<1>5. \A i \in Ids : /\ e.runs[i].status \in Active => d.runs[i].status \in Active
                     /\ e.runs[i].status = "claimed" => d.runs[i].status = "claimed"
  BY <1>1 DEF Active
<1>6. /\ \A t \in Tasks : MonitorFit(d, t) => MonitorFit(e, t)
      /\ \A t \in Tasks : TaskFit(d, t) => TaskFit(e, t)
      /\ \A i \in Ids : Named(d, i) => Named(e, i)
  BY <1>1, <1>5, SameTasks
<1>7. ASSUME NEW i \in e.queue, Valid(d, i) PROVE Valid(e, i)
  <2>1. /\ e.runs[i].task = d.runs[i].task /\ e.runs[i].grev = d.runs[i].grev
        /\ e.runs[i].status = IF i \in I THEN "cancelled" ELSE d.runs[i].status
    BY <1>1, <1>4
  <2>. QED
    BY <1>1, <1>2, <1>4, <1>7, <2>1 DEF Valid, Unstarted, Live
<1>8. ASSUME NEW Y, Alive(d, Y) PROVE Alive(e, Y \cup T)
  <2>. SUFFICES ASSUME NEW i \in e.queue, Scheduled(e, i), Kind[e.runs[i].task] = "goal",
                       e.runs[i].task \notin Y \cup T
                PROVE  Unstarted(e, i)
    BY DEF Alive
  <2>1. e.runs[i].task = d.runs[i].task /\ i \in d.queue
    BY <1>1, <1>4
  <2>2. i \notin I
    BY <1>2, <2>1
  <2>. QED
    BY <1>1, <1>4, <1>8, <2>1, <2>2 DEF Alive, Scheduled, Unstarted
<1>9. Slows(d, e) /\ Thins(d, e)
  BY <1>1, <1>4, <1>5, <1>6, <1>7 DEF Slows, Thins
<1>. QED
  BY <1>8, <1>9 DEF e

LEMMA DropPromptsTidies ==
  ASSUME NEW d \in Database, NEW T
  PROVE  LET e == DropPrompts(d, T)
         IN  /\ Slows(d, e) /\ Tidies(d, e)
             /\ \A Y : Alive(d, Y) => Alive(e, Y \ T)
<1>. SUFFICES ASSUME NEW e, e = DropPrompts(d, T)
              PROVE  Slows(d, e) /\ Tidies(d, e) /\ \A Y : Alive(d, Y) => Alive(e, Y \ T)
  OBVIOUS
<1>1. /\ e.task = d.task /\ Rest(e) = Rest(d) /\ e.runs = d.runs
      /\ e.queue = {i \in d.queue : d.runs[i].task \notin T}
  BY DEF DropPrompts, Database, Rest
<1>2. Slows(d, e) /\ Tidies(d, e)
  BY <1>1, OtherTidies
<1>3. ASSUME NEW Y, Alive(d, Y) PROVE Alive(e, Y \ T)
  BY <1>1, <1>3 DEF Alive, Scheduled, Unstarted
<1>. QED
  BY <1>2, <1>3

LEMMA YieldThins ==
  ASSUME db \in Database, yields \in [Clients -> Yields \cup {NoYield}], Yielding
  PROVE  /\ Slows(db, db') /\ Thins(db, db') /\ removal' = removal
         /\ Alive(db, Withdrawn) => Alive(db', Withdrawn')
<1>1. PICK c \in Clients : \/ YieldFind(c) \/ YieldCancel(c) \/ YieldDelete(c) \/ YieldNext(c)
                          \/ YieldAbandoned(c)
  BY DEF Yielding
<1>2. \A t \in GoalTasks(c) : Kind[t] = "goal"
  BY DEF GoalTasks, IsGoalTask
<1>3. yields[c] \in Yields
  BY <1>1 DEF YieldFind, YieldCancel, YieldDelete, YieldNext, YieldAbandoned, NoYield
<1>4. PICK y : /\ yields' = [yields EXCEPT ![c] = y]
               /\ YieldCancel(c) => y.stage = "cancelled" /\ y.session = yields[c].session
               /\ ~YieldCancel(c) => y.stage # "cancelled"
  <2>1. CASE YieldCancel(c)
    BY <1>3, <2>1 DEF YieldCancel, Yields
  <2>2. CASE ~YieldCancel(c)
    <3>1. \E y \in {[yields[c] EXCEPT !.stage = "found"], [yields[c] EXCEPT !.stage = "deleted"], NoYield} :
            yields' = [yields EXCEPT ![c] = y]
      BY <1>1, <1>3, <2>2 DEF YieldFind, YieldDelete, YieldNext, YieldAbandoned
    <3>2. \A y \in {[yields[c] EXCEPT !.stage = "found"], [yields[c] EXCEPT !.stage = "deleted"], NoYield} :
            y.stage # "cancelled"
      BY <1>3 DEF Yields, NoYield
    <3>. QED
      BY <2>2, <3>1, <3>2
  <2>. QED
    BY <2>1, <2>2
<1>5. /\ \A b \in Clients : yields'[b] = IF b = c THEN y ELSE yields[b]
      /\ \A b \in Clients : b # c => GoalTasks(b)' = GoalTasks(b)
      /\ YieldCancel(c) => GoalTasks(c)' = GoalTasks(c)
  BY <1>4 DEF GoalTasks
<1>6. YieldCancel(c) => Withdrawn \cup GoalTasks(c) \subseteq Withdrawn'
  <2>. SUFFICES ASSUME YieldCancel(c) PROVE Withdrawn \cup GoalTasks(c) \subseteq Withdrawn'
    OBVIOUS
  <2>1. CASE CutOff
    BY <2>1 DEF Withdrawn, GoalTasks
  <2>2. CASE ~CutOff
    <3>. DEFINE C == {b \in Clients : yields[b].stage = "cancelled"}
                D == {b \in Clients : yields'[b].stage = "cancelled"}
    <3>1. C \subseteq D /\ c \in D /\ \A b \in Clients : GoalTasks(b)' = GoalTasks(b)
      BY <1>4, <1>5
    <3>2. Withdrawn = UNION {GoalTasks(b) : b \in C} /\ Withdrawn' = UNION {GoalTasks(b)' : b \in D}
      BY <2>2 DEF Withdrawn
    <3>. HIDE DEF C, D
    <3>3. D \subseteq Clients
      BY DEF D
    <3>. QED
      BY <3>1, <3>2, <3>3
  <2>. QED
    BY <2>1, <2>2
<1>7. Withdrawn \ GoalTasks(c) \subseteq Withdrawn'
  <2>1. CASE CutOff
    BY <2>1 DEF Withdrawn
  <2>2. CASE ~CutOff
    BY <1>5, <2>2 DEF Withdrawn
  <2>. QED
    BY <2>1, <2>2
<1>8. ~YieldCancel(c) /\ ~YieldDelete(c) => Withdrawn \subseteq Withdrawn'
  <2>. SUFFICES ASSUME ~YieldCancel(c), ~YieldDelete(c) PROVE Withdrawn \subseteq Withdrawn'
    OBVIOUS
  <2>1. CASE CutOff
    BY <2>1 DEF Withdrawn
  <2>2. CASE ~CutOff
    <3>1. yields[c].stage # "cancelled"
      BY <1>1, <2>2 DEF YieldFind, YieldNext, YieldAbandoned
    <3>. QED
      BY <1>5, <2>2, <3>1 DEF Withdrawn
  <2>. QED
    BY <2>1, <2>2
<1>9. ASSUME NEW d, NEW Y, NEW Z, Alive(d, Y), Y \subseteq Z PROVE Alive(d, Z)
  BY <1>9 DEF Alive
<1>10. removal' = removal
  BY <1>1 DEF YieldFind, YieldCancel, YieldDelete, YieldNext, YieldAbandoned
<1>. SUFFICES ASSUME NEW d, d = db, NEW e, e = db', NEW W, W = Withdrawn'
              PROVE  Slows(d, e) /\ Thins(d, e) /\ (Alive(d, Withdrawn) => Alive(e, W))
  BY <1>10
<1>11. CASE YieldCancel(c)
  <2>1. e = CancelRuns(d, GoalTasks(c))
    BY <1>11 DEF YieldCancel
  <2>2. Slows(d, e) /\ Thins(d, e) /\ (Alive(d, Withdrawn) => Alive(e, Withdrawn \cup GoalTasks(c)))
    BY <1>2, <2>1, CancelRunsThins
  <2>. QED
    BY <1>6, <1>9, <1>11, <2>2
<1>12. CASE YieldDelete(c)
  <2>1. e = DropPrompts(d, GoalTasks(c))
    BY <1>12 DEF YieldDelete
  <2>2. Slows(d, e) /\ Tidies(d, e) /\ (Alive(d, Withdrawn) => Alive(e, Withdrawn \ GoalTasks(c)))
    BY <2>1, DropPromptsTidies
  <2>. QED
    BY <1>7, <1>9, <2>2, TidiesThins
<1>13. CASE YieldFind(c) \/ YieldAbandoned(c) \/ YieldNext(c)
  <2>1. Slows(d, e) /\ Tidies(d, e)
    <3>1. CASE e = d
      BY <3>1 DEF Slows, Tidies, Keeps
    <3>2. CASE YieldNext(c)
      <4>. DEFINE T == {t \in GoalTasks(c) : d.task[t].enabled}
      <4>1. e = SetNext(d, T, yields[c].at + 1)
        BY <3>2 DEF YieldNext
      <4>2. \A t \in T : Kind[t] # "monitor"
        BY <1>2
      <4>. HIDE DEF T
      <4>. QED
        BY <4>1, <4>2, NextTidies
    <3>. QED
      BY <1>13, <3>1, <3>2 DEF YieldFind, YieldAbandoned
  <2>2. CASE ~YieldCancel(c) /\ ~YieldDelete(c)
    <3>1. Alive(d, Withdrawn) => Alive(e, Withdrawn)
      BY <2>1, TidiesAlive
    <3>. QED
      BY <1>8, <1>9, <2>1, <2>2, <3>1, TidiesThins
  <2>. QED
    BY <1>11, <1>12, <2>2
<1>. QED
  BY <1>1, <1>11, <1>12, <1>13

-----------------------------------------------------------------------------
(* scheduled_result_evaluated.                                              *)

\* What apply_goal_result may do to the goal of task t: everything else stays.
Settles(d, e, t) ==
  /\ e.queue = d.queue /\ e.runs = d.runs /\ e.mon = d.mon
  /\ \A u \in Tasks : /\ e.task[u].state = d.task[u].state /\ e.task[u].sched = d.task[u].sched
                      /\ u # t => /\ e.task[u].enabled = d.task[u].enabled
                                  /\ e.task[u].next = d.task[u].next
  /\ \A s \in Sessions : s # Home[t] => e.goal[s] = d.goal[s] /\ e.worker[s] = d.worker[s]
  /\ \/ ~e.task[t].enabled
     \/ /\ e.task[t].enabled = d.task[t].enabled
        /\ Home[t] \in Sessions => /\ e.goal[Home[t]] = d.goal[Home[t]]
                                   /\ e.worker[Home[t]].rev = d.worker[Home[t]].rev

\* apply_goal_result lets the worker go on, or stops it together with its goal.
LEMMA ApplyGoalSettles ==
  ASSUME NEW d \in Database, NEW i \in Ids, NEW st, NEW a, NEW n \in Nat,
         NEW t \in Tasks, t = d.runs[i].task, NEW e, e = ApplyGoal(d, i, st, a, n)
  PROVE  /\ e \in Database
         /\ e = d \/ (Kind[t] = "goal" /\ st \notin {"queued", "running", "blocked"} /\ Settles(d, e, t))
<1>. DEFINE s == Home[t]
            w == [d.worker[s] EXCEPT !.turns = @ + 1, !.stalls = IF a.tools THEN 0 ELSE @ + 1]
            to == Verdict(w, st, a)
            c == [d EXCEPT !.worker[s] = w]
            f == [c EXCEPT !.goal[s] = Revised(@, to)]
            on == Kind[t] = "goal" /\ st \notin {"queued", "running", "blocked"}
<1>1. \/ e = d
      \/ on /\ e = SetNext(d, {t}, n + 1)
      \/ on /\ e = SetNext(c, {t}, n + 1)
      \/ on /\ e = Stop(f, {t}, NoTime)
  BY DEF ApplyGoal, Stop
<1>2. e \in Database
  BY ApplyGoalWithdraws DEF Withdraws
<1>. HIDE DEF on
<1>3. ASSUME on, s \in Sessions
      PROVE  /\ c \in Database /\ f \in Database
             /\ c.queue = d.queue /\ c.runs = d.runs /\ c.mon = d.mon /\ c.task = d.task /\ c.goal = d.goal
             /\ f.queue = d.queue /\ f.runs = d.runs /\ f.mon = d.mon /\ f.task = d.task
             /\ f.worker = c.worker
             /\ c.worker[s].rev = d.worker[s].rev
             /\ \A q \in Sessions : q # s => f.goal[q] = d.goal[q] /\ c.worker[q] = d.worker[q]
  <2>1. d.worker \in [Sessions -> [rev : Nat, turns : Nat, stalls : Nat]] /\ d.goal[s].rev \in Nat
    BY <1>3 DEF Database
  <2>2. w \in [rev : Nat, turns : Nat, stalls : Nat] /\ w.rev = d.worker[s].rev
    <3>1. d.worker[s] \in [rev : Nat, turns : Nat, stalls : Nat]
      BY <1>3, <2>1
    <3>2. (IF a.tools THEN 0 ELSE d.worker[s].stalls + 1) \in Nat /\ d.worker[s].turns + 1 \in Nat
      BY <3>1
    <3>. QED
      BY <3>1, <3>2
  <2>3. Revised(d.goal[s], to) \in [status : {"none", "active", "paused", "completed"}, rev : Nat]
    <3>1. to \in {"paused", "completed", "active"}
      BY DEF Verdict
    <3>. HIDE DEF to
    <3>. QED
      BY <2>1, <3>1 DEF Revised
  <2>. DEFINE r == Revised(d.goal[s], to)
  <2>. HIDE DEF w, to, r
  <2>4. /\ [d.worker EXCEPT ![s] = w] \in [Sessions -> [rev : Nat, turns : Nat, stalls : Nat]]
        /\ [d.goal EXCEPT ![s] = r] \in
             [Sessions -> [status : {"none", "active", "paused", "completed"}, rev : Nat]]
    BY <1>3, <2>1, <2>2, <2>3 DEF Database, r
  <2>5. /\ c \in Database /\ c.worker = [d.worker EXCEPT ![s] = w]
        /\ c.queue = d.queue /\ c.runs = d.runs /\ c.mon = d.mon /\ c.task = d.task /\ c.goal = d.goal
    BY <2>4 DEF Database
  <2>. HIDE DEF c
  <2>6. f = [c EXCEPT !.goal = [d.goal EXCEPT ![s] = r]]
    BY <1>3, <2>5 DEF Database, r
  <2>. HIDE DEF f
  <2>7. /\ f \in Database /\ f.goal = [d.goal EXCEPT ![s] = r]
        /\ f.queue = d.queue /\ f.runs = d.runs /\ f.mon = d.mon /\ f.task = d.task /\ f.worker = c.worker
    BY <2>4, <2>5, <2>6 DEF Database
  <2>. HIDE DEF s
  <2>. QED
    BY <1>3, <2>1, <2>2, <2>5, <2>7 DEF Database
<1>4. on => s \in Sessions
  BY TasksAssumption DEF on
<1>. HIDE DEF c, f, s
<1>5. ASSUME NEW b \in Database, b = d \/ b = c, on, e = SetNext(b, {t}, n + 1)
      PROVE  Settles(d, e, t)
  <2>1. /\ e.queue = b.queue /\ e.runs = b.runs /\ Rest(e) = Rest(b)
        /\ \A u \in Tasks : /\ e.task[u].state = b.task[u].state
                            /\ e.task[u].sched = b.task[u].sched
                            /\ e.task[u].enabled = b.task[u].enabled
                            /\ e.task[u].next = IF u \in {t} THEN n + 1 ELSE b.task[u].next
    BY <1>5, NextFields
  <2>2. e.mon = b.mon /\ e.goal = b.goal /\ e.worker = b.worker
    BY <2>1 DEF Rest
  <2>3. /\ b.queue = d.queue /\ b.runs = d.runs /\ b.mon = d.mon /\ b.task = d.task /\ b.goal = d.goal
        /\ \A q \in Sessions : q # s => b.worker[q] = d.worker[q]
        /\ b.worker[s].rev = d.worker[s].rev
    BY <1>3, <1>4, <1>5
  <2>4. /\ e.queue = d.queue /\ e.runs = d.runs /\ e.mon = d.mon /\ e.goal = d.goal
        /\ e.task[t].enabled = d.task[t].enabled
        /\ \A u \in Tasks : /\ e.task[u].state = d.task[u].state /\ e.task[u].sched = d.task[u].sched
                            /\ u # t => /\ e.task[u].enabled = d.task[u].enabled
                                        /\ e.task[u].next = d.task[u].next
    BY <2>1, <2>2, <2>3
  <2>5. \A q \in Sessions : q # s => e.worker[q] = d.worker[q]
    BY <2>2, <2>3
  <2>6. e.worker[s].rev = d.worker[s].rev
    BY <2>2, <2>3
  <2>. QED
    BY <2>4, <2>5, <2>6 DEF Settles, s
<1>6. ASSUME on, e = Stop(f, {t}, NoTime)
      PROVE  Settles(d, e, t)
  <2>1. /\ f \in Database /\ f.queue = d.queue /\ f.runs = d.runs /\ f.mon = d.mon /\ f.task = d.task
        /\ \A q \in Sessions : q # s => f.goal[q] = d.goal[q] /\ f.worker[q] = d.worker[q]
    BY <1>3, <1>4, <1>6
  <2>2. /\ e.queue = f.queue /\ e.runs = f.runs /\ Rest(e) = Rest(f)
        /\ \A u \in Tasks : /\ e.task[u].state = f.task[u].state
                            /\ e.task[u].sched = f.task[u].sched
                            /\ u \in {t} => ~e.task[u].enabled
                            /\ u \notin {t} => e.task[u].enabled = f.task[u].enabled
                            /\ e.task[u].next = IF u \in {t} THEN NoTime ELSE f.task[u].next
    BY <1>6, <2>1, StopFields
  <2>3. e.mon = f.mon /\ e.goal = f.goal /\ e.worker = f.worker
    BY <2>2 DEF Rest
  <2>4. ~e.task[t].enabled
    BY <2>2
  <2>. QED
    BY <2>1, <2>2, <2>3, <2>4 DEF Settles, s
<1>7. CASE e = d
  BY <1>2, <1>7
<1>8. CASE on /\ e = SetNext(d, {t}, n + 1)
  BY <1>2, <1>5, <1>8 DEF on
<1>9. CASE on /\ e = SetNext(c, {t}, n + 1)
  <2>1. c \in Database
    BY <1>3, <1>4, <1>9
  <2>. QED
    BY <1>2, <1>5, <1>9, <2>1 DEF on
<1>10. CASE on /\ e = Stop(f, {t}, NoTime)
  BY <1>2, <1>6, <1>10 DEF on
<1>. QED
  BY <1>1, <1>7, <1>8, <1>9, <1>10

\* A report moves or ends one run, which was the only active one of its task.
LEMMA ResultCurbs ==
  ASSUME IInv, \A j \in Ids : Named(db, j), NEW i \in Ids,
         NEW st \in {"queued", "running", "blocked", "complete", "cancelled", "failed"}, NEW a,
         Result(i, st, a)
  PROVE  Curbs(db, db')
<1>. DEFINE un == IF st \in {"running", "blocked"} THEN now + LeaseTime ELSE 0
            r == [db.runs[i] EXCEPT !.status = st, !.until = un]
            e == [db EXCEPT !.runs[i].status = st, !.runs[i].until = un]
            t == db.runs[i].task
            g == ApplyGoal(e, i, st, a, now)
            q == IF st \in Ended THEN [g EXCEPT !.queue = @ \ {i}] ELSE g
            c == IF st = "complete" THEN NextCheck(q, t, now) ELSE q
<1>1. now \in Nat /\ db \in Database /\ Once(db) /\ Alone(db)
  BY DEF IInv, TypeOK, Sound
<1>2. db' = Cleanup(c, now)
  BY DEF Result, Reported
<1>3. /\ db.runs[i].status \in {"claimed", "running", "blocked"}
      /\ st \in {"running", "blocked", "complete"} => db.sent[i] > 0
  BY DEF Result
<1>4. db.runs[i] \in Runs /\ t \in Tasks
  <2>1. db.runs[i].status \in Active
    BY <1>3 DEF Active
  <2>. QED
    BY <1>1, <2>1 DEF Database, Named
<1>5. un \in Nat
  BY <1>1, TimesAssumption
<1>. HIDE DEF un
<1>6. r \in Runs /\ r.task = t /\ r.status = st /\ r.grev = db.runs[i].grev
  BY <1>4, <1>5 DEF Runs, Active, Ended
<1>7. e = [db EXCEPT !.runs = [db.runs EXCEPT ![i] = r]]
  BY <1>1, <1>4 DEF Database, Runs
<1>. HIDE DEF r, e
<1>8. [db.runs EXCEPT ![i] = r] \in [Ids -> Runs]
  BY <1>1, <1>6 DEF Database
<1>9. /\ e \in Database /\ e.queue = db.queue /\ e.task = db.task
      /\ e.mon = db.mon /\ e.goal = db.goal /\ e.worker = db.worker
      /\ \A j \in Ids : e.runs[j] = IF j = i THEN r ELSE db.runs[j]
  BY <1>1, <1>7, <1>8 DEF Database
<1>. HIDE DEF t
<1>10. /\ g \in Database
       /\ \/ g = e
          \/ Kind[t] = "goal" /\ st \notin {"queued", "running", "blocked"} /\ Settles(e, g, t)
  <2>. HIDE DEF g
  <2>1. t = e.runs[i].task
    BY <1>6, <1>9
  <2>. QED
    BY <1>1, <1>4, <1>9, <2>1, ApplyGoalSettles DEF g
<1>. HIDE DEF g
<1>11. /\ q \in Database /\ q.runs = g.runs /\ q.task = g.task /\ q.mon = g.mon
       /\ q.goal = g.goal /\ q.worker = g.worker
       /\ q.queue = IF st \in Ended THEN g.queue \ {i} ELSE g.queue
  <2>1. [g EXCEPT !.queue = @ \ {i}] \in Database
    BY <1>10 DEF Database
  <2>. QED
    BY <1>10, <2>1 DEF Database
<1>. HIDE DEF q
<1>12. q.runs = e.runs /\ q.mon = db.mon /\ g.queue = db.queue
  BY <1>9, <1>10, <1>11 DEF Settles
<1>13. /\ \A u \in Tasks : /\ q.task[u].state = db.task[u].state /\ q.task[u].sched = db.task[u].sched
                           /\ u # t \/ Kind[t] # "goal"
                              => /\ q.task[u].enabled = db.task[u].enabled
                                 /\ q.task[u].next = db.task[u].next
       /\ \A s \in Sessions : s # Home[t] \/ Kind[t] # "goal"
                              => q.goal[s] = db.goal[s] /\ q.worker[s] = db.worker[s]
       /\ \/ ~q.task[t].enabled
          \/ /\ q.task[t].enabled = db.task[t].enabled
             /\ Home[t] \in Sessions => /\ q.goal[Home[t]] = db.goal[Home[t]]
                                        /\ q.worker[Home[t]].rev = db.worker[Home[t]].rev
  <2>1. CASE g = e
    BY <1>9, <1>11, <2>1
  <2>2. CASE Kind[t] = "goal" /\ Settles(e, g, t)
    BY <1>9, <1>11, <2>2 DEF Settles
  <2>. QED
    BY <1>10, <2>1, <2>2
<1>14. \A u \in Tasks : Kind[u] = "goal" => Home[u] \in Sessions /\ (Kind[t] = "goal" /\ Home[u] = Home[t] => u = t)
  BY <1>4, TasksAssumption
<1>15. \A j \in Ids : /\ q.runs[j].task = db.runs[j].task
                      /\ q.runs[j].grev = db.runs[j].grev
                      /\ j # i => q.runs[j] = db.runs[j]
                      /\ q.runs[j].status \in Active => db.runs[j].status \in Active
                      /\ q.runs[j].status = "claimed" => db.runs[j].status = "claimed"
  <2>1. st # "claimed" /\ db.runs[i].status \in Active
    BY <1>3 DEF Active
  <2>. QED
    BY <1>6, <1>9, <1>12, <2>1 DEF t
<1>16. ASSUME NEW u \in Tasks, MonitorFit(db, u) PROVE MonitorFit(q, u)
  <2>1. CASE Kind[u] = "monitor"
    BY <1>12, <1>13, <1>15, <1>16, <2>1, MonitorRests
  <2>. QED
    BY <2>1 DEF MonitorFit
<1>17. ASSUME NEW u \in Tasks, TaskFit(db, u) PROVE TaskFit(q, u)
  <2>1. CASE u = t
    <3>1. Kind[t] = "goal" => Home[t] \in Sessions
      BY <1>4, <1>14
    <3>. QED
      BY <1>4, <1>13, <1>17, <2>1, <3>1 DEF TaskFit, Live
  <2>2. CASE u # t
    <3>1. q.task[u].enabled = db.task[u].enabled /\ q.task[u].state = db.task[u].state
      BY <1>13, <2>2
    <3>2. Kind[u] = "goal" => q.goal[Home[u]] = db.goal[Home[u]] /\ q.worker[Home[u]] = db.worker[Home[u]]
      BY <1>13, <1>14, <2>2
    <3>. QED
      BY <1>17, <3>1, <3>2 DEF TaskFit, Live
  <2>. QED
    BY <2>1, <2>2
<1>18. ASSUME NEW j \in q.queue, Scheduled(q, j)
       PROVE  j \in Ids /\ j \in db.queue /\ Keeps(db, q, j)
  <2>1. j \in Ids /\ j \in db.queue /\ (st \in Ended => j # i)
    BY <1>1, <1>11, <1>12, <1>18 DEF Database
  <2>2. CASE j = i
    <3>1. st \notin Ended /\ st \notin {"running", "blocked", "complete"}
      <4>1. db.sent[i] \in Nat /\ ~(db.sent[i] > 0)
        BY <1>1, <2>1, <2>2 DEF Once, Database
      <4>. QED
        BY <1>3, <2>1, <2>2, <4>1
    <3>2. st = "queued"
      BY <3>1 DEF Ended
    <3>3. g = e
      BY <1>10, <3>2
    <3>4. q.task = db.task /\ q.goal = db.goal
      BY <1>9, <1>11, <3>3
    <3>5. q.runs[j].status = "queued"
      BY <1>6, <1>9, <1>12, <2>2, <3>2
    <3>. QED
      BY <1>3, <1>15, <1>18, <2>1, <2>2, <3>4, <3>5, SameValid DEF Unstarted
  <2>3. CASE j # i
    <3>. DEFINE u == db.runs[j].task
    <3>1. u \in Tasks
      BY <1>1, <1>15, <1>18, <2>1 DEF Scheduled, Database, Runs
    <3>2. Valid(db, j) => u # t
      <4>. SUFFICES ASSUME Valid(db, j) PROVE u # t
        OBVIOUS
      <4>1. Busy(db, i) /\ Busy(db, j)
        BY <1>3, <2>1 DEF Active, Valid, Unstarted, Busy
      <4>2. db.runs[i].task # NoTask
        BY <1>4, TasksAssumption DEF t, NoTask
      <4>. QED
        BY <1>1, <2>1, <2>3, <4>1, <4>2 DEF Alone, Scheduled, t
    <3>3. u # t => q.task[u].enabled = db.task[u].enabled /\ q.task[u].state = db.task[u].state
      BY <1>13, <3>1
    <3>4. u # t /\ Kind[u] = "goal" => q.goal[Home[u]] = db.goal[Home[u]]
      BY <1>13, <1>14, <3>1
    <3>5. q.runs[j] = db.runs[j]
      BY <1>15, <2>1, <2>3
    <3>. QED
      BY <2>1, <3>2, <3>3, <3>4, <3>5 DEF Keeps, Valid, Unstarted, Live
  <2>. QED
    BY <2>1, <2>2, <2>3
<1>19. Curbs(db, q)
  <2>1. \A j \in q.queue : j \in Ids /\ j \in db.queue
    BY <1>1, <1>11, <1>12 DEF Database
  <2>2. Slows(db, q)
    BY <1>15, <1>16 DEF Slows
  <2>3. Tidies(db, q)
    BY <1>15, <1>17, <1>18, <2>1 DEF Tidies, Named
  <2>. QED
    BY <2>2, <2>3 DEF Curbs
<1>20. c = q \/ (st = "complete" /\ Kind[t] = "monitor" /\ q.task[t].enabled /\ q.mon[t].left > 0
                 /\ c = SetNext(q, {t}, now + Interval))
  BY DEF NextCheck
<1>. HIDE DEF c
<1>21. ASSUME st = "complete", Kind[t] = "monitor", q.task[t].enabled, q.mon[t].left > 0,
              c = SetNext(q, {t}, now + Interval)
       PROVE  Curbs(q, c)
  <2>1. /\ c.queue = q.queue /\ c.runs = q.runs /\ Rest(c) = Rest(q)
        /\ \A u \in Tasks : /\ c.task[u].state = q.task[u].state
                            /\ c.task[u].sched = q.task[u].sched
                            /\ c.task[u].enabled = q.task[u].enabled
                            /\ c.task[u].next = IF u \in {t} THEN now + Interval ELSE q.task[u].next
    BY <1>11, <1>21, NextFields
  <2>2. c.mon = q.mon
    BY <2>1 DEF Rest
  <2>3. ~HasActive(c, t)
    <3>1. ASSUME NEW j \in Ids, q.runs[j].task = t, q.runs[j].status \in Active PROVE FALSE
      <4>1. db.runs[j].task = t /\ db.runs[j].status \in Active
        BY <1>15, <3>1
      <4>2. db.runs[i].task = t /\ db.runs[i].status \in Active /\ t # NoTask
        BY <1>3, <1>4, TasksAssumption DEF Active, t, NoTask
      <4>3. j = i
        BY <1>1, <4>1, <4>2 DEF Alone, Busy, Scheduled
      <4>. QED
        BY <1>6, <1>9, <1>12, <1>21, <3>1, <4>3 DEF Active
    <3>. QED
      BY <2>1, <3>1 DEF HasActive, RunsOf
  <2>4. ASSUME NEW u \in Tasks, MonitorFit(q, u) PROVE MonitorFit(c, u)
    <3>1. CASE u = t
      BY <1>21, <2>1, <2>2, <2>3, <2>4, <3>1 DEF MonitorFit, Live
    <3>2. CASE u # t
      BY <2>1, <2>2, <2>4, <3>2, MonitorRests
    <3>. QED
      BY <3>1, <3>2
  <2>5. Tidies(q, c)
    BY <1>11, <1>21, NextTidies
  <2>. QED
    BY <2>1, <2>4, <2>5 DEF Curbs, Slows
<1>22. Curbs(db, c) /\ c \in Database
  <2>1. SetNext(q, {t}, now + Interval) \in Database
    <3>1. now + Interval \in Nat \cup {NoTime} /\ now + Interval > now
      BY <1>1, TimesAssumption
    <3>. QED
      BY <1>1, <1>11, <3>1, SetNextWithdraws DEF Withdraws
  <2>. QED
    BY <1>11, <1>19, <1>20, <1>21, <2>1, CurbsTwice
<1>. QED
  BY <1>2, <1>22, CleanupCurbs

-----------------------------------------------------------------------------
(* due_scheduled.                                                           *)

\* Recovery takes no queued prompt's claim away for good.
LEMMA RecoverCurbs ==
  ASSUME NEW d \in Database, NEW n
  PROVE  Curbs(d, Recover(d, n))
<1>. DEFINE f == [i \in Ids |->
                    LET r == d.runs[i]
                    IN  IF r.status \in {"queued", "claimed"} /\ i \notin d.queue
                          THEN [r EXCEPT !.status = "cancelled", !.until = 0]
                        ELSE IF r.status = "claimed" /\ r.until < n
                          THEN [r EXCEPT !.status = "queued", !.until = 0]
                        ELSE IF r.status \in {"running", "blocked"} /\ r.until < n
                          THEN [r EXCEPT !.status = "interrupted", !.until = 0]
                        ELSE r]
            e == [d EXCEPT !.runs = f]
<1>1. Recover(d, n) = e
  BY DEF Recover
<1>2. ASSUME NEW i \in Ids
      PROVE  /\ f[i].task = d.runs[i].task /\ f[i].grev = d.runs[i].grev
             /\ f[i].status \in Active => d.runs[i].status \in Active
             /\ f[i].status = "claimed" => d.runs[i].status = "claimed"
             /\ i \in d.queue /\ d.runs[i].status \in {"queued", "claimed"}
                => f[i].status \in {"queued", "claimed"}
             /\ d.runs[i].status = "cancelled" => f[i].status = "cancelled"
  <2>1. d.runs[i] \in Runs
    BY DEF Database
  <2>2. CASE d.runs[i].status \in {"queued", "claimed"} /\ i \notin d.queue
    BY <2>1, <2>2 DEF Runs, Active
  <2>3. CASE d.runs[i].status = "claimed" /\ d.runs[i].until < n /\ i \in d.queue
    BY <2>1, <2>3 DEF Runs, Active
  <2>4. CASE d.runs[i].status \in {"running", "blocked"} /\ d.runs[i].until < n
    BY <2>1, <2>4 DEF Runs, Active
  <2>5. CASE /\ ~ (d.runs[i].status \in {"queued", "claimed"} /\ i \notin d.queue)
             /\ ~ (d.runs[i].status = "claimed" /\ d.runs[i].until < n /\ i \in d.queue)
             /\ ~ (d.runs[i].status \in {"running", "blocked"} /\ d.runs[i].until < n)
    BY <2>1, <2>5
  <2>. QED
    BY <2>2, <2>3, <2>4, <2>5
<1>. HIDE DEF f
<1>3. /\ e.runs = f /\ e.queue = d.queue /\ e.task = d.task /\ Rest(e) = Rest(d)
      /\ d.queue \subseteq Ids
  BY DEF Database, Rest
<1>. HIDE DEF e
<1>4. /\ \A t \in Tasks : MonitorFit(d, t) => MonitorFit(e, t)
      /\ \A t \in Tasks : TaskFit(d, t) => TaskFit(e, t)
      /\ \A i \in Ids : Named(d, i) => Named(e, i)
  BY <1>2, <1>3, SameTasks
<1>5. e.goal = d.goal
  BY <1>3 DEF Rest
<1>6. ASSUME NEW i \in e.queue PROVE Keeps(d, e, i)
  BY <1>2, <1>3, <1>5, <1>6, SameValid DEF Unstarted
<1>7. Curbs(d, e)
  BY <1>2, <1>3, <1>4, <1>6 DEF Curbs, Slows, Tidies
<1>. QED
  BY <1>1, <1>7

\* Re-arming gives only goal workers a time.
LEMMA RearmCurbs ==
  ASSUME NEW d \in Database, NEW n
  PROVE  Curbs(d, Rearm(d, n))
<1>. DEFINE T == {t \in Tasks : /\ Kind[t] = "goal" /\ d.task[t].enabled /\ d.task[t].next = NoTime
                                /\ \E i \in RunsOf(d, t) : /\ IsLatest(d, i)
                                                           /\ d.runs[i].status = "interrupted"}
<1>1. \A t \in T : Kind[t] # "monitor"
  OBVIOUS
<1>2. Rearm(d, n) = SetNext(d, T, n)
  BY DEF Rearm
<1>. HIDE DEF T
<1>. QED
  BY <1>1, <1>2, NextTidies DEF Curbs

\* The run that a poll makes for task t.
NewRun(d, r, t) ==
  /\ r.task = t /\ r.status \in {"queued", "failed"}
  /\ Kind[t] = "goal" => r.grev = d.worker[Home[t]].rev

\* What a poll writes for the tasks of B that it accepts.
Inserts(d, e, B, n) ==
  /\ e.goal = d.goal /\ e.worker = d.worker
  /\ \E A \in SUBSET B :
       /\ \A t \in Tasks :
            /\ e.task[t].state = d.task[t].state /\ e.task[t].enabled = d.task[t].enabled
            /\ e.task[t].sched = d.task[t].sched
            /\ e.task[t].next = IF t \in A THEN NextAfter(d.task[t].sched, n) ELSE d.task[t].next
            /\ e.mon[t].until = d.mon[t].until
            /\ e.mon[t].left = IF t \in A /\ Kind[t] = "monitor" THEN d.mon[t].left - 1
                                                                 ELSE d.mon[t].left
       /\ \A i \in Ids : \/ e.runs[i] = d.runs[i]
                         \/ d.runs[i].task = NoTask /\ \E t \in A : NewRun(d, e.runs[i], t)
       /\ \A i \in e.queue : \/ i \in d.queue /\ e.runs[i] = d.runs[i]
                             \/ /\ i \notin d.queue /\ e.runs[i].status = "queued"
                                /\ \E t \in A : NewRun(d, e.runs[i], t)

LEMMA InsertFields ==
  ASSUME NEW n \in Nat, NEW h, NEW d, Sound(d, n),
         NEW B \in SUBSET {t \in Tasks : IsDue(d, h, n, t)}, NEW p \in Places(d, B),
         d.last + Cardinality({t \in B : Accepted(d, B, p, t, n)}) <= MaxId
  PROVE  Inserts(d, Insert(d, B, p, n), B, n)
<1>. DEFINE A == {t \in B : Accepted(d, B, p, t, n)}
            row == [t \in A |-> d.last + 1 + Cardinality({u \in A : Sooner(d, u, t)})]
            new(i) == \E t \in A : row[t] = i
            who(i) == CHOOSE t \in A : row[t] = i
            made == {i \in Ids : new(i) /\ p[who(i)] # NoSession}
            run(i) == [task |-> who(i), due |-> d.task[who(i)].next, until |-> 0,
                       status |-> IF p[who(i)] = NoSession THEN "failed" ELSE "queued",
                       grev |-> IF Kind[who(i)] = "goal" THEN d.worker[p[who(i)]].rev ELSE 0]
            rn == [i \in Ids |-> IF new(i) THEN run(i) ELSE d.runs[i]]
            pm == [i \in Ids |-> IF i \in made THEN [session |-> p[who(i)], guidance |-> FALSE]
                                               ELSE d.prompt[i]]
            mn == [t \in Tasks |-> IF t \in A /\ Kind[t] = "monitor"
                                   THEN [d.mon[t] EXCEPT !.left = @ - 1] ELSE d.mon[t]]
            tk == [t \in Tasks |-> IF t \in A
                                   THEN [d.task[t] EXCEPT !.next = NextAfter(d.task[t].sched, n)]
                                   ELSE d.task[t]]
            ss == [s \in Sessions |-> IF \E t \in B : p[t] = s THEN "open" ELSE d.sess[s]]
            e == Insert(d, B, p, n)
<1>1. d \in Database /\ Unused(d)
  BY DEF Sound
<1>2. e = [d EXCEPT !.runs = rn, !.prompt = pm, !.queue = d.queue \cup made,
                    !.mon = mn, !.task = tk, !.sess = ss,
                    !.last = d.last + Cardinality(A)]
  BY DEF Insert
<1>3. A \in SUBSET B /\ A \in SUBSET Tasks /\ B \in SUBSET Tasks
  OBVIOUS
<1>4. \A t \in A : row[t] \in Nat /\ d.last < row[t]
  <2>. SUFFICES ASSUME NEW t \in A
                PROVE  row[t] \in Nat /\ d.last < row[t]
    OBVIOUS
  <2>. HIDE DEF A
  <2>1. Cardinality({u \in A : Sooner(d, u, t)}) \in Nat
    BY <1>1, <1>3, RowNumbers
  <2>2. row[t] = d.last + 1 + Cardinality({u \in A : Sooner(d, u, t)})
    OBVIOUS
  <2>3. d.last \in Nat
    BY <1>1 DEF Database
  <2>. HIDE DEF row
  <2>. QED
    BY <2>1, <2>2, <2>3
<1>. HIDE DEF row, A
<1>5. \A i \in Ids : new(i) => who(i) \in A
  OBVIOUS
<1>6. \A i \in Ids : new(i) => d.runs[i].task = NoTask /\ i \notin d.queue
  BY <1>1, <1>4 DEF Unused
<1>7. \A t \in A : Kind[t] = "goal" => p[t] = Home[t]
  <2>. SUFFICES ASSUME NEW t \in A, Kind[t] = "goal" PROVE p[t] = Home[t]
    OBVIOUS
  <2>1. t \in B /\ t \in Tasks
    BY <1>3
  <2>2. Home[t] # NoSession
    <3>1. \A u \in Tasks : Kind[u] # "saved" => Home[u] \in Sessions
      BY TasksAssumption
    <3>2. Kind[t] # "saved" /\ NoSession \notin Sessions
      BY TasksAssumption
    <3>. QED
      BY <2>1, <3>1, <3>2
  <2>. QED
    BY <2>1, <2>2 DEF Places
<1>. HIDE DEF who
<1>8. ASSUME NEW i \in Ids
      PROVE  /\ \/ rn[i] = d.runs[i] /\ ~new(i)
                \/ d.runs[i].task = NoTask /\ \E t \in A : NewRun(d, rn[i], t)
             /\ i \in made => rn[i].status = "queued" /\ \E t \in A : NewRun(d, rn[i], t)
             /\ i \in d.queue => rn[i] = d.runs[i]
  <2>1. CASE new(i)
    <3>1. who(i) \in A /\ rn[i] = run(i)
      BY <1>5, <2>1
    <3>2. Kind[who(i)] = "goal" => run(i).grev = d.worker[Home[who(i)]].rev
      BY <1>7, <3>1
    <3>3. run(i).task = who(i) /\ run(i).status \in {"queued", "failed"}
      OBVIOUS
    <3>4. i \in made => run(i).status = "queued"
      OBVIOUS
    <3>. HIDE DEF run, made, rn
    <3>5. NewRun(d, rn[i], who(i))
      BY <3>1, <3>2, <3>3 DEF NewRun
    <3>. QED
      BY <1>6, <2>1, <3>1, <3>4, <3>5
  <2>2. CASE ~new(i)
    <3>1. i \notin made
      BY <2>2
    <3>2. rn[i] = d.runs[i]
      BY <2>2
    <3>. HIDE DEF made, rn, new
    <3>. QED
      BY <2>2, <3>1, <3>2
  <2>. QED
    BY <2>1, <2>2
<1>9. ASSUME NEW t \in Tasks
      PROVE  /\ tk[t].state = d.task[t].state /\ tk[t].enabled = d.task[t].enabled
             /\ tk[t].sched = d.task[t].sched
             /\ tk[t].next = IF t \in A THEN NextAfter(d.task[t].sched, n) ELSE d.task[t].next
             /\ mn[t].until = d.mon[t].until
             /\ mn[t].left = IF t \in A /\ Kind[t] = "monitor" THEN d.mon[t].left - 1
                                                               ELSE d.mon[t].left
  <2>1. d.task[t] \in TaskRows /\ d.mon[t] \in [left : Int, until : Nat]
    BY <1>1 DEF Database
  <2>. QED
    BY <2>1 DEF TaskRows
<1>10. made \subseteq Ids /\ d.queue \subseteq Ids
  BY <1>1 DEF Database
<1>. HIDE DEF rn, pm, mn, tk, ss, made, new, run
<1>. HIDE DEF e
<1>11. /\ e.runs = rn /\ e.queue = d.queue \cup made /\ e.mon = mn /\ e.task = tk
       /\ e.goal = d.goal /\ e.worker = d.worker
  BY <1>1, <1>2 DEF Database
<1>12. \A i \in e.queue : \/ i \in d.queue /\ e.runs[i] = d.runs[i]
                          \/ /\ i \notin d.queue /\ e.runs[i].status = "queued"
                             /\ \E t \in A : NewRun(d, e.runs[i], t)
  BY <1>8, <1>10, <1>11
<1>13. Inserts(d, e, B, n)
  BY <1>3, <1>8, <1>9, <1>11, <1>12 DEF Inserts
<1>. QED
  BY <1>13 DEF e

\* What an insertion of runs, from d to e, leaves of the tasks, the runs and the prompts.
InsertSpares(d, e, X) ==
  /\ \A t \in Tasks : MonitorFit(e, t) /\ (TaskFit(d, t) => TaskFit(e, t))
  /\ \A t \in Tasks : e.mon[t].until = d.mon[t].until /\ e.task[t].enabled = d.task[t].enabled
                      /\ e.task[t].state = d.task[t].state
  /\ \A i \in Ids : Named(d, i) => Named(e, i)
  /\ \A i \in Ids : e.runs[i].status = "claimed" => d.runs[i].status = "claimed"
  /\ \A i \in e.queue : i \in d.queue => e.runs[i] = d.runs[i]
  /\ (\A t \in Tasks : TaskFit(d, t)) /\ Pending(d, X) => Pending(e, X)
  /\ \A Y : Alive(d, Y) => Alive(e, Y)

\* A task that is due has budget if it is a monitor, and works for its goal as it is.
LEMMA InsertKeeps ==
  ASSUME NEW n \in Nat, NEW h, NEW d, Sound(d, n),
         NEW B \in SUBSET {t \in Tasks : IsDue(d, h, n, t)}, NEW p \in Places(d, B),
         d.last + Cardinality({t \in B : Accepted(d, B, p, t, n)}) <= MaxId,
         NEW e, e = Insert(d, B, p, n), \A t \in Tasks : MonitorFit(d, t), NEW X
  PROVE  InsertSpares(d, e, X)
<1>1. d \in Database /\ d.queue \subseteq Ids
  BY DEF Sound, Database
<1>0. Inserts(d, e, B, n)
  BY InsertFields
<1>2. e.goal = d.goal /\ e.worker = d.worker
  BY <1>0 DEF Inserts
<1>3. PICK A \in SUBSET B :
        /\ \A t \in Tasks :
             /\ e.task[t].state = d.task[t].state /\ e.task[t].enabled = d.task[t].enabled
             /\ e.task[t].sched = d.task[t].sched
             /\ e.task[t].next = IF t \in A THEN NextAfter(d.task[t].sched, n) ELSE d.task[t].next
             /\ e.mon[t].until = d.mon[t].until
             /\ e.mon[t].left = IF t \in A /\ Kind[t] = "monitor" THEN d.mon[t].left - 1
                                                                  ELSE d.mon[t].left
        /\ \A i \in Ids : \/ e.runs[i] = d.runs[i]
                          \/ d.runs[i].task = NoTask /\ \E t \in A : NewRun(d, e.runs[i], t)
        /\ \A i \in e.queue : \/ i \in d.queue /\ e.runs[i] = d.runs[i]
                              \/ /\ i \notin d.queue /\ e.runs[i].status = "queued"
                                 /\ \E t \in A : NewRun(d, e.runs[i], t)
  BY <1>0 DEF Inserts
<1>4. \A t \in A : t \in Tasks /\ d.task[t].enabled /\ d.task[t].next # NoTime
  BY DEF IsDue
<1>5. ASSUME NEW t \in Tasks PROVE MonitorFit(e, t)
  <2>. SUFFICES ASSUME Kind[t] = "monitor" PROVE MonitorFit(e, t)
    BY DEF MonitorFit
  <2>1. MonitorFit(d, t)
    OBVIOUS
  <2>2. CASE t \in A
    <3>1. d.task[t].sched = {} /\ d.mon[t].left > 0 /\ d.mon[t].left \in Int /\ Live(d, t)
      BY <1>1, <1>4, <2>1, <2>2 DEF MonitorFit, Database
    <3>2. NextAfter(d.task[t].sched, n) = NoTime
      BY <3>1 DEF NextAfter, Later
    <3>3. /\ e.task[t].next = NextAfter(d.task[t].sched, n) /\ e.task[t].sched = d.task[t].sched
          /\ e.mon[t].left = d.mon[t].left - 1 /\ e.task[t].state = d.task[t].state
      BY <1>3, <2>2
    <3>4. e.task[t].next = NoTime /\ e.task[t].sched = {} /\ e.task[t].state = "live"
      BY <3>1, <3>2, <3>3 DEF Live
    <3>5. e.mon[t].left >= 0
      BY <3>1, <3>3
    <3>. QED
      BY <3>4, <3>5 DEF MonitorFit, Live
  <2>3. CASE t \notin A
    <3>1. \A i \in Ids : e.runs[i].task = t => e.runs[i] = d.runs[i]
      BY <1>3, <2>3 DEF NewRun
    <3>2. HasActive(e, t) => HasActive(d, t)
      BY <3>1 DEF HasActive, RunsOf
    <3>3. /\ e.task[t].state = d.task[t].state /\ e.task[t].enabled = d.task[t].enabled
          /\ e.task[t].sched = d.task[t].sched /\ e.task[t].next = d.task[t].next
          /\ e.mon[t].left = d.mon[t].left
      BY <1>3, <2>3
    <3>. QED
      BY <2>1, <3>1, <3>2, <3>3 DEF MonitorFit, Live
  <2>. QED
    BY <2>2, <2>3
<1>6. ASSUME NEW t \in Tasks, TaskFit(d, t) PROVE TaskFit(e, t)
  <2>1. e.task[t].state = d.task[t].state /\ e.task[t].enabled = d.task[t].enabled
    BY <1>3
  <2>. QED
    BY <1>2, <1>6, <2>1 DEF TaskFit, Live
<1>7. ASSUME NEW i \in Ids, Named(d, i) PROVE Named(e, i)
  BY <1>3, <1>4, <1>7 DEF Named, NewRun
<1>8. ASSUME NEW i \in Ids, e.runs[i].status = "claimed" PROVE d.runs[i].status = "claimed"
  BY <1>3, <1>8 DEF NewRun
<1>9. ASSUME \A t \in Tasks : TaskFit(d, t), Pending(d, X) PROVE Pending(e, X)
  <2>. SUFFICES ASSUME NEW i \in e.queue, Scheduled(e, i), i \notin X \/ Kind[e.runs[i].task] = "goal"
                PROVE  Valid(e, i)
    BY DEF Pending
  <2>1. CASE i \in d.queue /\ e.runs[i] = d.runs[i]
    <3>1. Valid(d, i)
      BY <1>9, <2>1 DEF Pending, Scheduled
    <3>2. d.runs[i].task \in Tasks
      BY <1>1, <2>1 DEF Scheduled, Database, Runs
    <3>3. /\ e.task[d.runs[i].task].state = d.task[d.runs[i].task].state
          /\ e.task[d.runs[i].task].enabled = d.task[d.runs[i].task].enabled
      BY <1>3, <3>2
    <3>. QED
      BY <1>2, <2>1, <3>1, <3>3 DEF Valid, Unstarted, Live
  <2>2. CASE e.runs[i].status = "queued" /\ \E t \in A : NewRun(d, e.runs[i], t)
    <3>1. PICK t \in A : NewRun(d, e.runs[i], t)
      BY <2>2
    <3>2. t \in Tasks /\ d.task[t].enabled /\ TaskFit(d, t)
      BY <1>4, <1>9
    <3>3. e.task[t].enabled /\ Live(e, t)
      BY <1>3, <3>2 DEF TaskFit, Live
    <3>. QED
      BY <1>2, <2>2, <3>1, <3>2, <3>3 DEF Valid, Unstarted, NewRun, TaskFit
  <2>. QED
    BY <1>3, <2>1, <2>2
<1>10. ASSUME NEW Y, Alive(d, Y) PROVE Alive(e, Y)
  BY <1>3, <1>10 DEF Alive, Scheduled, Unstarted
<1>. QED
  BY <1>3, <1>5, <1>6, <1>7, <1>8, <1>9, <1>10 DEF InsertSpares

\* A claim is of a run that is queued, of an enabled task.
LEMMA ClaimFields ==
  ASSUME NEW d \in Database, NEW h, NEW n, NEW e, e = Claim(d, h, n)
  PROVE  /\ e.queue = d.queue /\ e.task = d.task /\ Rest(e) = Rest(d)
         /\ \A i \in Ids : /\ e.runs[i].task = d.runs[i].task /\ e.runs[i].grev = d.runs[i].grev
                           /\ \/ e.runs[i] = d.runs[i]
                              \/ /\ e.runs[i].status = "claimed" /\ d.runs[i].status = "queued"
                                 /\ d.task[d.runs[i].task].enabled
<1>. DEFINE C == {i \in Ids : Claimable(d, h, n, i)}
            B == {i \in C : Cardinality({j \in C : j < i}) < ClaimBatch}
            f == [i \in Ids |->
                    IF i \in B THEN [d.runs[i] EXCEPT !.status = "claimed", !.until = n + LeaseTime]
                               ELSE d.runs[i]]
<1>1. e = [d EXCEPT !.runs = f]
  BY DEF Claim
<1>2. \A i \in B : d.runs[i].status = "queued" /\ d.task[d.runs[i].task].enabled
  BY DEF Claimable
<1>. HIDE DEF B
<1>3. ASSUME NEW i \in Ids
      PROVE  /\ f[i].task = d.runs[i].task /\ f[i].grev = d.runs[i].grev
             /\ f[i] = d.runs[i] \/ (i \in B /\ f[i].status = "claimed")
  <2>1. d.runs[i] \in Runs
    BY DEF Database
  <2>. QED
    BY <2>1 DEF Runs
<1>. HIDE DEF f
<1>4. e.runs = f /\ e.queue = d.queue /\ e.task = d.task /\ Rest(e) = Rest(d)
  BY <1>1 DEF Database, Rest
<1>. QED
  BY <1>2, <1>3, <1>4

LEMMA ClaimKeeps ==
  ASSUME NEW d \in Database, NEW h, NEW n
  PROVE  Tidies(d, Claim(d, h, n)) /\ \A t \in Tasks : MonitorFit(d, t) => MonitorFit(Claim(d, h, n), t)
<1>. SUFFICES ASSUME NEW e, e = Claim(d, h, n)
              PROVE  Tidies(d, e) /\ \A t \in Tasks : MonitorFit(d, t) => MonitorFit(e, t)
  OBVIOUS
<1>1. /\ e.queue = d.queue /\ e.task = d.task /\ Rest(e) = Rest(d)
      /\ \A i \in Ids : /\ e.runs[i].task = d.runs[i].task /\ e.runs[i].grev = d.runs[i].grev
                        /\ \/ e.runs[i] = d.runs[i]
                           \/ /\ e.runs[i].status = "claimed" /\ d.runs[i].status = "queued"
                              /\ d.task[d.runs[i].task].enabled
  BY ClaimFields
<1>2. \A i \in Ids : e.runs[i].status \in Active => d.runs[i].status \in Active
  BY <1>1 DEF Active
<1>3. /\ \A t \in Tasks : MonitorFit(d, t) => MonitorFit(e, t)
      /\ \A t \in Tasks : TaskFit(d, t) => TaskFit(e, t)
      /\ \A i \in Ids : Named(d, i) => Named(e, i)
  BY <1>1, <1>2, SameTasks
<1>4. e.goal = d.goal /\ d.queue \subseteq Ids
  BY <1>1 DEF Rest, Database
<1>5. ASSUME NEW i \in e.queue PROVE Keeps(d, e, i)
  BY <1>1, <1>4, <1>5, SameValid DEF Unstarted
<1>. QED
  BY <1>1, <1>3, <1>4, <1>5 DEF Tidies

\* After the cleanup, the monitors that are still enabled have not expired.
LEMMA CleanupLife ==
  ASSUME NEW d \in Database, NEW n \in Nat, NEW t \in Tasks, Kind[t] = "monitor",
         d.task[t].enabled => Live(d, t), Cleanup(d, n).task[t].enabled
  PROVE  n < Cleanup(d, n).mon[t].until
<1>. DEFINE E == {u \in Tasks : Kind[u] = "monitor" /\ Live(d, u) /\ d.mon[u].until <= n}
            c == CancelPending(d, E)
            e == Stop(c, E, NoTime)
<1>1. c \in Database /\ c.task = d.task /\ c.mon = d.mon
  BY CancelFields DEF Rest
<1>. HIDE DEF c
<1>2. ExpireMonitors(d, n) = e
  BY DEF ExpireMonitors, Stop, c
<1>3. t \in E => ~e.task[t].enabled
  <2>. HIDE DEF E
  <2>. QED
    BY <1>1, StopFields
<1>4. t \notin E => e.task[t].enabled = d.task[t].enabled
  <2>. HIDE DEF E
  <2>. QED
    BY <1>1, StopFields
<1>5. e.mon = d.mon /\ e \in Database
  <2>1. e.mon = d.mon
    BY <1>1, StopFields DEF Rest
  <2>2. e \in Database
    BY StopTidies DEF c
  <2>. QED
    BY <2>1, <2>2
<1>6. d.mon[t].until \in Nat /\ (t \notin E /\ Live(d, t) => ~(d.mon[t].until <= n))
  BY DEF Database
<1>. HIDE DEF e, E
<1>7. PICK T \in SUBSET Tasks : Cleanup(d, n) = DropTasks(e, T)
  BY <1>2 DEF Cleanup, DropSpent
<1>8. IF t \in T THEN ~Cleanup(d, n).task[t].enabled
      ELSE Cleanup(d, n).task[t] = e.task[t] /\ Cleanup(d, n).mon[t] = e.mon[t]
  BY <1>5, <1>7, DropFields
<1>. QED
  BY <1>3, <1>4, <1>5, <1>6, <1>8

-----------------------------------------------------------------------------
(* The invariants.                                                          *)

MonitorsFit == (\A t \in Tasks : MonitorFit(db, t)) /\ \A i \in Ids : Named(db, i)

\* The run of a monitor is claimed only in the monitor's lifetime.
ClaimsInLife ==
  \A i \in Ids : /\ db'.runs[i].status = "claimed" /\ db.runs[i].status # "claimed"
                 /\ Kind[db'.runs[i].task] = "monitor"
                 => now < db'.mon[db'.runs[i].task].until

LEMMA PollKeeps ==
  ASSUME IInv, MonitorsFit, NEW h \in Hosts, Poll(h), NEW X
  PROVE  /\ MonitorsFit' /\ ClaimsInLife
         /\ (\A t \in Tasks : TaskFit(db, t)) /\ Pending(db, X)
            => (\A t \in Tasks : TaskFit(db', t)) /\ Pending(db', X)
         /\ \A Y : Alive(db, Y) => Alive(db', Y)
         /\ \A i \in db'.queue : i <= db.last /\ Scheduled(db', i)
                                 => i \in db.queue /\ db.runs[i].task = db'.runs[i].task
<1>. DEFINE c == Recover(db, now)
            r == Rearm(c, now)
            d == Cleanup(r, now)
            B == Batch(d, h, now)
<1>1. now \in Nat /\ Sound(db, now) /\ db \in Database
  BY DEF IInv, TypeOK
<1>2. Sound(c, now) /\ Sound(r, now) /\ Sound(d, now)
  BY <1>1, RecoverSound, RearmSound, CleanupSound
<1>3. c \in Database /\ r \in Database /\ d \in Database
  BY <1>2 DEF Sound
<1>4. Curbs(db, r) /\ Curbs(db, d)
  <2>1. Curbs(db, c)
    BY <1>1, RecoverCurbs
  <2>. HIDE DEF c
  <2>2. Curbs(c, r)
    BY <1>3, RearmCurbs
  <2>. HIDE DEF r
  <2>. QED
    BY <1>3, <2>1, <2>2, CurbsTwice, CleanupCurbs
<1>5. \A t \in Tasks : /\ MonitorFit(d, t)
                       /\ Kind[t] = "monitor" /\ d.task[t].enabled => now < d.mon[t].until
  <2>. HIDE DEF r
  <2>1. \A t \in Tasks : MonitorFit(r, t) /\ MonitorFit(d, t)
    BY <1>4 DEF MonitorsFit, Curbs, Slows
  <2>2. \A t \in Tasks : Kind[t] = "monitor" /\ r.task[t].enabled => Live(r, t)
    BY <2>1 DEF MonitorFit
  <2>3. \A t \in Tasks : Kind[t] = "monitor" /\ d.task[t].enabled => now < d.mon[t].until
    BY <1>1, <1>3, <2>2, CleanupLife
  <2>. QED
    BY <2>1, <2>3
<1>6. B \in SUBSET {t \in Tasks : IsDue(d, h, now, t)}
  BY DEF Batch
<1>7. d.last = db.last
  <2>1. c.last = db.last
    BY <1>1 DEF Recover, Database
  <2>. HIDE DEF c
  <2>2. r.last = c.last
    BY <1>3 DEF Rearm, SetNext, Database
  <2>. HIDE DEF r
  <2>. QED
    BY <1>1, <1>3, <2>1, <2>2, CleanupWithdraws DEF Withdraws
<1>8. PICK p \in Places(d, B) :
        /\ d.last + Cardinality({t \in B : Accepted(d, B, p, t, now)}) <= MaxId
        /\ db' = Claim(Insert(d, B, p, now), h, now)
  BY DEF Poll
<1>. HIDE DEF d, B
<1>. DEFINE e == Insert(d, B, p, now)
<1>9. e \in Database
  BY <1>1, <1>2, <1>6, <1>8, InsertSound DEF Sound
<1>10. /\ \A t \in Tasks : MonitorFit(e, t) /\ (TaskFit(d, t) => TaskFit(e, t))
       /\ \A t \in Tasks : e.mon[t].until = d.mon[t].until /\ e.task[t].enabled = d.task[t].enabled
                           /\ e.task[t].state = d.task[t].state
       /\ \A i \in Ids : Named(d, i) => Named(e, i)
       /\ \A i \in Ids : e.runs[i].status = "claimed" => d.runs[i].status = "claimed"
       /\ \A i \in e.queue : i \in d.queue => e.runs[i] = d.runs[i]
       /\ (\A t \in Tasks : TaskFit(d, t)) /\ Pending(d, X) => Pending(e, X)
       /\ \A Y : Alive(d, Y) => Alive(e, Y)
  <2>1. e = Insert(d, B, p, now) /\ \A t \in Tasks : MonitorFit(d, t)
    BY <1>5
  <2>2. /\ Sound(d, now) /\ d.last + Cardinality({t \in B : Accepted(d, B, p, t, now)}) <= MaxId
        /\ p \in Places(d, B)
    BY <1>2, <1>8
  <2>. HIDE DEF e
  <2>3. InsertSpares(d, e, X)
    BY <1>1, <1>6, <2>1, <2>2, InsertKeeps, ZenonT(30)
  <2>. QED
    BY <2>3 DEF InsertSpares
<1>. HIDE DEF e
<1>11. /\ db'.queue = e.queue /\ db'.task = e.task /\ Rest(db') = Rest(e)
       /\ \A i \in Ids : /\ db'.runs[i].task = e.runs[i].task /\ db'.runs[i].grev = e.runs[i].grev
                         /\ \/ db'.runs[i] = e.runs[i]
                            \/ /\ db'.runs[i].status = "claimed" /\ e.runs[i].status = "queued"
                               /\ e.task[e.runs[i].task].enabled
  <2>. SUFFICES ASSUME NEW f, f = db'
                PROVE  /\ f.queue = e.queue /\ f.task = e.task /\ Rest(f) = Rest(e)
                       /\ \A i \in Ids : /\ f.runs[i].task = e.runs[i].task
                                         /\ f.runs[i].grev = e.runs[i].grev
                                         /\ \/ f.runs[i] = e.runs[i]
                                            \/ /\ f.runs[i].status = "claimed"
                                               /\ e.runs[i].status = "queued"
                                               /\ e.task[e.runs[i].task].enabled
    OBVIOUS
  <2>1. f = Claim(e, h, now)
    BY <1>8 DEF e
  <2>. QED
    BY <1>9, <2>1, ClaimFields
<1>12. Tidies(e, db') /\ \A t \in Tasks : MonitorFit(e, t) => MonitorFit(db', t)
  <2>. SUFFICES ASSUME NEW f, f = db'
                PROVE  Tidies(e, f) /\ \A t \in Tasks : MonitorFit(e, t) => MonitorFit(f, t)
    OBVIOUS
  <2>1. f = Claim(e, h, now)
    BY <1>8 DEF e
  <2>. QED
    BY <1>9, <2>1, ClaimKeeps
<1>13. \A i \in Ids : Named(d, i) /\ Named(e, i) /\ Named(db', i)
  BY <1>4, <1>10, <1>12 DEF MonitorsFit, Curbs, Tidies
<1>14. MonitorsFit'
  BY <1>10, <1>12, <1>13 DEF MonitorsFit
<1>15. ClaimsInLife
  <2>. SUFFICES ASSUME NEW i \in Ids, db'.runs[i].status = "claimed", db.runs[i].status # "claimed",
                       Kind[db'.runs[i].task] = "monitor"
                PROVE  now < db'.mon[db'.runs[i].task].until
    BY DEF ClaimsInLife
  <2>1. e.runs[i].status # "claimed"
    BY <1>4, <1>10 DEF Curbs, Slows
  <2>2. /\ e.runs[i].status = "queued" /\ e.task[e.runs[i].task].enabled
        /\ db'.runs[i].task = e.runs[i].task
    BY <1>11, <2>1
  <2>3. e.runs[i].task \in Tasks
    BY <1>13, <2>2 DEF Named, Active
  <2>4. now < e.mon[e.runs[i].task].until
    BY <1>5, <1>10, <2>2, <2>3
  <2>. QED
    BY <1>11, <2>2, <2>4 DEF Rest
<1>16. (\A t \in Tasks : TaskFit(db, t)) /\ Pending(db, X)
       => (\A t \in Tasks : TaskFit(db', t)) /\ Pending(db', X)
  <2>. SUFFICES ASSUME \A t \in Tasks : TaskFit(db, t), Pending(db, X)
                PROVE  (\A t \in Tasks : TaskFit(db', t)) /\ Pending(db', X)
    OBVIOUS
  <2>1. Tidies(db, d)
    BY <1>4 DEF Curbs
  <2>2. (\A t \in Tasks : TaskFit(d, t)) /\ Pending(d, X)
    BY <2>1, TidiesPending DEF Tidies
  <2>3. (\A t \in Tasks : TaskFit(e, t)) /\ Pending(e, X)
    BY <1>10, <2>2
  <2>. QED
    BY <1>12, <2>3, TidiesPending DEF Tidies
<1>17. ASSUME NEW i \in db'.queue, i <= db.last, Scheduled(db', i)
       PROVE  i \in db.queue /\ db.runs[i].task = db'.runs[i].task
  <2>1. e.queue \subseteq d.queue \cup (d.last + 1)..e.last
    BY <1>1, <1>2, <1>6, <1>8, InsertGrows DEF Grows, e
  <2>2. d.last = db.last /\ db.last \in Int
    BY <1>1, <1>7 DEF Database
  <2>3. i \in d.queue /\ i \in Ids /\ db'.runs[i].task = e.runs[i].task /\ e.runs[i] = d.runs[i]
    <3>1. i \in e.queue
      BY <1>11, <1>17
    <3>2. i \in d.queue
      BY <1>17, <2>1, <2>2, <3>1
    <3>. QED
      BY <1>3, <1>10, <1>11, <3>1, <3>2 DEF Database
  <2>. QED
    BY <1>4, <1>17, <2>3 DEF Curbs, Tidies, Scheduled
<1>18. ASSUME NEW Y, Alive(db, Y) PROVE Alive(db', Y)
  <2>1. Alive(e, Y)
    BY <1>4, <1>10, <1>18, TidiesAlive DEF Curbs
  <2>. QED
    BY <1>12, <2>1, TidiesAlive
<1>. QED
  BY <1>14, <1>15, <1>16, <1>17, <1>18

-----------------------------------------------------------------------------
(* The steps.                                                               *)

Removes == \/ \E i \in Ids : RemoveFind(i)
           \/ RemoveReadGoal \/ RemoveSaveGoal \/ RemoveStopWorker
           \/ RemoveCancel \/ RemoveDelete \/ RemoveAbandoned

\* No statement of a removal makes a run.
LEMMA RemovalNames ==
  ASSUME db \in Database, Removes
  PROVE  \A i \in Ids : Named(db, i) => Named(db', i)
<1>. SUFFICES ASSUME NEW d, d = db, NEW e, e = db' PROVE \A i \in Ids : Named(d, i) => Named(e, i)
  OBVIOUS
<1>1. CASE e.runs = d.runs
  BY <1>1 DEF Named
<1>2. CASE RemoveCancel /\ e # d
  <2>1. e = SetStatus(d, {removal.id}, "cancelled")
    BY <1>2 DEF RemoveCancel
  <2>2. \A i \in Ids : /\ e.runs[i].task = d.runs[i].task
                       /\ e.runs[i].status = IF i \in {removal.id} THEN "cancelled"
                                                                  ELSE d.runs[i].status
    BY <2>1, StatusFields
  <2>. QED
    BY <2>2 DEF Named, Active
<1>3. ASSUME Removes, ~(RemoveCancel /\ e # d) PROVE e.runs = d.runs
  BY <1>3 DEF Removes, RemoveFind, RemoveReadGoal, RemoveSaveGoal, RemoveStopWorker, RemoveCancel,
              RemoveDelete, RemoveAbandoned, SetTasks, Database
<1>. QED
  BY <1>1, <1>2, <1>3

\* Every step that is neither a poll nor one of a removal or of a lease request only
\* curbs the work.
LEMMA StepCurbs ==
  ASSUME IInv, MonitorsFit, [Next]_vars
  PROVE  \/ Removes \/ Yielding \/ \E h \in Hosts : Poll(h)
         \/ Curbs(db, db') /\ removal' = removal /\ Withdrawn' = Withdrawn
<1>1. db \in Database /\ now \in Nat /\ \A i \in Ids : Named(db, i)
  BY DEF IInv, TypeOK, MonitorsFit
<1>0. yields' = yields => Withdrawn' = Withdrawn
  BY DEF Withdrawn, GoalTasks
<1>2. CASE Edit
  <2>1. removal' = removal /\ yields' = yields
    BY <1>2 DEF Edit, CreateTask, UpdateTask, EnableTask, DisableTask, DeleteTask, StartMonitor,
                CancelMonitor
  <2>. QED
    BY <1>0, <1>1, <1>2, <2>1, EditCurbs
<1>3. CASE Goals
  <2>1. PICK s \in Sessions : StartGoal(s) \/ ResumeGoal(s) \/ PauseGoal(s) \/ CompleteGoal(s)
    BY <1>3 DEF Goals
  <2>2. PICK status \in {"active", "paused", "completed"} : \E from : GoalCommand(s, status, from)
    BY <2>1 DEF StartGoal, ResumeGoal, PauseGoal, CompleteGoal
  <2>3. removal' = removal /\ yields' = yields
    BY <2>2 DEF GoalCommand
  <2>. QED
    BY <1>0, <1>1, <2>2, <2>3, GoalCommandCurbs
<1>4. CASE Chat
  <2>1. CASE \E s \in Sessions, g \in BOOLEAN : Enqueue(s, g)
    <3>1. removal' = removal /\ yields' = yields
      BY <2>1 DEF Enqueue
    <3>. QED
      BY <1>0, <2>1, <3>1, EnqueueCurbs
  <2>2. CASE \E i \in Ids : Consume(i)
    <3>1. removal' = removal /\ yields' = yields
      BY <2>2 DEF Consume
    <3>. QED
      BY <1>0, <1>1, <2>2, <3>1, ConsumeCurbs
  <2>. QED
    BY <1>4, <2>1, <2>2 DEF Chat, Removes
<1>5. CASE Running
  <2>1. CASE \E s \in Sessions, k \in Ids \cup Clients : Lease(s, k)
    <3>1. PICK s \in Sessions, k \in Ids \cup Clients : Lease(s, k)
      BY <2>1
    <3>2. removal' = removal
      BY <3>1 DEF Lease
    <3>3. Withdrawn' = Withdrawn
      BY <3>1, LeaseWithdrawn DEF IInv, TypeOK
    <3>. QED
      BY <1>1, <3>1, <3>2, <3>3, LeaseCurbs
  <2>2. CASE \E s \in Sessions, k \in Ids \cup Clients : Release(s, k)
    <3>1. removal' = removal /\ yields' = yields
      BY <2>2 DEF Release
    <3>. QED
      BY <1>0, <1>1, <2>2, <3>1, LeaseCurbs
  <2>3. CASE \E i \in Ids : Report(i)
    <3>1. PICK i \in Ids : Report(i)
      BY <2>3
    <3>2. PICK st \in {"queued", "running", "blocked", "complete", "cancelled", "failed"},
               a \in Assessments \cup {Unassessed} : Result(i, st, a)
      BY <3>1 DEF Report
    <3>3. removal' = removal /\ yields' = yields
      BY <3>2 DEF Result
    <3>. QED
      BY <1>0, <1>1, <3>2, <3>3, ResultCurbs
  <2>. QED
    BY <1>5, <2>1, <2>2, <2>3 DEF Running
<1>6. CASE Upkeep
  <2>1. CASE Tick
    <3>1. Curbs(db, db)
      BY DEF Curbs, Slows, Tidies, Keeps
    <3>2. db' = db /\ removal' = removal /\ yields' = yields
      BY <2>1 DEF Tick
    <3>. QED
      BY <1>0, <3>1, <3>2
  <2>2. CASE \E s \in Sessions : PrepareRewind(s) \/ CompleteRewind(s) \/ DeleteSession(s)
    <3>1. removal' = removal /\ yields' = yields
      BY <2>2 DEF PrepareRewind, CompleteRewind, DeleteSession
    <3>. QED
      BY <1>0, <1>1, <2>2, <3>1, LeaseCurbs, DeleteSessionCurbs
  <2>. QED
    BY <1>6, <2>1, <2>2 DEF Upkeep
<1>7. CASE UNCHANGED vars
  <2>1. Curbs(db, db)
    BY DEF Curbs, Slows, Tidies, Keeps
  <2>2. db' = db /\ removal' = removal /\ yields' = yields
    BY <1>7 DEF vars
  <2>. QED
    BY <1>0, <2>1, <2>2
<1>. QED
  BY <1>2, <1>3, <1>4, <1>5, <1>6, <1>7 DEF Next

\* No step claims a monitor's run out of time or starts a check without budget.
LEMMA StepMonitors ==
  ASSUME IInv, MonitorsFit, [Next]_vars
  PROVE  MonitorsFit' /\ [ClaimsInLife]_vars
<1>1. CASE \E h \in Hosts : Poll(h)
  BY <1>1, PollKeeps
<1>2. ASSUME Slows(db, db'), \A i \in Ids : Named(db, i) => Named(db', i)
      PROVE  MonitorsFit' /\ ClaimsInLife
  BY <1>2 DEF MonitorsFit, Slows, ClaimsInLife
<1>3. CASE Removes
  <2>1. db \in Database
    BY DEF IInv, TypeOK
  <2>2. Slows(db, db')
    BY <1>3, <2>1, RemovalSlows DEF Removes
  <2>3. \A i \in Ids : Named(db, i) => Named(db', i)
    BY <1>3, <2>1, RemovalNames DEF Removes
  <2>. QED
    BY <1>2, <2>2, <2>3
<1>4. CASE Curbs(db, db')
  BY <1>2, <1>4 DEF Curbs, Tidies
<1>5. CASE Yielding
  <2>1. Slows(db, db') /\ Thins(db, db')
    BY <1>5, YieldThins DEF IInv, TypeOK
  <2>. QED
    BY <1>2, <2>1 DEF Thins
<1>. QED
  BY <1>1, <1>3, <1>4, <1>5, StepCurbs

-----------------------------------------------------------------------------
(* Prompts and goals, where no goal prompt is removed from the queue.       *)

\* A request that dies may leave any prompt half removed.
HalfRemoved == IF CutOff THEN Ids ELSE {removal.id}

\* The prompt that is being removed is not a goal worker's.
Plain ==
  removal.stage \in {"paused", "cancelled"} =>
    /\ removal.id \in 1..db.last
    /\ removal.id \in db.queue /\ Scheduled(db, removal.id)
       => Kind[db.runs[removal.id].task] # "goal"

Tidy == /\ \A t \in Tasks : TaskFit(db, t)
        /\ Plain /\ Pending(db, HalfRemoved) /\ Alive(db, Withdrawn)

LEMMA StepTidy ==
  ASSUME GoalRemoval = FALSE, IInv, MonitorsFit, NoGoalRemoval, Tidy, [Next]_vars
  PROVE  Tidy'
<1>1. db \in Database /\ db.queue \subseteq Ids /\ db.last \in Int /\ db'.last \in Int /\ Unused(db)
  <2>1. db \in Database /\ db' \in Database /\ Unused(db)
    BY NextSound DEF IInv, TypeOK, Sound
  <2>. QED
    BY <2>1 DEF Database
<1>2. db'.last >= db.last
  <2>1. [Delivery!Next]_Delivery!vars
    BY NextDelivers
  <2>. QED
    BY <1>1, <2>1 DEF Delivery!Next, Delivery!Change, Delivery!Deliver, Delivery!vars
<1>3. CASE \E h \in Hosts : Poll(h)
  <2>1. PICK h \in Hosts : Poll(h)
    BY <1>3
  <2>2. removal' = removal
    BY <2>1 DEF Poll
  <2>3. HalfRemoved' = HalfRemoved
    BY <2>2 DEF HalfRemoved
  <2>4. (\A t \in Tasks : TaskFit(db', t)) /\ Pending(db', HalfRemoved)
    BY <2>1, PollKeeps DEF Tidy
  <2>7. Alive(db', Withdrawn')
    <3>1. Withdrawn' = Withdrawn
      BY <2>1 DEF Poll, Withdrawn, GoalTasks
    <3>. QED
      BY <2>1, <3>1, PollKeeps DEF Tidy
  <2>5. \A i \in db'.queue : i <= db.last /\ Scheduled(db', i)
                             => i \in db.queue /\ db.runs[i].task = db'.runs[i].task
    BY <2>1, PollKeeps
  <2>6. Plain'
    BY <1>1, <1>2, <2>2, <2>5 DEF Tidy, Plain, Scheduled
  <2>. QED
    BY <2>3, <2>4, <2>6, <2>7 DEF Tidy
<1>4. CASE Thins(db, db') /\ removal' = removal /\ Alive(db', Withdrawn')
  <2>1. HalfRemoved' = HalfRemoved
    BY <1>4 DEF HalfRemoved
  <2>2. (\A t \in Tasks : TaskFit(db', t)) /\ Pending(db', HalfRemoved)
    BY <1>4, ThinsPending DEF Tidy, Thins
  <2>3. Plain'
    BY <1>1, <1>2, <1>4 DEF Tidy, Plain, Scheduled, Thins
  <2>. QED
    BY <1>4, <2>1, <2>2, <2>3 DEF Tidy
<1>0. Removes => Withdrawn' = Withdrawn
  <2>. SUFFICES ASSUME Removes PROVE yields' = yields
    BY DEF Withdrawn, GoalTasks
  <2>. QED
    BY DEF Removes, RemoveFind, RemoveReadGoal, RemoveSaveGoal, RemoveStopWorker, RemoveCancel,
           RemoveDelete, RemoveAbandoned
<1>5. CASE \E i \in Ids : RemoveFind(i)
  <2>1. PICK i \in Ids : RemoveFind(i)
    BY <1>5
  <2>2. /\ i \in db.queue /\ removal.id = 0
        /\ ~(Scheduled(db, i) /\ Kind[db.runs[i].task] = "goal") /\ db' = db
        /\ removal'.id = i
    <3>1. removal.id = 0
      BY <2>1 DEF RemoveFind, IInv, TypeOK, Removals, NoRemoval
    <3>. QED
      BY <2>1, <3>1 DEF RemoveFind
  <2>3. i \in 1..db.last
    BY <1>1, <2>2 DEF Unused, Ids
  <2>4. Plain'
    BY <2>2, <2>3 DEF Plain, Scheduled
  <2>5. 0 \notin db.queue
    BY <1>1 DEF Ids
  <2>6. Pending(db, HalfRemoved')
    BY <2>2, <2>5 DEF Tidy, Pending, HalfRemoved
  <2>7. Withdrawn' = Withdrawn
    BY <1>0, <1>5 DEF Removes
  <2>. QED
    BY <2>2, <2>4, <2>6, <2>7 DEF Tidy
<1>6. CASE RemoveCancel
  <2>1. removal.stage = "paused" /\ removal'.id = removal.id /\ removal'.stage = "cancelled"
    BY <1>6 DEF RemoveCancel, IInv, TypeOK, Removals, NoRemoval
  <2>2. removal.id \in Ids
    BY <1>6 DEF RemoveCancel, IInv, TypeOK, Removals, NoRemoval
  <2>3. removal.id \in HalfRemoved
    BY <2>2 DEF HalfRemoved
  <2>4. removal.id \in db.queue /\ Scheduled(db, removal.id)
          => Kind[db.runs[removal.id].task] # "goal"
    BY <2>1 DEF Tidy, Plain
  <2>5. /\ \A t \in Tasks : TaskFit(db, t) => TaskFit(db', t)
        /\ Pending(db', HalfRemoved) /\ Alive(db', Withdrawn) /\ db'.queue = db.queue
        /\ \A i \in Ids : db'.runs[i].task = db.runs[i].task
    BY <1>1, <1>6, <2>3, <2>4, RemoveCancelPending DEF Tidy
  <2>6. HalfRemoved' = HalfRemoved
    BY <2>1 DEF HalfRemoved
  <2>7. Plain'
    BY <1>1, <1>2, <2>1, <2>2, <2>5 DEF Tidy, Plain, Scheduled
  <2>8. Withdrawn' = Withdrawn
    BY <1>0, <1>6 DEF Removes
  <2>. QED
    BY <2>5, <2>6, <2>7, <2>8 DEF Tidy
<1>7. CASE RemoveDelete
  <2>1. Tidies(db, db') /\ removal.id \notin db'.queue
    BY <1>1, <1>7, RemoveDeleteTidies
  <2>2. removal' = NoRemoval
    BY <1>7 DEF RemoveDelete
  <2>3. Plain'
    BY <2>2 DEF Plain, NoRemoval
  <2>4. (\A t \in Tasks : TaskFit(db', t)) /\ Pending(db', HalfRemoved)
    BY <2>1, TidiesPending DEF Tidy, Tidies
  <2>5. Pending(db', HalfRemoved')
    BY <2>1, <2>4 DEF Pending, HalfRemoved
  <2>6. Alive(db', Withdrawn')
    BY <1>0, <1>7, <2>1, TidiesAlive DEF Tidy, Removes
  <2>. QED
    BY <2>3, <2>4, <2>5, <2>6 DEF Tidy
<1>8. CASE RemoveAbandoned
  <2>1. db' = db /\ removal' = NoRemoval /\ CutOff
    BY <1>8, LimitsAssumption DEF RemoveAbandoned, NoGoalRemoval
  <2>2. HalfRemoved = Ids /\ HalfRemoved' = Ids
    BY <2>1 DEF HalfRemoved
  <2>3. Plain'
    BY <2>1 DEF Plain, NoRemoval
  <2>4. Withdrawn' = Withdrawn
    BY <1>0, <1>8 DEF Removes
  <2>. QED
    BY <2>1, <2>2, <2>3, <2>4 DEF Tidy
<1>9. ~RemoveReadGoal /\ ~RemoveSaveGoal /\ ~RemoveStopWorker
  BY DEF RemoveReadGoal, RemoveSaveGoal, RemoveStopWorker, NoGoalRemoval
<1>10. CASE Yielding
  BY <1>4, <1>10, YieldThins DEF Tidy, IInv, TypeOK
<1>11. CASE Curbs(db, db') /\ removal' = removal /\ Withdrawn' = Withdrawn
  BY <1>4, <1>11, TidiesThins, TidiesAlive DEF Tidy, Curbs
<1>. QED
  BY <1>3, <1>5, <1>6, <1>7, <1>8, <1>9, <1>10, <1>11, StepCurbs DEF Removes

-----------------------------------------------------------------------------
(* The theorems.                                                            *)

\* Every monitor is fit, and every run that is pending or under way has its task.
LEMMA MonitorsStayFit == Spec => []MonitorsFit
<1>1. Init => MonitorsFit
  <2>. SUFFICES ASSUME Init PROVE MonitorsFit
    OBVIOUS
  <2>1. /\ \A t \in Tasks : /\ db.task[t].enabled = FALSE /\ db.task[t].state = "new"
                            /\ db.task[t].sched = {}
        /\ \A i \in Ids : db.runs[i].task = NoTask /\ db.runs[i].status = "none"
    BY DEF Init, NoRun
  <2>2. ASSUME NEW t \in Tasks PROVE MonitorFit(db, t)
    BY <2>1, TasksAssumption DEF MonitorFit, Live, NoTask
  <2>3. ASSUME NEW i \in Ids PROVE Named(db, i)
    BY <2>1 DEF Named, Active
  <2>. QED
    BY <2>2, <2>3 DEF MonitorsFit
<1>2. IInv /\ MonitorsFit /\ [Next]_vars => MonitorsFit'
  BY StepMonitors
<1>3. Spec => []IInv
  BY Invariance, PTL
<1>. QED
  BY <1>1, <1>2, <1>3, PTL DEF Spec

\* Whatever users, agents and hosts do, a monitor with another check ahead has
\* budget for it and no check under way: max_checks bounds the prompts of a monitor,
\* and its checks never overlap (due_scheduled, scheduled_result_evaluated).
THEOREM MonitorChecksBounded == Spec => []MonitorBudget
<1>1. MonitorsFit => MonitorBudget
  BY DEF MonitorsFit, MonitorFit, MonitorBudget
<1>. QED
  BY <1>1, MonitorsStayFit, PTL

\* A monitor's check is never handed to a host once the monitor has expired: the
\* cleanup of the same poll withdraws it first (cleanup_monitors, due_scheduled).
THEOREM MonitorChecksInLife == Spec => MonitorClaimedInLife
<1>1. IInv /\ MonitorsFit /\ [Next]_vars => [ClaimsInLife]_vars
  BY StepMonitors
<1>2. Spec => []IInv
  BY Invariance, PTL
<1>3. Spec => []MonitorsFit
  BY MonitorsStayFit
<1>. QED
  BY <1>1, <1>2, <1>3, PTL DEF Spec, MonitorClaimedInLife, ClaimsInLife

\* Where no goal prompt is removed from the queue, what Tidy says holds throughout.
THEOREM PromptsTidy ==
  ASSUME GoalRemoval = FALSE
  PROVE  Spec => []Tidy
<1>1. Init => Tidy
  <2>. SUFFICES ASSUME Init PROVE Tidy
    OBVIOUS
  <2>1. /\ \A t \in Tasks : db.task[t].enabled = FALSE
        /\ db.queue = {} /\ removal.stage = "idle"
    BY DEF Init, NoRemoval
  <2>. QED
    BY <2>1 DEF Tidy, TaskFit, Plain, Pending, Alive
<1>2. IInv /\ MonitorsFit /\ NoGoalRemoval /\ Tidy /\ [Next]_vars => Tidy'
  BY StepTidy
<1>3. Spec => []IInv
  BY Invariance, PTL
<1>4. Spec => []MonitorsFit
  BY MonitorsStayFit
<1>5. Spec => []NoGoalRemoval
  BY GoalPromptsStay
<1>. QED
  BY <1>1, <1>2, <1>3, <1>4, <1>5, PTL DEF Spec

\* Pausing, completing or resuming a goal leaves no queued prompt of its earlier
\* life behind, nor does a deleted session (dispatch_goal, apply_goal_result); even
\* where a request dies between the statements of a removal or of a lease.
THEOREM GoalPromptsCurrent ==
  ASSUME GoalRemoval = FALSE
  PROVE  Spec => []PendingGoalCurrent
<1>1. Tidy => PendingGoalCurrent
  BY DEF Tidy, Pending, Valid, PendingGoalCurrent
<1>2. Spec => []Tidy
  BY PromptsTidy
<1>. QED
  BY <1>1, <1>2, PTL

\* A scheduled prompt never stays in the chat queue when no host may deliver it any
\* more, but for the moment between two statements of a request that withdraws it:
\* whatever disables, deletes or expires its task takes the prompt along, and a lease
\* request that cancels a goal's run deletes its prompt next.  Where requests run to
\* their end and removals are of no goal's prompt.
THEOREM PromptsAlive ==
  ASSUME GoalRemoval = FALSE, CutOff = FALSE
  PROVE  Spec => []NoDeadPrompt
<1>1. Tidy => NoDeadPrompt
  BY ZenonT(30) DEF Tidy, HalfRemoved, Pending, Valid, Alive, Unstarted, Withdrawn, NoDeadPrompt
<1>2. Spec => []Tidy
  BY PromptsTidy
<1>. QED
  BY <1>1, <1>2, PTL
=============================================================================
