--------------------------- MODULE ScheduledStore ---------------------------
(***************************************************************************)
(* The durable half of scheduled-prompt delivery: the SQLite tables behind *)
(* saved tasks, monitors, goal workers, the chat queue and the session run *)
(* leases, and the transactions of the store that touch them.  The store   *)
(* serves any number of callers at once (Spin requests, bridge daemons,    *)
(* browsers), so every transaction is an action that may follow any other; *)
(* the operations that are NOT transactions in the code, the removal of a  *)
(* queued prompt and the lease of a foreground run, are split into their   *)
(* statements.                                                             *)
(*                                                                         *)
(* A transaction is a composition of passes over the database value d, in  *)
(* the order of its SQL statements; n is the request's clock reading.      *)
(* Prompt text, titles, notes and details are not modelled.  Row ids are   *)
(* AUTOINCREMENT keys compared only for order: one counter serves both     *)
(* queued_prompts and scheduled_runs, and the prompt of run i has id i.    *)
(***************************************************************************)
EXTENDS Integers, FiniteSets

CONSTANTS
  Tasks,       \* ids of scheduled_tasks rows, in creation order
  Sessions,    \* ids of sessions rows
  Born,        \* the sessions that exist at the start
  Hosts,       \* execution hosts that poll for due work
  Clients,     \* lease tokens of foreground runs (no "scheduled-" prefix)
  NoHolder,    \* token of a session without a lease row
  NoSession,   \* no session; as a target, New or Latest: resolved when the task fires
  Kind,        \* task -> "saved", "monitor" or "goal"
  Home,        \* task -> its session, or NoSession
  HostOf,      \* task -> the host bound to it
  Schedules,   \* schedules a user may save: sets of times at which they fire
  Delays,      \* delays a monitor may be started with
  Interval,    \* interval_seconds of the monitors
  Checks,      \* numbers of checks a monitor may be started with
  MonitorLife, \* 86400: a monitor's lifetime
  LeaseTime,   \* 120: lifetime of a claim and of a run lease
  QueueMax,    \* MAX_QUEUED_PROMPTS
  DueBatch,    \* LIMIT 20 of the due query
  ClaimBatch,  \* LIMIT 10 of the claim query
  MaxTurns,    \* 100 goal turns
  MaxStalls,   \* 3 consecutive goal turns without tools
  CutOff,      \* whether a request may die between two of its statements
  GoalRemoval, \* whether users remove the queued prompts of goal workers
  MaxNow,      \* bound of the model: last clock reading
  MaxId,       \* bound of the model: last row id
  MaxRev       \* bound of the model: last goal revision a command may write

Ids == 1..MaxId
NoTask == 0
NoTime == -1                       \* SQL NULL in next_run
Holders == Ids \cup Clients \cup {NoHolder}

Active == {"queued", "claimed", "running", "blocked"}
Ended  == {"complete", "cancelled", "failed", "interrupted"}

ASSUME TimesAssumption ==
  /\ LeaseTime \in Nat \ {0} /\ MonitorLife \in Nat \ {0} /\ Interval \in Nat \ {0}
  /\ Delays \subseteq Nat \ {0} /\ Checks \subseteq Nat \ {0}
  /\ MaxNow \in Nat /\ MaxId \in Nat /\ MaxRev \in Nat
  /\ Schedules \subseteq SUBSET Nat
ASSUME LimitsAssumption ==
  /\ QueueMax \in Nat \ {0} /\ DueBatch \in Nat \ {0} /\ ClaimBatch \in Nat \ {0}
  /\ MaxTurns \in Nat \ {0} /\ MaxStalls \in Nat \ {0}
  /\ CutOff \in BOOLEAN /\ GoalRemoval \in BOOLEAN
ASSUME TasksAssumption ==
  /\ Tasks \subseteq Nat \ {0} /\ IsFiniteSet(Tasks) /\ IsFiniteSet(Sessions)
  /\ Born \subseteq Sessions /\ NoSession \notin Sessions
  /\ Kind \in [Tasks -> {"saved", "monitor", "goal"}]
  /\ Home \in [Tasks -> Sessions \cup {NoSession}]
  /\ HostOf \in [Tasks -> Hosts]
  \* monitors and goal workers belong to one conversation, which has one goal
  /\ \A t \in Tasks : Kind[t] # "saved" => Home[t] \in Sessions
  /\ \A t, u \in Tasks : Kind[t] = "goal" /\ Kind[u] = "goal" /\ Home[t] = Home[u] => t = u
ASSUME HoldersAssumption ==
  NoHolder \notin Ids /\ NoHolder \notin Clients /\ Clients \cap Ids = {}

VARIABLES
  db,       \* the database
  now,      \* the clock, in seconds
  removal,  \* the DELETE of a queued prompt in progress, between statements
  yields    \* the lease requests in progress that withdraw a goal's prompt, likewise

vars == <<db, now, removal, yields>>

-----------------------------------------------------------------------------
(* The rows.  sent is a history field: how often a prompt became a message. *)

NoRun == [task |-> NoTask, due |-> 0, status |-> "none", until |-> 0, grev |-> 0]

Runs == [task   : Tasks \cup {NoTask},
         due    : Nat,
         status : {"none"} \cup Active \cup Ended,
         until  : Nat,             \* claimed_until; 0 where no statement reads it
         grev   : Nat]             \* goal_revision of a goal worker's run

TaskRows == [state : {"new", "live", "gone"}, enabled : BOOLEAN,
             next : Nat \cup {NoTime}, sched : SUBSET Nat]

Prompts == [session : Sessions \cup {NoSession}, guidance : BOOLEAN]

Removals == [id : Ids, session : Sessions, rev : Nat,
             stage : {"found", "read", "saved", "paused", "cancelled"}]

Yields == [stage : {"leased", "found", "cancelled", "deleted"}, session : Sessions, at : Nat]

Database ==
  [task   : [Tasks -> TaskRows],
   runs   : [Ids -> Runs],
   queue  : SUBSET Ids,            \* rows of queued_prompts
   prompt : [Ids -> Prompts],
   sent   : [Ids -> Nat],
   lease  : [Sessions -> [holder : Holders, until : Nat]],
   goal   : [Sessions -> [status : {"none", "active", "paused", "completed"}, rev : Nat]],
   worker : [Sessions -> [rev : Nat, turns : Nat, stalls : Nat]],
   mon    : [Tasks -> [left : Int, until : Nat]],
   sess   : [Sessions -> {"unborn", "open", "deleted"}],
   locked : SUBSET Sessions,       \* a prepared rewind or review blocks the session
   last   : 0..MaxId]              \* last row id given out

NoLease == [holder |-> NoHolder, until |-> 0]
NoWorker == [rev |-> 0, turns |-> 0, stalls |-> 0]
NoRemoval == [id |-> 0, session |-> NoSession, rev |-> 0, stage |-> "idle"]
NoYield == [stage |-> "idle", session |-> NoSession, at |-> 0]

TypeOK == /\ db \in Database
          /\ now \in 0..MaxNow
          /\ removal \in Removals \cup {NoRemoval}
          /\ yields \in [Clients -> Yields \cup {NoYield}]

Init ==
  /\ db = [task   |-> [t \in Tasks |-> [state |-> "new", enabled |-> FALSE,
                                        next |-> NoTime, sched |-> {}]],
           runs   |-> [i \in Ids |-> NoRun],
           queue  |-> {},
           prompt |-> [i \in Ids |-> [session |-> NoSession, guidance |-> FALSE]],
           sent   |-> [i \in Ids |-> 0],
           lease  |-> [s \in Sessions |-> NoLease],
           goal   |-> [s \in Sessions |-> [status |-> "none", rev |-> 0]],
           worker |-> [s \in Sessions |-> NoWorker],
           mon    |-> [t \in Tasks |-> [left |-> 0, until |-> 0]],
           sess   |-> [s \in Sessions |-> IF s \in Born THEN "open" ELSE "unborn"],
           locked |-> {},
           last   |-> 0]
  /\ now = 0
  /\ removal = NoRemoval
  /\ yields = [c \in Clients |-> NoYield]

-----------------------------------------------------------------------------
(* Reading the tables. *)

\* Mutant of Later: counts the present moment.
NotBefore(sch, n) == {x \in sch : x >= n}

\* Schedule::next_after: the first time strictly after n, if there is one.
Later(sch, n) == {x \in sch : x > n}
NextAfter(sch, n) ==
  IF Later(sch, n) = {} THEN NoTime
  ELSE CHOOSE x \in Later(sch, n) : \A y \in Later(sch, n) : x <= y

Live(d, t) == d.task[t].state = "live"
RunsOf(d, t) == {i \in Ids : d.runs[i].task = t}
Scheduled(d, i) == d.runs[i].task # NoTask
\* Mutant of HasActive: forgets the runs that have started.
HasPending(d, t) == \E i \in RunsOf(d, t) : d.runs[i].status \in {"queued", "claimed"}
HasActive(d, t) == \E i \in RunsOf(d, t) : d.runs[i].status \in Active
IsLatest(d, i) == \A j \in RunsOf(d, d.runs[i].task) : j <= i

QueueOf(d, s) == {i \in d.queue : d.prompt[i].session = s}
\* ORDER BY guidance DESC, id
Ahead(d, i, j) == \/ d.prompt[i].guidance /\ ~d.prompt[j].guidance
                  \/ d.prompt[i].guidance = d.prompt[j].guidance /\ i < j
IsHead(d, i) == \A j \in QueueOf(d, d.prompt[i].session) : j = i \/ Ahead(d, i, j)

LeaseFree(d, s, n) == d.lease[s].until <= n
IsGoalTask(t, s) == Kind[t] = "goal" /\ Home[t] = s

-----------------------------------------------------------------------------
(* Passes shared by several transactions. *)

\* Mutant of SetStatus: clears the deadline to NULL.
SetStatusNull(d, I, st) ==
  [d EXCEPT !.runs = [i \in Ids |-> IF i \in I
                                    THEN [d.runs[i] EXCEPT !.status = st, !.until = NoTime]
                                    ELSE d.runs[i]]]

SetStatus(d, I, st) ==
  [d EXCEPT !.runs = [i \in Ids |-> IF i \in I
                                    THEN [d.runs[i] EXCEPT !.status = st, !.until = 0]
                                    ELSE d.runs[i]]]

\* cancel_scheduled_pending: the runs that are still queued end, whatever their status,
\* and then their prompts leave the queue.
CancelRuns(d, T) == SetStatus(d, {i \in d.queue : d.runs[i].task \in T}, "cancelled")
DropPrompts(d, T) == [d EXCEPT !.queue = {i \in d.queue : d.runs[i].task \notin T}]

\* Withdraw every prompt still queued for the tasks in T: both in one transaction.
CancelPending(d, T) ==
  LET P == {i \in d.queue : d.runs[i].task \in T}
  IN  [SetStatus(d, P, "cancelled") EXCEPT !.queue = d.queue \ P]

SetTasks(d, T, en, nx) ==
  [d EXCEPT !.task = [t \in Tasks |-> IF t \in T
                                      THEN [d.task[t] EXCEPT !.enabled = en, !.next = nx]
                                      ELSE d.task[t]]]

SetNext(d, T, nx) ==
  [d EXCEPT !.task = [t \in Tasks |-> IF t \in T THEN [d.task[t] EXCEPT !.next = nx]
                                                 ELSE d.task[t]]]

\* DELETE FROM scheduled_tasks, and the rows that cascade with it.
DropTasks(d, T) ==
  [d EXCEPT !.task = [t \in Tasks |-> IF t \in T
                         THEN [state |-> "gone", enabled |-> FALSE, next |-> NoTime, sched |-> {}]
                         ELSE d.task[t]],
            !.runs = [i \in Ids |-> IF d.runs[i].task \in T THEN NoRun ELSE d.runs[i]],
            !.mon = [t \in Tasks |-> IF t \in T THEN [left |-> 0, until |-> 0] ELSE d.mon[t]],
            !.worker = [s \in Sessions |-> IF \E t \in T : IsGoalTask(t, s)
                                           THEN NoWorker ELSE d.worker[s]]]

\* Mutant of ExpireMonitors: spares a monitor in the second it expires.
ExpireLate(d, n) ==
  LET E == {t \in Tasks : Kind[t] = "monitor" /\ Live(d, t) /\ d.mon[t].until < n}
  IN  SetTasks(CancelPending(d, E), E, FALSE, NoTime)

\* cleanup_monitors: expired monitors lose their pending check and stop; a
\* monitor with nothing left to do is deleted, once it may leave its note.
ExpireMonitors(d, n) ==
  LET E == {t \in Tasks : Kind[t] = "monitor" /\ Live(d, t) /\ d.mon[t].until <= n}
  IN  SetTasks(CancelPending(d, E), E, FALSE, NoTime)

SpentMonitor(d, t) ==
  /\ Kind[t] = "monitor" /\ Live(d, t)
  /\ ~d.task[t].enabled \/ (d.task[t].next = NoTime /\ RunsOf(d, t) # {})
  /\ ~HasActive(d, t)

DropSpent(d, n) ==
  LET Silent(t) == /\ d.mon[t].until > n /\ d.task[t].enabled
                   /\ \E i \in RunsOf(d, t) : IsLatest(d, i) /\ d.runs[i].status = "complete"
  IN  DropTasks(d, {t \in Tasks : SpentMonitor(d, t) /\ (Home[t] \notin d.locked \/ Silent(t))})

Cleanup(d, n) == DropSpent(ExpireMonitors(d, n), n)

\* yield_goal_pending: foreground input withdraws an unconsumed goal prompt.  Here
\* in the transaction of queue_prompt.
GoalWaits(d, s) == {t \in Tasks : /\ IsGoalTask(t, s)
                                  /\ \E i \in d.queue : /\ d.runs[i].task = t
                                                        /\ d.runs[i].status \in {"queued", "claimed"}}
YieldGoal(d, s, n) ==
  LET G == GoalWaits(d, s)
      e == CancelPending(d, G)
  IN  SetNext(e, {t \in G : d.task[t].enabled}, n + 1)

-----------------------------------------------------------------------------
(* scheduled_command: the user's and the agents' edits of saved tasks and   *)
(* monitors.  A command whose revision is stale changes nothing.            *)

Save(t, row) == [db EXCEPT !.task[t] = row]

CreateTask(t, sch, en) ==
  /\ Kind[t] = "saved" /\ db.task[t].state = "new"
  /\ Home[t] # NoSession => db.sess[Home[t]] = "open"
  /\ NextAfter(sch, now) # NoTime
  /\ db' = Cleanup(Save(t, [state |-> "live", enabled |-> en,
                            next |-> NextAfter(sch, now), sched |-> sch]), now)
  /\ UNCHANGED <<now, removal, yields>>

UpdateTask(t, sch, en) ==
  /\ Kind[t] = "saved" /\ Live(db, t)
  /\ NextAfter(sch, now) # NoTime
  /\ LET d == CancelPending(db, {t})
     IN  db' = Cleanup([d EXCEPT !.task[t] = [state |-> "live", enabled |-> en,
                                              next |-> NextAfter(sch, now), sched |-> sch]], now)
  /\ UNCHANGED <<now, removal, yields>>

EnableTask(t) ==
  /\ Kind[t] = "saved" /\ Live(db, t)
  /\ NextAfter(db.task[t].sched, now) # NoTime
  /\ db' = Cleanup(SetTasks(db, {t}, TRUE, NextAfter(db.task[t].sched, now)), now)
  /\ UNCHANGED <<now, removal, yields>>

DisableTask(t) ==
  /\ Kind[t] = "saved" /\ Live(db, t)
  /\ db' = Cleanup(SetTasks(CancelPending(db, {t}), {t}, FALSE, db.task[t].next), now)
  /\ UNCHANGED <<now, removal, yields>>

DeleteTask(t) ==
  /\ Kind[t] = "saved" /\ Live(db, t)
  /\ db' = Cleanup(DropTasks(CancelPending(db, {t}), {t}), now)
  /\ UNCHANGED <<now, removal, yields>>

\* A check may not start another monitor while its own run holds the lease.
InMonitorCheck(s) ==
  /\ ~LeaseFree(db, s, now)
  /\ \E i \in Ids : db.lease[s].holder = i /\ Scheduled(db, i) /\ Kind[db.runs[i].task] = "monitor"

StartMonitor(t, delay, checks) ==
  /\ Kind[t] = "monitor" /\ db.task[t].state = "new"
  /\ db.sess[Home[t]] = "open" /\ ~InMonitorCheck(Home[t])
  /\ delay + Interval * (checks - 1) < MonitorLife
  /\ db' = Cleanup([Save(t, [state |-> "live", enabled |-> TRUE, next |-> now + delay, sched |-> {}])
                     EXCEPT !.mon[t] = [left |-> checks, until |-> now + MonitorLife]], now)
  /\ UNCHANGED <<now, removal, yields>>

CancelMonitor(t) ==
  /\ Kind[t] = "monitor" /\ Live(db, t)
  /\ db' = Cleanup([SetTasks(CancelPending(db, {t}), {t}, FALSE, db.task[t].next)
                     EXCEPT !.mon[t].left = 0], now)
  /\ UNCHANGED <<now, removal, yields>>

-----------------------------------------------------------------------------
(* dispatch_goal: the lifecycle of a session's goal and of its worker task. *)

\* Mutant of Revised: the change shows under the old revision.
RevisedInPlace(g, status) == [g EXCEPT !.status = status]
Revised(g, status) == [status |-> status, rev |-> g.rev + 1]

GoalCommand(s, status, from) ==
  /\ db.sess[s] = "open" /\ s \notin db.locked
  /\ db.goal[s].status \in from
  /\ db.goal[s].rev < MaxRev
  /\ LET G == {t \in Tasks : IsGoalTask(t, s)}
         d == [CancelPending(db, G) EXCEPT !.goal[s] = Revised(db.goal[s], status)]
         on == [state |-> "live", enabled |-> TRUE, next |-> now + 1, sched |-> {}]
     IN  /\ G # {}
         /\ db' = IF status = "active"
                  THEN [d EXCEPT !.task = [t \in Tasks |-> IF t \in G THEN on ELSE d.task[t]],
                                 !.worker[s] = [rev |-> d.goal[s].rev, turns |-> 0, stalls |-> 0]]
                  ELSE SetTasks(d, {t \in G : Live(d, t)}, FALSE, NoTime)
  /\ UNCHANGED <<now, removal, yields>>

StartGoal(s) == GoalCommand(s, "active", {"none", "completed"})
ResumeGoal(s) == GoalCommand(s, "active", {"active", "paused"})
PauseGoal(s) == GoalCommand(s, "paused", {"active", "paused"})
CompleteGoal(s) == GoalCommand(s, "completed", {"active", "paused"})

-----------------------------------------------------------------------------
(* The chat queue. *)

\* queue_prompt: refused, with the withdrawal undone, when the queue is full.
Enqueue(s, guidance) ==
  /\ db.sess[s] = "open" /\ s \notin db.locked
  /\ db.last < MaxId
  /\ LET d == YieldGoal(db, s, now)
         i == db.last + 1
     IN  /\ Cardinality(QueueOf(d, s)) < QueueMax
         /\ db' = [d EXCEPT !.queue = d.queue \cup {i},
                            !.prompt[i] = [session |-> s, guidance |-> guidance],
                            !.last = i]
  /\ UNCHANGED <<now, removal, yields>>

\* Mutant of MayConsume: does not look at the prompts ahead.
MayConsumeAny(d, i, n) ==
  LET s == d.prompt[i].session
  IN  /\ i \in d.queue /\ s \notin d.locked
      /\ Scheduled(d, i) => /\ d.runs[i].status = "claimed"
                            /\ d.lease[s].holder = i /\ ~LeaseFree(d, s, n)

\* A scheduled prompt is delivered only by the run that holds both its claim
\* and the session's lease.
MayConsume(d, i, n) ==
  LET s == d.prompt[i].session
  IN  /\ i \in d.queue /\ s \notin d.locked /\ IsHead(d, i)
      /\ Scheduled(d, i) => /\ d.runs[i].status = "claimed"
                            /\ d.lease[s].holder = i /\ ~LeaseFree(d, s, n)

\* Mutant of Consume: the queue row outlives the message.
ConsumeCopy(i) ==
  /\ MayConsume(db, i, now)
  /\ db' = [db EXCEPT !.sent[i] = @ + 1,
                      !.runs[i] = IF @.status \in {"queued", "claimed"}
                                  THEN [@ EXCEPT !.status = "running", !.until = now + LeaseTime]
                                  ELSE @]
  /\ UNCHANGED <<now, removal, yields>>

\* Mutant of Consume: the run stays claimed.
ConsumeQuietly(i) ==
  /\ MayConsume(db, i, now)
  /\ db' = [db EXCEPT !.sent[i] = @ + 1, !.queue = @ \ {i}]
  /\ UNCHANGED <<now, removal, yields>>

\* consume_queued_prompt: the message, the run's status and the queue row
\* change in one transaction.
Consume(i) ==
  /\ MayConsume(db, i, now)
  /\ db' = [db EXCEPT !.sent[i] = @ + 1,
                      !.queue = @ \ {i},
                      !.runs[i] = IF @.status \in {"queued", "claimed"}
                                  THEN [@ EXCEPT !.status = "running", !.until = now + LeaseTime]
                                  ELSE @]
  /\ UNCHANGED <<now, removal, yields>>

(* remove_queued_prompt is no transaction: pause_removed_goal_prompt finds   *)
(* the worker whose prompt is removed, reads the goal, writes it back paused *)
(* and stops the worker; then the run is cancelled; then the row is deleted. *)
(* The request may die between any two of these statements.                 *)

RemoveFind(i) ==
  LET s == db.prompt[i].session
      ofGoal == Scheduled(db, i) /\ Kind[db.runs[i].task] = "goal"
  IN  /\ removal.stage = "idle" /\ i \in db.queue
      /\ ofGoal => GoalRemoval /\ db.goal[s].rev < MaxRev
      /\ removal' = [id |-> i, session |-> s, rev |-> 0,
                     stage |-> IF ofGoal THEN "found" ELSE "paused"]
      /\ UNCHANGED <<db, now, yields>>

RemoveReadGoal ==
  /\ removal.stage = "found" /\ db.sess[removal.session] = "open"
  /\ removal' = [removal EXCEPT !.stage = "read", !.rev = db.goal[removal.session].rev]
  /\ UNCHANGED <<db, now, yields>>

RemoveSaveGoal ==
  /\ removal.stage = "read" /\ db.sess[removal.session] = "open"
  /\ db' = [db EXCEPT !.goal[removal.session] = [status |-> "paused", rev |-> removal.rev + 1]]
  /\ removal' = [removal EXCEPT !.stage = "saved", !.rev = 0]
  /\ UNCHANGED <<now, yields>>

RemoveStopWorker ==
  /\ removal.stage = "saved"
  /\ db' = SetTasks(db, {t \in Tasks : IsGoalTask(t, removal.session) /\ Live(db, t)}, FALSE, NoTime)
  /\ removal' = [removal EXCEPT !.stage = "paused"]
  /\ UNCHANGED <<now, yields>>

RemoveCancel ==
  /\ removal.stage = "paused"
  /\ db' = IF removal.id \in db.queue /\ db.runs[removal.id].status \in {"queued", "claimed"}
           THEN SetStatus(db, {removal.id}, "cancelled") ELSE db
  /\ removal' = [removal EXCEPT !.stage = "cancelled"]
  /\ UNCHANGED <<now, yields>>

RemoveDelete ==
  /\ removal.stage = "cancelled"
  /\ db' = [db EXCEPT !.queue = @ \ {removal.id}]
  /\ removal' = NoRemoval
  /\ UNCHANGED <<now, yields>>

\* The session is gone when the goal is read or saved, or the request is cut off.
RemoveAbandoned ==
  /\ \/ removal.stage \in {"found", "read"} /\ db.sess[removal.session] = "deleted"
     \/ CutOff /\ removal.stage # "idle"
  /\ removal' = NoRemoval
  /\ UNCHANGED <<db, now, yields>>

-----------------------------------------------------------------------------
(* session_run_lease is no transaction either: once a foreground run has its *)
(* lease, yield_goal_pending looks for a waiting prompt of the session's     *)
(* goal, cancels its run, deletes the prompt and puts the worker off, in     *)
(* statements of its own.  Renewals do the same.  A client asks again when   *)
(* its last request is over.                                                 *)

\* Mutant of Lease: whoever asks gets it.
LeaseAny(s, token) ==
  /\ db.sess[s] = "open"
  /\ db' = [db EXCEPT !.lease[s] = [holder |-> token, until |-> now + LeaseTime]]
  /\ UNCHANGED <<now, removal, yields>>

HasGoalTask(s) == \E t \in Tasks : IsGoalTask(t, s)

Lease(s, token) ==
  /\ db.sess[s] = "open"
  /\ db.lease[s].holder = token \/ LeaseFree(db, s, now)
  /\ token \in Clients => yields[token] = NoYield
  /\ db' = [db EXCEPT !.lease[s] = [holder |-> token, until |-> now + LeaseTime]]
  /\ yields' = IF token \in Clients /\ HasGoalTask(s)
               THEN [yields EXCEPT ![token] = [stage |-> "leased", session |-> s, at |-> now]]
               ELSE yields
  /\ UNCHANGED <<now, removal>>

GoalTasks(c) == {t \in Tasks : IsGoalTask(t, yields[c].session)}

YieldFind(c) ==
  /\ yields[c].stage = "leased"
  /\ yields' = IF GoalWaits(db, yields[c].session) = {} THEN [yields EXCEPT ![c] = NoYield]
               ELSE [yields EXCEPT ![c].stage = "found"]
  /\ UNCHANGED <<db, now, removal>>

YieldCancel(c) ==
  /\ yields[c].stage = "found"
  /\ db' = CancelRuns(db, GoalTasks(c))
  /\ yields' = [yields EXCEPT ![c].stage = "cancelled"]
  /\ UNCHANGED <<now, removal>>

YieldDelete(c) ==
  /\ yields[c].stage = "cancelled"
  /\ db' = DropPrompts(db, GoalTasks(c))
  /\ yields' = [yields EXCEPT ![c].stage = "deleted"]
  /\ UNCHANGED <<now, removal>>

YieldNext(c) ==
  /\ yields[c].stage = "deleted"
  /\ db' = SetNext(db, {t \in GoalTasks(c) : db.task[t].enabled}, yields[c].at + 1)
  /\ yields' = [yields EXCEPT ![c] = NoYield]
  /\ UNCHANGED <<now, removal>>

YieldAbandoned(c) ==
  /\ CutOff /\ yields[c].stage # "idle"
  /\ yields' = [yields EXCEPT ![c] = NoYield]
  /\ UNCHANGED <<db, now, removal>>

Release(s, token) ==
  /\ db.lease[s].holder = token
  /\ db' = [db EXCEPT !.lease[s] = NoLease]
  /\ UNCHANGED <<now, removal, yields>>

-----------------------------------------------------------------------------
(* due_scheduled: recovery, occurrence creation and claims in one poll. *)

\* Mutant of Recover: an expired claim is not given back.
RecoverStarted(d, n) ==
  [d EXCEPT !.runs = [i \in Ids |->
     LET r == d.runs[i]
     IN  IF r.status \in {"queued", "claimed"} /\ i \notin d.queue
           THEN [r EXCEPT !.status = "cancelled", !.until = 0]
         ELSE IF r.status \in {"running", "blocked"} /\ r.until < n
           THEN [r EXCEPT !.status = "interrupted", !.until = 0]
         ELSE r]]

Recover(d, n) ==
  [d EXCEPT !.runs = [i \in Ids |->
     LET r == d.runs[i]
     IN  IF r.status \in {"queued", "claimed"} /\ i \notin d.queue
           THEN [r EXCEPT !.status = "cancelled", !.until = 0]
         ELSE IF r.status = "claimed" /\ r.until < n
           THEN [r EXCEPT !.status = "queued", !.until = 0]
         ELSE IF r.status \in {"running", "blocked"} /\ r.until < n
           THEN [r EXCEPT !.status = "interrupted", !.until = 0]
         ELSE r]]

\* A goal worker whose host stopped gets a new turn, never its old prompt again.
Rearm(d, n) ==
  SetNext(d, {t \in Tasks : /\ Kind[t] = "goal" /\ d.task[t].enabled /\ d.task[t].next = NoTime
                            /\ \E i \in RunsOf(d, t) : /\ IsLatest(d, i)
                                                       /\ d.runs[i].status = "interrupted"}, n)

IsDue(d, h, n, t) ==
  /\ HostOf[t] = h /\ d.task[t].enabled
  /\ d.task[t].next # NoTime /\ d.task[t].next <= n
  /\ ~HasActive(d, t)
Sooner(d, t, u) == \/ d.task[t].next < d.task[u].next
                   \/ d.task[t].next = d.task[u].next /\ t < u
Batch(d, h, n) ==
  LET D == {t \in Tasks : IsDue(d, h, n, t)}
  IN  {t \in D : Cardinality({u \in D : Sooner(d, u, t)}) < DueBatch}

\* place says where each due task goes; a new session that cannot be made
\* (no model is configured) is NoSession, and its occurrence fails at once.
Places(d, B) ==
  {p \in [B -> Sessions \cup {NoSession}] :
     \A t \in B : /\ Home[t] # NoSession => p[t] = Home[t]
                  /\ Home[t] = NoSession /\ p[t] # NoSession => d.sess[p[t]] \in {"open", "unborn"}}

\* Goal work yields to everything else in its session; the others need room.
Before(d, B, p, t) == {u \in B : Sooner(d, u, t) /\ p[u] = p[t]}
GoalTurn(d, B, p, t, n) ==
  /\ QueueOf(d, p[t]) = {} /\ LeaseFree(d, p[t], n) /\ p[t] \notin d.locked
  /\ Before(d, B, p, t) = {}
Accepted(d, B, p, t, n) ==
  \/ p[t] = NoSession
  \/ /\ p[t] # NoSession
     /\ IF Kind[t] = "goal" THEN GoalTurn(d, B, p, t, n)
        ELSE Cardinality(QueueOf(d, p[t]))
               + Cardinality({u \in Before(d, B, p, t) :
                                Kind[u] = "goal" => GoalTurn(d, B, p, u, n)}) < QueueMax

Insert(d, B, p, n) ==
  LET A == {t \in B : Accepted(d, B, p, t, n)}
      row == [t \in A |-> d.last + 1 + Cardinality({u \in A : Sooner(d, u, t)})]
      new(i) == \E t \in A : row[t] = i
      who(i) == CHOOSE t \in A : row[t] = i
      made == {i \in Ids : new(i) /\ p[who(i)] # NoSession}
  IN  [d EXCEPT
        !.runs = [i \in Ids |->
           IF new(i) THEN [task |-> who(i), due |-> d.task[who(i)].next, until |-> 0,
                           status |-> IF p[who(i)] = NoSession THEN "failed" ELSE "queued",
                           grev |-> IF Kind[who(i)] = "goal" THEN d.worker[p[who(i)]].rev ELSE 0]
           ELSE d.runs[i]],
        !.prompt = [i \in Ids |-> IF i \in made THEN [session |-> p[who(i)], guidance |-> FALSE]
                                                ELSE d.prompt[i]],
        !.queue = d.queue \cup made,
        !.mon = [t \in Tasks |-> IF t \in A /\ Kind[t] = "monitor"
                                 THEN [d.mon[t] EXCEPT !.left = @ - 1] ELSE d.mon[t]],
        !.task = [t \in Tasks |-> IF t \in A
                                  THEN [d.task[t] EXCEPT !.next = NextAfter(d.task[t].sched, n)]
                                  ELSE d.task[t]],
        !.sess = [s \in Sessions |-> IF \E t \in B : p[t] = s THEN "open" ELSE d.sess[s]],
        !.last = d.last + Cardinality(A)]

Claimable(d, h, n, i) ==
  /\ i \in d.queue /\ d.runs[i].status = "queued"
  /\ HostOf[d.runs[i].task] = h /\ d.task[d.runs[i].task].enabled
  /\ IsHead(d, i) /\ LeaseFree(d, d.prompt[i].session, n)
Claim(d, h, n) ==
  LET C == {i \in Ids : Claimable(d, h, n, i)}
      B == {i \in C : Cardinality({j \in C : j < i}) < ClaimBatch}
  IN  [d EXCEPT !.runs = [i \in Ids |->
         IF i \in B THEN [d.runs[i] EXCEPT !.status = "claimed", !.until = n + LeaseTime]
                    ELSE d.runs[i]]]

Poll(h) ==
  LET d == Cleanup(Rearm(Recover(db, now), now), now)
      B == Batch(d, h, now)
  IN  \E p \in Places(d, B) :
        /\ d.last + Cardinality({t \in B : Accepted(d, B, p, t, now)}) <= MaxId
        /\ db' = Claim(Insert(d, B, p, now), h, now)
        /\ UNCHANGED <<now, removal, yields>>

-----------------------------------------------------------------------------
(* scheduled_result_evaluated: a host reports on a run.                     *)

\* What the evaluator made of a finished goal turn; fresh says that no message
\* reached the session since the evaluator read it.
Assessments == [verdict : {"complete", "blocked", "continue"}, fresh : BOOLEAN, tools : BOOLEAN]
Unassessed == [verdict |-> "none", fresh |-> TRUE, tools |-> FALSE]

\* Mutant of Verdict: one turn too many.
VerdictLate(w, st, a) ==
  IF st # "complete" \/ a = Unassessed \/ a.verdict = "blocked" THEN "paused"
  ELSE IF a.verdict = "complete" THEN "completed"
  ELSE IF w.stalls > MaxStalls \/ w.turns > MaxTurns THEN "paused"
  ELSE "active"

\* apply_goal_result
Verdict(w, st, a) ==
  IF st # "complete" \/ a = Unassessed \/ a.verdict = "blocked" THEN "paused"
  ELSE IF a.verdict = "complete" THEN "completed"
  ELSE IF w.stalls >= MaxStalls \/ w.turns >= MaxTurns THEN "paused"
  ELSE "active"

ApplyGoal(d, i, st, a, n) ==
  LET t == d.runs[i].task
      s == Home[t]
      w == [d.worker[s] EXCEPT !.turns = @ + 1, !.stalls = IF a.tools THEN 0 ELSE @ + 1]
      to == Verdict(w, st, a)
      e == [d EXCEPT !.worker[s] = w]
  IN  IF \/ Kind[t] # "goal" \/ d.runs[i].grev # d.worker[s].rev
         \/ d.goal[s] # [status |-> "active", rev |-> d.worker[s].rev]
         \/ st \in {"queued", "running", "blocked"}
      THEN d
      ELSE IF st = "complete" /\ ~a.fresh THEN SetNext(d, {t}, n + 1)
      ELSE IF to = "active" THEN SetNext(e, {t}, n + 1)
      ELSE SetTasks([e EXCEPT !.goal[s] = Revised(@, to)], {t}, FALSE, NoTime)

\* Mutant of NextCheck: does not count the checks.
NextCheckForever(d, t, n) ==
  IF Kind[t] = "monitor" /\ d.task[t].enabled /\ d.mon[t].until > n + Interval
  THEN SetNext(d, {t}, n + Interval) ELSE d

NextCheck(d, t, n) ==
  IF Kind[t] = "monitor" /\ d.task[t].enabled /\ d.mon[t].left > 0 /\ d.mon[t].until > n + Interval
  THEN SetNext(d, {t}, n + Interval) ELSE d

Reported(d, i, st, a, n) ==
  LET e == [d EXCEPT !.runs[i].status = st,
                     !.runs[i].until = IF st \in {"running", "blocked"} THEN n + LeaseTime ELSE 0]
      g == ApplyGoal(e, i, st, a, n)
      q == IF st \in Ended THEN [g EXCEPT !.queue = @ \ {i}] ELSE g
  IN  Cleanup(IF st = "complete" THEN NextCheck(q, d.runs[i].task, n) ELSE q, n)

\* scheduled::serve reports progress and completion only of a run that started,
\* and a run starts only once its prompt is a message.
Result(i, st, a) ==
  /\ db.runs[i].status \in {"claimed", "running", "blocked"}
  /\ st \in {"running", "blocked", "complete"} => db.sent[i] > 0
  /\ db' = Reported(db, i, st, a, now)
  /\ UNCHANGED <<now, removal, yields>>

Report(i) ==
  \/ \E st \in {"queued", "running", "blocked", "cancelled", "failed"} : Result(i, st, Unassessed)
  \/ Result(i, "complete", Unassessed)
  \/ /\ Scheduled(db, i) /\ Kind[db.runs[i].task] = "goal"
     /\ \E a \in Assessments : Result(i, "complete", a)

-----------------------------------------------------------------------------
(* The rest of the system. *)

PrepareRewind(s) ==
  /\ db.sess[s] = "open" /\ s \notin db.locked
  /\ db' = [db EXCEPT !.locked = @ \cup {s}]
  /\ UNCHANGED <<now, removal, yields>>

CompleteRewind(s) ==
  /\ s \in db.locked
  /\ db' = [db EXCEPT !.locked = @ \ {s}]
  /\ UNCHANGED <<now, removal, yields>>

\* The rows that cascade: queued prompts, leases, goals, tasks of the session.
DeleteSession(s) ==
  /\ db.sess[s] = "open"
  /\ LET d == DropTasks(db, {t \in Tasks : Home[t] = s /\ Live(db, t)})
     IN  db' = [d EXCEPT !.sess[s] = "deleted",
                         !.queue = {i \in d.queue : d.prompt[i].session # s},
                         !.lease[s] = NoLease,
                         !.goal[s] = [status |-> "none", rev |-> 0],
                         !.locked = @ \ {s}]
  /\ UNCHANGED <<now, removal, yields>>

Tick == now < MaxNow /\ now' = now + 1 /\ UNCHANGED <<db, removal, yields>>

-----------------------------------------------------------------------------
Edit == \E t \in Tasks :
          \/ \E sch \in Schedules, en \in BOOLEAN : CreateTask(t, sch, en) \/ UpdateTask(t, sch, en)
          \/ EnableTask(t) \/ DisableTask(t) \/ DeleteTask(t)
          \/ \E delay \in Delays, checks \in Checks : StartMonitor(t, delay, checks)
          \/ CancelMonitor(t)
Goals == \E s \in Sessions : StartGoal(s) \/ ResumeGoal(s) \/ PauseGoal(s) \/ CompleteGoal(s)
Chat == \/ \E s \in Sessions, g \in BOOLEAN : Enqueue(s, g)
        \/ \E i \in Ids : Consume(i) \/ RemoveFind(i)
        \/ RemoveReadGoal \/ RemoveSaveGoal \/ RemoveStopWorker
        \/ RemoveCancel \/ RemoveDelete \/ RemoveAbandoned
\* A bridge leases the session of a run that was delivered to it, although its
\* task may be gone by then.
MayHold(s, k) == \/ k \in Clients \/ db.lease[s].holder = k
                 \/ k \in Ids /\ db.prompt[k].session = s
Yielding == \E c \in Clients : \/ YieldFind(c) \/ YieldCancel(c) \/ YieldDelete(c)
                               \/ YieldNext(c) \/ YieldAbandoned(c)
Running == \/ \E s \in Sessions, k \in Ids \cup Clients :
                (MayHold(s, k) /\ Lease(s, k)) \/ Release(s, k)
           \/ Yielding
           \/ \E h \in Hosts : Poll(h)
           \/ \E i \in Ids : Report(i)
Upkeep == Tick \/ \E s \in Sessions : PrepareRewind(s) \/ CompleteRewind(s) \/ DeleteSession(s)

Next == Edit \/ Goals \/ Chat \/ Running \/ Upkeep
Spec == Init /\ [][Next]_vars

-----------------------------------------------------------------------------
(* What the store promises. *)

\* A prompt becomes a chat message at most once, leaves the queue in that same
\* step, and its run is past claiming exactly from then on: whatever hosts
\* report, and however often they poll, an injected prompt is never replayed
\* (consume_queued_prompt, due_scheduled).
DeliveredOnce ==
  \A i \in Ids :
    /\ db.sent[i] <= 1
    /\ db.sent[i] > 0 => i \notin db.queue /\ db.runs[i].status # "claimed"
    /\ db.runs[i].status \in {"running", "blocked", "complete", "interrupted"} => db.sent[i] = 1

\* Every behaviour of the store is one of PromptDelivery: at most once, in the
\* order of the session's queue, and never back into the queue.
Delivery == INSTANCE PromptDelivery WITH
              last <- db.last, prompt <- db.prompt, waiting <- db.queue,
              sent <- {i \in Ids : db.sent[i] > 0}
DeliversInOrder == Delivery!Spec

\* However edits, polls and reports interleave, a task has at most one run that
\* is pending or running (the NOT EXISTS of the due query, at every later time).
SingleOccurrence ==
  \A i, j \in Ids : /\ Scheduled(db, i) /\ db.runs[i].task = db.runs[j].task
                    /\ db.runs[i].status \in Active /\ db.runs[j].status \in Active
                    => i = j

\* Occurrences of a task are strictly ordered in time, and the next one is later
\* than all of them: the UNIQUE(task_id, due_at) index, whose violation would
\* abort every further poll of every host, is never hit.  Not said of goal workers,
\* whose next turn a slow lease request may date back (YieldNext).
FreshOccurrence ==
  \A i \in Ids : Scheduled(db, i) /\ Kind[db.runs[i].task] # "goal" =>
    /\ \A j \in RunsOf(db, db.runs[i].task) : i < j => db.runs[i].due < db.runs[j].due
    /\ LET t == db.runs[i].task
       IN  db.task[t].next # NoTime => db.runs[i].due < db.task[t].next

\* A scheduled prompt never stays in the chat queue as a dead entry that no host
\* may deliver and that keeps every later prompt of the session waiting: its
\* task is enabled and its run still pending, unless a request that removes it, or
\* withdraws it for a foreground run, has got as far as ending its run.
NoDeadPrompt ==
  \A i \in db.queue : Scheduled(db, i) =>
    \/ removal.id = i
    \/ \E c \in Clients : yields[c].stage = "cancelled" /\ db.runs[i].task \in GoalTasks(c)
    \/ /\ db.runs[i].status \in {"queued", "claimed"}
       /\ Live(db, db.runs[i].task) /\ db.task[db.runs[i].task].enabled

\* Unattended goal work is bounded: an active goal always has turns and stalls
\* left, so the worker stops for review at its limits (apply_goal_result).
GoalTurnBound ==
  \A s \in Sessions :
    /\ db.worker[s].turns <= MaxTurns
    /\ db.goal[s].status = "active" => /\ db.worker[s].turns < MaxTurns
                                       /\ db.worker[s].stalls < MaxStalls

\* A queued goal prompt was made for the goal as it is now: pausing, completing
\* or resuming a goal leaves no prompt of its earlier life behind.
PendingGoalCurrent ==
  \A i \in db.queue : Scheduled(db, i) /\ Kind[db.runs[i].task] = "goal" =>
    LET s == Home[db.runs[i].task]
    IN  db.goal[s] = [status |-> "active", rev |-> db.runs[i].grev]

\* A monitor with another check ahead has budget for it and no check under way,
\* so max_checks bounds the prompts it sends and they never overlap.
MonitorBudget ==
  \A t \in Tasks : Kind[t] = "monitor" /\ Live(db, t) =>
    /\ db.mon[t].left >= 0
    /\ db.task[t].enabled /\ db.task[t].next # NoTime => db.mon[t].left > 0 /\ ~HasActive(db, t)

\* A monitor's check is never handed to a host after the monitor has expired.
MonitorClaimedInLife ==
  [][\A i \in Ids : /\ db'.runs[i].status = "claimed" /\ db.runs[i].status # "claimed"
                    /\ Kind[db'.runs[i].task] = "monitor"
                    => now < db'.mon[db'.runs[i].task].until]_vars

\* A goal never changes its status under an unchanged revision, so a window that
\* still holds that revision cannot act on, or overwrite, what it has not seen.
GoalChangesRevision ==
  [][\A s \in Sessions : /\ db'.goal[s].status # db.goal[s].status
                          /\ db'.sess[s] = "open"
                          => db'.goal[s].rev > db.goal[s].rev]_vars

=============================================================================
