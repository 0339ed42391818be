----------------------- MODULE ScheduledDispatchProofs -----------------------
(***************************************************************************)
(* Theorems about ScheduledDispatch for every value of its constants.      *)
(*                                                                         *)
(* Every step of the composition is a step of the store or leaves it       *)
(* alone, so what is proved of the store holds of the whole.  The rest     *)
(* relates the memory of the daemon to the database: who is at work on a   *)
(* run (Fits), who holds a session's lease (Leased), and, where a dispatch *)
(* does not outlast its claim, that nobody else is given the run (Kept).   *)
(***************************************************************************)
EXTENDS ScheduledDispatch, ScheduledGoalProofs

Starting == {"plan", "lease", "consume", "abort"}    \* the task of the run's entry
Refusable == {"start", "report"} \cup Starting

\* A run that was given out, with the session of its prompt.
Issued(i) == i \in Ids /\ i <= db.last /\ SessionOf(i) \in Sessions

\* A dispatch task that starts a run owns the run's entry in the registry; one
\* that watches a run has seen it start.
SlotFits ==
  \A k \in Slots :
    /\ slot[k].pc # "idle" => Issued(slot[k].run)
    /\ slot[k].pc \in Starting => reg[slot[k].run].state = "reserved"
    /\ slot[k].pc = "watch" => reg[slot[k].run].state \in {"running", "ended", "finished"}
    /\ slot[k].pc \in {"abort", "report"} => slot[k].answer \in {"queued", "failed"}
OneStarter ==
  \A k, l \in Slots : /\ slot[k].pc \in Starting /\ slot[l].pc \in Starting
                      /\ slot[k].run = slot[l].run
                      => k = l

\* A body started at most as often as its prompt was consumed.
EntryFits ==
  \A i \in Ids : /\ reg[i].state # "absent" => Issued(i)
                 /\ reg[i].control => reg[i].state \in {"running", "ended"}
                 /\ reg[i].event = "none" <=> reg[i].state \in {"absent", "reserved", "running"}
                 /\ reg[i].begun <= db.sent[i]
                 /\ reg[i].state = "running" => reg[i].begun > 0
FgFits == \A c \in Clients : fg[c].pc # "idle" => fg[c].session \in Sessions
Fits == SlotFits /\ OneStarter /\ EntryFits /\ FgFits

\* A body at work, or about to be started, holds a lease that has not expired; a
\* plain reply may have outlived its own.
Holds(s, b) == db.lease[s].holder = b /\ now < db.lease[s].until
Leased ==
  /\ \A i \in Ids : reg[i].state = "running" => Holds(SessionOf(i), i)
  /\ \A k \in Slots : slot[k].pc = "consume" => Holds(SessionOf(slot[k].run), slot[k].run)
  /\ \A c \in Clients : fg[c].pc = "running" => Holds(fg[c].session, c)

DInv == IInv /\ DispatchTypeOK /\ Fits /\ Leased

\* A claim lasts as long as the dispatch that works on it, the claimed run is
\* given to nobody else, and a run at work is watched and recorded as running.
ClaimsLast ==
  \A k \in Slots :
    slot[k].pc \in Refusable /\ db.runs[slot[k].run].status = "claimed"
      => now <= db.runs[slot[k].run].until
NotRequeued ==
  \A k \in Slots :
    slot[k].pc \in Refusable /\ reg[slot[k].run].state \in {"absent", "reserved"}
      => db.runs[slot[k].run].status # "queued"
Alive(i) == reg[i].state \in {"absent", "reserved", "running"}
OneSlot ==
  \A k, l \in Slots :
    /\ slot[k].pc # "idle" /\ slot[l].pc # "idle" /\ slot[k].run = slot[l].run
    /\ Alive(slot[k].run)
    => k = l
Watched(i) == \E k \in Slots : slot[k].pc = "watch" /\ slot[k].run = i
Recorded(i) == Scheduled(db, i) => db.runs[i].status = "running" /\ now <= db.runs[i].until
Kept == /\ ClaimsLast /\ NotRequeued /\ OneSlot
        /\ \A i \in Ids : reg[i].state = "running" => Watched(i) /\ Recorded(i)

-----------------------------------------------------------------------------
(* What the store does to runs and leases. *)

\* Run i is as it was, cancelled while its prompt was queued, or deleted.
Left(d, e, i) ==
  \/ e.runs[i].task = NoTask /\ e.runs[i].status \in {"none", "cancelled"}
  \/ /\ e.runs[i].task = d.runs[i].task
     /\ \/ e.runs[i].status = d.runs[i].status /\ e.runs[i].until = d.runs[i].until
        \/ e.runs[i].status = "cancelled" /\ i \in d.queue

\* e differs from d by work withdrawn, and no lease changed hands.
Leaves(d, e) ==
  /\ e \in Database /\ e.queue \subseteq d.queue /\ e.lease = d.lease
  /\ \A i \in Ids : Left(d, e, i)

\* Withdrawing twice is withdrawing.
LEMMA LeavesTwice ==
  ASSUME NEW c, NEW d, NEW e, Leaves(c, d), Leaves(d, e)
  PROVE  Leaves(c, e)
<1>1. \A i \in Ids : Left(c, e, i)
  BY DEF Leaves, Left
<1>. QED
  BY <1>1 DEF Leaves

\* Steps that write other fields.
LEMMA SameLeaves ==
  ASSUME NEW d, NEW e \in Database, e.runs = d.runs, e.queue \subseteq d.queue, e.lease = d.lease
  PROVE  Leaves(d, e)
BY DEF Leaves, Left

\* What withdraws and leaves the leases alone.
LEMMA WithdrawsLeaves ==
  ASSUME NEW n, NEW d, NEW e, Withdraws(d, e, n), e.lease = d.lease
  PROVE  Leaves(d, e)
BY DEF Withdraws, Leaves, Left

\* No pass touches a lease.
LEMMA PassesLease ==
  ASSUME NEW d \in Database, NEW T, NEW en, NEW nx, NEW st
  PROVE  /\ SetStatus(d, T, st).lease = d.lease
         /\ CancelPending(d, T).lease = d.lease
         /\ SetTasks(d, T, en, nx).lease = d.lease
         /\ SetNext(d, T, nx).lease = d.lease
         /\ DropTasks(d, T).lease = d.lease
<1>1. SetStatus(d, T, st).lease = d.lease /\ SetTasks(d, T, en, nx).lease = d.lease
  BY DEF SetStatus, SetTasks, Database
<1>2. SetNext(d, T, nx).lease = d.lease /\ DropTasks(d, T).lease = d.lease
  BY DEF SetNext, DropTasks, Database
<1>3. CancelPending(d, T).lease = d.lease
  <2>. DEFINE P == {i \in d.queue : d.runs[i].task \in T}
              e == SetStatus(d, P, "cancelled")
  <2>1. e.lease = d.lease
    BY DEF SetStatus, Database
  <2>2. e \in Database
    BY SetStatusType DEF Ended
  <2>3. CancelPending(d, T) = [e EXCEPT !.queue = d.queue \ P]
    BY DEF CancelPending
  <2>. HIDE DEF e, P
  <2>4. [e EXCEPT !.queue = d.queue \ P].lease = e.lease
    BY <2>2 DEF Database
  <2>. QED
    BY <2>1, <2>3, <2>4
<1>. QED
  BY <1>1, <1>2, <1>3

\* The passes that only withdraw.
LEMMA PassesLeave ==
  ASSUME NEW n \in Nat, NEW d \in Database, NEW T
  PROVE  Leaves(d, CancelPending(d, T)) /\ Leaves(d, DropTasks(d, T))
<1>1. Withdraws(d, CancelPending(d, T), n) /\ Withdraws(d, DropTasks(d, T), n)
  BY CancelPendingWithdraws, DropTasksWithdraws
<1>2. CancelPending(d, T).lease = d.lease /\ DropTasks(d, T).lease = d.lease
  BY PassesLease
<1>. QED
  BY <1>1, <1>2, WithdrawsLeaves

\* Switching tasks on and off, whatever their next time.
LEMMA SwitchLeaves ==
  ASSUME NEW d \in Database, NEW T, NEW en \in BOOLEAN, NEW nx \in Nat \cup {NoTime}
  PROVE  Leaves(d, SetTasks(d, T, en, nx)) /\ Leaves(d, SetNext(d, T, nx))
<1>1. \A t \in Tasks : d.task[t] \in TaskRows
  BY DEF Database
<1>2. /\ SetTasks(d, T, en, nx) \in Database /\ SetTasks(d, T, en, nx).runs = d.runs
      /\ SetTasks(d, T, en, nx).queue = d.queue /\ SetTasks(d, T, en, nx).lease = d.lease
  <2>. DEFINE f == [t \in Tasks |-> IF t \in T THEN [d.task[t] EXCEPT !.enabled = en, !.next = nx]
                                               ELSE d.task[t]]
  <2>1. f \in [Tasks -> TaskRows]
    BY <1>1 DEF TaskRows
  <2>2. SetTasks(d, T, en, nx) = [d EXCEPT !.task = f]
    BY DEF SetTasks
  <2>. HIDE DEF f
  <2>. QED
    BY <2>1, <2>2 DEF Database
<1>3. /\ SetNext(d, T, nx) \in Database /\ SetNext(d, T, nx).runs = d.runs
      /\ SetNext(d, T, nx).queue = d.queue /\ SetNext(d, T, nx).lease = d.lease
  <2>. DEFINE f == [t \in Tasks |-> IF t \in T THEN [d.task[t] EXCEPT !.next = nx] ELSE d.task[t]]
  <2>1. f \in [Tasks -> TaskRows]
    BY <1>1 DEF TaskRows
  <2>2. SetNext(d, T, nx) = [d EXCEPT !.task = f]
    BY DEF SetNext
  <2>. HIDE DEF f
  <2>. QED
    BY <2>1, <2>2 DEF Database
<1>. QED
  BY <1>2, <1>3, SameLeaves

\* cleanup_monitors, the end of most transactions.
LEMMA CleanupLeaves ==
  ASSUME NEW n \in Nat, NEW c, NEW d, Leaves(c, d)
  PROVE  Leaves(c, Cleanup(d, n))
<1>1. d \in Database
  BY DEF Leaves
<1>2. PICK E : ExpireMonitors(d, n) = SetTasks(CancelPending(d, E), E, FALSE, NoTime)
  BY DEF ExpireMonitors
<1>. DEFINE x == CancelPending(d, E)
            y == ExpireMonitors(d, n)
<1>3. Leaves(d, x) /\ x \in Database
  BY <1>1, PassesLeave DEF Leaves
<1>4. Leaves(d, y) /\ y \in Database
  <2>1. Leaves(x, SetTasks(x, E, FALSE, NoTime))
    BY <1>3, SwitchLeaves
  <2>2. y = SetTasks(x, E, FALSE, NoTime)
    BY <1>2
  <2>. HIDE DEF x, y
  <2>3. Leaves(d, y)
    BY <1>3, <2>1, <2>2, LeavesTwice
  <2>. QED
    BY <2>3 DEF Leaves
<1>. HIDE DEF y
<1>5. PICK T : DropSpent(y, n) = DropTasks(y, T)
  BY DEF DropSpent
<1>6. Leaves(y, DropSpent(y, n))
  BY <1>4, <1>5, PassesLeave
<1>7. Leaves(d, Cleanup(d, n))
  BY <1>4, <1>6, LeavesTwice DEF Cleanup, y
<1>. QED
  BY <1>7, LeavesTwice

\* Writing the row of a task leaves the runs alone.
LEMMA RowLeaves ==
  ASSUME NEW d \in Database, NEW t \in Tasks, NEW row \in TaskRows
  PROVE  Leaves(d, [d EXCEPT !.task[t] = row])
<1>. DEFINE e == [d EXCEPT !.task[t] = row]
<1>1. [d.task EXCEPT ![t] = row] \in [Tasks -> TaskRows]
  BY DEF Database
<1>2. e \in Database /\ e.runs = d.runs /\ e.queue = d.queue /\ e.lease = d.lease
  BY <1>1 DEF Database
<1>. HIDE DEF e
<1>3. Leaves(d, e)
  BY <1>2, SameLeaves
<1>. QED
  BY <1>3 DEF e

\* So does writing the row of a monitor.
LEMMA MonitorLeaves ==
  ASSUME NEW d \in Database, NEW t \in Tasks, NEW m \in [left : Int, until : Nat]
  PROVE  Leaves(d, [d EXCEPT !.mon[t] = m])
<1>. DEFINE e == [d EXCEPT !.mon[t] = m]
<1>1. [d.mon EXCEPT ![t] = m] \in [Tasks -> [left : Int, until : Nat]]
  BY DEF Database
<1>2. e \in Database /\ e.runs = d.runs /\ e.queue = d.queue /\ e.lease = d.lease
  BY <1>1 DEF Database
<1>. HIDE DEF e
<1>3. Leaves(d, e)
  BY <1>2, SameLeaves
<1>. QED
  BY <1>3 DEF e

\* Commands on tasks and monitors withdraw work.
LEMMA EditLeaves ==
  ASSUME IInv, Edit
  PROVE  Leaves(db, db')
<1>1. now \in Nat /\ db \in Database
  BY DEF IInv, TypeOK
<1>2. ASSUME NEW t \in Tasks, NEW sch \in Schedules, NEW en \in BOOLEAN,
             CreateTask(t, sch, en) \/ UpdateTask(t, sch, en)
      PROVE  Leaves(db, db')
  <2>. DEFINE row == [state |-> "live", enabled |-> en, next |-> NextAfter(sch, now), sched |-> sch]
              d == CancelPending(db, {t})
  <2>1. row \in TaskRows
    BY <1>1, TimesAssumption, NextAfterLater DEF TaskRows
  <2>2. Leaves(db, d) /\ d \in Database
    BY <1>1, PassesLeave DEF Leaves
  <2>3. db' = Cleanup([db EXCEPT !.task[t] = row], now) \/ db' = Cleanup([d EXCEPT !.task[t] = row], now)
    BY <1>2 DEF CreateTask, UpdateTask, Save
  <2>. HIDE DEF row, d
  <2>4. Leaves(db, [db EXCEPT !.task[t] = row]) /\ Leaves(db, [d EXCEPT !.task[t] = row])
    BY <1>1, <2>1, <2>2, RowLeaves, LeavesTwice
  <2>. QED
    BY <1>1, <2>3, <2>4, CleanupLeaves
<1>3. ASSUME NEW t \in Tasks, EnableTask(t)
      PROVE  Leaves(db, db')
  <2>1. db.task[t].sched \in SUBSET Nat
    BY <1>1 DEF Database, TaskRows
  <2>2. NextAfter(db.task[t].sched, now) \in Nat \cup {NoTime}
    BY <1>1, <2>1, NextAfterLater
  <2>3. Leaves(db, SetTasks(db, {t}, TRUE, NextAfter(db.task[t].sched, now)))
    BY <1>1, <2>2, SwitchLeaves
  <2>. QED
    BY <1>1, <1>3, <2>3, CleanupLeaves DEF EnableTask
<1>4. ASSUME NEW t \in Tasks
      PROVE  Leaves(db, SetTasks(CancelPending(db, {t}), {t}, FALSE, db.task[t].next))
  <2>. DEFINE d == CancelPending(db, {t})
  <2>1. Leaves(db, d) /\ d \in Database /\ db.task[t].next \in Nat \cup {NoTime}
    BY <1>1, PassesLeave DEF Leaves, Database, TaskRows
  <2>. HIDE DEF d
  <2>2. Leaves(d, SetTasks(d, {t}, FALSE, db.task[t].next))
    BY <2>1, SwitchLeaves
  <2>. QED
    BY <2>1, <2>2, LeavesTwice DEF d
<1>5. ASSUME NEW t \in Tasks, DisableTask(t)
      PROVE  Leaves(db, db')
  BY <1>1, <1>4, <1>5, CleanupLeaves DEF DisableTask
<1>6. ASSUME NEW t \in Tasks, DeleteTask(t)
      PROVE  Leaves(db, db')
  <2>. DEFINE d == CancelPending(db, {t})
  <2>1. Leaves(db, d) /\ d \in Database
    BY <1>1, PassesLeave DEF Leaves
  <2>2. Leaves(d, DropTasks(d, {t}))
    BY <1>1, <2>1, PassesLeave
  <2>. QED
    BY <1>1, <1>6, <2>1, <2>2, LeavesTwice, CleanupLeaves DEF DeleteTask
<1>7. ASSUME NEW t \in Tasks, NEW delay \in Delays, NEW checks \in Checks,
             StartMonitor(t, delay, checks)
      PROVE  Leaves(db, db')
  <2>. DEFINE row == [state |-> "live", enabled |-> TRUE, next |-> now + delay, sched |-> {}]
              d == Save(t, row)
              m == [left |-> checks, until |-> now + MonitorLife]
  <2>1. row \in TaskRows /\ m \in [left : Int, until : Nat]
    BY <1>1, TimesAssumption DEF TaskRows
  <2>2. db' = Cleanup([d EXCEPT !.mon[t] = m], now)
    BY <1>7 DEF StartMonitor
  <2>. HIDE DEF row, m
  <2>3. Leaves(db, d) /\ d \in Database
    BY <1>1, <2>1, RowLeaves DEF Save, Leaves
  <2>. HIDE DEF d
  <2>4. Leaves(d, [d EXCEPT !.mon[t] = m])
    BY <2>1, <2>3, MonitorLeaves
  <2>. QED
    BY <1>1, <2>2, <2>3, <2>4, LeavesTwice, CleanupLeaves
<1>8. ASSUME NEW t \in Tasks, CancelMonitor(t)
      PROVE  Leaves(db, db')
  <2>. DEFINE d == SetTasks(CancelPending(db, {t}), {t}, FALSE, db.task[t].next)
              m == [d.mon[t] EXCEPT !.left = 0]
  <2>1. Leaves(db, d) /\ d \in Database
    BY <1>4 DEF Leaves
  <2>2. db' = Cleanup([d EXCEPT !.mon[t].left = 0], now)
    BY <1>8 DEF CancelMonitor
  <2>. HIDE DEF d
  <2>3. m \in [left : Int, until : Nat]
    BY <2>1 DEF Database
  <2>4. [d EXCEPT !.mon[t].left = 0] = [d EXCEPT !.mon[t] = m]
    BY <2>1 DEF Database
  <2>. HIDE DEF m
  <2>5. Leaves(d, [d EXCEPT !.mon[t] = m])
    BY <2>1, <2>3, MonitorLeaves
  <2>. QED
    BY <1>1, <2>1, <2>2, <2>4, <2>5, LeavesTwice, CleanupLeaves
<1>. QED
  BY <1>2, <1>3, <1>5, <1>6, <1>7, <1>8 DEF Edit

\* Commands on goals withdraw the worker's prompts.
LEMMA GoalCommandLeaves ==
  ASSUME IInv, NEW s \in Sessions, NEW status \in {"active", "paused", "completed"}, NEW from,
         GoalCommand(s, status, from)
  PROVE  Leaves(db, db')
<1>. DEFINE G == {t \in Tasks : IsGoalTask(t, s)}
            c == CancelPending(db, G)
            d == [c EXCEPT !.goal[s] = Revised(db.goal[s], status)]
<1>1. now \in Nat /\ db \in Database /\ db' \in Database
  BY GoalCommandSound DEF IInv, TypeOK, Sound
<1>2. Leaves(db, c) /\ c \in Database
  BY <1>1, PassesLeave DEF Leaves
<1>. HIDE DEF c
<1>3. Revised(db.goal[s], status) \in [status : {"none", "active", "paused", "completed"}, rev : Nat]
  BY <1>1 DEF Revised, Database
<1>4. d \in Database /\ d.runs = c.runs /\ d.queue = c.queue /\ d.lease = c.lease
  BY <1>2, <1>3 DEF Database
<1>5. Leaves(db, d)
  <2>. HIDE DEF d
  <2>. QED
    BY <1>2, <1>4, SameLeaves, LeavesTwice
<1>6. CASE status = "active"
  <2>1. PICK tk, wk : db' = [d EXCEPT !.task = tk, !.worker[s] = wk]
    BY <1>6 DEF GoalCommand, c
  <2>. HIDE DEF d
  <2>2. db'.runs = d.runs /\ db'.queue = d.queue /\ db'.lease = d.lease
    BY <1>4, <2>1 DEF Database
  <2>. QED
    BY <1>1, <1>5, <2>2, SameLeaves, LeavesTwice
<1>7. CASE status # "active"
  <2>1. db' = SetTasks(d, {t \in G : Live(d, t)}, FALSE, NoTime)
    BY <1>7 DEF GoalCommand, c
  <2>. HIDE DEF d
  <2>2. Leaves(d, db')
    BY <1>4, <2>1, SwitchLeaves
  <2>. QED
    BY <1>5, <2>2, LeavesTwice
<1>. QED
  BY <1>6, <1>7

\* So do the statements that follow a lease: they only withdraw.
LEMMA YieldingLeaves ==
  ASSUME IInv, Yielding
  PROVE  Leaves(db, db') /\ UNCHANGED <<now, removal>>
<1>1. db \in Database /\ db' \in Database
  BY NextSound DEF Next, Running, Sound, IInv, TypeOK
<1>2. PICK c \in Clients : YieldFind(c) \/ YieldCancel(c) \/ YieldDelete(c) \/ YieldNext(c) \/ YieldAbandoned(c)
  BY DEF Yielding
<1>3. UNCHANGED <<now, removal>>
  BY <1>2 DEF YieldFind, YieldCancel, YieldDelete, YieldNext, YieldAbandoned
<1>4. CASE YieldFind(c) \/ YieldAbandoned(c)
  <2>1. db' = db
    BY <1>4 DEF YieldFind, YieldAbandoned
  <2>. QED
    BY <1>1, <1>3, <2>1, SameLeaves
<1>5. CASE YieldCancel(c)
  <2>1. db' = CancelRuns(db, GoalTasks(c))
    BY <1>5 DEF YieldCancel
  <2>2. db'.queue = db.queue /\ db'.lease = db.lease /\ \A i \in Ids : Left(db, db', i)
    <3>. DEFINE P == {i \in db.queue : db.runs[i].task \in GoalTasks(c)}
    <3>1. db' = SetStatus(db, P, "cancelled")
      BY <2>1 DEF CancelRuns
    <3>2. P \subseteq db.queue
      OBVIOUS
    <3>. HIDE DEF P
    <3>3. db'.queue = db.queue /\ db'.lease = db.lease
      BY <1>1, <3>1 DEF SetStatus, Database
    <3>4. \A i \in Ids : /\ db'.runs[i].task = db.runs[i].task
                         /\ i \in P => db'.runs[i].status = "cancelled"
                         /\ i \notin P => db'.runs[i] = db.runs[i]
      BY <1>1, <3>1, SetStatusType DEF Ended
    <3>. QED
      BY <3>2, <3>3, <3>4 DEF Left
  <2>. QED
    BY <1>1, <1>3, <2>2 DEF Leaves
<1>6. CASE YieldDelete(c)
  <2>1. db' = DropPrompts(db, GoalTasks(c))
    BY <1>6 DEF YieldDelete
  <2>2. db'.runs = db.runs /\ db'.queue \subseteq db.queue /\ db'.lease = db.lease
    BY <1>1, <2>1 DEF DropPrompts, Database
  <2>. QED
    BY <1>1, <1>3, <2>2, SameLeaves
<1>7. CASE YieldNext(c)
  <2>1. db' = SetNext(db, {t \in GoalTasks(c) : db.task[t].enabled}, yields[c].at + 1)
    BY <1>7 DEF YieldNext
  <2>2. db'.runs = db.runs /\ db'.queue = db.queue /\ db'.lease = db.lease
    BY <1>1, <2>1 DEF SetNext, Database
  <2>. QED
    BY <1>1, <1>3, <2>2, SameLeaves
<1>. QED
  BY <1>2, <1>4, <1>5, <1>6, <1>7

\* Users, and the requests that still yield a goal's prompt, withdraw work and touch
\* no lease.
LEMMA UsersLeave ==
  ASSUME IInv, Edit \/ Goals \/ Yielding
  PROVE  Leaves(db, db') /\ UNCHANGED <<now, removal>>
<1>1. CASE Edit
  <2>1. UNCHANGED <<now, removal>>
    BY <1>1 DEF Edit, CreateTask, UpdateTask, EnableTask, DisableTask, DeleteTask, StartMonitor,
                CancelMonitor
  <2>. QED
    BY <1>1, <2>1, EditLeaves
<1>2. CASE Goals
  <2>1. PICK s \in Sessions : StartGoal(s) \/ ResumeGoal(s) \/ PauseGoal(s) \/ CompleteGoal(s)
    BY <1>2 DEF Goals
  <2>2. PICK status \in {"active", "paused", "completed"} : \E from : GoalCommand(s, status, from)
    BY <2>1 DEF StartGoal, ResumeGoal, PauseGoal, CompleteGoal
  <2>. QED
    BY <2>2, GoalCommandLeaves DEF GoalCommand
<1>. QED
  BY <1>1, <1>2, YieldingLeaves

\* Taking a lease withdraws nothing yet.
LEMMA LeaseMoves ==
  ASSUME IInv, NEW s \in Sessions, NEW k \in Ids \cup Clients, Lease(s, k)
  PROVE  /\ db.lease[s].holder = k \/ db.lease[s].until <= now
         /\ db'.lease = [db.lease EXCEPT ![s] = [holder |-> k, until |-> now + LeaseTime]]
         /\ db'.queue \subseteq db.queue /\ \A i \in Ids : Left(db, db', i)
<1>. DEFINE l == [holder |-> k, until |-> now + LeaseTime]
            d == [db EXCEPT !.lease[s] = l]
<1>1. now \in Nat /\ db \in Database
  BY DEF IInv, TypeOK
<1>2. l \in [holder : Holders, until : Nat]
  BY <1>1, TimesAssumption DEF Holders
<1>3. /\ db' = d
      /\ db.lease[s].holder = k \/ db.lease[s].until <= now
  BY DEF Lease, LeaseFree
<1>. HIDE DEF l
<1>4. /\ d \in Database /\ d.runs = db.runs /\ d.queue = db.queue
      /\ d.lease = [db.lease EXCEPT ![s] = l]
  BY <1>1, <1>2 DEF Database
<1>. HIDE DEF d
<1>. QED
  BY <1>3, <1>4 DEF Left, l

\* A lease is let go by its holder.
LEMMA ReleaseMoves ==
  ASSUME IInv, NEW s \in Sessions, NEW k, Release(s, k)
  PROVE  /\ db.lease[s].holder = k
         /\ db'.lease = [db.lease EXCEPT ![s] = NoLease]
         /\ db'.runs = db.runs /\ db'.queue = db.queue
BY DEF Release, IInv, TypeOK, Database

\* A claimed run whose prompt is consumed runs; the others and the leases stay.
LEMMA ConsumeMoves ==
  ASSUME IInv, NEW i \in Ids, Consume(i)
  PROVE  /\ db'.lease = db.lease /\ db'.sent[i] = db.sent[i] + 1
         /\ \A j \in Ids : j # i => db'.runs[j] = db.runs[j]
         /\ Scheduled(db', i) => db'.runs[i].status = "running" /\ db'.runs[i].until = now + LeaseTime
         /\ db'.runs[i].status \notin {"queued", "claimed"}
<1>. DEFINE r == IF db.runs[i].status \in {"queued", "claimed"}
                 THEN [db.runs[i] EXCEPT !.status = "running", !.until = now + LeaseTime]
                 ELSE db.runs[i]
<1>1. db \in Database /\ now \in Nat /\ db.runs[i] \in Runs
  BY DEF IInv, TypeOK, Database
<1>2. db' = [db EXCEPT !.sent[i] = @ + 1, !.queue = @ \ {i}, !.runs[i] = r]
  BY DEF Consume
<1>3. r.task = db.runs[i].task /\ r.status \notin {"queued", "claimed"}
  BY <1>1 DEF Runs
<1>4. r.task # NoTask => r.status = "running" /\ r.until = now + LeaseTime
  <2>. SUFFICES ASSUME r.task # NoTask PROVE r.status = "running" /\ r.until = now + LeaseTime
    OBVIOUS
  <2>1. db.runs[i].status = "claimed"
    BY <1>3 DEF Consume, MayConsume, Scheduled
  <2>. QED
    BY <1>1, <2>1 DEF Runs
<1>. HIDE DEF r
<1>5. /\ db'.lease = db.lease /\ db'.sent = [db.sent EXCEPT ![i] = @ + 1]
      /\ db'.runs = [db.runs EXCEPT ![i] = r]
  BY <1>1, <1>2 DEF Database
<1>. QED
  BY <1>1, <1>3, <1>4, <1>5 DEF Scheduled, Database

\* A report moves its own run and withdraws at most what a cleanup withdraws.
LEMMA ResultMoves ==
  ASSUME IInv, NEW i \in Ids,
         NEW st \in {"queued", "running", "blocked", "complete", "cancelled", "failed"}, NEW a,
         Result(i, st, a)
  PROVE  /\ db'.lease = db.lease /\ db'.queue \subseteq db.queue
         /\ \A j \in Ids : j # i => Left(db, db', j)
         /\ \/ db'.runs[i].task = NoTask /\ db'.runs[i].status \in {"none", "cancelled"}
            \/ /\ db'.runs[i].task = db.runs[i].task
               /\ \/ /\ db'.runs[i].status = st
                     /\ db'.runs[i].until = IF st \in {"running", "blocked"} THEN now + LeaseTime ELSE 0
                  \/ db'.runs[i].status = "cancelled" /\ i \in db.queue
<1>. DEFINE un == IF st \in {"running", "blocked"} THEN now + LeaseTime ELSE 0
            r == [db.runs[i] EXCEPT !.status = st, !.until = un]
            e == [db EXCEPT !.runs[i].status = st, !.runs[i].until = un]
            g == ApplyGoal(e, i, st, a, now)
            q == IF st \in Ended THEN [g EXCEPT !.queue = @ \ {i}] ELSE g
            c == IF st = "complete" THEN NextCheck(q, db.runs[i].task, now) ELSE q
<1>1. now \in Nat /\ db \in Database /\ db.runs[i] \in Runs
  BY DEF IInv, TypeOK, Database
<1>2. db' = Cleanup(c, now)
  BY DEF Result, Reported
<1>3. un \in Nat
  BY <1>1, TimesAssumption
<1>. HIDE DEF un
<1>4. r \in Runs /\ r.task = db.runs[i].task /\ r.status = st /\ r.until = un
  BY <1>1, <1>3 DEF Runs, Active, Ended
<1>5. e = [db EXCEPT !.runs = [db.runs EXCEPT ![i] = r]]
  BY <1>1 DEF Database, Runs
<1>. HIDE DEF r, e
<1>6. [db.runs EXCEPT ![i] = r] \in [Ids -> Runs]
  BY <1>1, <1>4 DEF Database
<1>7. /\ e \in Database /\ e.queue = db.queue /\ e.lease = db.lease
      /\ \A j \in Ids : e.runs[j] = IF j = i THEN r ELSE db.runs[j]
  BY <1>1, <1>5, <1>6 DEF Database
<1>8. Leaves(e, g) /\ g \in Database
  <2>. DEFINE t == e.runs[i].task
              s == Home[t]
              w == [e.worker[s] EXCEPT !.turns = @ + 1, !.stalls = IF a.tools THEN 0 ELSE @ + 1]
              x == [e EXCEPT !.worker[s] = w]
              y == [x EXCEPT !.goal[s] = Revised(@, Verdict(w, st, a))]
  <2>1. \/ g = e \/ g = SetNext(e, {t}, now + 1) \/ g = SetNext(x, {t}, now + 1)
        \/ g = SetTasks(y, {t}, FALSE, NoTime)
    BY DEF ApplyGoal
  <2>2. Withdraws(e, g, now)
    BY <1>1, <1>7, ApplyGoalWithdraws
  <2>. HIDE DEF g, w
  <2>3. x.lease = e.lease /\ y.lease = e.lease
    BY <1>7 DEF Database
  <2>4. /\ SetNext(e, {t}, now + 1).lease = e.lease
        /\ SetNext(x, {t}, now + 1).lease = e.lease
        /\ SetTasks(y, {t}, FALSE, NoTime).lease = e.lease
    <3>1. SetNext(e, {t}, now + 1).lease = e.lease
      BY <1>7, PassesLease
    <3>2. SetNext(x, {t}, now + 1).lease = x.lease
      BY <1>7 DEF SetNext, Database
    <3>3. SetTasks(y, {t}, FALSE, NoTime).lease = y.lease
      BY <1>7 DEF SetTasks, Database
    <3>. QED
      BY <2>3, <3>1, <3>2, <3>3
  <2>5. g.lease = e.lease
    BY <2>1, <2>4
  <2>. QED
    BY <2>2, <2>5, WithdrawsLeaves DEF Withdraws
<1>. HIDE DEF g
<1>9. Leaves(e, q) /\ q \in Database
  <2>1. q \in Database /\ q.runs = g.runs /\ q.queue \subseteq g.queue /\ q.lease = g.lease
    BY <1>8 DEF Database
  <2>. HIDE DEF q
  <2>. QED
    BY <1>8, <2>1, SameLeaves, LeavesTwice
<1>. HIDE DEF q
<1>10. Leaves(q, c)
  <2>1. c = q \/ c = SetNext(q, {db.runs[i].task}, now + Interval)
    BY DEF NextCheck
  <2>2. now + Interval \in Nat \cup {NoTime}
    BY <1>1, TimesAssumption
  <2>. QED
    BY <1>9, <2>1, <2>2, SameLeaves, SwitchLeaves
<1>. HIDE DEF c
<1>11. Leaves(e, db')
  BY <1>1, <1>2, <1>9, <1>10, LeavesTwice, CleanupLeaves
<1>12. db'.lease = db.lease /\ db'.queue \subseteq db.queue
  BY <1>7, <1>11 DEF Leaves
<1>13. \A j \in Ids : j # i => Left(db, db', j)
  BY <1>7, <1>11 DEF Leaves, Left
<1>. QED
  BY <1>4, <1>7, <1>11, <1>12, <1>13 DEF Leaves, Left, un

\* A poll gives out, by a fresh claim, only runs that are new, queued, or
\* whose claim has run out; a live claim and a run at work stay, and a run
\* that was given out gets no other task.
Polled(i) ==
  /\ db'.runs[i].status = "claimed" =>
       \/ /\ i \in db'.queue /\ db'.runs[i].until = now + LeaseTime
          /\ \/ i > db.last \/ db.runs[i].status = "queued"
             \/ db.runs[i].status = "claimed" /\ db.runs[i].until < now
       \/ /\ db.runs[i].status = "claimed" /\ now <= db.runs[i].until
          /\ db'.runs[i].until = db.runs[i].until
  /\ db'.runs[i].status = "queued" =>
       \/ i > db.last \/ db.runs[i].status = "queued"
       \/ db.runs[i].status = "claimed" /\ db.runs[i].until < now
  /\ db.runs[i].status = "running" /\ now <= db.runs[i].until /\ i <= db.last /\ i \notin db.queue =>
       \/ db'.runs[i].task = NoTask
       \/ db'.runs[i].status = "running" /\ db'.runs[i].until = db.runs[i].until

LEMMA PollMoves ==
  ASSUME IInv, NEW h \in Hosts, Poll(h)
  PROVE  /\ db'.lease = db.lease /\ \A i \in Ids : Polled(i)
         /\ \A i \in Ids : i <= db.last => db'.runs[i].task \in {db.runs[i].task, NoTask}
<1>. DEFINE c == Recover(db, now)
            r == Rearm(c, now)
            d == Cleanup(r, now)
            B == Batch(d, h, now)
<1>1. now \in Nat /\ Sound(db, now) /\ db \in Database
  BY DEF IInv, TypeOK
<1>2. Sound(c, now) /\ Sound(r, now) /\ Sound(d, now)
  BY <1>1, RecoverSound, RearmSound, CleanupSound
<1>3. c \in Database /\ r \in Database /\ d \in Database
  BY <1>2 DEF Sound
<1>4. PICK p \in Places(d, B) :
        /\ d.last + Cardinality({t \in B : Accepted(d, B, p, t, now)}) <= MaxId
        /\ db' = Claim(Insert(d, B, p, now), h, now)
  BY DEF Poll
<1>5. /\ c.queue = db.queue /\ c.lease = db.lease /\ c.last = db.last
      /\ \A i \in Ids :
           LET x == db.runs[i]
               y == c.runs[i]
           IN  \/ y = x /\ (x.status = "claimed" => i \in db.queue /\ ~(x.until < now))
               \/ y.status \in {"cancelled", "interrupted"}
                    /\ (x.status = "running" => x.until < now)
               \/ y.status = "queued" /\ x.status = "claimed" /\ x.until < now
  <2>. DEFINE f == [i \in Ids |->
                LET x == db.runs[i]
                IN  IF x.status \in {"queued", "claimed"} /\ i \notin db.queue
                      THEN [x EXCEPT !.status = "cancelled", !.until = 0]
                    ELSE IF x.status = "claimed" /\ x.until < now
                      THEN [x EXCEPT !.status = "queued", !.until = 0]
                    ELSE IF x.status \in {"running", "blocked"} /\ x.until < now
                      THEN [x EXCEPT !.status = "interrupted", !.until = 0]
                    ELSE x]
  <2>1. c = [db EXCEPT !.runs = f]
    BY DEF Recover
  <2>2. \A i \in Ids : db.runs[i] \in Runs
    BY <1>1 DEF Database
  <2>3. ASSUME NEW i \in Ids
        PROVE  LET x == db.runs[i]
                   y == f[i]
               IN  \/ y = x /\ (x.status = "claimed" => i \in db.queue /\ ~(x.until < now))
                   \/ y.status \in {"cancelled", "interrupted"}
                        /\ (x.status = "running" => x.until < now)
                   \/ y.status = "queued" /\ x.status = "claimed" /\ x.until < now
    BY <2>2 DEF Runs
  <2>. HIDE DEF f
  <2>4. c.runs = f /\ c.queue = db.queue /\ c.lease = db.lease /\ c.last = db.last
    BY <1>1, <2>1 DEF Database
  <2>. QED
    BY <2>3, <2>4
<1>18. \A i \in Ids : c.runs[i].task = db.runs[i].task
  <2>. DEFINE f == [i \in Ids |->
                LET x == db.runs[i]
                IN  IF x.status \in {"queued", "claimed"} /\ i \notin db.queue
                      THEN [x EXCEPT !.status = "cancelled", !.until = 0]
                    ELSE IF x.status = "claimed" /\ x.until < now
                      THEN [x EXCEPT !.status = "queued", !.until = 0]
                    ELSE IF x.status \in {"running", "blocked"} /\ x.until < now
                      THEN [x EXCEPT !.status = "interrupted", !.until = 0]
                    ELSE x]
  <2>1. c = [db EXCEPT !.runs = f]
    BY DEF Recover
  <2>2. \A i \in Ids : db.runs[i] \in Runs
    BY <1>1 DEF Database
  <2>3. \A i \in Ids : f[i].task = db.runs[i].task
    BY <2>2 DEF Runs
  <2>. HIDE DEF f
  <2>. QED
    BY <1>1, <2>1, <2>3 DEF Database
<1>. HIDE DEF c
<1>6. r.runs = c.runs /\ r.queue = c.queue /\ r.lease = c.lease /\ r.last = c.last
  BY <1>3 DEF Rearm, SetNext, Database
<1>7. Leaves(r, d) /\ d.last = db.last
  <2>1. Leaves(r, r)
    BY <1>3, SameLeaves
  <2>2. d.last = r.last
    BY <1>1, <1>3, CleanupWithdraws DEF Withdraws
  <2>. QED
    BY <1>1, <1>5, <1>6, <2>1, <2>2, CleanupLeaves
<1>8. B \in SUBSET {t \in Tasks : IsDue(d, h, now, t)}
  BY DEF Batch
<1>. HIDE DEF r, d, B
<1>. DEFINE e == Insert(d, B, p, now)
            A == {t \in B : Accepted(d, B, p, t, now)}
<1>9. Sound(e, now) /\ e \in Database
  BY <1>1, <1>2, <1>8, <1>4, InsertSound DEF Sound
<1>10. /\ e.lease = d.lease
       /\ \A i \in Ids : \/ e.runs[i] = d.runs[i]
                         \/ i > d.last /\ e.runs[i].status \in {"failed", "queued"}
  <2>. DEFINE row == [t \in A |-> d.last + 1 + Cardinality({u \in A : Sooner(d, u, t)})]
              who(i) == CHOOSE t \in A : row[t] = i
              rn == [i \in Ids |->
                 IF \E t \in A : row[t] = i
                 THEN [task |-> who(i), due |-> d.task[who(i)].next, until |-> 0,
                       status |-> IF p[who(i)] = NoSession THEN "failed" ELSE "queued",
                       grev |-> IF Kind[who(i)] = "goal" THEN d.worker[p[who(i)]].rev ELSE 0]
                 ELSE d.runs[i]]
  <2>1. e.lease = d.lease /\ e.runs = rn
    BY <1>3 DEF Insert, Database
  <2>2. \A t \in A : row[t] > d.last
    <3>. SUFFICES ASSUME NEW t \in A PROVE row[t] > d.last
      OBVIOUS
    <3>1. A \in SUBSET Tasks /\ d.last \in Nat
      BY <1>3, <1>8 DEF Database
    <3>2. Cardinality({u \in A : Sooner(d, u, t)}) \in Nat
      BY <1>3, <3>1, RowNumbers
    <3>. QED
      BY <3>1, <3>2
  <2>. HIDE DEF row, A, e, who
  <2>3. \A i \in Ids : ~ (\E t \in A : row[t] = i) => rn[i] = d.runs[i]
    OBVIOUS
  <2>4. \A i \in Ids : (\E t \in A : row[t] = i) =>
          rn[i].status = IF p[who(i)] = NoSession THEN "failed" ELSE "queued"
    OBVIOUS
  <2>. HIDE DEF rn
  <2>. QED
    BY <2>1, <2>2, <2>3, <2>4
<1>. HIDE DEF e, A
<1>. DEFINE C == {i \in Ids : Claimable(e, h, now, i)}
            D == {i \in C : Cardinality({j \in C : j < i}) < ClaimBatch}
            f == [i \in Ids |->
                    IF i \in D THEN [e.runs[i] EXCEPT !.status = "claimed", !.until = now + LeaseTime]
                               ELSE e.runs[i]]
<1>11. db' = [e EXCEPT !.runs = f]
  BY <1>4 DEF Claim, e
<1>12. \A i \in D : i \in e.queue /\ e.runs[i].status = "queued"
  BY DEF Claimable
<1>. HIDE DEF D
<1>13. \A i \in Ids : IF i \in D THEN f[i].status = "claimed" /\ f[i].until = now + LeaseTime
                                 ELSE f[i] = e.runs[i]
  <2>1. \A i \in Ids : e.runs[i] \in Runs
    BY <1>9 DEF Database
  <2>. QED
    BY <2>1 DEF Runs
<1>19. \A i \in Ids : f[i].task = e.runs[i].task
  <2>1. \A i \in Ids : e.runs[i] \in Runs
    BY <1>9 DEF Database
  <2>. QED
    BY <2>1 DEF Runs
<1>. HIDE DEF f
<1>14. db'.lease = e.lease /\ db'.queue = e.queue /\ db'.runs = f
  BY <1>9, <1>11 DEF Database
<1>15. db'.lease = db.lease
  BY <1>5, <1>6, <1>7, <1>10, <1>14 DEF Leaves
<1>16. ASSUME NEW i \in Ids PROVE Polled(i)
  <2>1. i \in Int /\ db.last \in Int
    BY <1>1 DEF Ids, Database
  <2>2. db.runs[i] \in Runs /\ now \in Int
    BY <1>1 DEF Database
  <2>3. Left(r, d, i) /\ r.runs[i] = c.runs[i]
    BY <1>6, <1>7 DEF Leaves
  <2>4. \/ f[i] = e.runs[i]
        \/ f[i].status = "claimed" /\ f[i].until = now + LeaseTime
           /\ i \in e.queue /\ e.runs[i].status = "queued"
    BY <1>12, <1>13
  <2>5. CASE i > d.last /\ e.runs[i].status \in {"failed", "queued"}
    BY <1>7, <1>14, <2>1, <2>4, <2>5 DEF Polled
  <2>6. CASE e.runs[i] = d.runs[i]
    <3>1. /\ db'.runs[i] = f[i] /\ db'.queue = e.queue /\ db.runs[i].until \in Int
      BY <1>14, <2>2 DEF Runs
    <3>2. Left(c, d, i)
      BY <1>5, <1>6, <2>3 DEF Left
    <3>3. CASE d.runs[i].status \in {"none", "cancelled", "interrupted"}
      BY <1>5, <2>1, <2>2, <2>4, <2>6, <3>1, <3>2, <3>3 DEF Polled, Left
    <3>4. CASE d.runs[i].status = c.runs[i].status /\ d.runs[i].until = c.runs[i].until
      BY <1>5, <2>1, <2>2, <2>4, <2>6, <3>1, <3>4 DEF Polled
    <3>. QED
      BY <3>2, <3>3, <3>4 DEF Left
  <2>. QED
    BY <1>10, <2>5, <2>6
<1>17. ASSUME NEW i \in Ids, i <= db.last
      PROVE  db'.runs[i].task \in {db.runs[i].task, NoTask}
  <2>1. i \in Int /\ db.last \in Int
    BY <1>1 DEF Ids, Database
  <2>2. e.runs[i] = d.runs[i]
    BY <1>7, <1>10, <1>17, <2>1
  <2>3. d.runs[i].task \in {db.runs[i].task, NoTask}
    BY <1>18, <1>6, <1>7 DEF Leaves, Left
  <2>. QED
    BY <1>19, <1>14, <2>2, <2>3
<1>. QED
  BY <1>15, <1>16, <1>17

-----------------------------------------------------------------------------
(* Every step of the composition is a step of the store, or none. *)

\* What the store's invariant says of one step of the store.
LEMMA StoreStep ==
  ASSUME IInv, [Next]_vars
  PROVE  IInv'
<1>1. Sound(db', now')
  BY NextSound
<1>. QED
  BY <1>1, RestType, YieldsType DEF IInv, TypeOK, Sound, Unused, Placed, Once, Alone, Dated, InOrder, Scheduled

\* A run that was given out keeps its id and its session, and a message is sent
\* for good.
Advances ==
  /\ \A i \in Ids : Issued(i) => i <= db'.last /\ db'.prompt[i] = db.prompt[i]
  /\ \A i \in Ids : db.sent[i] <= db'.sent[i]

LEMMA Onward == ASSUME IInv, [Next]_vars PROVE Advances
<1>1. IInv' /\ [Delivery!Next]_Delivery!vars
  BY StoreStep, NextDelivers
<1>2. /\ db.last \in Int /\ db'.last \in Int
      /\ \A i \in Ids : i \in Int /\ db.sent[i] \in Nat /\ db'.sent[i] \in Nat /\ db.sent[i] <= 1
  <2>1. db \in Database /\ db' \in Database /\ \A i \in Ids : db.sent[i] <= 1
    BY <1>1 DEF IInv, TypeOK, Sound, Once
  <2>2. \A i \in Ids : i \in Int
    BY DEF Ids
  <2>. QED
    BY <2>1, <2>2 DEF Database
<1>3. /\ db.last <= db'.last
      /\ \A i \in 1..db.last : db'.prompt[i] = db.prompt[i]
      /\ {i \in Ids : db.sent[i] > 0} \subseteq {i \in Ids : db'.sent[i] > 0}
  <2>1. CASE Delivery!Change
    BY <1>2, <2>1 DEF Delivery!Change
  <2>2. ASSUME NEW i \in Ids, Delivery!Deliver(i)
        PROVE  /\ db.last <= db'.last
               /\ \A j \in 1..db.last : db'.prompt[j] = db.prompt[j]
               /\ {j \in Ids : db.sent[j] > 0} \subseteq {j \in Ids : db'.sent[j] > 0}
    BY <1>2, <2>2 DEF Delivery!Deliver
  <2>3. CASE UNCHANGED Delivery!vars
    BY <1>2, <2>3 DEF Delivery!vars
  <2>. QED
    BY <1>1, <2>1, <2>2, <2>3 DEF Delivery!Next, Ids
<1>4. \A i \in Ids : Issued(i) => i \in 1..db.last
  BY <1>2 DEF Issued, Ids
<1>5. \A i \in Ids : Issued(i) => i <= db'.last /\ db'.prompt[i] = db.prompt[i]
  BY <1>2, <1>3, <1>4 DEF Issued
<1>6. \A i \in Ids : db.sent[i] <= db'.sent[i]
  BY <1>2, <1>3
<1>. QED
  BY <1>5, <1>6 DEF Advances

\* The leases and releases of the bridge are those that any caller may make.
LEMMA LeaseIsStore ==
  ASSUME NEW s \in Sessions, NEW k \in Ids \cup Clients,
         \/ Lease(s, k) /\ (k \in Clients \/ SessionOf(k) = s)
         \/ Release(s, k)
  PROVE  Next
<1>1. Lease(s, k) => MayHold(s, k)
  BY DEF MayHold, SessionOf, Release
<1>2. Running
  BY <1>1 DEF Running
<1>. QED
  BY <1>2 DEF Next

\* So are its reports.
LEMMA ResultIsStore ==
  ASSUME NEW i \in Ids, NEW st \in {"queued", "running", "blocked", "complete", "cancelled", "failed"},
         NEW a, Result(i, st, a),
         \/ a = Unassessed
         \/ a \in Assessments /\ st = "complete" /\ Scheduled(db, i) /\ Kind[db.runs[i].task] = "goal"
  PROVE  Next
<1>1. Report(i)
  BY DEF Report
<1>. QED
  BY <1>1 DEF Running, Next

\* What a dispatch task does to the database.
LEMMA SlotIsStore ==
  ASSUME DInv, NEW k \in Slots, SlotStep(k)
  PROVE  [Next]_vars
<1>. DEFINE i == slot[k].run
            s == SessionOf(i)
<1>1. slot[k].pc # "idle" => i \in Ids /\ s \in Sessions
  BY DEF DInv, Fits, SlotFits, Issued
<1>2. UNCHANGED vars => [Next]_vars
  OBVIOUS
<1>3. CASE Reserve(k) \/ Plan(k)
  BY <1>2, <1>3 DEF Reserve, Plan, vars
<1>4. CASE TakeLease(k)
  <2>1. i \in Ids \cup Clients /\ s \in Sessions
    BY <1>1, <1>4 DEF TakeLease
  <2>2. Lease(s, i) \/ UNCHANGED <<db, now, removal, yields>>
    BY <1>4 DEF TakeLease
  <2>. QED
    BY <1>2, <2>1, <2>2, LeaseIsStore DEF vars
<1>5. CASE TakePrompt(k)
  <2>1. i \in Ids
    BY <1>1, <1>5 DEF TakePrompt
  <2>2. Consume(i) \/ UNCHANGED <<db, now, removal, yields>>
    BY <1>5 DEF TakePrompt
  <2>. QED
    BY <2>1, <2>2 DEF Next, Chat, vars
<1>6. CASE Abort(k)
  <2>1. i \in Ids \cup Clients /\ s \in Sessions
    BY <1>1, <1>6 DEF Abort
  <2>2. Release(s, i) \/ UNCHANGED <<db, now, removal, yields>>
    BY <1>6 DEF Abort
  <2>. QED
    BY <1>2, <2>1, <2>2, LeaseIsStore DEF vars
<1>7. CASE ReportRefusal(k)
  <2>1. i \in Ids /\ slot[k].answer \in {"queued", "failed"}
    BY <1>1, <1>7 DEF ReportRefusal, DInv, Fits, SlotFits
  <2>2. Result(i, slot[k].answer, Unassessed) \/ UNCHANGED <<db, now, removal, yields>>
    BY <1>7 DEF ReportRefusal
  <2>. QED
    BY <1>2, <2>1, <2>2, ResultIsStore DEF vars
<1>8. CASE ReportProgress(k)
  <2>. DEFINE st == IF reg[i].event # "none" THEN reg[i].event ELSE "running"
              asked == IF st = "complete" /\ Scheduled(db, i) /\ Kind[db.runs[i].task] = "goal"
                       THEN Assessments \cup {Unassessed} ELSE {Unassessed}
  <2>1. i \in Ids
    BY <1>1, <1>8 DEF ReportProgress
  <2>2. st \in {"running", "complete", "cancelled", "failed"}
    BY <2>1 DEF DInv, DispatchTypeOK, Events
  <2>3. (\E a \in asked : Result(i, st, a)) \/ UNCHANGED <<db, now, removal, yields>>
    BY <1>8 DEF ReportProgress
  <2>. HIDE DEF st
  <2>. QED
    BY <1>2, <2>1, <2>2, <2>3, ResultIsStore DEF vars
<1>. QED
  BY <1>3, <1>4, <1>5, <1>6, <1>7, <1>8 DEF SlotStep

\* Every step of the daemon, the foreground runs, the users and the clock is a
\* step of the store or leaves it alone.
LEMMA DispatchIsStore ==
  ASSUME DInv, [DispatchNext]_dvars
  PROVE  [Next]_vars
<1>1. UNCHANGED <<db, now, removal, yields>> => [Next]_vars
  BY DEF vars
<1>2. ASSUME NEW h \in Hosts, Dispatch(h) PROVE Next
  BY <1>2 DEF Dispatch, Running, Next
<1>3. ASSUME NEW k \in Slots, SlotStep(k) PROVE [Next]_vars
  BY <1>3, SlotIsStore
<1>4. ASSUME NEW i \in Ids, Renew(i) \/ BodyEnds(i) \/ BodyReleases(i) \/ Reap(i)
      PROVE  [Next]_vars
  <2>. DEFINE s == SessionOf(i)
  <2>1. reg[i].control \/ reg[i].state = "ended" => i \in Ids \cup Clients /\ s \in Sessions
    BY DEF DInv, Fits, EntryFits, Issued
  <2>2. \/ Renew(i) /\ Lease(s, i)
        \/ BodyReleases(i) /\ Release(s, i)
        \/ UNCHANGED <<db, now, removal, yields>>
    BY <1>4 DEF Renew, BodyEnds, BodyReleases, Reap
  <2>3. (Renew(i) => reg[i].control) /\ (BodyReleases(i) => reg[i].state = "ended")
    BY DEF Renew, BodyReleases
  <2>. QED
    BY <1>1, <2>1, <2>2, <2>3, LeaseIsStore
<1>5. ASSUME NEW c \in Clients,
             \/ \E s \in Sessions : FgReserve(c, s)
             \/ FgStart(c) \/ FgRenew(c) \/ FgEnds(c) \/ FgReleases(c)
      PROVE  [Next]_vars
  <2>. DEFINE s == fg[c].session
  <2>1. fg[c].pc # "idle" => s \in Sessions
    BY DEF DInv, Fits, FgFits
  <2>2. \/ fg[c].pc # "idle" /\ (Lease(s, c) \/ Release(s, c))
        \/ UNCHANGED <<db, now, removal, yields>>
    BY <1>5 DEF FgReserve, FgStart, FgRenew, FgEnds, FgReleases
  <2>3. c \in Ids \cup Clients
    OBVIOUS
  <2>. QED
    BY <1>1, <2>1, <2>2, <2>3, LeaseIsStore
<1>6. CASE Users \/ Crash \/ DispatchTick
  BY <1>1, <1>6 DEF Users, Crash, DispatchTick, Upkeep, Running, Next
<1>7. CASE UNCHANGED dvars
  BY <1>1, <1>7 DEF dvars
<1>. QED
  BY <1>2, <1>3, <1>4, <1>5, <1>6, <1>7 DEF DispatchNext, Serve, Foreground

-----------------------------------------------------------------------------
(* The rows of the daemon's memory. *)

SlotRows == [pc : {"idle", "start", "plan", "lease", "consume", "abort", "report", "watch"},
             run : Ids \cup {0}, answer : {"none", "queued", "failed"}]
Entries == [state : {"absent", "reserved", "running", "ended", "finished"},
            event : Events \cup {"none"}, control : BOOLEAN, cancel : BOOLEAN, begun : Nat]
FgRows == [pc : {"idle", "reserved", "running", "replying", "ended"}, session : Sessions \cup {NoSession}]

\* A slot, an entry or a foreground run is written in place.
LEMMA Typed ==
  ASSUME DispatchTypeOK
  PROVE  /\ \A k \in Slots : slot[k] \in SlotRows
         /\ \A i \in Ids : reg[i] \in Entries
         /\ \A c \in Clients : fg[c] \in FgRows
BY DEF DispatchTypeOK, SlotRows, Entries, FgRows

\* Goto and GiveUp write one slot.
LEMMA GotoWrites ==
  ASSUME DispatchTypeOK, NEW k \in Slots,
         NEW pc \in {"plan", "lease", "consume", "report", "watch"}, Goto(k, pc)
  PROVE  /\ slot' \in [Slots -> SlotRows]
         /\ slot'[k].pc = pc /\ slot'[k].run = slot[k].run /\ slot'[k].answer = slot[k].answer
         /\ \A l \in Slots : l # k => slot'[l] = slot[l]
<1>1. slot \in [Slots -> SlotRows]
  BY DEF DispatchTypeOK, SlotRows
<1>2. slot' = [slot EXCEPT ![k] = [slot[k] EXCEPT !.pc = pc]]
  BY <1>1 DEF Goto
<1>3. [slot[k] EXCEPT !.pc = pc] \in SlotRows
  BY <1>1 DEF SlotRows
<1>. QED
  BY <1>1, <1>2, <1>3 DEF SlotRows

LEMMA RowWrites ==
  ASSUME DispatchTypeOK, NEW k \in Slots, NEW pc \in {"abort", "report"}, NEW a \in {"queued", "failed"},
         slot' = [slot EXCEPT ![k].pc = pc, ![k].answer = a]
  PROVE  /\ slot' \in [Slots -> SlotRows]
         /\ slot'[k].pc = pc /\ slot'[k].run = slot[k].run /\ slot'[k].answer = a
         /\ \A l \in Slots : l # k => slot'[l] = slot[l]
<1>. DEFINE row == [slot[k] EXCEPT !.pc = pc, !.answer = a]
<1>1. slot \in [Slots -> SlotRows] /\ slot[k] \in SlotRows
  BY DEF DispatchTypeOK, SlotRows
<1>2. row \in SlotRows
  BY <1>1 DEF SlotRows
<1>3. \A l \in Slots : slot'[l] = IF l = k THEN row ELSE slot[l]
  BY <1>1 DEF SlotRows
<1>4. slot' \in [Slots -> SlotRows]
  <2>1. slot' = [l \in Slots |-> slot'[l]]
    BY <1>1
  <2>. HIDE DEF row
  <2>. QED
    BY <1>1, <1>2, <1>3, <2>1
<1>. QED
  BY <1>1, <1>3, <1>4 DEF SlotRows

\* An entry of the registry gets other fields.
LEMMA EntryEnds ==
  ASSUME DispatchTypeOK, NEW i \in Ids, NEW st \in {"finished", "ended"}, NEW ev \in Events,
         reg' = [reg EXCEPT ![i].state = st, ![i].event = ev]
  PROVE  /\ reg' \in [Ids -> Entries]
         /\ reg'[i].state = st /\ reg'[i].event = ev
         /\ reg'[i].control = reg[i].control /\ reg'[i].begun = reg[i].begun
         /\ \A j \in Ids : j # i => reg'[j] = reg[j]
<1>. DEFINE e == [reg[i] EXCEPT !.state = st, !.event = ev]
<1>1. reg \in [Ids -> Entries] /\ reg[i] \in Entries
  BY DEF DispatchTypeOK, Entries
<1>2. e \in Entries
  BY <1>1 DEF Entries
<1>3. \A j \in Ids : reg'[j] = IF j = i THEN e ELSE reg[j]
  BY <1>1 DEF Entries
<1>4. reg' = [j \in Ids |-> reg'[j]]
  BY <1>1
<1>5. e.state = st /\ e.event = ev /\ e.control = reg[i].control /\ e.begun = reg[i].begun
  BY <1>1 DEF Entries
<1>. HIDE DEF e
<1>. QED
  BY <1>1, <1>2, <1>3, <1>4, <1>5

LEMMA EntryStarts ==
  ASSUME DispatchTypeOK, NEW i \in Ids,
         reg' = [reg EXCEPT ![i].state = "running", ![i].control = TRUE, ![i].begun = @ + 1]
  PROVE  /\ reg' \in [Ids -> Entries]
         /\ reg'[i].state = "running" /\ reg'[i].event = reg[i].event
         /\ reg'[i].begun = reg[i].begun + 1
         /\ \A j \in Ids : j # i => reg'[j] = reg[j]
<1>. DEFINE e == [reg[i] EXCEPT !.state = "running", !.control = TRUE, !.begun = @ + 1]
<1>1. reg \in [Ids -> Entries] /\ reg[i] \in Entries
  BY DEF DispatchTypeOK, Entries
<1>2. e \in Entries
  <2>1. reg[i].begun + 1 \in Nat
    BY <1>1 DEF Entries
  <2>. QED
    BY <1>1, <2>1 DEF Entries
<1>3. \A j \in Ids : reg'[j] = IF j = i THEN e ELSE reg[j]
  BY <1>1 DEF Entries
<1>4. reg' = [j \in Ids |-> reg'[j]]
  BY <1>1
<1>5. e.state = "running" /\ e.event = reg[i].event /\ e.begun = reg[i].begun + 1
  BY <1>1 DEF Entries
<1>. HIDE DEF e
<1>. QED
  BY <1>1, <1>2, <1>3, <1>4, <1>5

-----------------------------------------------------------------------------
(* Dispatching: every run that is taken has a free slot of its own. *)

\* Naturals of a finite set are numbered by how many members are smaller.
LEMMA Ranks ==
  ASSUME NEW F \in SUBSET Nat, IsFiniteSet(F), NEW r \in Nat, r < Cardinality(F)
  PROVE  \E k \in F : Cardinality({j \in F : j < k}) = r
<1>. DEFINE rank == [k \in F |-> Cardinality({j \in F : j < k})]
            n == Cardinality(F)
            T == (0..(n - 1)) \ {r}
<1>1. n \in Nat
  BY FS_CardinalityType
<1>2. \A k \in F : IsFiniteSet({j \in F : j < k}) /\ rank[k] \in Nat /\ rank[k] < n
  <2>. SUFFICES ASSUME NEW k \in F
                PROVE  LET S == {j \in F : j < k}
                       IN  IsFiniteSet(S) /\ Cardinality(S) \in Nat /\ Cardinality(S) < n
    OBVIOUS
  <2>. DEFINE S == {j \in F : j < k}
  <2>1. S \in SUBSET F /\ S # F
    OBVIOUS
  <2>. HIDE DEF S
  <2>2. /\ IsFiniteSet(S) /\ Cardinality(S) \in Nat
        /\ Cardinality(S) <= n /\ Cardinality(S) # n
    BY <2>1, FS_Subset, FS_CardinalityType
  <2>. QED
    BY <1>1, <2>2 DEF S
<1>3. ASSUME NEW k \in F, NEW l \in F, k < l
      PROVE  rank[k] < rank[l]
  <2>. DEFINE S == {j \in F : j < k}
              U == {j \in F : j < l}
  <2>1. S \in SUBSET U /\ S # U /\ IsFiniteSet(U)
    <3>1. k \in Int /\ l \in Int /\ \A j \in F : j \in Int
      OBVIOUS
    <3>2. k \in U /\ k \notin S
      BY <1>3, <3>1
    <3>3. \A j \in F : j < k => j < l
      BY <1>3, <3>1
    <3>4. S \in SUBSET U
      BY <3>3
    <3>. QED
      BY <1>2, <3>2, <3>4
  <2>2. rank[k] = Cardinality(S) /\ rank[l] = Cardinality(U)
    OBVIOUS
  <2>. HIDE DEF S, U, rank
  <2>3. /\ Cardinality(S) \in Nat /\ Cardinality(U) \in Nat
        /\ Cardinality(S) <= Cardinality(U) /\ Cardinality(S) # Cardinality(U)
    BY <2>1, FS_Subset, FS_CardinalityType
  <2>. QED
    BY <2>2, <2>3
<1>4. SUFFICES ASSUME \A k \in F : rank[k] # r PROVE FALSE
  OBVIOUS
<1>5. IsFiniteSet(T) /\ Cardinality(T) = n - 1
  <2>1. IsFiniteSet(0..(n - 1)) /\ Cardinality(0..(n - 1)) = n
    <3>. HIDE DEF n
    <3>1. 0 \in Int /\ n - 1 \in Int
      BY <1>1
    <3>2. /\ IsFiniteSet(0..(n - 1))
          /\ Cardinality(0..(n - 1)) = IF 0 > n - 1 THEN 0 ELSE (n - 1) - 0 + 1
      BY <3>1, FS_Interval
    <3>. QED
      BY <1>1, <3>2
  <2>2. r \in 0..(n - 1)
    BY <1>1
  <2>. HIDE DEF n
  <2>3. ASSUME NEW S, S = 0..(n - 1)
        PROVE  IsFiniteSet(S \ {r}) /\ Cardinality(S \ {r}) = n - 1
    <3>1. IsFiniteSet(S) /\ r \in S /\ Cardinality(S) = n
      BY <2>1, <2>2, <2>3
    <3>. QED
      BY <3>1, FS_RemoveElement
  <2>. QED
    BY <2>3
<1>6. rank \in [F -> T]
  <2>1. \A k \in F : rank[k] \in T
    BY <1>1, <1>2, <1>4
  <2>. QED
    BY <2>1
<1>7. \E k, l \in F : k # l /\ rank[k] = rank[l]
  <2>. HIDE DEF T, rank
  <2>1. Cardinality(T) < Cardinality(F)
    BY <1>1, <1>5
  <2>. QED
    BY <1>5, <1>6, <2>1, FS_PigeonHole
<1>. HIDE DEF rank, T, n
<1>8. PICK k \in F, l \in F : k # l /\ rank[k] = rank[l]
  BY <1>7
<1>9. k < l \/ l < k
  <2>1. k \in Int /\ l \in Int
    OBVIOUS
  <2>. QED
    BY <1>8, <2>1
<1>10. rank[k] \in Nat /\ rank[l] \in Nat
  BY <1>2, Zenon
<1>. QED
  BY <1>3, <1>8, <1>9, <1>10

\* A dispatch overwrites no slot in use; a slot it fills starts a run that was
\* delivered, and no two slots start the same one.
LEMMA DispatchPlaces ==
  ASSUME DInv, NEW h \in Hosts, Dispatch(h)
  PROVE  /\ slot' \in [Slots -> SlotRows]
         /\ \A k \in Slots :
              \/ slot'[k] = slot[k]
              \/ /\ slot[k].pc = "idle" /\ slot'[k].pc = "start" /\ slot'[k].run \in Delivered
                 /\ \A l \in Slots : l # k /\ slot'[l].run = slot'[k].run => slot'[l] = slot[l]
<1>. DEFINE F == FreeSlots
            rank(k) == Cardinality({j \in F : j < k})
            pos(i) == Cardinality({j \in Delivered : j < i})
            Place(i) == CHOOSE k \in F : rank(k) = pos(i)
            Taken == {i \in Delivered : pos(i) < Cardinality(F)}
<1>1. F \in SUBSET Nat /\ IsFiniteSet(F) /\ F \subseteq Slots
  BY DispatchAssumption, FS_Subset DEF FreeSlots
<1>2. \A i \in Ids : pos(i) \in Nat
  <2>1. IsFiniteSet(Ids)
    BY TimesAssumption, FS_Interval DEF Ids
  <2>2. \A i \in Ids : {j \in Delivered : j < i} \in SUBSET Ids
    BY DEF Delivered
  <2>. QED
    BY <2>1, <2>2, FS_Subset, FS_CardinalityType
<1>3. \A i \in Taken : i \in Delivered /\ Place(i) \in F
  <2>. SUFFICES ASSUME NEW i \in Taken PROVE Place(i) \in F
    OBVIOUS
  <2>1. pos(i) \in Nat /\ pos(i) < Cardinality(F)
    BY <1>2 DEF Delivered
  <2>. HIDE DEF pos, F
  <2>2. \E k \in F : rank(k) = pos(i)
    BY <1>1, <2>1, Ranks
  <2>. QED
    BY <2>2
<1>4. \/ UNCHANGED slot
      \/ slot' = [k \in Slots |->
                    IF \E i \in Taken : Place(i) = k
                    THEN [pc |-> "start", run |-> CHOOSE i \in Taken : Place(i) = k, answer |-> "none"]
                    ELSE slot[k]]
  BY DEF Dispatch
<1>. HIDE DEF Place, Taken
<1>5. slot \in [Slots -> SlotRows]
  BY DEF DInv, DispatchTypeOK, SlotRows
<1>6. ASSUME slot' = [k \in Slots |->
                    IF \E i \in Taken : Place(i) = k
                    THEN [pc |-> "start", run |-> CHOOSE i \in Taken : Place(i) = k, answer |-> "none"]
                    ELSE slot[k]]
      PROVE  /\ slot' \in [Slots -> SlotRows]
             /\ \A k \in Slots :
                  \/ slot'[k] = slot[k]
                  \/ /\ slot[k].pc = "idle" /\ slot'[k].pc = "start" /\ slot'[k].run \in Delivered
                     /\ \A l \in Slots : l # k /\ slot'[l].run = slot'[k].run => slot'[l] = slot[l]
  <2>1. ASSUME NEW k \in Slots, \E i \in Taken : Place(i) = k
        PROVE  /\ slot'[k] \in SlotRows /\ slot'[k].pc = "start"
               /\ slot'[k].run \in Taken /\ Place(slot'[k].run) = k
               /\ slot[k].pc = "idle"
    <3>. DEFINE x == CHOOSE i \in Taken : Place(i) = k
    <3>1. x \in Taken /\ Place(x) = k
      BY <2>1
    <3>2. slot'[k] = [pc |-> "start", run |-> x, answer |-> "none"]
      BY <1>6, <2>1
    <3>. HIDE DEF x
    <3>3. k \in F /\ x \in Ids
      BY <1>3, <3>1 DEF Delivered
    <3>. QED
      BY <3>1, <3>2, <3>3 DEF FreeSlots, SlotRows
  <2>2. \A k \in Slots : ~ (\E i \in Taken : Place(i) = k) => slot'[k] = slot[k]
    BY <1>6
  <2>3. slot' \in [Slots -> SlotRows]
    <3>1. \A k \in Slots : slot'[k] \in SlotRows
      BY <2>1, <2>2, Typed DEF DInv
    <3>2. slot' = [k \in Slots |-> slot'[k]]
      BY <1>6
    <3>. QED
      BY <3>1, <3>2
  <2>. QED
    BY <1>3, <2>1, <2>2, <2>3
<1>. QED
  BY <1>4, <1>5, <1>6

-----------------------------------------------------------------------------
(* The types. *)

\* The dispatch tasks and the registry keep their types.
LEMMA SlotTypes ==
  ASSUME DInv, NEW k \in Slots, SlotStep(k)
  PROVE  /\ slot' \in [Slots -> SlotRows] /\ reg' \in [Ids -> Entries]
         /\ UNCHANGED <<fg, crashes>>
<1>. DEFINE i == slot[k].run
<1>1. /\ slot \in [Slots -> SlotRows] /\ reg \in [Ids -> Entries] /\ DispatchTypeOK
      /\ slot[k].pc # "idle" => i \in Ids
  BY DEF DInv, DispatchTypeOK, SlotRows, Entries, Fits, SlotFits, Issued
<1>2. slot[k] \in SlotRows /\ (i \in Ids => reg[i] \in Entries)
  BY <1>1
<1>3. CASE Reserve(k)
  <2>1. i \in Ids
    BY <1>1, <1>3 DEF Reserve
  <2>2. [Absent EXCEPT !.state = "reserved", !.begun = reg[i].begun] \in Entries
    BY <1>2, <2>1 DEF Absent, Entries
  <2>3. slot' \in [Slots -> SlotRows]
    BY <1>1, <1>3, GotoWrites, RowWrites DEF Reserve
  <2>. QED
    BY <1>1, <1>3, <2>1, <2>2, <2>3 DEF Reserve
<1>4. CASE Plan(k)
  <2>1. i \in Ids
    BY <1>1, <1>4 DEF Plan
  <2>2. slot' \in [Slots -> SlotRows]
    BY <1>1, <1>4, GotoWrites, RowWrites DEF Plan, GiveUp
  <2>3. reg' = reg \/ reg' = [reg EXCEPT ![i].state = "finished", ![i].event = "cancelled"]
    BY <1>4 DEF Plan
  <2>4. reg' \in [Ids -> Entries]
    BY <1>1, <2>1, <2>3, EntryEnds DEF Events
  <2>. QED
    BY <1>4, <2>2, <2>4 DEF Plan
<1>5. CASE TakeLease(k)
  BY <1>1, <1>5, GotoWrites, RowWrites DEF TakeLease, GiveUp
<1>6. CASE TakePrompt(k)
  <2>1. i \in Ids
    BY <1>1, <1>6 DEF TakePrompt
  <2>2. slot' \in [Slots -> SlotRows]
    BY <1>1, <1>6, GotoWrites, RowWrites DEF TakePrompt, GiveUp
  <2>3. \/ reg' = reg
        \/ reg' = [reg EXCEPT ![i].state = "running", ![i].control = TRUE, ![i].begun = @ + 1]
    BY <1>6 DEF TakePrompt
  <2>4. reg' \in [Ids -> Entries]
    BY <1>1, <2>1, <2>3, EntryStarts
  <2>. QED
    BY <1>6, <2>2, <2>4 DEF TakePrompt
<1>7. CASE Abort(k)
  <2>1. i \in Ids
    BY <1>1, <1>7 DEF Abort
  <2>2. [Absent EXCEPT !.begun = reg[i].begun] \in Entries
    BY <1>2, <2>1 DEF Absent, Entries
  <2>3. slot' \in [Slots -> SlotRows]
    BY <1>1, <1>7, GotoWrites DEF Abort
  <2>. QED
    BY <1>1, <1>7, <2>1, <2>2, <2>3 DEF Abort
<1>8. CASE ReportRefusal(k) \/ ReportProgress(k)
  <2>1. Idle \in SlotRows
    BY DEF Idle, SlotRows
  <2>2. /\ UNCHANGED <<reg, fg, crashes>>
        /\ slot' = slot \/ slot' = [slot EXCEPT ![k] = Idle]
    BY <1>8 DEF ReportRefusal, ReportProgress
  <2>. QED
    BY <1>1, <2>1, <2>2
<1>. QED
  BY <1>3, <1>4, <1>5, <1>6, <1>7, <1>8 DEF SlotStep

\* So do the runs at work, and the foreground runs.
LEMMA OtherTypes ==
  ASSUME DInv, DispatchNext, ~ \E k \in Slots : SlotStep(k)
  PROVE  /\ slot' \in [Slots -> SlotRows] /\ reg' \in [Ids -> Entries]
         /\ fg' \in [Clients -> FgRows] /\ crashes' \in 0..Crashes
<1>1. /\ slot \in [Slots -> SlotRows] /\ reg \in [Ids -> Entries]
      /\ fg \in [Clients -> FgRows] /\ crashes \in 0..Crashes
  BY DEF DInv, DispatchTypeOK, SlotRows, Entries, FgRows
<1>2. ASSUME NEW h \in Hosts, Dispatch(h)
      PROVE  slot' \in [Slots -> SlotRows] /\ UNCHANGED <<reg, fg, crashes>>
  BY <1>1, <1>2, DispatchPlaces DEF Dispatch
<1>3. ASSUME NEW i \in Ids, Renew(i) \/ BodyEnds(i) \/ BodyReleases(i) \/ Reap(i)
      PROVE  reg' \in [Ids -> Entries] /\ UNCHANGED <<slot, fg, crashes>>
  <2>1. reg[i] \in Entries
    BY <1>1
  <2>2. /\ [reg[i] EXCEPT !.cancel = TRUE] \in Entries
        /\ [reg[i] EXCEPT !.control = FALSE, !.cancel = TRUE] \in Entries
        /\ [reg[i] EXCEPT !.state = "finished", !.control = FALSE] \in Entries
        /\ [Absent EXCEPT !.begun = reg[i].begun] \in Entries
        /\ \A ev \in Events : [reg[i] EXCEPT !.state = "ended", !.event = ev] \in Entries
    BY <2>1 DEF Entries, Absent
  <2>3. \A ev \in (IF reg[i].cancel THEN {"cancelled"} ELSE Events) : ev \in Events
    BY DEF Events
  <2>4. CASE Renew(i)
    BY <1>1, <2>2, <2>4 DEF Renew
  <2>5. CASE BodyEnds(i)
    <3>1. PICK ev \in Events : reg' = [reg EXCEPT ![i].state = "ended", ![i].event = ev]
      BY <2>3, <2>5 DEF BodyEnds
    <3>2. reg' = [reg EXCEPT ![i] = [reg[i] EXCEPT !.state = "ended", !.event = ev]]
      BY <3>1
    <3>. QED
      BY <1>1, <2>2, <2>5, <3>2 DEF BodyEnds
  <2>6. CASE BodyReleases(i) \/ Reap(i)
    BY <1>1, <2>2, <2>6 DEF BodyReleases, Reap
  <2>. QED
    BY <1>3, <2>4, <2>5, <2>6
<1>4. ASSUME NEW c \in Clients,
             \/ \E s \in Sessions : FgReserve(c, s)
             \/ FgStart(c) \/ FgRenew(c) \/ FgEnds(c) \/ FgReleases(c)
      PROVE  fg' \in [Clients -> FgRows] /\ UNCHANGED <<slot, reg, crashes>>
  <2>1. /\ \A pc \in {"running", "replying", "ended"} : [fg[c] EXCEPT !.pc = pc] \in FgRows
        /\ NoFg \in FgRows
        /\ \A s \in Sessions : [pc |-> "reserved", session |-> s] \in FgRows
    BY <1>1 DEF FgRows, NoFg
  <2>2. CASE \E s \in Sessions : FgReserve(c, s)
    BY <1>1, <2>1, <2>2 DEF FgReserve
  <2>3. CASE FgStart(c) \/ FgRenew(c) \/ FgEnds(c) \/ FgReleases(c)
    BY <1>1, <2>1, <2>3 DEF FgStart, FgRenew, FgEnds, FgReleases
  <2>. QED
    BY <1>4, <2>2, <2>3
<1>5. CASE Crash
  <2>1. Idle \in SlotRows /\ NoFg \in FgRows
    BY DEF Idle, SlotRows, NoFg, FgRows
  <2>2. \A i \in Ids : [Absent EXCEPT !.begun = reg[i].begun] \in Entries
    BY <1>1 DEF Absent, Entries
  <2>3. crashes' \in 0..Crashes
    BY <1>1, <1>5, DispatchAssumption DEF Crash
  <2>. QED
    BY <1>1, <1>5, <2>1, <2>2, <2>3 DEF Crash
<1>6. CASE Users \/ DispatchTick
  BY <1>1, <1>6 DEF Users, DispatchTick
<1>. QED
  BY <1>1, <1>2, <1>3, <1>4, <1>5, <1>6 DEF DispatchNext, Serve, Foreground

-----------------------------------------------------------------------------
(* Slots, entries and foreground runs fit together. *)

\* A run that was given out stays given out.
LEMMA IssuedOn ==
  ASSUME Advances, NEW i, Issued(i)
  PROVE  Issued(i)' /\ SessionOf(i)' = SessionOf(i)
BY DEF Advances, Issued, SessionOf

\* A step of the store alone.
LEMMA StoreFits ==
  ASSUME DInv, Advances, UNCHANGED <<slot, reg, fg>>, db' \in Database
  PROVE  Fits'
<1>1. SlotFits'
  BY IssuedOn DEF DInv, Fits, SlotFits
<1>2. OneStarter'
  BY DEF DInv, Fits, OneStarter
<1>3. EntryFits'
  <2>. SUFFICES ASSUME NEW i \in Ids
                PROVE  /\ reg[i].state # "absent" => Issued(i)'
                       /\ reg[i].control => reg[i].state \in {"running", "ended"}
                       /\ reg[i].event = "none" <=> reg[i].state \in {"absent", "reserved", "running"}
                       /\ reg[i].begun <= db'.sent[i]
                       /\ reg[i].state = "running" => reg[i].begun > 0
    BY DEF EntryFits
  <2>1. reg[i].begun \in Nat /\ db.sent[i] \in Nat /\ db'.sent[i] \in Nat
    BY Typed DEF DInv, IInv, TypeOK, Database, Entries
  <2>. QED
    BY <2>1, IssuedOn DEF DInv, Fits, EntryFits, Advances
<1>4. FgFits'
  BY DEF DInv, Fits, FgFits
<1>. QED
  BY <1>1, <1>2, <1>3, <1>4 DEF Fits

\* What holds of an entry on its own.
EntryRight(e, sent) ==
  /\ e.control => e.state \in {"running", "ended"}
  /\ e.event = "none" <=> e.state \in {"absent", "reserved", "running"}
  /\ e.begun <= sent
  /\ e.state = "running" => e.begun > 0

\* A dispatch task writes its own slot, and at most the entry of its own run.
LEMMA SlotWriteFits ==
  ASSUME DInv, Advances, db' \in Database, UNCHANGED fg, NEW k \in Slots, slot[k].pc # "idle",
         NEW i, i = slot[k].run,
         \A l \in Slots : l # k => slot'[l] = slot[l],
         slot'[k].pc = "idle" \/ slot'[k].run = i,
         slot'[k].pc \in Starting =>
           reg'[i].state = "reserved" /\ (slot[k].pc \in Starting \/ reg[i].state = "absent"),
         slot'[k].pc = "watch" => reg'[i].state \in {"running", "ended", "finished"},
         slot'[k].pc \in {"abort", "report"} => slot'[k].answer \in {"queued", "failed"},
         \A j \in Ids : j # i => reg'[j] = reg[j],
         reg'[i] = reg[i] \/ slot[k].pc \in Starting \/ reg[i].state = "absent",
         reg'[i] = reg[i] \/ EntryRight(reg'[i], db'.sent[i])
  PROVE  Fits'
<1>1. i \in Ids /\ Issued(i) /\ Issued(i)'
  <2>1. Issued(i)
    BY DEF DInv, Fits, SlotFits
  <2>. QED
    BY <2>1, IssuedOn DEF Issued
<1>2. SlotFits'
  <2>. SUFFICES ASSUME NEW l \in Slots
                PROVE  /\ slot'[l].pc # "idle" => Issued(slot[l].run)'
                       /\ slot'[l].pc \in Starting => reg'[slot'[l].run].state = "reserved"
                       /\ slot'[l].pc = "watch" =>
                            reg'[slot'[l].run].state \in {"running", "ended", "finished"}
                       /\ slot'[l].pc \in {"abort", "report"} => slot'[l].answer \in {"queued", "failed"}
    BY DEF SlotFits
  <2>1. CASE l = k
    BY <1>1, <2>1 DEF Starting
  <2>2. CASE l # k
    <3>1. slot'[l] = slot[l] /\ (slot[l].pc # "idle" => Issued(slot[l].run) /\ slot[l].run \in Ids)
      BY <2>2 DEF DInv, Fits, SlotFits, Issued
    <3>2. slot[l].pc # "idle" => Issued(slot[l].run)'
      BY <3>1, IssuedOn
    <3>3. CASE slot[l].run = i /\ reg'[i] # reg[i] /\ slot[l].pc \in Starting \cup {"watch"}
      BY <2>2, <3>3 DEF DInv, Fits, SlotFits, OneStarter
    <3>4. CASE slot[l].run # i \/ reg'[i] = reg[i] \/ slot[l].pc \notin Starting \cup {"watch"}
      BY <3>1, <3>2, <3>4 DEF DInv, Fits, SlotFits, Starting
    <3>. QED
      BY <3>3, <3>4
  <2>. QED
    BY <2>1, <2>2
<1>3. OneStarter'
  <2>1. \A l \in Slots : l # k /\ slot[l].pc \in Starting /\ slot'[k].pc \in Starting
                         => slot[l].run # i
    BY DEF DInv, Fits, SlotFits, OneStarter
  <2>. QED
    BY <2>1 DEF DInv, Fits, OneStarter, Starting
<1>4. EntryFits'
  <2>. SUFFICES ASSUME NEW j \in Ids
                PROVE  (reg'[j].state # "absent" => Issued(j)') /\ EntryRight(reg'[j], db'.sent[j])
    BY DEF EntryFits, EntryRight
  <2>1. CASE j = i /\ reg'[i] # reg[i]
    BY <1>1, <2>1
  <2>2. CASE j # i \/ reg'[i] = reg[i]
    <3>1. reg'[j] = reg[j]
      BY <2>2
    <3>2. reg[j].begun \in Nat /\ db.sent[j] \in Nat /\ db'.sent[j] \in Nat
      BY Typed DEF DInv, IInv, TypeOK, Database, Entries
    <3>3. /\ EntryRight(reg[j], db.sent[j]) /\ db.sent[j] <= db'.sent[j]
          /\ reg[j].state # "absent" => Issued(j)
      BY DEF DInv, Fits, EntryFits, EntryRight, Advances
    <3>4. EntryRight(reg[j], db'.sent[j])
      BY <3>2, <3>3 DEF EntryRight
    <3>. QED
      BY <3>1, <3>3, <3>4, IssuedOn
  <2>. QED
    BY <2>1, <2>2
<1>5. FgFits'
  BY DEF DInv, Fits, FgFits
<1>. QED
  BY <1>2, <1>3, <1>4, <1>5 DEF Fits

\* The steps of a dispatch task.
LEMMA SlotStepFits ==
  ASSUME DInv, NEW k \in Slots, SlotStep(k)
  PROVE  Fits'
<1>. DEFINE i == slot[k].run
<1>1. /\ DispatchTypeOK /\ UNCHANGED fg /\ slot[k].pc # "idle"
      /\ i \in Ids /\ reg[i] \in Entries
  <2>1. UNCHANGED fg /\ DispatchTypeOK
    BY SlotTypes DEF DInv
  <2>2. slot[k].pc # "idle"
    BY DEF SlotStep, Reserve, Plan, TakeLease, TakePrompt, Abort, ReportRefusal, ReportProgress
  <2>3. i \in Ids
    BY <2>2 DEF DInv, Fits, SlotFits, Issued
  <2>. QED
    BY <2>1, <2>2, <2>3, Typed
<1>2. Advances /\ db' \in Database
  <2>1. [Next]_vars /\ IInv
    BY SlotIsStore DEF DInv
  <2>. QED
    BY <2>1, Onward, StoreStep DEF IInv, TypeOK
<1>3. EntryRight(reg[i], db.sent[i]) /\ db.sent[i] <= db'.sent[i]
      /\ db.sent[i] \in Nat /\ db'.sent[i] \in Nat /\ reg[i].begun \in Nat
  BY <1>1, <1>2 DEF DInv, Fits, EntryFits, EntryRight, Advances, IInv, TypeOK, Database, Entries
<1>4. slot[k].pc \in Starting => reg[i].state = "reserved"
  BY DEF DInv, Fits, SlotFits
<1>5. CASE Reserve(k)
  <2>. DEFINE e == [Absent EXCEPT !.state = "reserved", !.begun = reg[i].begun]
  <2>1. CASE slot' = [slot EXCEPT ![k].pc = "report", ![k].answer = "queued"] /\ UNCHANGED reg
    <3>1. /\ \A l \in Slots : l # k => slot'[l] = slot[l]
          /\ slot'[k].run = i /\ slot'[k].pc = "report" /\ slot'[k].answer = "queued"
      BY <1>1, <2>1, RowWrites
    <3>. QED
      BY <1>1, <1>2, <2>1, <3>1, SlotWriteFits DEF Starting
  <2>2. CASE Goto(k, "plan") /\ reg' = [reg EXCEPT ![i] = e] /\ ~InRegistry(i)
    <3>1. /\ \A l \in Slots : l # k => slot'[l] = slot[l]
          /\ slot'[k].run = i /\ slot'[k].pc = "plan"
      BY <1>1, <2>2, GotoWrites
    <3>2. e \in Entries /\ e.state = "reserved" /\ e.event = "none" /\ e.control = FALSE
          /\ e.begun = reg[i].begun
      BY <1>1 DEF Absent, Entries
    <3>3. reg'[i] = e /\ \A j \in Ids : j # i => reg'[j] = reg[j]
      BY <1>1, <2>2 DEF DispatchTypeOK
    <3>4. EntryRight(e, db'.sent[i])
      BY <1>3, <3>2 DEF EntryRight
    <3>5. reg[i].state = "absent"
      BY <2>2 DEF InRegistry
    <3>. HIDE DEF e
    <3>. QED
      BY <1>1, <1>2, <3>1, <3>2, <3>3, <3>4, <3>5, SlotWriteFits DEF Starting
  <2>. QED
    BY <1>5, <2>1, <2>2 DEF Reserve
<1>6. CASE Plan(k)
  <2>0. slot[k].pc = "plan" /\ reg[i].state = "reserved"
    BY <1>4, <1>6 DEF Plan, Starting
  <2>1. CASE UNCHANGED reg /\ (Goto(k, "lease") \/ GiveUp(k, "failed"))
    <3>1. /\ \A l \in Slots : l # k => slot'[l] = slot[l]
          /\ slot'[k].run = i
          /\ slot'[k].pc = "lease" \/ (slot'[k].pc = "abort" /\ slot'[k].answer = "failed")
      BY <1>1, <2>1, GotoWrites, RowWrites DEF GiveUp
    <3>. QED
      BY <1>1, <1>2, <2>0, <2>1, <3>1, SlotWriteFits DEF Starting
  <2>2. CASE /\ Goto(k, "watch")
             /\ reg' = [reg EXCEPT ![i].state = "finished", ![i].event = "cancelled"]
    <3>1. /\ \A l \in Slots : l # k => slot'[l] = slot[l]
          /\ slot'[k].run = i /\ slot'[k].pc = "watch"
      BY <1>1, <2>2, GotoWrites
    <3>2. /\ reg'[i].state = "finished" /\ reg'[i].event = "cancelled"
          /\ reg'[i].control = reg[i].control /\ reg'[i].begun = reg[i].begun
          /\ \A j \in Ids : j # i => reg'[j] = reg[j]
      BY <1>1, <2>2, EntryEnds DEF Events
    <3>3. EntryRight(reg'[i], db'.sent[i])
      BY <1>3, <2>0, <3>2 DEF EntryRight
    <3>. QED
      BY <1>1, <1>2, <2>0, <3>1, <3>2, <3>3, SlotWriteFits DEF Starting
  <2>. QED
    BY <1>6, <2>1, <2>2 DEF Plan
<1>7. CASE TakeLease(k)
  <2>1. slot[k].pc = "lease" /\ reg[i].state = "reserved" /\ UNCHANGED reg
    BY <1>4, <1>7 DEF TakeLease, Starting
  <2>2. Goto(k, "consume") \/ GiveUp(k, "queued")
    BY <1>7 DEF TakeLease
  <2>3. /\ \A l \in Slots : l # k => slot'[l] = slot[l]
        /\ slot'[k].run = i
        /\ slot'[k].pc = "consume" \/ (slot'[k].pc = "abort" /\ slot'[k].answer = "queued")
    BY <1>1, <2>2, GotoWrites, RowWrites DEF GiveUp
  <2>. QED
    BY <1>1, <1>2, <2>1, <2>3, SlotWriteFits DEF Starting
<1>8. CASE TakePrompt(k)
  <2>0. slot[k].pc = "consume" /\ reg[i].state = "reserved"
    BY <1>4, <1>8 DEF TakePrompt, Starting
  <2>1. CASE UNCHANGED reg /\ GiveUp(k, "failed")
    <3>1. /\ \A l \in Slots : l # k => slot'[l] = slot[l]
          /\ slot'[k].run = i /\ slot'[k].pc = "abort" /\ slot'[k].answer = "failed"
      BY <1>1, <2>1, RowWrites DEF GiveUp
    <3>. QED
      BY <1>1, <1>2, <2>0, <2>1, <3>1, SlotWriteFits DEF Starting
  <2>2. CASE /\ Goto(k, "watch") /\ Consume(i)
             /\ reg' = [reg EXCEPT ![i].state = "running", ![i].control = TRUE, ![i].begun = @ + 1]
    <3>1. /\ \A l \in Slots : l # k => slot'[l] = slot[l]
          /\ slot'[k].run = i /\ slot'[k].pc = "watch"
      BY <1>1, <2>2, GotoWrites
    <3>2. /\ reg'[i].state = "running" /\ reg'[i].event = reg[i].event
          /\ reg'[i].begun = reg[i].begun + 1
          /\ \A j \in Ids : j # i => reg'[j] = reg[j]
      BY <1>1, <2>2, EntryStarts
    <3>3. db'.sent[i] = db.sent[i] + 1
      BY <1>1, <2>2, ConsumeMoves DEF DInv
    <3>4. EntryRight(reg'[i], db'.sent[i])
      BY <1>3, <2>0, <3>2, <3>3 DEF EntryRight
    <3>. QED
      BY <1>1, <1>2, <2>0, <3>1, <3>2, <3>4, SlotWriteFits DEF Starting
  <2>. QED
    BY <1>8, <2>1, <2>2 DEF TakePrompt
<1>9. CASE Abort(k)
  <2>. DEFINE e == [Absent EXCEPT !.begun = reg[i].begun]
  <2>1. /\ slot[k].pc = "abort" /\ reg[i].state = "reserved" /\ slot[k].answer \in {"queued", "failed"}
        /\ Goto(k, "report") /\ reg' = [reg EXCEPT ![i] = e]
    BY <1>4, <1>9 DEF Abort, Starting, DInv, Fits, SlotFits
  <2>2. /\ \A l \in Slots : l # k => slot'[l] = slot[l]
        /\ slot'[k].run = i /\ slot'[k].pc = "report" /\ slot'[k].answer = slot[k].answer
    BY <1>1, <2>1, GotoWrites
  <2>3. e.state = "absent" /\ e.event = "none" /\ e.control = FALSE /\ e.begun = reg[i].begun
    BY <1>1 DEF Absent, Entries
  <2>4. reg'[i] = e /\ \A j \in Ids : j # i => reg'[j] = reg[j]
    BY <1>1, <2>1 DEF DispatchTypeOK
  <2>5. EntryRight(e, db'.sent[i])
    BY <1>3, <2>3 DEF EntryRight
  <2>. HIDE DEF e
  <2>. QED
    BY <1>1, <1>2, <2>1, <2>2, <2>4, <2>5, SlotWriteFits DEF Starting
<1>10. CASE ReportRefusal(k) \/ ReportProgress(k)
  <2>1. /\ UNCHANGED reg
        /\ slot' = slot \/ slot' = [slot EXCEPT ![k] = Idle]
    BY <1>10 DEF ReportRefusal, ReportProgress
  <2>2. CASE slot' = slot
    BY <1>1, <1>2, <2>1, <2>2, StoreFits
  <2>3. CASE slot' = [slot EXCEPT ![k] = Idle]
    <3>1. slot'[k].pc = "idle" /\ \A l \in Slots : l # k => slot'[l] = slot[l]
      BY <1>1, <2>3 DEF DispatchTypeOK, Idle
    <3>. QED
      BY <1>1, <1>2, <2>1, <3>1, SlotWriteFits DEF Starting
  <2>. QED
    BY <2>1, <2>2, <2>3
<1>. QED
  BY <1>5, <1>6, <1>7, <1>8, <1>9, <1>10 DEF SlotStep

\* A poll gives out runs whose prompts are queued.
LEMMA DeliveredIssued ==
  ASSUME DInv, IInv', NEW h \in Hosts, Poll(h), NEW i \in Delivered
  PROVE  /\ i \in db'.queue /\ Issued(i)' /\ db'.runs[i].until = now + LeaseTime
         /\ \/ i > db.last \/ db.runs[i].status = "queued"
            \/ db.runs[i].status = "claimed" /\ db.runs[i].until < now
<1>1. /\ i \in Ids /\ db'.runs[i].status = "claimed"
      /\ ~(db.runs[i].status = "claimed" /\ db.runs[i].until >= now)
  BY DEF Delivered
<1>2. db.runs[i].until \in Nat /\ now \in Nat
  BY <1>1 DEF DInv, IInv, TypeOK, Database, Runs
<1>3. /\ i \in db'.queue /\ db'.runs[i].until = now + LeaseTime
      /\ \/ i > db.last \/ db.runs[i].status = "queued"
         \/ db.runs[i].status = "claimed" /\ db.runs[i].until < now
  <2>1. Polled(i)
    BY <1>1, PollMoves DEF DInv
  <2>. QED
    BY <1>1, <1>2, <2>1 DEF Polled
<1>4. i <= db'.last /\ db'.prompt[i].session \in Sessions
  <2>1. db' \in Database /\ (i > db'.last => i \notin db'.queue) /\ db'.prompt[i].session \in Sessions
    BY <1>1, <1>3 DEF IInv, Sound, Unused, Placed
  <2>2. i \in Int /\ db'.last \in Int
    BY <1>1, <2>1 DEF Ids, Database
  <2>. QED
    BY <1>3, <2>1, <2>2
<1>. QED
  BY <1>1, <1>3, <1>4 DEF Issued, SessionOf

\* New dispatch tasks.
LEMMA DispatchFits ==
  ASSUME DInv, NEW h \in Hosts, Dispatch(h), Advances, IInv'
  PROVE  Fits'
<1>1. Poll(h) /\ UNCHANGED <<reg, fg>>
  BY DEF Dispatch
<1>2. ASSUME NEW k \in Slots
      PROVE  \/ slot'[k] = slot[k]
             \/ slot'[k].pc = "start" /\ slot'[k].run \in Delivered
  BY DispatchPlaces
<1>3. SlotFits'
  <2>. SUFFICES ASSUME NEW k \in Slots
                PROVE  /\ slot'[k].pc # "idle" => Issued(slot[k].run)'
                       /\ slot'[k].pc \in Starting => reg[slot'[k].run].state = "reserved"
                       /\ slot'[k].pc = "watch" => reg[slot'[k].run].state \in {"running", "ended", "finished"}
                       /\ slot'[k].pc \in {"abort", "report"} => slot'[k].answer \in {"queued", "failed"}
    BY <1>1 DEF SlotFits
  <2>1. CASE slot'[k] = slot[k]
    <3>1. slot[k].pc # "idle" => Issued(slot[k].run)
      BY DEF DInv, Fits, SlotFits
    <3>2. ASSUME NEW i, Issued(i), i = slot'[k].run
          PROVE  Issued(slot[k].run)'
      BY <3>2, IssuedOn
    <3>. QED
      BY <2>1, <3>1, <3>2 DEF DInv, Fits, SlotFits
  <2>2. CASE slot'[k].pc = "start" /\ slot'[k].run \in Delivered
    <3>1. ASSUME NEW i \in Delivered, i = slot'[k].run
          PROVE  Issued(slot[k].run)'
      BY <1>1, <3>1, DeliveredIssued
    <3>. QED
      BY <2>2, <3>1 DEF Starting
  <2>. QED
    BY <1>2, <2>1, <2>2
<1>4. OneStarter'
  BY <1>2 DEF DInv, Fits, OneStarter, Starting
<1>5. EntryFits'
  <2>. SUFFICES ASSUME NEW i \in Ids
                PROVE  (reg[i].state # "absent" => Issued(i)') /\ EntryRight(reg[i], db'.sent[i])
    BY <1>1 DEF EntryFits, EntryRight
  <2>1. reg[i].begun \in Nat /\ db.sent[i] \in Nat /\ db'.sent[i] \in Nat
    BY Typed DEF DInv, IInv, TypeOK, Database, Entries
  <2>. QED
    BY <2>1, IssuedOn DEF DInv, Fits, EntryFits, EntryRight, Advances
<1>6. FgFits'
  BY <1>1 DEF DInv, Fits, FgFits
<1>. QED
  BY <1>3, <1>4, <1>5, <1>6 DEF Fits

\* A run at work, or its end, writes its own entry.
LEMMA EntryWriteFits ==
  ASSUME DInv, Advances, db' \in Database, UNCHANGED <<slot, fg>>, NEW i \in Ids,
         reg[i].state \notin {"absent", "reserved"},
         \A j \in Ids : j # i => reg'[j] = reg[j],
         \/ reg'[i].state \in {"running", "ended", "finished"}
         \/ \A k \in Slots : slot[k].run # i,
         EntryRight(reg'[i], db.sent[i]), reg'[i].begun \in Nat
  PROVE  Fits'
<1>1. Issued(i) /\ Issued(i)'
  <2>1. Issued(i)
    BY DEF DInv, Fits, EntryFits
  <2>. QED
    BY <2>1, IssuedOn
<1>2. SlotFits'
  BY IssuedOn DEF DInv, Fits, SlotFits, Starting, Issued
<1>3. OneStarter'
  BY DEF DInv, Fits, OneStarter
<1>4. EntryFits'
  <2>. SUFFICES ASSUME NEW j \in Ids
                PROVE  (reg'[j].state # "absent" => Issued(j)') /\ EntryRight(reg'[j], db'.sent[j])
    BY DEF EntryFits, EntryRight
  <2>1. reg[j].begun \in Nat /\ db.sent[j] \in Nat /\ db'.sent[j] \in Nat /\ db.sent[j] <= db'.sent[j]
    BY Typed DEF DInv, IInv, TypeOK, Database, Entries, Advances
  <2>2. EntryRight(reg'[j], db.sent[j]) /\ reg'[j].begun \in Nat
    BY <2>1 DEF DInv, Fits, EntryFits, EntryRight
  <2>3. EntryRight(reg'[j], db'.sent[j])
    BY <2>1, <2>2 DEF EntryRight
  <2>4. reg'[j].state # "absent" => Issued(j)'
    BY <1>1, IssuedOn DEF DInv, Fits, EntryFits
  <2>. QED
    BY <2>3, <2>4
<1>5. FgFits'
  BY DEF DInv, Fits, FgFits
<1>. QED
  BY <1>2, <1>3, <1>4, <1>5 DEF Fits

\* The body, its control loop and the reaper.
LEMMA BodyFits ==
  ASSUME DInv, Advances, db' \in Database, NEW i \in Ids,
         Renew(i) \/ BodyEnds(i) \/ BodyReleases(i) \/ Reap(i)
  PROVE  Fits'
<1>1. /\ reg \in [Ids -> Entries] /\ reg[i] \in Entries /\ UNCHANGED <<slot, fg>>
      /\ EntryRight(reg[i], db.sent[i]) /\ reg[i].begun \in Nat /\ DispatchTypeOK
  BY Typed DEF DInv, DispatchTypeOK, Entries, Fits, EntryFits, EntryRight,
               Renew, BodyEnds, BodyReleases, Reap
<1>2. CASE Renew(i)
  <2>1. reg[i].control /\ reg[i].state \in {"running", "ended"}
    BY <1>1, <1>2 DEF Renew, EntryRight
  <2>2. PICK e : /\ \/ e = reg[i] \/ e = [reg[i] EXCEPT !.cancel = TRUE]
                    \/ e = [reg[i] EXCEPT !.control = FALSE, !.cancel = TRUE]
                 /\ reg'[i] = e /\ \A j \in Ids : j # i => reg'[j] = reg[j]
    BY <1>1, <1>2 DEF Renew
  <2>3. /\ e.state = reg[i].state /\ e.begun = reg[i].begun /\ e.event = reg[i].event
        /\ e.control => reg[i].control
    <3>1. CASE e = reg[i]
      BY <3>1
    <3>2. CASE e = [reg[i] EXCEPT !.cancel = TRUE]
      BY <1>1, <3>2 DEF Entries
    <3>3. CASE e = [reg[i] EXCEPT !.control = FALSE, !.cancel = TRUE]
      BY <1>1, <3>3 DEF Entries
    <3>. QED
      BY <2>2, <3>1, <3>2, <3>3
  <2>4. EntryRight(e, db.sent[i]) /\ e.begun \in Nat
    BY <1>1, <2>3 DEF EntryRight
  <2>. HIDE DEF EntryRight
  <2>. QED
    BY <1>1, <2>1, <2>2, <2>3, <2>4, EntryWriteFits
<1>3. CASE BodyEnds(i)
  <2>1. PICK ev \in Events : reg' = [reg EXCEPT ![i].state = "ended", ![i].event = ev]
    BY <1>3 DEF BodyEnds, Events
  <2>2. /\ reg'[i].state = "ended" /\ reg'[i].event = ev /\ reg'[i].event # "none"
        /\ reg'[i].control = reg[i].control /\ reg'[i].begun = reg[i].begun
        /\ \A j \in Ids : j # i => reg'[j] = reg[j]
    BY <1>1, <2>1, EntryEnds DEF Events
  <2>3. EntryRight(reg'[i], db.sent[i])
    BY <1>1, <2>2 DEF EntryRight
  <2>4. reg[i].state = "running"
    BY <1>3 DEF BodyEnds
  <2>. QED
    BY <1>1, <2>2, <2>3, <2>4, EntryWriteFits
<1>4. CASE BodyReleases(i)
  <2>. DEFINE e == [reg[i] EXCEPT !.state = "finished", !.control = FALSE]
  <2>1. reg[i].state = "ended" /\ reg'[i] = e /\ \A j \in Ids : j # i => reg'[j] = reg[j]
    BY <1>1, <1>4 DEF BodyReleases
  <2>2. EntryRight(e, db.sent[i]) /\ e.state = "finished" /\ e.begun \in Nat
    BY <1>1, <2>1 DEF Entries, EntryRight
  <2>. HIDE DEF e
  <2>. QED
    BY <1>1, <2>1, <2>2, EntryWriteFits
<1>5. CASE Reap(i)
  <2>. DEFINE e == [Absent EXCEPT !.begun = reg[i].begun]
  <2>1. /\ reg[i].state = "finished" /\ reg'[i] = e /\ \A j \in Ids : j # i => reg'[j] = reg[j]
        /\ \A k \in Slots : slot[k].run # i
    BY <1>1, <1>5 DEF Reap
  <2>2. EntryRight(e, db.sent[i]) /\ e.begun \in Nat
    BY <1>1, <2>1 DEF Entries, EntryRight, Absent
  <2>. HIDE DEF e
  <2>. QED
    BY <1>1, <2>1, <2>2, EntryWriteFits
<1>. QED
  BY <1>2, <1>3, <1>4, <1>5

\* A foreground run has the session that it reserved.
LEMMA ForegroundFits ==
  ASSUME DInv, Advances, db' \in Database, NEW c \in Clients,
         \/ \E s \in Sessions : FgReserve(c, s)
         \/ FgStart(c) \/ FgRenew(c) \/ FgEnds(c) \/ FgReleases(c)
  PROVE  Fits'
<1>1. /\ fg \in [Clients -> FgRows] /\ FgFits /\ UNCHANGED <<slot, reg>>
  BY DEF DInv, DispatchTypeOK, FgRows, Fits, FgReserve, FgStart, FgRenew, FgEnds, FgReleases
<1>2. FgFits'
  <2>1. CASE \E s \in Sessions : FgReserve(c, s)
    BY <1>1, <2>1 DEF FgReserve, FgFits
  <2>2. CASE FgStart(c) \/ FgRenew(c) \/ FgEnds(c) \/ FgReleases(c)
    BY <1>1, <2>2 DEF FgStart, FgRenew, FgEnds, FgReleases, FgFits, FgRows, NoFg
  <2>. QED
    BY <2>1, <2>2
<1>3. SlotFits' /\ OneStarter' /\ EntryFits'
  <2>1. SlotFits' /\ OneStarter'
    BY <1>1, IssuedOn DEF DInv, Fits, SlotFits, OneStarter
  <2>2. ASSUME NEW i \in Ids
        PROVE  (reg[i].state # "absent" => Issued(i)') /\ EntryRight(reg[i], db'.sent[i])
    <3>1. reg[i].begun \in Nat /\ db.sent[i] \in Nat /\ db'.sent[i] \in Nat
      BY Typed DEF DInv, IInv, TypeOK, Database, Entries
    <3>. QED
      BY <3>1, IssuedOn DEF DInv, Fits, EntryFits, EntryRight, Advances
  <2>. QED
    BY <1>1, <2>1, <2>2 DEF EntryFits, EntryRight
<1>. QED
  BY <1>2, <1>3 DEF Fits

\* Every step keeps slots, entries and foreground runs fitting together.
LEMMA StepFits ==
  ASSUME DInv, [DispatchNext]_dvars
  PROVE  Fits' /\ Advances /\ IInv'
<1>1. Advances /\ IInv' /\ db' \in Database
  <2>1. IInv /\ [Next]_vars
    BY DispatchIsStore DEF DInv
  <2>. QED
    BY <2>1, Onward, StoreStep DEF IInv, TypeOK
<1>2. CASE Crash
  <2>1. \A k \in Slots : slot'[k] = Idle
    BY <1>2 DEF Crash
  <2>2. \A i \in Ids : reg'[i] = [Absent EXCEPT !.begun = reg[i].begun] /\ reg[i].begun <= db'.sent[i]
    BY <1>2 DEF Crash, DInv, Fits, EntryFits
  <2>3. SlotFits' /\ OneStarter'
    BY <2>1 DEF SlotFits, OneStarter, Idle, Starting
  <2>4. EntryFits'
    BY <2>2 DEF EntryFits, Absent
  <2>5. FgFits'
    BY <1>2 DEF Crash, DInv, Fits, FgFits, NoFg
  <2>. QED
    BY <1>1, <2>3, <2>4, <2>5 DEF Fits
<1>3. CASE Users \/ DispatchTick \/ UNCHANGED dvars
  <2>1. UNCHANGED <<slot, reg, fg>>
    BY <1>3 DEF Users, DispatchTick, dvars
  <2>. QED
    BY <1>1, <2>1, StoreFits
<1>4. CASE Serve \/ Foreground
  BY <1>1, <1>4, DispatchFits, SlotStepFits, BodyFits, ForegroundFits DEF Serve, Foreground
<1>. QED
  BY <1>1, <1>2, <1>3, <1>4 DEF DispatchNext

-----------------------------------------------------------------------------
(* Leases. *)

\* What a dispatch task writes: its own slot, and the entry of its own run.
LEMMA SlotWrites ==
  ASSUME DInv, NEW k \in Slots, SlotStep(k)
  PROVE  /\ slot[k].pc # "idle" /\ slot[k].run \in Ids
         /\ \A l \in Slots : l # k => slot'[l] = slot[l]
         /\ slot'[k].pc = "idle" \/ slot'[k].run = slot[k].run
         /\ slot'[k].pc \in Refusable => slot[k].pc \in Refusable
         /\ slot'[k].pc = "consume" => slot[k].pc = "lease" /\ Lease(SessionOf(slot[k].run), slot[k].run)
         /\ \A j \in Ids : j # slot[k].run => reg'[j] = reg[j]
         /\ reg'[slot[k].run].state = "running" =>
              \/ reg[slot[k].run].state = "running" /\ reg'[slot[k].run] = reg[slot[k].run]
              \/ slot[k].pc = "consume" /\ slot'[k].pc = "watch" /\ Consume(slot[k].run)
<1>. DEFINE i == slot[k].run
<1>1. slot[k].pc # "idle" /\ i \in Ids /\ DispatchTypeOK
  <2>1. slot[k].pc # "idle"
    BY DEF SlotStep, Reserve, Plan, TakeLease, TakePrompt, Abort, ReportRefusal, ReportProgress
  <2>. QED
    BY <2>1 DEF DInv, Fits, SlotFits, Issued
<1>2. /\ \A l \in Slots : l # k => slot'[l] = slot[l]
      /\ \/ slot'[k] = slot[k] /\ slot[k].pc = "watch"
         \/ slot'[k].pc = "idle"
         \/ slot'[k].run = i /\ \/ slot'[k].pc \in {"report", "abort", "watch"}
                                \/ slot'[k].pc = "plan" /\ slot[k].pc = "start"
                                \/ slot'[k].pc = "lease" /\ slot[k].pc = "plan"
                                \/ slot'[k].pc = "consume" /\ slot[k].pc = "lease" /\ Lease(SessionOf(i), i)
  <2>1. CASE \/ slot' = slot /\ slot[k].pc = "watch"
             \/ slot' = [slot EXCEPT ![k] = Idle]
    BY <1>1, <2>1 DEF DispatchTypeOK, Idle
  <2>2. CASE \E a \in {"queued", "failed"} :
               \/ slot' = [slot EXCEPT ![k].pc = "report", ![k].answer = a] \/ GiveUp(k, a)
    BY <1>1, <2>2, RowWrites DEF GiveUp
  <2>3. CASE Goto(k, "report") \/ Goto(k, "watch")
    BY <1>1, <2>3, GotoWrites
  <2>4. CASE Goto(k, "plan") /\ slot[k].pc = "start"
    BY <1>1, <2>4, GotoWrites
  <2>5. CASE Goto(k, "lease") /\ slot[k].pc = "plan"
    BY <1>1, <2>5, GotoWrites
  <2>6. CASE Goto(k, "consume") /\ slot[k].pc = "lease" /\ Lease(SessionOf(i), i)
    BY <1>1, <2>6, GotoWrites
  <2>7. CASE ReportRefusal(k) \/ ReportProgress(k)
    BY <2>1, <2>7 DEF ReportRefusal, ReportProgress
  <2>8. CASE Reserve(k) \/ Plan(k)
    BY <2>2, <2>3, <2>4, <2>5, <2>8 DEF Reserve, Plan
  <2>9. CASE TakeLease(k) \/ TakePrompt(k) \/ Abort(k)
    BY <2>2, <2>3, <2>6, <2>9 DEF TakeLease, TakePrompt, Abort
  <2>. QED
    BY <2>7, <2>8, <2>9 DEF SlotStep
<1>3. slot'[k].pc \in Refusable => slot[k].pc \in Refusable
  <2>1. ASSUME slot[k].pc = "watch"
        PROVE  slot'[k].pc \in {"watch", "idle"}
    <3>1. ReportProgress(k)
      BY <2>1 DEF SlotStep, Reserve, Plan, TakeLease, TakePrompt, Abort, ReportRefusal
    <3>2. slot' = slot \/ slot' = [slot EXCEPT ![k] = Idle]
      BY <3>1 DEF ReportProgress
    <3>. QED
      BY <1>1, <2>1, <3>2 DEF DispatchTypeOK, Idle
  <2>2. slot[k].pc \in Refusable \cup {"watch"}
    BY <1>1, Typed DEF SlotRows, Refusable, Starting
  <2>. QED
    BY <2>1, <2>2 DEF Refusable, Starting
<1>4. /\ \A j \in Ids : j # i => reg'[j] = reg[j]
      /\ reg'[i].state = "running" =>
           \/ reg'[i] = reg[i]
           \/ slot[k].pc = "consume" /\ slot'[k].pc = "watch" /\ Consume(i)
  <2>1. CASE UNCHANGED reg
    BY <2>1
  <2>2. CASE \/ reg' = [reg EXCEPT ![i] = [Absent EXCEPT !.begun = reg[i].begun]]
             \/ reg' = [reg EXCEPT ![i] = [Absent EXCEPT !.state = "reserved", !.begun = reg[i].begun]]
    <3>1. PICK e : e.state # "running" /\ reg' = [reg EXCEPT ![i] = e]
      <4>1. CASE reg' = [reg EXCEPT ![i] = [Absent EXCEPT !.begun = reg[i].begun]]
        BY <4>1 DEF Absent
      <4>2. CASE reg' = [reg EXCEPT ![i] = [Absent EXCEPT !.state = "reserved", !.begun = reg[i].begun]]
        BY <4>2 DEF Absent
      <4>. QED
        BY <2>2, <4>1, <4>2
    <3>2. reg'[i] = e /\ \A j \in Ids : j # i => reg'[j] = reg[j]
      BY <1>1, <3>1 DEF DispatchTypeOK
    <3>. QED
      BY <3>1, <3>2
  <2>3. CASE reg' = [reg EXCEPT ![i].state = "finished", ![i].event = "cancelled"]
    BY <1>1, <2>3, EntryEnds DEF Events
  <2>4. CASE /\ reg' = [reg EXCEPT ![i].state = "running", ![i].control = TRUE, ![i].begun = @ + 1]
             /\ TakePrompt(k) /\ Consume(i) /\ Goto(k, "watch")
    <3>1. slot'[k].pc = "watch" /\ slot[k].pc = "consume"
      BY <1>1, <2>4, GotoWrites DEF TakePrompt
    <3>. QED
      BY <1>1, <2>4, <3>1, EntryStarts
  <2>5. CASE Reserve(k) \/ Plan(k)
    BY <2>1, <2>2, <2>3, <2>5 DEF Reserve, Plan
  <2>6. CASE TakePrompt(k)
    BY <2>1, <2>4, <2>6 DEF TakePrompt
  <2>7. CASE TakeLease(k) \/ Abort(k) \/ ReportRefusal(k) \/ ReportProgress(k)
    BY <2>1, <2>2, <2>7 DEF TakeLease, Abort, ReportRefusal, ReportProgress
  <2>. QED
    BY <2>5, <2>6, <2>7 DEF SlotStep
<1>. QED
  BY <1>1, <1>2, <1>3, <1>4

\* A step after which everyone but T still holds what it held.
Keeps(T) == \A r \in Sessions, b \in Ids \cup Clients : Holds(r, b) /\ b \notin T => Holds(r, b)'

\* Whoever takes or renews a lease takes it from nobody at work.
LEMMA LeaseGiven ==
  ASSUME IInv, NEW s \in Sessions, NEW k \in Ids \cup Clients, Lease(s, k)
  PROVE  Holds(s, k)' /\ now' = now /\ Keeps({})
<1>1. now \in Nat /\ LeaseTime \in Nat \ {0} /\ \A r \in Sessions : db.lease[r].until \in Int
  BY TimesAssumption DEF IInv, TypeOK, Database
<1>2. /\ db.lease[s].holder = k \/ db.lease[s].until <= now
      /\ db'.lease = [db.lease EXCEPT ![s] = [holder |-> k, until |-> now + LeaseTime]]
  BY LeaseMoves
<1>3. now' = now /\ DOMAIN db.lease = Sessions
  BY DEF Lease, IInv, TypeOK, Database
<1>4. db'.lease[s].holder = k /\ db'.lease[s].until = now + LeaseTime
  BY <1>2, <1>3
<1>5. \A r \in Sessions : r # s => db'.lease[r] = db.lease[r]
  BY <1>2, <1>3
<1>6. Holds(s, k)'
  BY <1>1, <1>3, <1>4 DEF Holds
<1>. QED
  BY <1>1, <1>2, <1>3, <1>5, <1>6 DEF Holds, Keeps

\* A release takes only its caller's lease.
LEMMA ReleaseTakes ==
  ASSUME IInv, NEW s \in Sessions, NEW k, Release(s, k)
  PROVE  now' = now /\ Keeps({k})
<1>1. db.lease[s].holder = k /\ db'.lease = [db.lease EXCEPT ![s] = NoLease]
  BY ReleaseMoves
<1>2. now' = now /\ DOMAIN db.lease = Sessions
  BY DEF Release, IInv, TypeOK, Database
<1>. QED
  BY <1>1, <1>2 DEF Holds, Keeps

\* Who is at work, or about to start a body, held the session's lease before and
\* was not asked to let go, or has just been given it.  T: whose lease may go.
LEMMA LeasedOn ==
  ASSUME DInv, Advances, NEW T,
         Keeps(T),
         \A i \in Ids : reg'[i].state = "running" =>
           /\ i \notin T
           /\ \/ reg[i].state = "running"
              \/ \E k \in Slots : slot[k].pc = "consume" /\ slot[k].run = i,
         \A k \in Slots : slot'[k].pc = "consume" =>
           \/ slot'[k] = slot[k] /\ slot[k].run \notin T
           \/ Holds(SessionOf(slot[k].run), slot[k].run)',
         \A c \in Clients : fg'[c].pc = "running" =>
           \/ fg[c].pc = "running" /\ fg'[c].session = fg[c].session /\ c \notin T
           \/ Holds(fg[c].session, c)'
  PROVE  Leased'
<1>1. ASSUME NEW i \in Ids, i \notin T, Issued(i), Holds(SessionOf(i), i)
      PROVE  Holds(SessionOf(i), i)'
  <2>1. SessionOf(i) \in Sessions /\ SessionOf(i)' = SessionOf(i)
    BY <1>1, IssuedOn DEF Issued
  <2>2. Holds(SessionOf(i), i) => Holds(SessionOf(i), i)'
    BY <1>1, <2>1 DEF Holds, Keeps
  <2>. QED
    BY <1>1, <2>2
<1>2. ASSUME NEW i \in Ids, reg'[i].state = "running"
      PROVE  Holds(SessionOf(i), i)'
  <2>1. Issued(i) /\ Holds(SessionOf(i), i) /\ i \notin T
    BY <1>2 DEF DInv, Leased, Fits, EntryFits, SlotFits
  <2>. QED
    BY <1>1, <2>1
<1>3. ASSUME NEW k \in Slots, slot'[k].pc = "consume"
      PROVE  Holds(SessionOf(slot[k].run), slot[k].run)'
  <2>1. CASE slot'[k] = slot[k] /\ slot[k].run \notin T
    <3>1. Issued(slot[k].run) /\ Holds(SessionOf(slot[k].run), slot[k].run)
      BY <1>3, <2>1 DEF DInv, Leased, Fits, SlotFits
    <3>2. ASSUME NEW i, i = slot[k].run
          PROVE  Holds(SessionOf(i), i)'
      BY <1>1, <2>1, <3>1, <3>2 DEF Issued
    <3>3. slot[k].run = slot'[k].run
      BY <2>1
    <3>. QED
      BY <3>2, <3>3
  <2>. QED
    BY <1>3, <2>1
<1>4. ASSUME NEW c \in Clients, fg'[c].pc = "running"
      PROVE  Holds(fg[c].session, c)'
  <2>1. CASE fg[c].pc = "running" /\ fg'[c].session = fg[c].session /\ c \notin T
    <3>1. fg[c].session \in Sessions /\ Holds(fg[c].session, c)
      BY <2>1 DEF DInv, Leased, Fits, FgFits
    <3>2. ASSUME NEW s \in Sessions, Holds(s, c)
          PROVE  Holds(s, c)'
      BY <2>1, <3>2 DEF Keeps
    <3>3. ASSUME NEW s, s = fg[c].session
          PROVE  Holds(s, c)'
      BY <3>1, <3>2, <3>3
    <3>. QED
      BY <2>1, <3>3
  <2>. QED
    BY <1>4, <2>1
<1>. QED
  BY <1>2, <1>3, <1>4 DEF Leased

\* The steps that leave the leases and the clock alone.
LEMMA SameLeases ==
  ASSUME db'.lease = db.lease, now' = now
  PROVE  Keeps({})
BY DEF Holds, Keeps

\* The same when nobody lets go.
LEMMA LeasedStill ==
  ASSUME DInv, Advances, Keeps({}),
         \A i \in Ids : reg'[i].state = "running" =>
           \/ reg[i].state = "running"
           \/ \E k \in Slots : slot[k].pc = "consume" /\ slot[k].run = i,
         \A k \in Slots : slot'[k].pc = "consume" =>
           slot'[k] = slot[k] \/ Holds(SessionOf(slot[k].run), slot[k].run)',
         \A c \in Clients : fg'[c].pc = "running" =>
           \/ fg[c].pc = "running" /\ fg'[c].session = fg[c].session
           \/ Holds(fg[c].session, c)'
  PROVE  Leased'
<1>1. \A x : x \notin {}
  OBVIOUS
<1>. QED
  BY <1>1, LeasedOn, Zenon

\* Every step keeps those at work in possession of their leases.
LEMMA StepLeased ==
  ASSUME DInv, [DispatchNext]_dvars, Advances
  PROVE  Leased'
<1>. USE DEF Starting
<1>1. CASE Users \/ UNCHANGED dvars
  <2>1. db'.lease = db.lease /\ UNCHANGED <<now, slot, reg, fg>>
    BY <1>1, UsersLeave DEF Users, Leaves, dvars, DInv
  <2>2. Keeps({})
    BY <2>1, SameLeases
  <2>. QED
    BY <2>1, <2>2, LeasedStill
<1>2. CASE Crash
  <2>1. /\ UNCHANGED <<db, now>> /\ \A k \in Slots : slot'[k].pc = "idle"
        /\ \A i \in Ids : reg'[i].state = "absent"
        /\ \A c \in Clients : fg'[c].pc = "running" => fg'[c] = fg[c]
    BY <1>2 DEF Crash, Idle, Absent, NoFg
  <2>2. Keeps({})
    BY <2>1, SameLeases
  <2>. QED
    BY <2>1, <2>2, LeasedStill
<1>3. CASE DispatchTick
  <2>1. InTime /\ now' = now + 1 /\ UNCHANGED <<db, slot, reg, fg>>
    BY <1>3 DEF DispatchTick, Tick
  <2>2. ASSUME NEW i \in Ids, reg[i].state = "running"
        PROVE  Holds(SessionOf(i), i)'
    <3>1. i \in Bodies(SessionOf(i)) /\ SessionOf(i) \in Sessions /\ db.lease[SessionOf(i)].holder = i
      BY <2>2 DEF DInv, Leased, Holds, Fits, EntryFits, Issued, Bodies
    <3>2. ~Replying(i)
      BY HoldersAssumption DEF Replying
    <3>3. now + 1 < db.lease[SessionOf(i)].until
      BY <2>1, <3>1, <3>2 DEF InTime
    <3>. QED
      BY <2>1, <3>1, <3>3 DEF Holds, SessionOf
  <2>3. ASSUME NEW k \in Slots, slot[k].pc = "consume"
        PROVE  Holds(SessionOf(slot[k].run), slot[k].run)'
    <3>1. SessionOf(slot[k].run) \in Sessions /\ db.lease[SessionOf(slot[k].run)].holder = slot[k].run
      BY <2>3 DEF DInv, Leased, Holds, Fits, SlotFits, Issued
    <3>2. now + 1 < db.lease[SessionOf(slot[k].run)].until
      BY <2>1, <2>3, <3>1 DEF InTime
    <3>. QED
      BY <2>1, <3>1, <3>2 DEF Holds, SessionOf
  <2>4. ASSUME NEW c \in Clients, fg[c].pc = "running"
        PROVE  Holds(fg[c].session, c)'
    <3>1. c \in Bodies(fg[c].session) /\ fg[c].session \in Sessions /\ db.lease[fg[c].session].holder = c
      BY <2>4 DEF DInv, Leased, Holds, Fits, FgFits, Bodies
    <3>2. now + 1 < db.lease[fg[c].session].until
      BY <2>1, <2>4, <3>1 DEF InTime, Replying
    <3>. QED
      BY <2>1, <3>1, <3>2 DEF Holds
  <2>. QED
    BY <2>1, <2>2, <2>3, <2>4 DEF Leased
<1>4. ASSUME NEW h \in Hosts, Dispatch(h)
      PROVE  Leased'
  <2>1. db'.lease = db.lease /\ now' = now /\ UNCHANGED <<reg, fg>>
    BY <1>4, PollMoves DEF Dispatch, DInv, Poll
  <2>2. \A k \in Slots : slot'[k] = slot[k] \/ slot'[k].pc = "start"
    BY <1>4, DispatchPlaces
  <2>3. Keeps({})
    BY <2>1, SameLeases
  <2>. QED
    BY <2>1, <2>2, <2>3, LeasedStill
<1>5. ASSUME NEW k \in Slots, SlotStep(k)
      PROVE  Leased'
  <2>. DEFINE i == slot[k].run
              s == SessionOf(i)
  <2>1. /\ slot[k].pc # "idle" /\ i \in Ids /\ s \in Sessions /\ UNCHANGED fg
        /\ \A l \in Slots : l # k => slot'[l] = slot[l]
        /\ slot'[k].pc = "idle" \/ slot'[k].run = i
        /\ slot'[k].pc = "consume" => slot[k].pc = "lease" /\ Lease(s, i)
        /\ \A j \in Ids : reg'[j].state = "running" =>
             \/ reg[j].state = "running"
             \/ \E l \in Slots : slot[l].pc = "consume" /\ slot[l].run = j
    BY <1>5, SlotWrites, SlotTypes DEF DInv, Fits, SlotFits, Issued
  <2>2. CASE Lease(s, i)
    <3>1. ASSUME NEW r, NEW b, r = s, b = i
          PROVE  Holds(r, b)' /\ Keeps({})
      <4>1. Lease(r, b) /\ r \in Sessions /\ b \in Ids \cup Clients
        BY <2>1, <2>2, <3>1
      <4>. QED
        BY <4>1, LeaseGiven DEF DInv
    <3>2. slot'[k].pc = "consume" => Holds(SessionOf(slot[k].run), slot[k].run)'
      <4>. SUFFICES ASSUME slot'[k].pc = "consume"
                    PROVE  Holds(SessionOf(slot[k].run), slot[k].run)'
        OBVIOUS
      <4>1. ASSUME NEW r, NEW b, r = s, b = i
            PROVE  r = SessionOf(b)' /\ b = slot'[k].run
        <5>1. Issued(b)
          BY <2>1, <4>1 DEF DInv, Fits, SlotFits
        <5>2. SessionOf(b)' = SessionOf(b)
          BY <5>1, IssuedOn
        <5>. QED
          BY <2>1, <4>1, <5>2
      <4>2. ASSUME NEW b, b = slot'[k].run
            PROVE  Holds(SessionOf(b), b)'
        BY <2>1, <3>1, <4>1, <4>2 DEF Holds
      <4>. QED
        BY <4>2
    <3>3. Keeps({})
      BY <3>1
    <3>. QED
      BY <2>1, <3>2, <3>3, LeasedStill
  <2>3. CASE Release(s, i) /\ Abort(k)
    <3>1. slot[k].pc = "abort" /\ reg[i].state = "reserved" /\ reg'[i].state = "absent"
      BY <2>1, <2>3 DEF Abort, DInv, Fits, SlotFits, DispatchTypeOK, Absent
    <3>2. Keeps({i})
      BY <2>1, <2>3, ReleaseTakes DEF DInv
    <3>3. \A l \in Slots : slot'[l].pc = "consume" => l # k /\ slot'[l] = slot[l] /\ slot[l].run \notin {i}
      BY <2>1, <3>1 DEF DInv, Fits, OneStarter
    <3>4. \A j \in Ids : reg'[j].state = "running" => j \notin {i}
      BY <3>1
    <3>5. \A c \in Clients : c \notin {i}
      BY <2>1, HoldersAssumption
    <3>. HIDE DEF i, s
    <3>. QED
      BY <2>1, <3>2, <3>3, <3>4, <3>5, LeasedOn
  <2>4. CASE db'.lease = db.lease /\ now' = now /\ slot'[k].pc # "consume"
    <3>1. Keeps({})
      BY <2>4, SameLeases
    <3>. QED
      BY <2>1, <2>4, <3>1, LeasedStill
  <2>5. slot'[k].pc = "consume" => Lease(s, i)
    BY <2>1
  <2>6. CASE UNCHANGED <<db, now, removal, yields>>
    BY <2>2, <2>4, <2>5, <2>6
  <2>7. CASE Consume(i)
    <3>1. db'.lease = db.lease /\ now' = now
      BY <2>1, <2>7, ConsumeMoves DEF DInv, Consume
    <3>. QED
      BY <2>2, <2>4, <2>5, <3>1
  <2>8. ASSUME NEW st \in {"queued", "running", "complete", "cancelled", "failed"}, NEW a, Result(i, st, a)
        PROVE  Leased'
    <3>1. st \in {"queued", "running", "blocked", "complete", "cancelled", "failed"}
      OBVIOUS
    <3>2. db'.lease = db.lease /\ now' = now
      BY <2>1, <2>8, <3>1, ResultMoves DEF DInv, Result
    <3>. QED
      BY <2>2, <2>4, <2>5, <3>2
  <2>9. CASE ReportRefusal(k)
    <3>1. slot[k].answer \in {"queued", "failed"}
      BY <2>9 DEF ReportRefusal, DInv, Fits, SlotFits
    <3>. QED
      BY <2>6, <2>8, <2>9, <3>1 DEF ReportRefusal
  <2>10. CASE ReportProgress(k)
    <3>. DEFINE st == IF reg[i].event # "none" THEN reg[i].event ELSE "running"
    <3>1. st \in {"queued", "running", "complete", "cancelled", "failed"}
      BY <2>1 DEF DInv, DispatchTypeOK, Events
    <3>2. (\E a : Result(i, st, a)) \/ UNCHANGED <<db, now, removal, yields>>
      BY <2>10 DEF ReportProgress
    <3>. HIDE DEF st
    <3>. QED
      BY <2>6, <2>8, <3>1, <3>2
  <2>11. CASE Reserve(k) \/ Plan(k) \/ TakeLease(k) \/ TakePrompt(k) \/ Abort(k)
    BY <2>2, <2>3, <2>6, <2>7, <2>11 DEF Reserve, Plan, TakeLease, TakePrompt, Abort
  <2>. QED
    BY <1>5, <2>9, <2>10, <2>11 DEF SlotStep
<1>6. ASSUME NEW i \in Ids, Renew(i) \/ BodyEnds(i) \/ BodyReleases(i) \/ Reap(i)
      PROVE  Leased'
  <2>. DEFINE s == SessionOf(i)
  <2>1. /\ UNCHANGED <<slot, fg>> /\ reg \in [Ids -> Entries]
        /\ reg[i].state \notin {"absent", "reserved"} /\ s \in Sessions
    BY <1>6 DEF DInv, Fits, EntryFits, Issued, DispatchTypeOK, Entries, Renew, BodyEnds, BodyReleases, Reap
  <2>2. \A j \in Ids : reg'[j].state = "running" => reg[j].state = "running"
    <3>1. CASE Renew(i)
      BY <2>1, <3>1 DEF Renew, Entries
    <3>2. CASE BodyEnds(i)
      BY <2>1, <3>2 DEF BodyEnds, Entries
    <3>3. CASE BodyReleases(i)
      BY <2>1, <3>3 DEF BodyReleases, Entries
    <3>4. CASE Reap(i)
      <4>1. PICK e : e.state = "absent" /\ reg' = [reg EXCEPT ![i] = e]
        BY <3>4 DEF Reap, Absent
      <4>. QED
        BY <2>1, <4>1
    <3>. QED
      BY <1>6, <3>1, <3>2, <3>3, <3>4
  <2>3. CASE Lease(s, i)
    <3>1. Keeps({})
      BY <2>1, <2>3, LeaseGiven DEF DInv
    <3>. QED
      BY <2>1, <2>2, <3>1, LeasedStill
  <2>4. CASE Release(s, i) /\ BodyReleases(i)
    <3>1. reg[i].state = "ended" /\ reg'[i].state = "finished"
      BY <2>1, <2>4 DEF BodyReleases, Entries
    <3>2. Keeps({i})
      BY <2>1, <2>4, ReleaseTakes DEF DInv
    <3>3. \A l \in Slots : slot[l].pc = "consume" => slot[l].run \notin {i}
      BY <3>1 DEF DInv, Fits, SlotFits
    <3>4. \A c \in Clients : c \notin {i}
      BY HoldersAssumption
    <3>. HIDE DEF s
    <3>. QED
      BY <2>1, <2>2, <3>1, <3>2, <3>3, <3>4, LeasedOn
  <2>5. CASE UNCHANGED <<db, now, removal, yields>>
    <3>1. Keeps({})
      BY <2>5, SameLeases
    <3>. QED
      BY <2>1, <2>2, <3>1, LeasedStill
  <2>. QED
    BY <1>6, <2>3, <2>4, <2>5 DEF Renew, BodyEnds, BodyReleases, Reap
<1>7. ASSUME NEW c \in Clients,
             \/ \E s \in Sessions : FgReserve(c, s)
             \/ FgStart(c) \/ FgRenew(c) \/ FgEnds(c) \/ FgReleases(c)
      PROVE  Leased'
  <2>. DEFINE s == fg[c].session
  <2>1. /\ UNCHANGED <<slot, reg>> /\ fg \in [Clients -> FgRows]
        /\ fg[c].pc # "idle" => s \in Sessions
    BY <1>7 DEF DInv, Fits, FgFits, DispatchTypeOK, FgRows, FgReserve, FgStart, FgRenew, FgEnds, FgReleases
  <2>2. CASE FgReserve(c, s) \/ (\E r \in Sessions : FgReserve(c, r)) \/ FgEnds(c)
    <3>1. /\ UNCHANGED <<db, now>>
          /\ \A b \in Clients : fg'[b].pc = "running" => fg'[b] = fg[b]
      BY <2>1, <2>2 DEF FgReserve, FgEnds, FgRows
    <3>2. Keeps({})
      BY <3>1, SameLeases
    <3>. QED
      BY <2>1, <3>1, <3>2, LeasedStill
  <2>3. CASE (FgStart(c) \/ FgRenew(c)) /\ Lease(s, c)
    <3>1. fg[c].pc # "idle" /\ fg'[c].pc \in {"idle", "running", "replying"} /\ \A b \in Clients : b # c => fg'[b] = fg[b]
      BY <2>1, <2>3 DEF FgStart, FgRenew, FgRows, NoFg
    <3>2. fg'[c].pc = "running" => fg'[c].session = s
      BY <2>1, <2>3 DEF FgStart, FgRenew, FgRows, NoFg
    <3>3. ASSUME NEW r, r = s
          PROVE  Holds(r, c)' /\ Keeps({})
      <4>1. Lease(r, c) /\ r \in Sessions /\ c \in Ids \cup Clients
        BY <2>1, <2>3, <3>1, <3>3
      <4>. QED
        BY <4>1, LeaseGiven DEF DInv
    <3>4. fg'[c].pc = "running" => Holds(fg[c].session, c)'
      BY <3>2, <3>3 DEF Holds
    <3>5. Keeps({})
      BY <3>3
    <3>. QED
      BY <2>1, <3>1, <3>4, <3>5, LeasedStill
  <2>4. CASE FgStart(c) /\ fg' = [fg EXCEPT ![c] = NoFg] /\ UNCHANGED <<db, now, removal, yields>>
    <3>1. \A b \in Clients : fg'[b].pc = "running" => fg'[b] = fg[b]
      BY <2>1, <2>4 DEF NoFg
    <3>2. Keeps({})
      BY <2>4, SameLeases
    <3>. QED
      BY <2>1, <3>1, <3>2, LeasedStill
  <2>5. CASE FgReleases(c)
    <3>1. /\ fg[c].pc = "ended"
          /\ \A b \in Clients : fg'[b].pc = "running" => fg'[b] = fg[b] /\ b \notin {c}
      BY <2>1, <2>5 DEF FgReleases, NoFg
    <3>2. Keeps({c})
      <4>1. Release(s, c) \/ UNCHANGED <<db, now, removal, yields>>
        BY <2>5 DEF FgReleases
      <4>. QED
        BY <2>1, <3>1, <4>1, ReleaseTakes, SameLeases DEF DInv, Keeps
    <3>3. /\ \A i \in Ids : i \notin {c}
          /\ \A k \in Slots : slot[k].pc = "consume" => slot[k].run \notin {c}
      BY HoldersAssumption DEF DInv, Fits, SlotFits, Issued
    <3>. HIDE DEF s
    <3>. QED
      BY <2>1, <3>1, <3>2, <3>3, LeasedOn
  <2>. QED
    BY <1>7, <2>2, <2>3, <2>4, <2>5 DEF FgStart, FgRenew
<1>. QED
  BY <1>1, <1>2, <1>3, <1>4, <1>5, <1>6, <1>7 DEF DispatchNext, Serve, Foreground

-----------------------------------------------------------------------------
(* The theorems. *)

LEMMA StepDInv ==
  ASSUME DInv, [DispatchNext]_dvars
  PROVE  DInv'
<1>1. Fits' /\ Advances /\ IInv'
  BY StepFits
<1>2. Leased'
  BY <1>1, StepLeased
<1>3. DispatchTypeOK'
  <2>1. /\ slot' \in [Slots -> SlotRows] /\ reg' \in [Ids -> Entries]
        /\ fg' \in [Clients -> FgRows] /\ crashes' \in 0..Crashes
    <3>1. slot \in [Slots -> SlotRows] /\ reg \in [Ids -> Entries] /\ fg \in [Clients -> FgRows]
          /\ crashes \in 0..Crashes
      BY DEF DInv, DispatchTypeOK, SlotRows, Entries, FgRows
    <3>2. CASE UNCHANGED dvars
      BY <3>1, <3>2 DEF dvars
    <3>3. CASE \E k \in Slots : SlotStep(k)
      BY <3>1, <3>3, SlotTypes
    <3>4. CASE DispatchNext /\ ~ \E k \in Slots : SlotStep(k)
      BY <3>4, OtherTypes
    <3>. QED
      BY <3>2, <3>3, <3>4
  <2>. QED
    BY <1>1, <2>1 DEF DispatchTypeOK, SlotRows, Entries, FgRows, IInv
<1>. QED
  BY <1>1, <1>2, <1>3 DEF DInv

LEMMA InitDInv == DispatchInit => DInv
<1>. SUFFICES ASSUME DispatchInit PROVE DInv
  OBVIOUS
<1>1. IInv /\ \A i \in Ids : db.sent[i] = 0
  BY InitIInv DEF DispatchInit, Init
<1>2. DispatchTypeOK
  <2>1. slot \in [Slots -> SlotRows] /\ reg \in [Ids -> Entries] /\ fg \in [Clients -> FgRows]
    BY DEF DispatchInit, Idle, Absent, NoFg, SlotRows, Entries, FgRows
  <2>2. crashes \in 0..Crashes
    BY DispatchAssumption DEF DispatchInit
  <2>. QED
    BY <1>1, <2>1, <2>2 DEF DispatchTypeOK, SlotRows, Entries, FgRows, IInv
<1>3. Fits /\ Leased
  BY <1>1 DEF DispatchInit, Idle, Absent, NoFg, Fits, SlotFits, OneStarter, EntryFits, FgFits,
              Leased, Starting
<1>. QED
  BY <1>1, <1>2, <1>3 DEF DInv

\* The memory of the daemon fits the database, and who works holds the lease.
THEOREM DispatchInvariance == DispatchSpec => []DInv
<1>1. DInv /\ [DispatchNext]_dvars => DInv'
  BY StepDInv
<1>. QED
  BY <1>1, InitDInv, PTL DEF DispatchSpec

\* The slots of the dispatcher, the registry and the foreground runs keep their
\* types (scheduled::serve, RunRegistry).
THEOREM DispatchTypeCorrect == DispatchSpec => []DispatchTypeOK
<1>1. DInv => DispatchTypeOK
  BY DEF DInv
<1>. QED
  BY <1>1, DispatchInvariance, PTL

\* The daemon, the foreground runs, lost requests and crashes do to the database
\* only what the store's own specification allows (scheduled::serve, RunRegistry).
THEOREM DispatchImplementsStore == DispatchSpec => Spec
<1>1. DispatchInit => Init
  BY DEF DispatchInit
<1>2. DInv /\ [DispatchNext]_dvars => [Next]_vars
  BY DispatchIsStore
<1>. QED
  BY <1>1, <1>2, DispatchInvariance, PTL DEF DispatchSpec, Spec

\* What is proved of the store therefore holds with the daemon at work: single
\* delivery, a single and fresh occurrence, the bound on a goal's turns, the order.
THEOREM StoreGuarantees ==
  DispatchSpec => /\ []DeliveredOnce /\ []SingleOccurrence /\ []FreshOccurrence
                  /\ []GoalTurnBound /\ DeliversInOrder
BY DispatchImplementsStore, PromptDeliveredOnce, OccurrenceSingle, OccurrenceFresh,
   GoalWorkBounded, QueueImplementsDelivery, PTL

\* However often a run is claimed, refused, retried or lost in a crash, an agent
\* starts work on its prompt at most once (consume_queued_prompt).
THEOREM PromptWorkedOnce == DispatchSpec => []WorkedOnce
<1>1. DInv => WorkedOnce
  <2>. SUFFICES ASSUME DInv, NEW i \in Ids
                PROVE  reg[i].begun <= 1 /\ reg[i].begun <= db.sent[i]
    BY DEF WorkedOnce
  <2>1. reg[i].begun \in Nat /\ db.sent[i] \in Nat /\ db.sent[i] <= 1
    BY DEF DInv, DispatchTypeOK, IInv, TypeOK, Database, Sound, Once
  <2>2. reg[i].begun <= db.sent[i]
    BY DEF DInv, Fits, EntryFits
  <2>. QED
    BY <2>1, <2>2
<1>. QED
  BY <1>1, DispatchInvariance, PTL

\* Two agents work in one session at the same time only when one of them is a plain
\* reply of Spin that has lost its lease, however long such a reply lasts and whatever
\* mix of daemons, browsers and Spin requests started them (session_run_lease).
THEOREM BodiesExclude == DispatchSpec => []BodiesApart
<1>1. DInv => BodiesApart
  <2>. SUFFICES ASSUME DInv, NEW s \in Sessions, NEW a \in Bodies(s)
                PROVE  db.lease[s].holder = a \/ Outlived(a, s)
    BY DEF BodiesApart
  <2>1. CASE a \in Ids /\ SessionOf(a) = s /\ reg[a].state = "running"
    BY <2>1 DEF DInv, Leased, Holds
  <2>2. CASE a \in Clients /\ fg[a].session = s /\ fg[a].pc = "running"
    BY <2>2 DEF DInv, Leased, Holds
  <2>3. CASE a \in Clients /\ fg[a].pc = "replying"
    BY <2>3 DEF Outlived, Replying
  <2>. QED
    BY <2>1, <2>2, <2>3 DEF Bodies
<1>. QED
  BY <1>1, DispatchInvariance, PTL

-----------------------------------------------------------------------------
(* A dispatch that does not outlast its claim. *)

\* A run at work has had its prompt taken.
LEMMA WorkTaken ==
  ASSUME DInv, NEW i \in Ids, reg[i].state = "running"
  PROVE  i \notin db.queue /\ reg[i].event = "none" /\ i <= db.last /\ db.sent[i] > 0
<1>1. reg[i].begun \in Nat /\ db.sent[i] \in Nat /\ reg[i].begun > 0 /\ reg[i].begun <= db.sent[i]
  BY Typed DEF DInv, IInv, TypeOK, Database, Entries, Fits, EntryFits
<1>2. db.sent[i] > 0
  BY <1>1
<1>. QED
  BY <1>2 DEF DInv, IInv, Sound, Once, Fits, EntryFits, Issued

\* Withdrawing work gives no run out and leaves those at work alone.
LEMMA LeftRests ==
  ASSUME DInv, NEW i \in Ids, Left(db, db', i), now' = now
  PROVE  /\ db'.runs[i].status = "claimed" =>
              db.runs[i].status = "claimed" /\ db'.runs[i].until = db.runs[i].until
         /\ db'.runs[i].status = "queued" => db.runs[i].status = "queued"
         /\ reg[i].state = "running" /\ Recorded(i) => Recorded(i)'
<1>1. reg[i].state = "running" => i \notin db.queue
  BY WorkTaken
<1>. QED
  BY <1>1 DEF Left, Recorded, Scheduled

\* Steps that start nothing, beside the dispatch tasks.
LEMMA KeptStill ==
  ASSUME DInv, Kept, slot' = slot, now' = now, \A i \in Ids : Left(db, db', i),
         \A i \in Ids : \/ reg'[i].state = reg[i].state
                        \/ reg'[i].state \in {"ended", "finished"}
                        \/ reg'[i].state = "absent" /\ \A k \in Slots : slot[k].run # i
  PROVE  Kept'
<1>1. \A k \in Slots : slot[k].pc # "idle" => slot[k].run \in Ids
  BY DEF DInv, Fits, SlotFits, Issued
<1>2. ClaimsLast'
  <2>. SUFFICES ASSUME NEW k \in Slots, slot[k].pc \in Refusable, NEW i \in Ids, i = slot[k].run,
                       db'.runs[i].status = "claimed"
                PROVE  now <= db'.runs[i].until
    BY <1>1 DEF ClaimsLast, Refusable, Starting
  <2>. QED
    BY LeftRests DEF Kept, ClaimsLast
<1>3. NotRequeued'
  <2>. SUFFICES ASSUME NEW k \in Slots, slot[k].pc \in Refusable, NEW i \in Ids, i = slot[k].run,
                       reg'[i].state \in {"absent", "reserved"}, db'.runs[i].status = "queued"
                PROVE  FALSE
    BY <1>1 DEF NotRequeued, Refusable, Starting
  <2>1. reg'[i].state = reg[i].state
    OBVIOUS
  <2>. QED
    BY <2>1, LeftRests DEF Kept, NotRequeued
<1>4. OneSlot'
  BY <1>1 DEF Kept, OneSlot, Alive
<1>5. ASSUME NEW i \in Ids, reg'[i].state = "running"
      PROVE  Watched(i)' /\ Recorded(i)'
  <2>1. reg[i].state = "running" /\ Watched(i) /\ Recorded(i)
    BY <1>5 DEF Kept
  <2>. QED
    BY <2>1, LeftRests DEF Watched
<1>. QED
  BY <1>2, <1>3, <1>4, <1>5 DEF Kept

\* A run that a poll gives out is in nobody's hands.
LEMMA DeliveredFree ==
  ASSUME DInv, DInv', Kept, NEW h \in Hosts, Poll(h), UNCHANGED reg,
         NEW i \in Delivered, NEW k \in Slots, slot[k].pc # "idle", slot[k].run = i
  PROVE  ~Alive(i)
<1>1. /\ i \in db'.queue
      /\ \/ i > db.last \/ db.runs[i].status = "queued"
         \/ db.runs[i].status = "claimed" /\ db.runs[i].until < now
  BY DeliveredIssued DEF DInv
<1>2. i \in Ids /\ i <= db.last /\ i \in Int /\ db.last \in Int /\ now \in Int
      /\ db.runs[i].until \in Int
  <2>1. i \in Ids /\ i <= db.last /\ db \in Database /\ now \in Nat
    BY DEF DInv, Fits, SlotFits, Issued, IInv, TypeOK
  <2>2. i \in Int /\ db.last \in Int
    BY <2>1 DEF Ids, Database
  <2>3. db.runs[i].until \in Int
    BY <2>1 DEF Database, Runs
  <2>. QED
    BY <2>1, <2>2, <2>3
<1>3. reg[i].state # "running"
  <2>1. reg'[i].state = "running" => i \notin db'.queue
    <3>1. reg'[i].begun \in Nat /\ db'.sent[i] \in Nat
      BY <1>2 DEF DInv, DispatchTypeOK, IInv, TypeOK, Database
    <3>2. reg'[i].state = "running" => reg'[i].begun > 0 /\ reg'[i].begun <= db'.sent[i]
      BY <1>2 DEF DInv, Fits, EntryFits
    <3>3. reg'[i].state = "running" => db'.sent[i] > 0
      BY <3>1, <3>2
    <3>. QED
      BY <1>2, <3>3 DEF DInv, IInv, Sound, Once
  <2>. QED
    BY <1>1, <2>1
<1>4. CASE slot[k].pc \in Refusable
  BY <1>1, <1>2, <1>3, <1>4 DEF Kept, ClaimsLast, NotRequeued, Alive
<1>5. CASE slot[k].pc = "watch"
  BY <1>3, <1>5 DEF DInv, Fits, SlotFits, Alive
<1>6. slot[k].pc \in Refusable \cup {"watch"}
  BY Typed DEF DInv, SlotRows, Refusable, Starting
<1>. QED
  BY <1>4, <1>5, <1>6

\* A poll keeps its hands off the runs that are under way.
LEMMA DispatchKept ==
  ASSUME DInv, DInv', Kept, NEW h \in Hosts, Dispatch(h)
  PROVE  Kept'
<1>1. /\ Poll(h) /\ UNCHANGED reg /\ now' = now
      /\ \A i \in Ids : Polled(i)
      /\ \A i \in Ids : i <= db.last => db'.runs[i].task \in {db.runs[i].task, NoTask}
  BY PollMoves DEF Dispatch, Poll, DInv
<1>2. /\ \A k \in Slots : slot[k].pc # "idle" => slot[k].run \in Ids /\ slot[k].run <= db.last
      /\ now \in Int /\ LeaseTime \in Nat /\ db.last \in Int
      /\ \A i \in Ids : i \in Int /\ db.runs[i].until \in Int
  <2>1. db \in Database /\ now \in Nat
    BY DEF DInv, IInv, TypeOK
  <2>2. \A k \in Slots : slot[k].pc # "idle" => slot[k].run \in Ids /\ slot[k].run <= db.last
    BY DEF DInv, Fits, SlotFits, Issued
  <2>3. db.last \in Int /\ \A i \in Ids : i \in Int
    BY <2>1 DEF Ids, Database
  <2>4. \A i \in Ids : db.runs[i].until \in Int
    BY <2>1 DEF Database, Runs
  <2>. QED
    BY <2>1, <2>2, <2>3, <2>4, TimesAssumption
<1>3. \A k \in Slots :
        \/ slot'[k] = slot[k]
        \/ /\ slot[k].pc = "idle" /\ slot'[k].pc = "start" /\ slot'[k].run \in Delivered
           /\ \A l \in Slots : l # k /\ slot'[l].run = slot'[k].run => slot'[l] = slot[l]
  BY DispatchPlaces
<1>4. \A i \in Delivered : db'.runs[i].status = "claimed" /\ db'.runs[i].until = now + LeaseTime
  BY <1>1, DeliveredIssued DEF Delivered, DInv
<1>5. ClaimsLast'
  <2>. SUFFICES ASSUME NEW k \in Slots, slot'[k].pc \in Refusable,
                       db'.runs[slot'[k].run].status = "claimed"
                PROVE  now <= db'.runs[slot'[k].run].until
    BY <1>1 DEF ClaimsLast
  <2>1. CASE slot'[k].run \in Delivered
    BY <1>2, <1>4, <2>1
  <2>2. CASE slot'[k] = slot[k]
    BY <1>1, <1>2, <2>2 DEF Polled, Refusable, Starting
  <2>. QED
    BY <1>3, <2>1, <2>2
<1>6. NotRequeued'
  <2>. SUFFICES ASSUME NEW k \in Slots, slot'[k].pc \in Refusable,
                       reg[slot'[k].run].state \in {"absent", "reserved"},
                       db'.runs[slot'[k].run].status = "queued"
                PROVE  FALSE
    BY <1>1 DEF NotRequeued
  <2>1. CASE slot'[k].run \in Delivered
    BY <1>4, <2>1
  <2>2. CASE slot'[k] = slot[k]
    BY <1>1, <1>2, <2>2 DEF Polled, Refusable, Starting, Kept, ClaimsLast, NotRequeued
  <2>. QED
    BY <1>3, <2>1, <2>2
<1>7. OneSlot'
  <2>. SUFFICES ASSUME NEW k \in Slots, NEW l \in Slots, slot'[k].pc # "idle", slot'[l].pc # "idle",
                       slot'[k].run = slot'[l].run, Alive(slot'[k].run)
                PROVE  k = l
    BY <1>1 DEF OneSlot, Alive
  <2>1. ASSUME NEW m \in Slots, NEW n \in Slots, slot[m].pc # "idle", slot'[m] = slot[m],
               slot'[n].run \in Delivered, slot'[n].run = slot'[m].run, Alive(slot'[n].run)
        PROVE  FALSE
    BY <1>1, <2>1, DeliveredFree
  <2>2. CASE slot'[k] = slot[k] /\ slot'[l] = slot[l]
    BY <2>2 DEF Kept, OneSlot
  <2>3. CASE slot'[k] # slot[k] /\ k # l
    <3>1. slot'[l] = slot[l] /\ slot'[k].run \in Delivered
      BY <1>3, <2>3
    <3>. QED
      BY <2>1, <3>1
  <2>4. CASE slot'[l] # slot[l] /\ k # l
    <3>1. slot'[k] = slot[k] /\ slot'[l].run \in Delivered
      BY <1>3, <2>4
    <3>. QED
      BY <2>1, <3>1
  <2>. QED
    BY <2>2, <2>3, <2>4
<1>8. ASSUME NEW i \in Ids, reg'[i].state = "running"
      PROVE  Watched(i)' /\ Recorded(i)'
  <2>1. reg[i].state = "running" /\ Watched(i) /\ Recorded(i) /\ i <= db.last /\ i \notin db.queue
    BY <1>1, <1>8, WorkTaken DEF Kept
  <2>2. Watched(i)'
    BY <1>3, <2>1 DEF Watched
  <2>3. Recorded(i)'
    BY <1>1, <2>1 DEF Recorded, Polled, Scheduled
  <2>. QED
    BY <2>2, <2>3
<1>. QED
  BY <1>5, <1>6, <1>7, <1>8 DEF Kept

\* What a dispatch task does to the runs.
LEMMA SlotMoves ==
  ASSUME DInv, NEW k \in Slots, SlotStep(k), NEW i, i = slot[k].run
  PROVE  /\ now' = now /\ i \in Ids /\ \A j \in Ids : j # i => Left(db, db', j)
         /\ \/ Left(db, db', i)
            \/ Consume(i)
            \/ ReportRefusal(k) /\ \E st \in {"queued", "failed"} : \E a : Result(i, st, a)
            \/ ReportProgress(k)
                 /\ \E a : Result(i, IF reg[i].event # "none" THEN reg[i].event ELSE "running", a)
<1>1. i \in Ids /\ SessionOf(i) \in Sessions /\ IInv
  BY SlotWrites DEF DInv, Fits, SlotFits, Issued
<1>2. db' = db => \A j \in Ids : Left(db, db', j)
  BY DEF Left
<1>3. CASE Reserve(k) \/ Plan(k)
  BY <1>1, <1>2, <1>3 DEF Reserve, Plan
<1>4. CASE TakeLease(k)
  <2>1. Lease(SessionOf(i), i) \/ UNCHANGED <<db, now, removal, yields>>
    BY <1>4 DEF TakeLease
  <2>2. CASE Lease(SessionOf(i), i)
    <3>1. now' = now
      BY <2>2 DEF Lease
    <3>2. ASSUME NEW s \in Sessions, s = SessionOf(i)
          PROVE  \A j \in Ids : Left(db, db', j)
      <4>1. Lease(s, i) /\ i \in Ids \cup Clients
        BY <1>1, <2>2, <3>2
      <4>. QED
        BY <1>1, <4>1, LeaseMoves
    <3>. QED
      BY <1>1, <3>1, <3>2
  <2>. QED
    BY <1>1, <1>2, <2>1, <2>2
<1>5. CASE TakePrompt(k)
  <2>1. Consume(i) \/ UNCHANGED <<db, now, removal, yields>>
    BY <1>5 DEF TakePrompt
  <2>2. CASE Consume(i)
    <3>1. now' = now /\ \A j \in Ids : j # i => db'.runs[j] = db.runs[j]
      BY <1>1, <2>2, ConsumeMoves DEF Consume
    <3>. QED
      BY <1>1, <2>2, <3>1 DEF Left
  <2>. QED
    BY <1>1, <1>2, <2>1, <2>2
<1>6. CASE Abort(k)
  <2>1. Release(SessionOf(i), i) \/ UNCHANGED <<db, now, removal, yields>>
    BY <1>6 DEF Abort
  <2>2. CASE Release(SessionOf(i), i)
    <3>1. now' = now
      BY <2>2 DEF Release
    <3>2. ASSUME NEW s \in Sessions, s = SessionOf(i)
          PROVE  db'.runs = db.runs
      BY <1>1, <2>2, <3>2, ReleaseMoves
    <3>. QED
      BY <1>1, <3>1, <3>2 DEF Left
  <2>. QED
    BY <1>1, <1>2, <2>1, <2>2
<1>7. ASSUME NEW st \in {"queued", "running", "complete", "cancelled", "failed"}, NEW a, Result(i, st, a)
      PROVE  now' = now /\ \A j \in Ids : j # i => Left(db, db', j)
  <2>1. st \in {"queued", "running", "blocked", "complete", "cancelled", "failed"} /\ now' = now
    BY <1>7 DEF Result
  <2>. QED
    BY <1>1, <1>7, <2>1, ResultMoves
<1>8. CASE ReportRefusal(k)
  <2>1. slot[k].answer \in {"queued", "failed"}
    BY <1>8 DEF ReportRefusal, DInv, Fits, SlotFits
  <2>2. Result(i, slot[k].answer, Unassessed) \/ UNCHANGED <<db, now, removal, yields>>
    BY <1>8 DEF ReportRefusal
  <2>. QED
    BY <1>1, <1>2, <1>7, <1>8, <2>1, <2>2
<1>9. CASE ReportProgress(k)
  <2>. DEFINE st == IF reg[i].event # "none" THEN reg[i].event ELSE "running"
  <2>1. st \in {"queued", "running", "complete", "cancelled", "failed"}
    BY <1>1 DEF DInv, DispatchTypeOK, Events
  <2>2. (\E a : Result(i, st, a)) \/ UNCHANGED <<db, now, removal, yields>>
    BY <1>9 DEF ReportProgress
  <2>. HIDE DEF st
  <2>3. CASE \E a : Result(i, st, a)
    <3>1. now' = now /\ \A j \in Ids : j # i => Left(db, db', j)
      BY <1>7, <2>1, <2>3
    <3>. QED
      BY <1>1, <1>9, <2>3, <3>1 DEF st
  <2>. QED
    BY <1>1, <1>2, <2>2, <2>3
<1>. QED
  BY <1>3, <1>4, <1>5, <1>6, <1>8, <1>9 DEF SlotStep

\* A dispatch task neither claims its run nor, while another works on it, gives
\* it back.
LEMMA SlotRests ==
  ASSUME DInv, NEW k \in Slots, SlotStep(k), NEW i, i = slot[k].run
  PROVE  /\ db'.runs[i].status = "claimed" =>
              db.runs[i].status = "claimed" /\ db'.runs[i].until = db.runs[i].until
         /\ db'.runs[i].status = "queued" =>
              \/ db.runs[i].status = "queued"
              \/ slot[k].pc = "report" /\ slot'[k].pc = "idle" /\ reg' = reg
         /\ reg'[i].state \in {"absent", "reserved"} => reg[i].state \in {"absent", "reserved"}
<1>1. i \in Ids /\ DispatchTypeOK /\ IInv
  BY SlotWrites DEF DInv
<1>2. ASSUME NEW st \in {"queued", "running", "complete", "cancelled", "failed"}, NEW a, Result(i, st, a)
      PROVE  db'.runs[i].status \in {st, "none", "cancelled"}
  <2>1. st \in {"queued", "running", "blocked", "complete", "cancelled", "failed"}
    OBVIOUS
  <2>. QED
    BY <1>1, <1>2, <2>1, ResultMoves
<1>3. /\ db'.runs[i].status = "claimed" =>
           db.runs[i].status = "claimed" /\ db'.runs[i].until = db.runs[i].until
      /\ db'.runs[i].status = "queued" =>
           \/ db.runs[i].status = "queued"
           \/ slot[k].pc = "report" /\ slot'[k].pc = "idle" /\ reg' = reg
  <2>1. \/ Left(db, db', i)
        \/ Consume(i)
        \/ ReportRefusal(k) /\ \E st \in {"queued", "failed"} : \E a : Result(i, st, a)
        \/ ReportProgress(k)
             /\ \E a : Result(i, IF reg[i].event # "none" THEN reg[i].event ELSE "running", a)
    BY SlotMoves
  <2>2. CASE Left(db, db', i)
    BY <2>2 DEF Left
  <2>3. CASE Consume(i)
    BY <1>1, <2>3, ConsumeMoves
  <2>4. CASE ReportRefusal(k) /\ \E st \in {"queued", "failed"} : \E a : Result(i, st, a)
    <3>1. db'.runs[i].status \in {"queued", "failed", "none", "cancelled"}
      BY <1>2, <2>4
    <3>2. slot[k].pc = "report" /\ slot'[k].pc = "idle" /\ reg' = reg
      BY <1>1, <2>4 DEF ReportRefusal, DispatchTypeOK, Idle
    <3>. QED
      BY <3>1, <3>2
  <2>5. CASE ReportProgress(k)
               /\ \E a : Result(i, IF reg[i].event # "none" THEN reg[i].event ELSE "running", a)
    <3>. DEFINE st == IF reg[i].event # "none" THEN reg[i].event ELSE "running"
    <3>1. st \in {"running", "complete", "cancelled", "failed"}
      BY <1>1 DEF DispatchTypeOK, Events
    <3>2. PICK a : Result(i, st, a)
      BY <2>5
    <3>. HIDE DEF st
    <3>3. db'.runs[i].status \in {st, "none", "cancelled"}
      BY <1>2, <3>1, <3>2
    <3>. QED
      BY <3>1, <3>3
  <2>. QED
    BY <2>1, <2>2, <2>3, <2>4, <2>5
<1>4. reg'[i].state \in {"absent", "reserved"} => reg[i].state \in {"absent", "reserved"}
  <2>1. CASE Reserve(k)
    BY <1>1, <2>1 DEF Reserve, InRegistry
  <2>2. CASE Plan(k) \/ TakeLease(k) \/ TakePrompt(k) \/ Abort(k)
    <3>1. slot[k].pc \in Starting
      BY <2>2 DEF Plan, TakeLease, TakePrompt, Abort, Starting
    <3>. QED
      BY <3>1 DEF DInv, Fits, SlotFits
  <2>3. CASE ReportRefusal(k) \/ ReportProgress(k)
    BY <2>3 DEF ReportRefusal, ReportProgress
  <2>. QED
    BY <2>1, <2>2, <2>3 DEF SlotStep
<1>. QED
  BY <1>3, <1>4

\* A run that starts or goes on is watched, and reported as running.
LEMMA SlotRecords ==
  ASSUME DInv, Kept, NEW k \in Slots, SlotStep(k), NEW i, i = slot[k].run, reg'[i].state = "running"
  PROVE  Watched(i)' /\ Recorded(i)'
<1>1. /\ i \in Ids /\ slot[k].pc # "idle" /\ now' = now
      /\ slot'[k].pc = "idle" \/ slot'[k].run = i
      /\ \/ reg[i].state = "running" /\ reg'[i] = reg[i]
         \/ slot[k].pc = "consume" /\ slot'[k].pc = "watch" /\ Consume(i)
  BY SlotWrites, SlotMoves
<1>2. now \in Int /\ LeaseTime \in Nat /\ IInv
  BY TimesAssumption DEF DInv, IInv, TypeOK
<1>3. CASE slot[k].pc = "consume" /\ slot'[k].pc = "watch" /\ Consume(i)
  <2>1. Scheduled(db', i) => db'.runs[i].status = "running" /\ db'.runs[i].until = now + LeaseTime
    BY <1>1, <1>2, <1>3, ConsumeMoves
  <2>. QED
    BY <1>1, <1>2, <1>3, <2>1 DEF Watched, Recorded
<1>4. CASE reg[i].state = "running" /\ reg'[i] = reg[i]
  <2>1. Watched(i) /\ Recorded(i) /\ i \notin db.queue /\ reg[i].event = "none"
    BY <1>1, <1>4, WorkTaken DEF Kept
  <2>2. slot[k].pc = "watch"
    BY <1>1, <1>4, <2>1 DEF Kept, OneSlot, Alive, Watched
  <2>3. ReportProgress(k)
    BY <2>2 DEF SlotStep, Reserve, Plan, TakeLease, TakePrompt, Abort, ReportRefusal
  <2>4. slot' = slot /\ ((\E a : Result(i, "running", a)) \/ UNCHANGED <<db, now, removal, yields>>)
    BY <2>1, <2>3 DEF ReportProgress
  <2>5. Watched(i)'
    BY <2>1, <2>4 DEF Watched
  <2>6. CASE \E a : Result(i, "running", a)
    <3>1. \/ db'.runs[i].task = NoTask
          \/ db'.runs[i].status = "running" /\ db'.runs[i].until = now + LeaseTime
      BY <1>1, <1>2, <2>1, <2>6, ResultMoves
    <3>. QED
      BY <1>1, <1>2, <2>5, <3>1 DEF Recorded, Scheduled
  <2>. QED
    BY <2>1, <2>4, <2>5, <2>6 DEF Recorded, Scheduled
<1>. QED
  BY <1>1, <1>3, <1>4

LEMMA SlotKept ==
  ASSUME DInv, Kept, NEW k \in Slots, SlotStep(k)
  PROVE  Kept'
<1>. DEFINE i == slot[k].run
<1>1. /\ i \in Ids /\ slot[k].pc # "idle" /\ now' = now
      /\ \A l \in Slots : l # k => slot'[l] = slot[l]
      /\ slot'[k].pc = "idle" \/ slot'[k].run = i
      /\ slot'[k].pc \in Refusable => slot[k].pc \in Refusable
      /\ \A j \in Ids : j # i => reg'[j] = reg[j]
      /\ \A j \in Ids : j # i => Left(db, db', j)
  BY SlotWrites, SlotMoves
<1>2. /\ db'.runs[i].status = "claimed" =>
           db.runs[i].status = "claimed" /\ db'.runs[i].until = db.runs[i].until
      /\ db'.runs[i].status = "queued" =>
           \/ db.runs[i].status = "queued"
           \/ slot[k].pc = "report" /\ slot'[k].pc = "idle" /\ reg' = reg
      /\ reg'[i].state \in {"absent", "reserved"} => reg[i].state \in {"absent", "reserved"}
  BY SlotRests
<1>3. reg'[i].state = "running" => Alive(i)
  BY SlotWrites DEF Alive, DInv, Fits, SlotFits, Starting
<1>4. \A l \in Slots : slot'[l].pc # "idle" =>
        slot[l].pc # "idle" /\ slot'[l].run = slot[l].run /\ slot[l].run \in Ids
  BY <1>1 DEF DInv, Fits, SlotFits, Issued
<1>5. \A l \in Slots : slot'[l].pc \in Refusable => slot[l].pc \in Refusable
  BY <1>1
<1>6. ASSUME NEW j \in Ids
      PROVE  /\ db'.runs[j].status = "claimed" =>
                  db.runs[j].status = "claimed" /\ db'.runs[j].until = db.runs[j].until
             /\ Alive(j)' => Alive(j)
             /\ reg'[j].state \in {"absent", "reserved"} => reg[j].state \in {"absent", "reserved"}
  <2>1. CASE j = i
    BY <1>2, <1>3, <2>1 DEF Alive
  <2>2. CASE j # i
    BY <1>1, <2>2, LeftRests DEF Alive
  <2>. QED
    BY <2>1, <2>2
<1>7. ClaimsLast'
  <2>. SUFFICES ASSUME NEW l \in Slots, slot'[l].pc \in Refusable,
                       NEW j \in Ids, j = slot[l].run, j = slot'[l].run, slot[l].pc \in Refusable,
                       db'.runs[j].status = "claimed"
                PROVE  now <= db'.runs[j].until
    BY <1>1, <1>4, <1>5 DEF ClaimsLast, Refusable, Starting
  <2>. QED
    BY <1>6 DEF Kept, ClaimsLast
<1>8. NotRequeued'
  <2>. SUFFICES ASSUME NEW l \in Slots, slot'[l].pc \in Refusable,
                       NEW j \in Ids, j = slot[l].run, j = slot'[l].run, slot[l].pc \in Refusable,
                       reg'[j].state \in {"absent", "reserved"}, db'.runs[j].status = "queued"
                PROVE  FALSE
    BY <1>4, <1>5 DEF NotRequeued, Refusable, Starting
  <2>1. reg[j].state \in {"absent", "reserved"} /\ db.runs[j].status # "queued"
    BY <1>6 DEF Kept, NotRequeued
  <2>2. j = i
    BY <1>1, <2>1, LeftRests
  <2>3. slot'[k].pc = "idle"
    BY <1>2, <2>1, <2>2
  <2>4. l # k /\ slot[l].pc # "idle"
    BY <2>3 DEF Refusable, Starting
  <2>. QED
    BY <1>1, <2>1, <2>2, <2>4 DEF Kept, OneSlot, Alive
<1>9. OneSlot'
  <2>. SUFFICES ASSUME NEW l \in Slots, NEW m \in Slots, slot'[l].pc # "idle", slot'[m].pc # "idle",
                       NEW j \in Ids, j = slot'[l].run, slot'[l].run = slot'[m].run, Alive(j)'
                PROVE  l = m
    BY <1>4 DEF OneSlot, Alive
  <2>. QED
    BY <1>4, <1>6 DEF Kept, OneSlot
<1>10. ASSUME NEW j \in Ids, reg'[j].state = "running"
       PROVE  Watched(j)' /\ Recorded(j)'
  <2>1. CASE j = i
    BY <1>10, <2>1, SlotRecords
  <2>2. CASE j # i
    <3>1. reg[j].state = "running" /\ Watched(j) /\ Recorded(j)
      BY <1>1, <1>10, <2>2 DEF Kept
    <3>2. Watched(j)'
      BY <1>1, <2>2, <3>1 DEF Watched
    <3>. QED
      BY <1>1, <2>2, <3>1, <3>2, LeftRests
  <2>. QED
    BY <2>1, <2>2
<1>. QED
  BY <1>7, <1>8, <1>9, <1>10 DEF Kept

\* The steps of a body change the state of its own entry only.
LEMMA BodyKept ==
  ASSUME DInv, Kept, NEW i \in Ids, Renew(i) \/ BodyEnds(i) \/ BodyReleases(i) \/ Reap(i)
  PROVE  Kept'
<1>1. slot' = slot /\ now' = now /\ reg \in [Ids -> Entries]
  BY DEF Renew, BodyEnds, BodyReleases, Reap, Lease, Release, DInv, DispatchTypeOK, Entries
<1>2. \A j \in Ids : \/ reg'[j].state = reg[j].state
                     \/ reg'[j].state \in {"ended", "finished"}
                     \/ reg'[j].state = "absent" /\ \A k \in Slots : slot[k].run # j
  <2>1. CASE Renew(i)
    BY <1>1, <2>1 DEF Renew, Entries
  <2>2. CASE BodyEnds(i)
    <3>1. PICK ev \in Events : reg' = [reg EXCEPT ![i].state = "ended", ![i].event = ev]
      BY <2>2 DEF BodyEnds, Events
    <3>2. reg'[i].state = "ended" /\ \A j \in Ids : j # i => reg'[j] = reg[j]
      BY <3>1, EntryEnds DEF DInv
    <3>. QED
      BY <3>2
  <2>3. CASE BodyReleases(i)
    BY <1>1, <2>3 DEF BodyReleases, Entries
  <2>4. CASE Reap(i)
    <3>1. PICK e : e.state = "absent" /\ reg' = [reg EXCEPT ![i] = e]
      BY <2>4 DEF Reap, Absent
    <3>. QED
      BY <1>1, <2>4, <3>1 DEF Reap
  <2>. QED
    BY <2>1, <2>2, <2>3, <2>4
<1>3. \A j \in Ids : Left(db, db', j)
  <2>1. reg[i].control \/ reg[i].state = "ended" => SessionOf(i) \in Sessions
    BY DEF DInv, Fits, EntryFits, Issued
  <2>2. \/ reg[i].control /\ Lease(SessionOf(i), i)
        \/ reg[i].state = "ended" /\ Release(SessionOf(i), i)
        \/ UNCHANGED db
    BY DEF Renew, BodyEnds, BodyReleases, Reap
  <2>3. ASSUME NEW s \in Sessions, Lease(s, i) \/ Release(s, i)
        PROVE  \A j \in Ids : Left(db, db', j)
    <3>1. i \in Ids \cup Clients /\ IInv
      BY DEF DInv
    <3>. QED
      BY <2>3, <3>1, LeaseMoves, ReleaseMoves DEF Left
  <2>4. CASE UNCHANGED db
    BY <2>4 DEF Left
  <2>. QED
    BY <2>1, <2>2, <2>3, <2>4
<1>. QED
  BY <1>1, <1>2, <1>3, KeptStill

\* Every step keeps the runs under way in one pair of hands.
LEMMA StepKept ==
  ASSUME SlowPlan = FALSE, DInv, DInv', Kept, [DispatchNext]_dvars
  PROVE  Kept'
<1>1. CASE Users \/ UNCHANGED dvars
  <2>1. slot' = slot /\ reg' = reg /\ now' = now /\ \A i \in Ids : Left(db, db', i)
    BY <1>1, UsersLeave DEF Users, Leaves, Left, dvars, DInv
  <2>. QED
    BY <2>1, KeptStill
<1>2. CASE Crash
  BY <1>2 DEF Crash, Idle, Absent, Kept, ClaimsLast, NotRequeued, OneSlot, Refusable, Starting
<1>3. CASE DispatchTick
  <2>1. InTime /\ now' = now + 1 /\ UNCHANGED <<db, slot, reg>> /\ now \in Int
    BY <1>3 DEF DispatchTick, Tick, DInv, IInv, TypeOK
  <2>2. ClaimsLast'
    <3>. SUFFICES ASSUME NEW k \in Slots, slot[k].pc \in Refusable,
                         db.runs[slot[k].run].status = "claimed"
                  PROVE  now + 1 <= db.runs[slot[k].run].until
      BY <2>1 DEF ClaimsLast
    <3>1. now < db.runs[slot[k].run].until
      BY <2>1 DEF InTime, Refusable, Starting
    <3>2. db.runs[slot[k].run].until \in Int
      <4>1. slot[k].run \in Ids /\ db \in Database
        BY DEF DInv, Fits, SlotFits, Issued, IInv, TypeOK, Refusable, Starting
      <4>. QED
        BY <4>1 DEF Database, Runs
    <3>. QED
      BY <2>1, <3>1, <3>2
  <2>3. ASSUME NEW i \in Ids, reg'[i].state = "running"
        PROVE  Watched(i)' /\ Recorded(i)'
    <3>1. Watched(i) /\ Recorded(i)
      BY <2>1, <2>3 DEF Kept
    <3>2. Scheduled(db, i) => now < db.runs[i].until
      BY <2>1, <3>1 DEF InTime, Watched, Recorded
    <3>3. db.runs[i].until \in Int
      BY DEF DInv, IInv, TypeOK, Database, Runs
    <3>. QED
      BY <2>1, <3>1, <3>2, <3>3 DEF Watched, Recorded, Scheduled
  <2>. QED
    BY <2>1, <2>2, <2>3 DEF Kept, NotRequeued, OneSlot, Alive
<1>4. ASSUME NEW c \in Clients,
             \/ \E s \in Sessions : FgReserve(c, s)
             \/ FgStart(c) \/ FgRenew(c) \/ FgEnds(c) \/ FgReleases(c)
      PROVE  Kept'
  <2>1. slot' = slot /\ reg' = reg /\ now' = now
    BY <1>4 DEF FgReserve, FgStart, FgRenew, FgEnds, FgReleases, Lease, Release
  <2>2. fg[c].pc # "idle" => fg[c].session \in Sessions
    BY DEF DInv, Fits, FgFits
  <2>3. \/ fg[c].pc # "idle" /\ (Lease(fg[c].session, c) \/ Release(fg[c].session, c))
        \/ UNCHANGED db
    BY <1>4 DEF FgReserve, FgStart, FgRenew, FgEnds, FgReleases
  <2>4. ASSUME NEW s \in Sessions, Lease(s, c) \/ Release(s, c)
        PROVE  \A j \in Ids : Left(db, db', j)
    <3>1. c \in Ids \cup Clients /\ IInv
      BY DEF DInv
    <3>. QED
      BY <2>4, <3>1, LeaseMoves, ReleaseMoves DEF Left
  <2>5. UNCHANGED db => \A j \in Ids : Left(db, db', j)
    BY DEF Left
  <2>6. \A j \in Ids : Left(db, db', j)
    BY <2>2, <2>3, <2>4, <2>5
  <2>. QED
    BY <2>1, <2>6, KeptStill
<1>. QED
  BY <1>1, <1>2, <1>3, <1>4, DispatchKept, SlotKept, BodyKept DEF DispatchNext, Serve, Foreground

\* Where a dispatch does not outlast its claim, an occurrence that an agent works
\* on is the task's active one, so no other is created beside it (scheduled::serve,
\* due_scheduled).
THEOREM WorkRecorded ==
  ASSUME SlowPlan = FALSE
  PROVE  DispatchSpec => []WorkIsRecorded
<1>1. DispatchInit => Kept
  BY DEF DispatchInit, Idle, Absent, Kept, ClaimsLast, NotRequeued, OneSlot, Refusable, Starting
<1>2. DInv /\ DInv' /\ Kept /\ [DispatchNext]_dvars => Kept'
  BY StepKept
<1>3. DispatchSpec => []Kept
  BY <1>1, <1>2, DispatchInvariance, PTL DEF DispatchSpec
<1>4. Kept => WorkIsRecorded
  BY DEF Kept, Recorded, WorkIsRecorded, Active
<1>. QED
  BY <1>3, <1>4, PTL
=============================================================================
