------------------------ MODULE ScheduledStoreProofs ------------------------
(***************************************************************************)
(* Theorems about ScheduledStore for every value of its constants.         *)
(*                                                                         *)
(* The inductive invariant is Sound(db, now): the types, and what makes    *)
(* delivery exact and occurrences single and ordered.  A transaction is a  *)
(* composition of passes over the database; most passes only withdraw      *)
(* work, and Withdraws says so once and for all.  The last part is the     *)
(* refinement: the store implements PromptDelivery.                        *)
(***************************************************************************)
EXTENDS ScheduledStore, FiniteSetTheorems, WellFoundedInduction, TLAPS

\* Ids that have not been given out are in no table.
Unused(d) ==
  \A i \in Ids : i > d.last => /\ d.runs[i].task = NoTask /\ i \notin d.queue
                               /\ d.sent[i] = 0

Once(d) ==
  \A i \in Ids :
    /\ d.sent[i] <= 1
    /\ d.sent[i] > 0 => i \notin d.queue /\ d.runs[i].status # "claimed"
    /\ d.runs[i].status \in {"running", "blocked", "complete", "interrupted"} => d.sent[i] = 1

\* A run occupies its task while it is pending or under way, and a goal's as long
\* as its prompt is queued.
Busy(d, i) == \/ d.runs[i].status \in Active
              \/ i \in d.queue /\ Kind[d.runs[i].task] = "goal"

Alone(d) ==
  \A i, j \in Ids : /\ Scheduled(d, i) /\ d.runs[i].task = d.runs[j].task
                    /\ Busy(d, i) /\ Busy(d, j)
                    => i = j

\* No run is dated in the future.
Dated(d, n) == \A i \in Ids : Scheduled(d, i) => d.runs[i].due <= n

InOrder(d) ==
  \A i \in Ids : Scheduled(d, i) /\ Kind[d.runs[i].task] # "goal" =>
    /\ \A j \in Ids : d.runs[j].task = d.runs[i].task /\ i < j => d.runs[i].due < d.runs[j].due
    /\ LET t == d.runs[i].task
       IN  d.task[t].next # NoTime => d.runs[i].due < d.task[t].next

\* Every queued prompt belongs to a session, a goal's to the session of the goal.
Placed(d) ==
  \A i \in d.queue :
    /\ d.prompt[i].session \in Sessions
    /\ Scheduled(d, i) /\ Kind[d.runs[i].task] = "goal" => d.prompt[i].session = Home[d.runs[i].task]

Sound(d, n) ==
  /\ d \in Database /\ Unused(d) /\ Placed(d) /\ Once(d) /\ Alone(d)
  /\ Dated(d, n) /\ InOrder(d)

IInv == TypeOK /\ Sound(db, now)

\* e differs from d, at time n, at most by work withdrawn and by tasks put off
\* to a later time or for good; a goal's next turn may get any time.
Withdraws(d, e, n) ==
  /\ e \in Database
  /\ e.last = d.last /\ e.prompt = d.prompt /\ e.sent = d.sent /\ e.queue \subseteq d.queue
  /\ \A i \in Ids :
       \/ e.runs[i].task = NoTask /\ e.runs[i].status \in {"none", "cancelled"}
       \/ /\ e.runs[i].task = d.runs[i].task /\ e.runs[i].due = d.runs[i].due
          /\ \/ e.runs[i].status = d.runs[i].status /\ e.runs[i].until = d.runs[i].until
             \/ e.runs[i].status = "cancelled" /\ i \in d.queue
  /\ \A t \in Tasks : \/ Kind[t] = "goal"
                      \/ e.task[t].next = d.task[t].next \/ e.task[t].next = NoTime
                      \/ e.task[t].next > n

-----------------------------------------------------------------------------
\* A set of naturals that is not empty has a least member.
LEMMA Least ==
  ASSUME NEW S \in SUBSET Nat, S # {}
  PROVE  \E x \in S : \A y \in S : x <= y
<1>1. PICK x \in S : \A y \in S : ~ (<<y, x>> \in OpToRel(<, Nat))
  BY NatLessThanWellFounded, WFMin
<1>2. \A y \in S : ~ (y < x)
  BY <1>1 DEF OpToRel
<1>. QED
  BY <1>2

\* The next time of a schedule lies strictly in the future.
LEMMA NextAfterLater ==
  ASSUME NEW sch \in SUBSET Nat, NEW n \in Nat
  PROVE  /\ NextAfter(sch, n) \in Nat \cup {NoTime}
         /\ NextAfter(sch, n) # NoTime => NextAfter(sch, n) > n
<1>1. CASE Later(sch, n) = {}
  BY <1>1 DEF NextAfter, NoTime
<1>2. CASE Later(sch, n) # {}
  <2>1. \E x \in Later(sch, n) : \A y \in Later(sch, n) : x <= y
    BY <1>2, Least DEF Later
  <2>2. NextAfter(sch, n) \in Later(sch, n)
    BY <1>2, <2>1 DEF NextAfter
  <2>. QED
    BY <2>2 DEF Later
<1>. QED
  BY <1>1, <1>2

\* Fewer busy runs are alone, and fewer prompts are placed.
LEMMA BusyAlone ==
  ASSUME NEW d, NEW e, Alone(d),
         \A i \in Ids : Scheduled(e, i) /\ Busy(e, i) => e.runs[i].task = d.runs[i].task /\ Busy(d, i)
  PROVE  Alone(e)
  BY DEF Alone, Scheduled

LEMMA StillPlaced ==
  ASSUME NEW d, NEW e, Placed(d), e.queue \subseteq d.queue, e.prompt = d.prompt,
         \A i \in d.queue : Scheduled(e, i) => e.runs[i].task = d.runs[i].task
  PROVE  Placed(e)
  BY DEF Placed, Scheduled

\* Withdrawing work keeps a database sound.
LEMMA WithdrawsSound ==
  ASSUME NEW n \in Nat, NEW d, NEW e, Sound(d, n), Withdraws(d, e, n)
  PROVE  Sound(e, n)
<1>1. /\ e \in Database /\ d \in Database /\ e.last = d.last /\ e.prompt = d.prompt /\ e.sent = d.sent
      /\ e.queue \subseteq d.queue
  BY DEF Withdraws, Sound
<1>2. \A i \in Ids : d.runs[i] \in Runs /\ e.runs[i] \in Runs
  BY <1>1 DEF Database
<1>3. Unused(e)
  BY <1>1 DEF Sound, Unused, Withdraws
<1>4. Once(e)
  BY <1>1 DEF Sound, Once, Withdraws
<1>5. Alone(e) /\ Placed(e)
  <2>1. ASSUME NEW i \in Ids, Scheduled(e, i)
        PROVE  e.runs[i].task = d.runs[i].task /\ (Busy(e, i) => Busy(d, i))
    BY <1>1, <2>1 DEF Withdraws, Scheduled, Busy, Active
  <2>2. d.queue \subseteq Ids /\ Alone(d) /\ Placed(d)
    BY <1>1 DEF Sound, Database
  <2>. QED
    BY <1>1, <2>1, <2>2, BusyAlone, StillPlaced
<1>6. Dated(e, n)
  BY DEF Withdraws, Sound, Dated, Scheduled
<1>7. InOrder(e)
  <2> SUFFICES ASSUME NEW i \in Ids, e.runs[i].task # NoTask, Kind[e.runs[i].task] # "goal"
               PROVE  /\ \A j \in Ids : e.runs[j].task = e.runs[i].task /\ i < j
                                        => e.runs[i].due < e.runs[j].due
                      /\ e.task[e.runs[i].task].next # NoTime
                         => e.runs[i].due < e.task[e.runs[i].task].next
    BY DEF InOrder, Scheduled
  <2>1. e.runs[i].task = d.runs[i].task /\ e.runs[i].due = d.runs[i].due /\ d.runs[i].due <= n
        /\ d.runs[i].task \in Tasks /\ d.runs[i].due \in Nat
    BY <1>2 DEF Withdraws, Sound, Dated, Scheduled, Runs
  <2>2. ASSUME NEW j \in Ids, e.runs[j].task = e.runs[i].task, i < j
        PROVE  e.runs[i].due < e.runs[j].due
    BY <1>2, <2>1, <2>2 DEF Withdraws, Sound, InOrder, Scheduled
  <2>3. ASSUME e.task[e.runs[i].task].next # NoTime
        PROVE  e.runs[i].due < e.task[e.runs[i].task].next
    <3>1. e.task[d.runs[i].task].next \in Nat
      BY <1>1, <2>1, <2>3 DEF Database, TaskRows
    <3>. QED
      BY <2>1, <2>3, <3>1 DEF Withdraws, Sound, InOrder, Scheduled
  <2>. QED
    BY <2>2, <2>3
<1>. QED
  BY <1>1, <1>3, <1>4, <1>5, <1>6, <1>7 DEF Sound

\* One withdrawal after the other is a withdrawal.
LEMMA WithdrawsTwice ==
  ASSUME NEW n \in Nat, NEW c \in Database, NEW d, NEW e, Withdraws(c, d, n), Withdraws(d, e, n)
  PROVE  Withdraws(c, e, n)
<1>1. \A i \in Ids :
       \/ e.runs[i].task = NoTask /\ e.runs[i].status \in {"none", "cancelled"}
       \/ /\ e.runs[i].task = c.runs[i].task /\ e.runs[i].due = c.runs[i].due
          /\ \/ e.runs[i].status = c.runs[i].status /\ e.runs[i].until = c.runs[i].until
             \/ e.runs[i].status = "cancelled" /\ i \in c.queue
  BY DEF Withdraws
<1>2. \A t \in Tasks : \/ Kind[t] = "goal"
                        \/ e.task[t].next = c.task[t].next \/ e.task[t].next = NoTime
                        \/ e.task[t].next > n
  BY DEF Withdraws
<1>. QED
  BY <1>1, <1>2 DEF Withdraws

-----------------------------------------------------------------------------
(* The passes that only withdraw work. *)

\* A database that keeps all but the named fields stays typed.
LEMMA SetStatusType ==
  ASSUME NEW d \in Database, NEW I, NEW st \in Active \cup Ended
  PROVE  /\ SetStatus(d, I, st) \in Database
         /\ \A i \in Ids : /\ SetStatus(d, I, st).runs[i].task = d.runs[i].task
                           /\ SetStatus(d, I, st).runs[i].due = d.runs[i].due
                           /\ i \in I => SetStatus(d, I, st).runs[i].status = st
                           /\ i \notin I => SetStatus(d, I, st).runs[i] = d.runs[i]
<1>. DEFINE f == [i \in Ids |-> IF i \in I THEN [d.runs[i] EXCEPT !.status = st, !.until = 0]
                                           ELSE d.runs[i]]
<1>1. SetStatus(d, I, st) = [d EXCEPT !.runs = f]
  BY DEF SetStatus
<1>2. ASSUME NEW i \in Ids
      PROVE  /\ f[i] \in Runs
             /\ f[i].task = d.runs[i].task /\ f[i].due = d.runs[i].due
             /\ i \in I => f[i].status = st
             /\ i \notin I => f[i] = d.runs[i]
  <2>1. d.runs[i] \in Runs
    BY DEF Database
  <2>. QED
    BY <2>1 DEF Runs
<1>3. f \in [Ids -> Runs]
  BY <1>2
<1>4. [d EXCEPT !.runs = f] \in Database /\ [d EXCEPT !.runs = f].runs = f
  BY <1>3 DEF Database
<1>. QED
  BY <1>1, <1>2, <1>4, ZenonT(40)

\* Withdrawing the prompts of some tasks (cancel_scheduled_pending).
LEMMA CancelPendingWithdraws ==
  ASSUME NEW n \in Nat, NEW d \in Database, NEW T
  PROVE  Withdraws(d, CancelPending(d, T), n)
<1>. DEFINE P == {i \in d.queue : d.runs[i].task \in T}
            e == SetStatus(d, P, "cancelled")
<1>1. /\ e \in Database
      /\ \A i \in Ids : /\ e.runs[i].task = d.runs[i].task /\ e.runs[i].due = d.runs[i].due
                        /\ i \in P => e.runs[i].status = "cancelled"
                        /\ i \notin P => e.runs[i] = d.runs[i]
  BY SetStatusType DEF Ended
<1>2. /\ e.queue = d.queue /\ e.last = d.last /\ e.prompt = d.prompt /\ e.sent = d.sent /\ e.task = d.task
  BY DEF SetStatus, Database
<1>3. CancelPending(d, T) = [e EXCEPT !.queue = d.queue \ P]
  BY DEF CancelPending
<1>. HIDE DEF e, P
<1>4. /\ CancelPending(d, T) \in Database /\ CancelPending(d, T).queue = d.queue \ P
      /\ CancelPending(d, T).runs = e.runs /\ CancelPending(d, T).task = d.task
      /\ CancelPending(d, T).last = d.last /\ CancelPending(d, T).prompt = d.prompt
      /\ CancelPending(d, T).sent = d.sent
  <2>1. d.queue \ P \in SUBSET Ids
    BY DEF Database
  <2>2. CancelPending(d, T) \in Database /\ CancelPending(d, T).queue = d.queue \ P
    BY <1>1, <1>3, <2>1 DEF Database
  <2>3. /\ CancelPending(d, T).runs = e.runs /\ CancelPending(d, T).task = e.task
        /\ CancelPending(d, T).last = e.last /\ CancelPending(d, T).prompt = e.prompt
        /\ CancelPending(d, T).sent = e.sent
    BY <1>1, <1>3 DEF Database
  <2>. QED
    BY <1>2, <2>2, <2>3
<1>. QED
  BY <1>1, <1>4 DEF Withdraws, P

\* Switching tasks to no time, to their own or to a later one.
LEMMA SetTasksWithdraws ==
  ASSUME NEW n \in Nat, NEW d \in Database, NEW T, NEW en \in BOOLEAN, NEW nx \in Nat \cup {NoTime},
         \A t \in T \cap Tasks : nx = d.task[t].next \/ nx = NoTime \/ nx > n
  PROVE  Withdraws(d, SetTasks(d, T, en, nx), n)
<1>. DEFINE f == [t \in Tasks |-> IF t \in T THEN [d.task[t] EXCEPT !.enabled = en, !.next = nx]
                                             ELSE d.task[t]]
<1>1. SetTasks(d, T, en, nx) = [d EXCEPT !.task = f]
  BY DEF SetTasks
<1>2. ASSUME NEW t \in Tasks
      PROVE  f[t] \in TaskRows /\ (t \in T => f[t].next = nx) /\ (t \notin T => f[t] = d.task[t])
  <2>1. d.task[t] \in TaskRows
    BY DEF Database
  <2>. QED
    BY <2>1 DEF TaskRows
<1>3. f \in [Tasks -> TaskRows]
  BY <1>2
<1>. QED
  BY <1>1, <1>2, <1>3 DEF Withdraws, Database

\* Giving tasks a later time.
LEMMA SetNextWithdraws ==
  ASSUME NEW n \in Nat, NEW d \in Database, NEW T, NEW nx \in Nat \cup {NoTime}, nx > n
  PROVE  Withdraws(d, SetNext(d, T, nx), n)
<1>. DEFINE f == [t \in Tasks |-> IF t \in T THEN [d.task[t] EXCEPT !.next = nx] ELSE d.task[t]]
<1>1. SetNext(d, T, nx) = [d EXCEPT !.task = f]
  BY DEF SetNext
<1>2. ASSUME NEW t \in Tasks
      PROVE  f[t] \in TaskRows /\ (t \in T => f[t].next = nx) /\ (t \notin T => f[t] = d.task[t])
  <2>1. d.task[t] \in TaskRows
    BY DEF Database
  <2>. QED
    BY <2>1 DEF TaskRows
<1>3. f \in [Tasks -> TaskRows]
  BY <1>2
<1>. QED
  BY <1>1, <1>2, <1>3 DEF Withdraws, Database

\* Deleting tasks with the rows that cascade.
LEMMA DropTasksWithdraws ==
  ASSUME NEW n \in Nat, NEW d \in Database, NEW T
  PROVE  Withdraws(d, DropTasks(d, T), n)
<1>. DEFINE tk == [t \in Tasks |-> IF t \in T
                      THEN [state |-> "gone", enabled |-> FALSE, next |-> NoTime, sched |-> {}]
                      ELSE d.task[t]]
            rn == [i \in Ids |-> IF d.runs[i].task \in T THEN NoRun ELSE d.runs[i]]
            mn == [t \in Tasks |-> IF t \in T THEN [left |-> 0, until |-> 0] ELSE d.mon[t]]
            wk == [s \in Sessions |-> IF \E t \in T : IsGoalTask(t, s) THEN NoWorker ELSE d.worker[s]]
<1>1. DropTasks(d, T) = [d EXCEPT !.task = tk, !.runs = rn, !.mon = mn, !.worker = wk]
  BY DEF DropTasks
<1>2. tk \in [Tasks -> TaskRows] /\ \A t \in Tasks : tk[t].next = d.task[t].next \/ tk[t].next = NoTime
  BY DEF Database, TaskRows
<1>3. \A i \in Ids : rn[i] = NoRun \/ rn[i] = d.runs[i]
  OBVIOUS
<1>4. rn \in [Ids -> Runs]
  BY DEF Database, Runs, NoRun
<1>5. mn \in [Tasks -> [left : Int, until : Nat]]
  BY DEF Database
<1>6. wk \in [Sessions -> [rev : Nat, turns : Nat, stalls : Nat]]
  BY DEF Database, NoWorker
<1>. HIDE DEF tk, rn, mn, wk
<1>7. /\ DropTasks(d, T) \in Database
      /\ DropTasks(d, T).task = tk /\ DropTasks(d, T).runs = rn
      /\ DropTasks(d, T).queue = d.queue /\ DropTasks(d, T).last = d.last
      /\ DropTasks(d, T).prompt = d.prompt
      /\ DropTasks(d, T).sent = d.sent
  BY <1>1, <1>2, <1>4, <1>5, <1>6 DEF Database
<1>. QED
  BY <1>2, <1>3, <1>7 DEF Withdraws, NoRun

\* cleanup_monitors: expired monitors stop, spent ones are deleted.
LEMMA CleanupWithdraws ==
  ASSUME NEW n \in Nat, NEW d \in Database
  PROVE  Withdraws(d, Cleanup(d, n), n)
<1>. DEFINE E == {t \in Tasks : Kind[t] = "monitor" /\ Live(d, t) /\ d.mon[t].until <= n}
<1>1. Withdraws(d, CancelPending(d, E), n)
  BY CancelPendingWithdraws
<1>2. Withdraws(CancelPending(d, E), ExpireMonitors(d, n), n)
  BY <1>1, SetTasksWithdraws DEF ExpireMonitors, Withdraws
<1>3. Withdraws(d, ExpireMonitors(d, n), n)
  BY <1>1, <1>2, WithdrawsTwice
<1>4. Withdraws(ExpireMonitors(d, n), Cleanup(d, n), n)
  BY <1>3, DropTasksWithdraws DEF Cleanup, DropSpent, Withdraws
<1>. QED
  BY <1>3, <1>4, WithdrawsTwice

\* yield_goal_pending in queue_prompt: foreground input withdraws a goal prompt.
LEMMA YieldGoalWithdraws ==
  ASSUME NEW n \in Nat, NEW d \in Database, NEW s
  PROVE  Withdraws(d, YieldGoal(d, s, n), n)
<1>. DEFINE G == GoalWaits(d, s)
<1>1. Withdraws(d, CancelPending(d, G), n)
  BY CancelPendingWithdraws
<1>2. Withdraws(CancelPending(d, G), YieldGoal(d, s, n), n)
  <2>1. CancelPending(d, G) \in Database
    BY <1>1 DEF Withdraws
  <2>2. n + 1 \in Nat \cup {NoTime} /\ n + 1 > n
    OBVIOUS
  <2>3. YieldGoal(d, s, n) = SetNext(CancelPending(d, G), {t \in G : d.task[t].enabled}, n + 1)
    BY DEF YieldGoal
  <2>. QED
    BY <2>1, <2>2, <2>3, SetNextWithdraws
<1>. QED
  BY <1>1, <1>2, WithdrawsTwice

\* What a transaction does beyond withdrawing, it does before its cleanup.
LEMMA CleanupSound ==
  ASSUME NEW n \in Nat, NEW d, Sound(d, n)
  PROVE  Sound(Cleanup(d, n), n)
BY CleanupWithdraws, WithdrawsSound DEF Sound

\* A change of other fields, or of the queue by withdrawal only, withdraws nothing else.
LEMMA OtherFieldsWithdraw ==
  ASSUME NEW n \in Nat, NEW d \in Database, NEW e \in Database, e.runs = d.runs,
         e.queue \subseteq d.queue, e.sent = d.sent, e.last = d.last, e.prompt = d.prompt, e.task = d.task
  PROVE  Withdraws(d, e, n)
BY DEF Withdraws

\* A task is written anew with a later time.
LEMMA RowWithdraws ==
  ASSUME NEW n \in Nat, NEW d \in Database, NEW t \in Tasks, NEW row \in TaskRows,
         row.next = NoTime \/ row.next > n
  PROVE  Withdraws(d, [d EXCEPT !.task[t] = row], n)
<1>. DEFINE e == [d EXCEPT !.task[t] = row]
<1>1. e.task = [d.task EXCEPT ![t] = row] /\ e \in Database
  BY DEF Database
<1>2. /\ e.runs = d.runs /\ e.queue = d.queue /\ e.sent = d.sent /\ e.last = d.last /\ e.prompt = d.prompt
  BY DEF Database
<1>3. \A u \in Tasks : e.task[u] = IF u = t THEN row ELSE d.task[u]
  BY <1>1 DEF Database
<1>4. e \in Database
  BY <1>1
<1>. HIDE DEF e
<1>5. Withdraws(d, e, n)
  BY <1>2, <1>3, <1>4 DEF Withdraws
<1>. QED
  BY <1>5 DEF e

-----------------------------------------------------------------------------
(* scheduled_command *)

\* A new task has a time that lies ahead and no runs.
LEMMA CreateTaskSound ==
  ASSUME IInv, NEW t \in Tasks, NEW sch \in Schedules, NEW en \in BOOLEAN, CreateTask(t, sch, en)
  PROVE  Sound(db', now)
<1>. DEFINE row == [state |-> "live", enabled |-> en, next |-> NextAfter(sch, now), sched |-> sch]
<1>1. now \in Nat /\ sch \in SUBSET Nat /\ db \in Database
  BY TimesAssumption DEF IInv, TypeOK
<1>2. NextAfter(sch, now) \in Nat /\ NextAfter(sch, now) > now
  BY <1>1, NextAfterLater DEF CreateTask
<1>3. Withdraws(db, Save(t, row), now)
  BY <1>1, <1>2, RowWithdraws DEF Save, TaskRows
<1>4. Sound(Save(t, row), now)
  BY <1>1, <1>3, WithdrawsSound DEF IInv
<1>. QED
  BY <1>1, <1>4, CleanupSound DEF CreateTask

\* An edited task loses its prompts and gets a time that lies ahead.
LEMMA UpdateTaskSound ==
  ASSUME IInv, NEW t \in Tasks, NEW sch \in Schedules, NEW en \in BOOLEAN, UpdateTask(t, sch, en)
  PROVE  Sound(db', now)
<1>. DEFINE row == [state |-> "live", enabled |-> en, next |-> NextAfter(sch, now), sched |-> sch]
            d == CancelPending(db, {t})
<1>1. now \in Nat /\ sch \in SUBSET Nat /\ db \in Database
  BY TimesAssumption DEF IInv, TypeOK
<1>2. NextAfter(sch, now) \in Nat /\ NextAfter(sch, now) > now
  BY <1>1, NextAfterLater DEF UpdateTask
<1>3. Withdraws(db, d, now)
  BY <1>1, CancelPendingWithdraws
<1>4. Sound(d, now) /\ d \in Database
  BY <1>1, <1>3, WithdrawsSound DEF IInv, Sound
<1>. HIDE DEF d
<1>5. Withdraws(d, [d EXCEPT !.task[t] = row], now)
  BY <1>1, <1>2, <1>4, RowWithdraws DEF TaskRows
<1>6. Sound([d EXCEPT !.task[t] = row], now)
  BY <1>1, <1>4, <1>5, WithdrawsSound
<1>. QED
  BY <1>1, <1>6, CleanupSound DEF UpdateTask, d

\* A task that is switched on gets a time that lies ahead.
LEMMA EnableTaskSound ==
  ASSUME IInv, NEW t \in Tasks, EnableTask(t)
  PROVE  Sound(db', now)
<1>1. now \in Nat /\ db \in Database /\ db.task[t].sched \in SUBSET Nat
  BY TimesAssumption DEF IInv, TypeOK, Database, TaskRows
<1>2. NextAfter(db.task[t].sched, now) \in Nat /\ NextAfter(db.task[t].sched, now) > now
  BY <1>1, NextAfterLater DEF EnableTask
<1>3. Withdraws(db, SetTasks(db, {t}, TRUE, NextAfter(db.task[t].sched, now)), now)
  BY <1>1, <1>2, SetTasksWithdraws
<1>4. Sound(SetTasks(db, {t}, TRUE, NextAfter(db.task[t].sched, now)), now)
  BY <1>1, <1>3, WithdrawsSound DEF IInv
<1>. QED
  BY <1>1, <1>4, CleanupSound DEF EnableTask

\* Withdrawing the prompts of a task leaves its row as it is.
LEMMA CancelPendingTask ==
  ASSUME NEW d \in Database, NEW T
  PROVE  CancelPending(d, T).task = d.task
BY DEF CancelPending, SetStatus, Database

\* A task switched off keeps its time and loses its prompts.
LEMMA SwitchOffSound ==
  ASSUME IInv, NEW t \in Tasks
  PROVE  Sound(SetTasks(CancelPending(db, {t}), {t}, FALSE, db.task[t].next), now)
<1>. DEFINE d == CancelPending(db, {t})
<1>1. now \in Nat /\ db \in Database /\ db.task[t].next \in Nat \cup {NoTime}
  BY TimesAssumption DEF IInv, TypeOK, Database, TaskRows
<1>2. Withdraws(db, d, now) /\ d.task = db.task
  BY <1>1, CancelPendingWithdraws, CancelPendingTask
<1>3. Sound(d, now) /\ d \in Database
  BY <1>1, <1>2, WithdrawsSound DEF IInv, Sound
<1>. HIDE DEF d
<1>4. Withdraws(d, SetTasks(d, {t}, FALSE, db.task[t].next), now)
  BY <1>1, <1>2, <1>3, SetTasksWithdraws
<1>. QED
  BY <1>1, <1>3, <1>4, WithdrawsSound DEF d

\* A task that is switched off keeps its time and loses its prompts.
LEMMA DisableTaskSound ==
  ASSUME IInv, NEW t \in Tasks, DisableTask(t)
  PROVE  Sound(db', now)
<1>1. now \in Nat
  BY DEF IInv, TypeOK
<1>. QED
  BY <1>1, SwitchOffSound, CleanupSound DEF DisableTask

\* A task that is deleted takes its runs and prompts with it.
LEMMA DeleteTaskSound ==
  ASSUME IInv, NEW t \in Tasks, DeleteTask(t)
  PROVE  Sound(db', now)
<1>. DEFINE d == CancelPending(db, {t})
<1>1. now \in Nat /\ db \in Database
  BY DEF IInv, TypeOK
<1>2. Withdraws(db, d, now)
  BY <1>1, CancelPendingWithdraws
<1>3. Withdraws(d, DropTasks(d, {t}), now)
  BY <1>1, <1>2, DropTasksWithdraws DEF Withdraws
<1>4. Sound(DropTasks(d, {t}), now)
  BY <1>1, <1>2, <1>3, WithdrawsSound DEF IInv
<1>. QED
  BY <1>1, <1>4, CleanupSound DEF DeleteTask

\* A new monitor's first check lies ahead.
LEMMA StartMonitorSound ==
  ASSUME IInv, NEW t \in Tasks, NEW delay \in Delays, NEW checks \in Checks,
         StartMonitor(t, delay, checks)
  PROVE  Sound(db', now)
<1>. DEFINE row == [state |-> "live", enabled |-> TRUE, next |-> now + delay, sched |-> {}]
            d == Save(t, row)
            m == [left |-> checks, until |-> now + MonitorLife]
            e == [d EXCEPT !.mon[t] = m]
<1>1. now \in Nat /\ db \in Database /\ now + delay \in Nat /\ now + delay > now
  BY TimesAssumption DEF IInv, TypeOK
<1>2. Withdraws(db, d, now)
  BY <1>1, RowWithdraws DEF Save, TaskRows
<1>3. Sound(d, now) /\ d \in Database
  BY <1>1, <1>2, WithdrawsSound DEF IInv, Sound
<1>4. m \in [left : Int, until : Nat]
  BY <1>1, TimesAssumption
<1>. HIDE DEF d, m
<1>5. /\ e \in Database /\ e.runs = d.runs /\ e.queue = d.queue /\ e.sent = d.sent
      /\ e.last = d.last /\ e.prompt = d.prompt /\ e.task = d.task
  BY <1>3, <1>4 DEF Database
<1>. HIDE DEF e
<1>6. Sound(e, now)
  BY <1>1, <1>3, <1>5, OtherFieldsWithdraw, WithdrawsSound
<1>7. db' = Cleanup(e, now)
  BY DEF StartMonitor, e, d, m
<1>. QED
  BY <1>1, <1>6, <1>7, CleanupSound

\* A cancelled monitor is a task switched off, with no checks left.
LEMMA CancelMonitorSound ==
  ASSUME IInv, NEW t \in Tasks, CancelMonitor(t)
  PROVE  Sound(db', now)
<1>. DEFINE d == SetTasks(CancelPending(db, {t}), {t}, FALSE, db.task[t].next)
            e == [d EXCEPT !.mon[t].left = 0]
<1>1. Sound(d, now)
  BY SwitchOffSound
<1>. HIDE DEF d
<1>2. now \in Nat /\ Sound(d, now) /\ d \in Database
  BY <1>1 DEF IInv, TypeOK, Sound
<1>3. [d.mon[t] EXCEPT !.left = 0] \in [left : Int, until : Nat]
  BY <1>2 DEF Database
<1>4. [d.mon EXCEPT ![t].left = 0] \in [Tasks -> [left : Int, until : Nat]]
  BY <1>2, <1>3 DEF Database
<1>5. /\ e \in Database /\ e.runs = d.runs /\ e.queue = d.queue /\ e.sent = d.sent
      /\ e.last = d.last /\ e.prompt = d.prompt /\ e.task = d.task
  BY <1>2, <1>4 DEF Database
<1>. HIDE DEF e
<1>6. Sound(e, now)
  BY <1>2, <1>5, OtherFieldsWithdraw, WithdrawsSound
<1>7. db' = Cleanup(e, now)
  BY DEF CancelMonitor, e, d
<1>. QED
  BY <1>2, <1>6, <1>7, CleanupSound

-----------------------------------------------------------------------------
(* dispatch_goal *)

\* A goal command withdraws the worker's prompts and gives it a later time, or none.
LEMMA GoalCommandSound ==
  ASSUME IInv, NEW s \in Sessions, NEW status \in {"active", "paused", "completed"}, NEW from,
         GoalCommand(s, status, from)
  PROVE  Sound(db', now)
<1>. DEFINE G == {t \in Tasks : IsGoalTask(t, s)}
            c == CancelPending(db, G)
            d == [c EXCEPT !.goal[s] = Revised(db.goal[s], status)]
            on == [state |-> "live", enabled |-> TRUE, next |-> now + 1, sched |-> {}]
            tk == [t \in Tasks |-> IF t \in G THEN on ELSE d.task[t]]
            wk == [rev |-> d.goal[s].rev, turns |-> 0, stalls |-> 0]
            e == [d EXCEPT !.task = tk, !.worker[s] = wk]
<1>1. now \in Nat /\ db \in Database
  BY DEF IInv, TypeOK
<1>2. Withdraws(db, c, now)
  BY <1>1, CancelPendingWithdraws
<1>3. Sound(c, now) /\ c \in Database
  BY <1>1, <1>2, WithdrawsSound DEF IInv, Sound
<1>4. Revised(db.goal[s], status) \in [status : {"none", "active", "paused", "completed"}, rev : Nat]
  BY <1>1 DEF Revised, Database
<1>. HIDE DEF c
<1>5. /\ d \in Database /\ d.runs = c.runs /\ d.queue = c.queue /\ d.sent = c.sent
      /\ d.last = c.last /\ d.prompt = c.prompt /\ d.task = c.task
  BY <1>3, <1>4 DEF Database
<1>. HIDE DEF d
<1>6. Sound(d, now)
  BY <1>1, <1>3, <1>5, OtherFieldsWithdraw, WithdrawsSound
<1>7. CASE status = "active"
  <2>1. db' = e
    BY <1>7 DEF GoalCommand, c, d
  <2>2. on \in TaskRows /\ on.next = now + 1 /\ now + 1 > now
    BY <1>1 DEF TaskRows
  <2>3. \A t \in Tasks : tk[t] \in TaskRows /\ (tk[t].next = d.task[t].next \/ tk[t].next > now)
    BY <1>5, <2>2 DEF Database
  <2>4. tk \in [Tasks -> TaskRows]
    BY <2>3
  <2>5. wk \in [rev : Nat, turns : Nat, stalls : Nat]
    BY <1>5 DEF Database
  <2>. HIDE DEF tk, wk
  <2>6. /\ e \in Database /\ e.runs = d.runs /\ e.queue = d.queue /\ e.sent = d.sent
        /\ e.last = d.last /\ e.prompt = d.prompt /\ e.task = tk
    BY <1>5, <2>4, <2>5 DEF Database
  <2>. HIDE DEF e
  <2>7. Withdraws(d, e, now)
    BY <2>3, <2>6 DEF Withdraws
  <2>. QED
    BY <1>1, <1>6, <2>1, <2>7, WithdrawsSound
<1>8. CASE status # "active"
  <2>1. db' = SetTasks(d, {t \in G : Live(d, t)}, FALSE, NoTime)
    BY <1>8 DEF GoalCommand, c, d
  <2>2. Withdraws(d, db', now)
    BY <1>1, <1>5, <2>1, SetTasksWithdraws
  <2>. QED
    BY <1>1, <1>6, <2>2, WithdrawsSound
<1>. QED
  BY <1>7, <1>8

-----------------------------------------------------------------------------
(* The chat queue. *)

\* A queued prompt gets an id that was never used and belongs to no run.
LEMMA EnqueueSound ==
  ASSUME IInv, NEW s \in Sessions, NEW first \in BOOLEAN, Enqueue(s, first)
  PROVE  Sound(db', now)
<1>. DEFINE d == YieldGoal(db, s, now)
            i == db.last + 1
            p == [session |-> s, guidance |-> first]
            e == [d EXCEPT !.queue = d.queue \cup {i}, !.prompt[i] = p, !.last = i]
<1>1. now \in Nat /\ db \in Database /\ db' = e
  BY DEF IInv, TypeOK, Enqueue
<1>2. Withdraws(db, d, now)
  BY <1>1, YieldGoalWithdraws
<1>3. Sound(d, now) /\ d \in Database /\ d.last = db.last /\ d.prompt = db.prompt
  BY <1>1, <1>2, WithdrawsSound DEF IInv, Sound, Withdraws
<1>4. i \in Ids /\ i \in 0..MaxId /\ i > d.last
  <2>1. db.last < MaxId /\ db.last \in 0..MaxId
    BY <1>1 DEF Enqueue, Database
  <2>. QED
    BY <1>3, <2>1, TimesAssumption DEF Ids
<1>5. p \in Prompts
  BY DEF Prompts
<1>. HIDE DEF d, i, p
<1>6. [d.prompt EXCEPT ![i] = p] \in [Ids -> Prompts]
  <2>1. d.prompt \in [Ids -> Prompts]
    BY <1>3 DEF Database
  <2>. QED
    BY <1>5, <2>1
<1>7. /\ e \in Database /\ e.runs = d.runs /\ e.queue = d.queue \cup {i} /\ e.sent = d.sent
      /\ e.last = i /\ e.task = d.task /\ e.prompt = [d.prompt EXCEPT ![i] = p]
  BY <1>3, <1>4, <1>6 DEF Database
<1>8. d.last \in Int /\ i \in Int /\ Ids \subseteq Int
  BY <1>3, <1>4 DEF Database, Ids
<1>. HIDE DEF e
<1>9. Unused(e)
  <2>. SUFFICES ASSUME NEW j \in Ids, j > i
                PROVE  e.runs[j].task = NoTask /\ j \notin e.queue /\ e.sent[j] = 0
    BY <1>7 DEF Unused
  <2>1. j > d.last /\ j # i
    BY <1>4, <1>8
  <2>. QED
    BY <1>3, <1>7, <2>1 DEF Sound, Unused
<1>10. Once(e)
  <2>1. d.sent[i] = 0 /\ d.runs[i].status \notin {"running", "blocked", "complete", "interrupted"}
    BY <1>3, <1>4 DEF Sound, Unused, Once
  <2>2. d.runs[i].status = "claimed" \/ d.runs[i].status # "claimed"
    OBVIOUS
  <2>. QED
    BY <1>3, <1>7, <2>1, <2>2 DEF Sound, Once
<1>11. Alone(e) /\ Dated(e, now) /\ InOrder(e)
  <2>1. ~Scheduled(e, i)
    BY <1>3, <1>4, <1>7 DEF Sound, Unused, Scheduled
  <2>2. Alone(e)
    BY <1>3, <1>7, <2>1, BusyAlone DEF Sound, Busy
  <2>. QED
    BY <1>3, <1>7, <2>2 DEF Sound, Dated, InOrder, Scheduled
<1>12. Placed(e)
  <2>0. ~Scheduled(e, i)
    BY <1>3, <1>4, <1>7 DEF Sound, Unused, Scheduled
  <2>. SUFFICES ASSUME NEW j \in d.queue \cup {i}
                PROVE  /\ [d.prompt EXCEPT ![i] = p][j].session \in Sessions
                       /\ j # i => [d.prompt EXCEPT ![i] = p][j] = d.prompt[j]
    BY <1>3, <1>7, <2>0 DEF Sound, Placed, Scheduled
  <2>1. d.prompt \in [Ids -> Prompts] /\ d.queue \subseteq Ids
    BY <1>3 DEF Database
  <2>2. p.session = s
    BY DEF p
  <2>. QED
    BY <1>3, <1>4, <2>1, <2>2 DEF Sound, Placed
<1>. QED
  BY <1>1, <1>7, <1>9, <1>10, <1>11, <1>12 DEF Sound

\* A consumed prompt was never sent, leaves the queue and starts its run.
LEMMA ConsumeSound ==
  ASSUME IInv, NEW i \in Ids, Consume(i)
  PROVE  Sound(db', now)
<1>. DEFINE r == IF db.runs[i].status \in {"queued", "claimed"}
                 THEN [db.runs[i] EXCEPT !.status = "running", !.until = now + LeaseTime]
                 ELSE db.runs[i]
            e == [db EXCEPT !.sent[i] = db.sent[i] + 1, !.queue = db.queue \ {i}, !.runs[i] = r]
<1>1. now \in Nat /\ db \in Database /\ Sound(db, now) /\ db' = e /\ i \in db.queue
  BY DEF IInv, TypeOK, Consume, MayConsume
<1>2. db.runs[i] \in Runs /\ db.sent[i] \in Nat
  BY <1>1 DEF Database
<1>3. db.sent[i] = 0 /\ db.runs[i].status \notin {"running", "blocked", "complete", "interrupted"}
  BY <1>1, <1>2 DEF Sound, Once
<1>4. /\ r \in Runs /\ r.task = db.runs[i].task /\ r.due = db.runs[i].due
      /\ \/ /\ r.status = "running" /\ r.until = now + LeaseTime
            /\ db.runs[i].status \in {"queued", "claimed"}
         \/ r.status = db.runs[i].status /\ r.status \notin {"queued", "claimed"}
  <2>1. CASE db.runs[i].status \in {"queued", "claimed"}
    <3>1. now + LeaseTime \in Nat
      BY <1>1, TimesAssumption
    <3>2. r = [db.runs[i] EXCEPT !.status = "running", !.until = now + LeaseTime]
      BY <2>1
    <3>. QED
      BY <1>2, <2>1, <3>1, <3>2 DEF Runs, Active
  <2>2. CASE db.runs[i].status \notin {"queued", "claimed"}
    BY <1>2, <2>2
  <2>. QED
    BY <2>1, <2>2
<1>. HIDE DEF r
<1>5. /\ [db.sent EXCEPT ![i] = db.sent[i] + 1] \in [Ids -> Nat]
      /\ [db.runs EXCEPT ![i] = r] \in [Ids -> Runs]
  BY <1>1, <1>2, <1>4 DEF Database
<1>6. /\ e \in Database /\ e.queue = db.queue \ {i}
      /\ e.last = db.last /\ e.prompt = db.prompt /\ e.task = db.task
      /\ e.sent = [db.sent EXCEPT ![i] = db.sent[i] + 1]
      /\ e.runs = [db.runs EXCEPT ![i] = r]
  BY <1>1, <1>5 DEF Database
<1>7. \A j \in Ids : /\ e.sent[j] = IF j = i THEN 1 ELSE db.sent[j]
                     /\ e.runs[j] = IF j = i THEN r ELSE db.runs[j]
  BY <1>1, <1>3, <1>6 DEF Database
<1>. HIDE DEF e
<1>8. Unused(e)
  BY <1>1, <1>4, <1>6, <1>7 DEF Sound, Unused
<1>9. Once(e)
  BY <1>1, <1>3, <1>4, <1>6, <1>7 DEF Sound, Once
<1>10. Alone(e) /\ Placed(e)
  <2>1. \A j \in Ids : e.runs[j].task = db.runs[j].task /\ (Busy(e, j) => Busy(db, j))
    BY <1>1, <1>4, <1>6, <1>7 DEF Busy, Active
  <2>2. db.queue \subseteq Ids /\ Alone(db) /\ Placed(db)
    BY <1>1 DEF Sound, Database
  <2>. QED
    BY <1>6, <2>1, <2>2, BusyAlone, StillPlaced
<1>11. Dated(e, now)
  BY <1>1, <1>2, <1>3, <1>4, <1>7, TimesAssumption DEF Sound, Dated, Scheduled, Runs
<1>12. InOrder(e)
  BY <1>1, <1>4, <1>6, <1>7 DEF Sound, InOrder, Scheduled
<1>. QED
  BY <1>1, <1>6, <1>8, <1>9, <1>10, <1>11, <1>12 DEF Sound

\* Writing back a goal touches neither runs nor prompts.
LEMMA RemoveSaveGoalSound ==
  ASSUME IInv, RemoveSaveGoal
  PROVE  Sound(db', now)
<1>. DEFINE s == removal.session
            g == [status |-> "paused", rev |-> removal.rev + 1]
<1>1. now \in Nat /\ db \in Database /\ Sound(db, now)
  BY DEF IInv, TypeOK
<1>2. s \in Sessions /\ g \in [status : {"none", "active", "paused", "completed"}, rev : Nat]
  BY DEF IInv, TypeOK, Removals, NoRemoval, RemoveSaveGoal
<1>3. db' = [db EXCEPT !.goal[s] = g]
  BY DEF RemoveSaveGoal
<1>. HIDE DEF g, s
<1>4. /\ db' \in Database /\ db'.runs = db.runs /\ db'.queue = db.queue /\ db'.sent = db.sent
      /\ db'.last = db.last /\ db'.prompt = db.prompt /\ db'.task = db.task
  BY <1>1, <1>2, <1>3 DEF Database
<1>. QED
  BY <1>1, <1>4, OtherFieldsWithdraw, WithdrawsSound

\* Stopping the worker takes its time away.
LEMMA RemoveStopWorkerSound ==
  ASSUME IInv, RemoveStopWorker
  PROVE  Sound(db', now)
<1>. DEFINE G == {t \in Tasks : IsGoalTask(t, removal.session) /\ Live(db, t)}
<1>1. now \in Nat /\ db \in Database /\ Sound(db, now)
  BY DEF IInv, TypeOK
<1>2. db' = SetTasks(db, G, FALSE, NoTime)
  BY DEF RemoveStopWorker
<1>3. Withdraws(db, SetTasks(db, G, FALSE, NoTime), now)
  BY <1>1, SetTasksWithdraws
<1>. QED
  BY <1>1, <1>2, <1>3, WithdrawsSound

\* Cancelling the run of a prompt that is being removed withdraws it.
LEMMA RemoveCancelSound ==
  ASSUME IInv, RemoveCancel
  PROVE  Sound(db', now)
<1>1. now \in Nat /\ db \in Database /\ Sound(db, now)
  BY DEF IInv, TypeOK
<1>2. CASE db' = db
  BY <1>1, <1>2
<1>3. CASE removal.id \in db.queue /\ db' = SetStatus(db, {removal.id}, "cancelled")
  <2>1. /\ db' \in Database
        /\ \A i \in Ids : /\ db'.runs[i].task = db.runs[i].task /\ db'.runs[i].due = db.runs[i].due
                          /\ i = removal.id => db'.runs[i].status = "cancelled"
                          /\ i # removal.id => db'.runs[i] = db.runs[i]
    BY <1>1, <1>3, SetStatusType DEF Ended
  <2>2. /\ db'.queue = db.queue /\ db'.last = db.last /\ db'.prompt = db.prompt
        /\ db'.sent = db.sent /\ db'.task = db.task
    BY <1>1, <1>3 DEF SetStatus, Database
  <2>3. Withdraws(db, db', now)
    BY <1>3, <2>1, <2>2 DEF Withdraws
  <2>. QED
    BY <1>1, <2>3, WithdrawsSound
<1>. QED
  BY <1>2, <1>3 DEF RemoveCancel

\* Deleting a queue row withdraws the prompt.
LEMMA RemoveDeleteSound ==
  ASSUME IInv, RemoveDelete
  PROVE  Sound(db', now)
<1>1. now \in Nat /\ db \in Database /\ Sound(db, now)
  BY DEF IInv, TypeOK
<1>2. /\ db' \in Database /\ db'.runs = db.runs /\ db'.queue \subseteq db.queue
      /\ db'.sent = db.sent /\ db'.last = db.last /\ db'.prompt = db.prompt /\ db'.task = db.task
  BY <1>1 DEF RemoveDelete, Database
<1>. QED
  BY <1>1, <1>2, OtherFieldsWithdraw, WithdrawsSound

-----------------------------------------------------------------------------
(* session_run_lease, rewinds, and the deletion of a session. *)

\* Taking a lease touches neither runs nor prompts.
LEMMA LeaseWithdraws ==
  ASSUME IInv, NEW s \in Sessions, NEW token \in Ids \cup Clients, Lease(s, token)
  PROVE  Withdraws(db, db', now)
<1>. DEFINE l == [holder |-> token, until |-> now + LeaseTime]
<1>1. now \in Nat /\ db \in Database
  BY DEF IInv, TypeOK
<1>2. l \in [holder : Holders, until : Nat]
  BY <1>1, TimesAssumption DEF Holders
<1>3. db' = [db EXCEPT !.lease[s] = l]
  BY DEF Lease
<1>. HIDE DEF l
<1>4. /\ db' \in Database /\ db'.runs = db.runs /\ db'.queue = db.queue /\ db'.sent = db.sent
      /\ db'.last = db.last /\ db'.prompt = db.prompt /\ db'.task = db.task
  BY <1>1, <1>2, <1>3 DEF Database
<1>. QED
  BY <1>1, <1>4, OtherFieldsWithdraw

\* Each statement that follows a lease withdraws, or gives the goal another time.
LEMMA YieldWithdraws ==
  ASSUME IInv, NEW c \in Clients,
         YieldFind(c) \/ YieldCancel(c) \/ YieldDelete(c) \/ YieldNext(c) \/ YieldAbandoned(c)
  PROVE  Withdraws(db, db', now)
<1>. DEFINE G == GoalTasks(c)
            P == {i \in db.queue : db.runs[i].task \in G}
<1>1. now \in Nat /\ db \in Database /\ yields[c] \in Yields \cup {NoYield}
  BY DEF IInv, TypeOK
<1>2. CASE YieldFind(c) \/ YieldAbandoned(c)
  <2>1. db' = db
    BY <1>2 DEF YieldFind, YieldAbandoned
  <2>. QED
    BY <1>1, <2>1, OtherFieldsWithdraw
<1>3. CASE YieldCancel(c)
  <2>1. db' = SetStatus(db, P, "cancelled")
    BY <1>3 DEF YieldCancel, CancelRuns
  <2>2. /\ db' \in Database
        /\ \A i \in Ids : /\ db'.runs[i].task = db.runs[i].task /\ db'.runs[i].due = db.runs[i].due
                          /\ i \in P => db'.runs[i].status = "cancelled"
                          /\ i \notin P => db'.runs[i] = db.runs[i]
    BY <1>1, <2>1, SetStatusType DEF Ended
  <2>3. /\ db'.queue = db.queue /\ db'.last = db.last /\ db'.prompt = db.prompt
        /\ db'.sent = db.sent /\ db'.task = db.task
    BY <1>1, <2>1 DEF SetStatus, Database
  <2>. QED
    BY <2>2, <2>3 DEF Withdraws
<1>4. CASE YieldDelete(c)
  <2>1. /\ db' \in Database /\ db'.runs = db.runs /\ db'.queue \subseteq db.queue
        /\ db'.sent = db.sent /\ db'.last = db.last /\ db'.prompt = db.prompt /\ db'.task = db.task
    BY <1>1, <1>4 DEF YieldDelete, DropPrompts, Database
  <2>. QED
    BY <1>1, <2>1, OtherFieldsWithdraw
<1>5. CASE YieldNext(c)
  <2>. DEFINE T == {t \in G : db.task[t].enabled}
              nx == yields[c].at + 1
              f == [t \in Tasks |-> IF t \in T THEN [db.task[t] EXCEPT !.next = nx] ELSE db.task[t]]
  <2>1. nx \in Nat
    BY <1>1, <1>5 DEF YieldNext, Yields, NoYield
  <2>2. db' = [db EXCEPT !.task = f]
    BY <1>5 DEF YieldNext, SetNext
  <2>3. \A t \in Tasks : f[t] \in TaskRows /\ (Kind[t] # "goal" => f[t] = db.task[t])
    <3>. HIDE DEF nx
    <3>1. \A t \in Tasks : db.task[t] \in TaskRows
      BY <1>1 DEF Database
    <3>. QED
      BY <2>1, <3>1 DEF TaskRows, GoalTasks, IsGoalTask
  <2>4. f \in [Tasks -> TaskRows]
    BY <2>3
  <2>. HIDE DEF f
  <2>5. /\ db' \in Database /\ db'.runs = db.runs /\ db'.queue = db.queue /\ db'.task = f
        /\ db'.sent = db.sent /\ db'.last = db.last /\ db'.prompt = db.prompt
    BY <1>1, <2>2, <2>4 DEF Database
  <2>. QED
    BY <1>1, <2>3, <2>5 DEF Withdraws, Database
<1>. QED
  BY <1>2, <1>3, <1>4, <1>5

\* Rewinds and released leases touch neither runs nor prompts.
LEMMA UpkeepSound ==
  ASSUME IInv, NEW s \in Sessions,
         \/ PrepareRewind(s) \/ CompleteRewind(s) \/ \E token \in Ids \cup Clients : Release(s, token)
  PROVE  Sound(db', now)
<1>1. now \in Nat /\ db \in Database /\ Sound(db, now)
  BY DEF IInv, TypeOK
<1>2. NoLease \in [holder : Holders, until : Nat]
  BY DEF NoLease, Holders
<1>3. /\ db' \in Database /\ db'.runs = db.runs /\ db'.queue = db.queue
      /\ db'.sent = db.sent /\ db'.last = db.last /\ db'.prompt = db.prompt /\ db'.task = db.task
  <2>1. CASE PrepareRewind(s)
    BY <1>1, <2>1 DEF PrepareRewind, Database
  <2>2. CASE CompleteRewind(s)
    BY <1>1, <2>2 DEF CompleteRewind, Database
  <2>3. ASSUME NEW token, Release(s, token)
        PROVE  /\ db' \in Database /\ db'.runs = db.runs /\ db'.queue = db.queue
               /\ db'.sent = db.sent /\ db'.last = db.last /\ db'.prompt = db.prompt /\ db'.task = db.task
    BY <1>1, <1>2, <2>3 DEF Release, Database
  <2>. QED
    BY <2>1, <2>2, <2>3
<1>. QED
  BY <1>1, <1>3, OtherFieldsWithdraw, WithdrawsSound

\* Deleting a session deletes its tasks and its prompts.
LEMMA DeleteSessionSound ==
  ASSUME IInv, NEW s \in Sessions, DeleteSession(s)
  PROVE  Sound(db', now)
<1>. DEFINE d == DropTasks(db, {t \in Tasks : Home[t] = s /\ Live(db, t)})
            g == [status |-> "none", rev |-> 0]
            e == [d EXCEPT !.sess[s] = "deleted",
                           !.queue = {i \in d.queue : d.prompt[i].session # s},
                           !.lease[s] = NoLease,
                           !.goal[s] = g,
                           !.locked = d.locked \ {s}]
<1>1. now \in Nat /\ db \in Database /\ Sound(db, now) /\ db' = e
  BY DEF IInv, TypeOK, DeleteSession
<1>2. Withdraws(db, d, now)
  BY <1>1, DropTasksWithdraws
<1>3. Sound(d, now) /\ d \in Database
  BY <1>1, <1>2, WithdrawsSound DEF Sound
<1>4. NoLease \in [holder : Holders, until : Nat]
  BY DEF NoLease, Holders
<1>5. g \in [status : {"none", "active", "paused", "completed"}, rev : Nat]
  OBVIOUS
<1>. HIDE DEF d, g
<1>6. /\ e \in Database /\ e.runs = d.runs /\ e.queue \subseteq d.queue
      /\ e.sent = d.sent /\ e.last = d.last /\ e.prompt = d.prompt /\ e.task = d.task
  BY <1>3, <1>4, <1>5 DEF Database
<1>. HIDE DEF e
<1>. QED
  BY <1>1, <1>3, <1>6, OtherFieldsWithdraw, WithdrawsSound

-----------------------------------------------------------------------------
(* scheduled_result_evaluated *)

\* apply_goal_result gives the worker a later time, or none.
LEMMA ApplyGoalWithdraws ==
  ASSUME NEW n \in Nat, NEW d \in Database, NEW i \in Ids, NEW st, NEW a
  PROVE  Withdraws(d, ApplyGoal(d, i, st, a, n), n)
<1>. DEFINE t == d.runs[i].task
            s == Home[t]
            w == [d.worker[s] EXCEPT !.turns = @ + 1, !.stalls = IF a.tools THEN 0 ELSE @ + 1]
            to == Verdict(w, st, a)
            e == [d EXCEPT !.worker[s] = w]
            f == [e EXCEPT !.goal[s] = Revised(@, to)]
<1>1. \/ ApplyGoal(d, i, st, a, n) = d
      \/ ApplyGoal(d, i, st, a, n) = SetNext(d, {t}, n + 1)
      \/ ApplyGoal(d, i, st, a, n) = SetNext(e, {t}, n + 1)
      \/ /\ ApplyGoal(d, i, st, a, n) = SetTasks(f, {t}, FALSE, NoTime)
         /\ to # "active"
  BY DEF ApplyGoal
<1>2. n + 1 \in Nat \cup {NoTime} /\ n + 1 > n
  OBVIOUS
<1>3. s \in Sessions => w \in [rev : Nat, turns : Nat, stalls : Nat]
  <2>. SUFFICES ASSUME s \in Sessions
                PROVE  w \in [rev : Nat, turns : Nat, stalls : Nat]
    OBVIOUS
  <2>1. d.worker[s] \in [rev : Nat, turns : Nat, stalls : Nat]
    BY DEF Database
  <2>2. (IF a.tools THEN 0 ELSE d.worker[s].stalls + 1) \in Nat /\ d.worker[s].turns + 1 \in Nat
    BY <2>1
  <2>. QED
    BY <2>1, <2>2
<1>4. to \in {"paused", "completed", "active"}
  BY DEF Verdict
<1>. HIDE DEF w, s, to
<1>5. [d.worker EXCEPT ![s] = w] \in [Sessions -> [rev : Nat, turns : Nat, stalls : Nat]]
  BY <1>3 DEF Database
<1>6. /\ e \in Database /\ e.runs = d.runs /\ e.queue = d.queue /\ e.sent = d.sent
      /\ e.last = d.last /\ e.prompt = d.prompt /\ e.task = d.task
  BY <1>5 DEF Database
<1>. HIDE DEF e
<1>7. s \in Sessions => Revised(e.goal[s], to) \in
                          [status : {"none", "active", "paused", "completed"}, rev : Nat]
  BY <1>4, <1>6 DEF Revised, Database
<1>8. [e.goal EXCEPT ![s] = Revised(@, to)] \in
        [Sessions -> [status : {"none", "active", "paused", "completed"}, rev : Nat]]
  BY <1>6, <1>7 DEF Database
<1>9. /\ f \in Database /\ f.runs = e.runs /\ f.queue = e.queue /\ f.sent = e.sent
      /\ f.last = e.last /\ f.prompt = e.prompt /\ f.task = e.task
  BY <1>6, <1>8 DEF Database
<1>. HIDE DEF f
<1>10. Withdraws(d, d, n) /\ Withdraws(d, e, n) /\ Withdraws(d, f, n)
  BY <1>6, <1>9, OtherFieldsWithdraw
<1>11. /\ Withdraws(d, SetNext(d, {t}, n + 1), n)
       /\ Withdraws(e, SetNext(e, {t}, n + 1), n)
       /\ Withdraws(f, SetTasks(f, {t}, FALSE, NoTime), n)
  BY <1>2, <1>6, <1>9, SetNextWithdraws, SetTasksWithdraws
<1>. QED
  BY <1>1, <1>10, <1>11, WithdrawsTwice

\* A report ends or moves one run, and takes the prompt of a run that ended.
LEMMA ResultSound ==
  ASSUME IInv, NEW i \in Ids,
         NEW st \in {"queued", "running", "blocked", "complete", "cancelled", "failed"}, NEW a,
         Result(i, st, a)
  PROVE  Sound(db', now)
<1>. DEFINE un == IF st \in {"running", "blocked"} THEN now + LeaseTime ELSE 0
            r == [db.runs[i] EXCEPT !.status = st, !.until = un]
            e == [db EXCEPT !.runs[i].status = st, !.runs[i].until = un]
            g == ApplyGoal(e, i, st, a, now)
            q == IF st \in Ended THEN [g EXCEPT !.queue = @ \ {i}] ELSE g
            c == IF st = "complete" THEN NextCheck(q, db.runs[i].task, now) ELSE q
<1>1. now \in Nat /\ db \in Database /\ Sound(db, now)
  BY DEF IInv, TypeOK
<1>2. db' = Cleanup(c, now)
  BY DEF Result, Reported
<1>3. /\ db.runs[i].status \in {"claimed", "running", "blocked"}
      /\ st \in {"running", "blocked", "complete"} => db.sent[i] > 0
  BY DEF Result
<1>4. db.runs[i] \in Runs /\ db.sent[i] \in Nat
  BY <1>1 DEF Database
<1>5. un \in Nat /\ (st \in {"running", "blocked"} => un > now)
  BY <1>1, TimesAssumption
<1>. HIDE DEF un
<1>6. r \in Runs /\ r.task = db.runs[i].task /\ r.due = db.runs[i].due /\ r.status = st /\ r.until = un
  BY <1>4, <1>5 DEF Runs, Active, Ended
<1>7. e = [db EXCEPT !.runs = [db.runs EXCEPT ![i] = r]]
  BY <1>1, <1>4 DEF Database, Runs
<1>. HIDE DEF r, e
<1>8. [db.runs EXCEPT ![i] = r] \in [Ids -> Runs]
  BY <1>1, <1>6 DEF Database
<1>9. /\ e \in Database /\ e.queue = db.queue /\ e.sent = db.sent
      /\ e.last = db.last /\ e.prompt = db.prompt
      /\ e.task = db.task
      /\ \A j \in Ids : e.runs[j] = IF j = i THEN r ELSE db.runs[j]
  BY <1>1, <1>7, <1>8 DEF Database
<1>10. Sound(e, now)
  <2>1. Unused(e)
    BY <1>1, <1>6, <1>9 DEF Sound, Unused
  <2>2. Once(e)
    BY <1>1, <1>3, <1>4, <1>6, <1>9 DEF Sound, Once
  <2>3. Alone(e) /\ Placed(e)
    <3>1. \A j \in Ids : e.runs[j].task = db.runs[j].task /\ (Busy(e, j) => Busy(db, j))
      BY <1>1, <1>3, <1>6, <1>9 DEF Busy, Active
    <3>2. db.queue \subseteq Ids /\ Alone(db) /\ Placed(db)
      BY <1>1 DEF Sound, Database
    <3>. QED
      BY <1>9, <3>1, <3>2, BusyAlone, StillPlaced
  <2>4. Dated(e, now)
    BY <1>1, <1>4, <1>5, <1>6, <1>9 DEF Sound, Dated, Scheduled, Runs
  <2>5. InOrder(e)
    BY <1>1, <1>6, <1>9 DEF Sound, InOrder, Scheduled
  <2>. QED
    BY <1>1, <1>9, <2>1, <2>2, <2>3, <2>4, <2>5 DEF Sound
<1>11. Withdraws(e, g, now) /\ g \in Database
  <2>1. Withdraws(e, g, now)
    BY <1>1, <1>9, ApplyGoalWithdraws
  <2>. QED
    BY <2>1 DEF Withdraws
<1>. HIDE DEF g
<1>12. Withdraws(g, q, now) /\ q \in Database
  <2>1. [g EXCEPT !.queue = @ \ {i}] \in Database
    BY <1>11 DEF Database
  <2>2. q \in Database /\ q.runs = g.runs /\ q.queue \subseteq g.queue /\ q.sent = g.sent
        /\ q.last = g.last /\ q.prompt = g.prompt /\ q.task = g.task
    BY <1>11, <2>1 DEF Database
  <2>. QED
    BY <1>1, <1>11, <2>2, OtherFieldsWithdraw
<1>. HIDE DEF q
<1>13. Withdraws(q, c, now)
  <2>1. c = q \/ c = SetNext(q, {db.runs[i].task}, now + Interval)
    BY DEF NextCheck
  <2>2. Withdraws(q, q, now)
    BY <1>1, <1>12, OtherFieldsWithdraw
  <2>3. now + Interval \in Nat \cup {NoTime} /\ now + Interval > now
    BY <1>1, TimesAssumption
  <2>4. Withdraws(q, SetNext(q, {db.runs[i].task}, now + Interval), now)
    BY <1>1, <1>12, <2>3, SetNextWithdraws
  <2>. QED
    BY <2>1, <2>2, <2>4
<1>. HIDE DEF c
<1>14. Sound(g, now)
  BY <1>1, <1>10, <1>11, WithdrawsSound
<1>15. Sound(q, now)
  BY <1>1, <1>12, <1>14, WithdrawsSound
<1>16. Sound(c, now)
  BY <1>1, <1>13, <1>15, WithdrawsSound
<1>. QED
  BY <1>1, <1>2, <1>16, CleanupSound

-----------------------------------------------------------------------------
(* due_scheduled *)

\* Recovery gives back claims whose prompt is still queued and ends the runs that started.
LEMMA RecoverSound ==
  ASSUME NEW n \in Nat, NEW d, Sound(d, n)
  PROVE  Sound(Recover(d, n), n)
<1>. DEFINE rec(r, i) == IF r.status \in {"queued", "claimed"} /\ i \notin d.queue
                           THEN [r EXCEPT !.status = "cancelled", !.until = 0]
                         ELSE IF r.status = "claimed" /\ r.until < n
                           THEN [r EXCEPT !.status = "queued", !.until = 0]
                         ELSE IF r.status \in {"running", "blocked"} /\ r.until < n
                           THEN [r EXCEPT !.status = "interrupted", !.until = 0]
                         ELSE r
            f == [i \in Ids |-> rec(d.runs[i], i)]
            e == [d EXCEPT !.runs = f]
<1>1. d \in Database /\ Recover(d, n) = e
  BY DEF Sound, Recover
<1>2. ASSUME NEW i \in Ids
      PROVE  /\ f[i] \in Runs /\ f[i].task = d.runs[i].task /\ f[i].due = d.runs[i].due
             /\ \/ f[i] = d.runs[i]
                \/ f[i].status = "cancelled"
                \/ f[i].status = "queued" /\ d.runs[i].status = "claimed"
                \/ /\ f[i].status = "interrupted" /\ d.runs[i].status \in {"running", "blocked"}
                   /\ d.runs[i].until < n
             /\ f[i].status \in Active => d.runs[i].status \in Active
  <2>1. d.runs[i] \in Runs
    BY <1>1 DEF Database
  <2>2. CASE d.runs[i].status \in {"queued", "claimed"} /\ i \notin d.queue
    BY <2>1, <2>2 DEF Runs, Active, Ended
  <2>3. CASE d.runs[i].status = "claimed" /\ d.runs[i].until < n /\ i \in d.queue
    BY <2>1, <2>3 DEF Runs, Active, Ended
  <2>4. CASE d.runs[i].status \in {"running", "blocked"} /\ d.runs[i].until < n
    BY <2>1, <2>4 DEF Runs, Active, Ended
  <2>5. CASE /\ ~ (d.runs[i].status \in {"queued", "claimed"} /\ i \notin d.queue)
             /\ ~ (d.runs[i].status = "claimed" /\ d.runs[i].until < n /\ i \in d.queue)
             /\ ~ (d.runs[i].status \in {"running", "blocked"} /\ d.runs[i].until < n)
    BY <2>1, <2>5
  <2>. QED
    BY <2>2, <2>3, <2>4, <2>5
<1>3. f \in [Ids -> Runs]
  BY <1>2
<1>. HIDE DEF f
<1>4. /\ e \in Database /\ e.runs = f /\ e.queue = d.queue /\ e.sent = d.sent
      /\ e.last = d.last /\ e.prompt = d.prompt /\ e.task = d.task
  BY <1>1, <1>3 DEF Database
<1>. HIDE DEF e
<1>5. Unused(e)
  BY <1>2, <1>4 DEF Sound, Unused
<1>6. Once(e)
  BY <1>2, <1>4 DEF Sound, Once
<1>7. Alone(e) /\ Placed(e)
  <2>1. \A i \in Ids : e.runs[i].task = d.runs[i].task /\ (Busy(e, i) => Busy(d, i))
    BY <1>2, <1>4 DEF Busy
  <2>2. d.queue \subseteq Ids /\ Alone(d) /\ Placed(d)
    BY <1>1 DEF Sound, Database
  <2>. QED
    BY <1>4, <2>1, <2>2, BusyAlone, StillPlaced
<1>8. Dated(e, n)
  BY <1>2, <1>4 DEF Sound, Dated, Scheduled
<1>9. InOrder(e)
  BY <1>2, <1>4 DEF Sound, InOrder, Scheduled
<1>. QED
  BY <1>1, <1>4, <1>5, <1>6, <1>7, <1>8, <1>9 DEF Sound

\* Re-arming gives goals another time and changes nothing else.
LEMMA RearmSound ==
  ASSUME NEW n \in Nat, NEW d, Sound(d, n)
  PROVE  Sound(Rearm(d, n), n)
<1>. DEFINE T == {t \in Tasks : /\ Kind[t] = "goal" /\ d.task[t].enabled /\ d.task[t].next = NoTime
                                /\ \E i \in RunsOf(d, t) : /\ IsLatest(d, i)
                                                           /\ d.runs[i].status = "interrupted"}
            f == [t \in Tasks |-> IF t \in T THEN [d.task[t] EXCEPT !.next = n] ELSE d.task[t]]
            e == [d EXCEPT !.task = f]
<1>1. d \in Database /\ Rearm(d, n) = e
  BY DEF Sound, Rearm, SetNext
<1>2. \A t \in Tasks : f[t] \in TaskRows /\ (Kind[t] # "goal" => f[t] = d.task[t])
  <2>1. \A t \in Tasks : d.task[t] \in TaskRows
    BY <1>1 DEF Database
  <2>. QED
    BY <2>1 DEF TaskRows
<1>3. f \in [Tasks -> TaskRows]
  BY <1>2
<1>. HIDE DEF f
<1>4. /\ e \in Database /\ e.runs = d.runs /\ e.queue = d.queue /\ e.sent = d.sent
      /\ e.last = d.last /\ e.prompt = d.prompt /\ e.task = f
  BY <1>1, <1>3 DEF Database
<1>. HIDE DEF e
<1>5. Withdraws(d, e, n)
  BY <1>1, <1>2, <1>4 DEF Withdraws, Database
<1>. QED
  BY <1>1, <1>5, WithdrawsSound

\* A claim takes a queued run whose prompt is queued.
LEMMA ClaimSound ==
  ASSUME NEW n \in Nat, NEW h, NEW d, Sound(d, n)
  PROVE  Sound(Claim(d, h, n), n)
<1>. DEFINE C == {i \in Ids : Claimable(d, h, n, i)}
            B == {i \in C : Cardinality({j \in C : j < i}) < ClaimBatch}
            f == [i \in Ids |->
                    IF i \in B THEN [d.runs[i] EXCEPT !.status = "claimed", !.until = n + LeaseTime]
                               ELSE d.runs[i]]
            e == [d EXCEPT !.runs = f]
<1>1. d \in Database /\ Claim(d, h, n) = e
  BY DEF Sound, Claim
<1>2. \A i \in B : i \in d.queue /\ d.runs[i].status = "queued"
  BY DEF Claimable
<1>3. n + LeaseTime \in Nat
  BY TimesAssumption
<1>. HIDE DEF B
<1>4. ASSUME NEW i \in Ids
      PROVE  /\ f[i] \in Runs /\ f[i].task = d.runs[i].task /\ f[i].due = d.runs[i].due
             /\ i \notin B => f[i] = d.runs[i]
             /\ i \in B => f[i].status = "claimed"
  <2>1. d.runs[i] \in Runs
    BY <1>1 DEF Database
  <2>. QED
    BY <1>3, <2>1 DEF Runs, Active
<1>5. f \in [Ids -> Runs]
  BY <1>4
<1>. HIDE DEF f
<1>6. /\ e \in Database /\ e.runs = f /\ e.queue = d.queue /\ e.sent = d.sent
      /\ e.last = d.last /\ e.prompt = d.prompt /\ e.task = d.task
  BY <1>1, <1>5 DEF Database
<1>. HIDE DEF e
<1>7. Unused(e)
  BY <1>4, <1>6 DEF Sound, Unused
<1>8. Once(e)
  BY <1>2, <1>4, <1>6 DEF Sound, Once
<1>9. Alone(e) /\ Placed(e)
  <2>1. \A i \in Ids : e.runs[i].task = d.runs[i].task /\ (Busy(e, i) => Busy(d, i))
    BY <1>2, <1>4, <1>6 DEF Busy, Active
  <2>2. d.queue \subseteq Ids /\ Alone(d) /\ Placed(d)
    BY <1>1 DEF Sound, Database
  <2>. QED
    BY <1>6, <2>1, <2>2, BusyAlone, StillPlaced
<1>10. Dated(e, n)
  BY <1>4, <1>6 DEF Sound, Dated, Scheduled
<1>11. InOrder(e)
  BY <1>4, <1>6 DEF Sound, InOrder, Scheduled
<1>. QED
  BY <1>1, <1>6, <1>7, <1>8, <1>9, <1>10, <1>11 DEF Sound

\* The rows of a poll are numbered from the last row on, without a gap.
LEMMA RowNumbers ==
  ASSUME NEW d \in Database, NEW A \in SUBSET Tasks, NEW t \in A
  PROVE  /\ Cardinality(A) \in Nat
         /\ Cardinality({u \in A : Sooner(d, u, t)}) \in Nat
         /\ Cardinality({u \in A : Sooner(d, u, t)}) < Cardinality(A)
<1>. DEFINE S == {u \in A : Sooner(d, u, t)}
<1>1. IsFiniteSet(A)
  BY FS_Subset, TasksAssumption
<1>2. S \in SUBSET A /\ S # A
  <2>1. ~ Sooner(d, t, t)
    <3>1. t \in Nat /\ d.task[t].next \in Int
      BY TasksAssumption DEF Database, TaskRows, NoTime
    <3>. QED
      BY <3>1 DEF Sooner
  <2>. QED
    BY <2>1
<1>3. /\ Cardinality(A) \in Nat /\ Cardinality(S) \in Nat
      /\ Cardinality(S) <= Cardinality(A) /\ Cardinality(S) # Cardinality(A)
  BY <1>1, <1>2, FS_Subset, FS_CardinalityType
<1>. QED
  BY <1>3

\* A due task goes to its own session, to one made for it, or nowhere.
LEMMA PlacesType ==
  ASSUME NEW d \in Database, NEW B \in SUBSET Tasks, NEW p \in Places(d, B), NEW t \in B
  PROVE  /\ p[t] \in Sessions \cup {NoSession}
         /\ Kind[t] = "goal" => p[t] \in Sessions /\ p[t] = Home[t]
<1>1. p \in [B -> Sessions \cup {NoSession}] /\ (Home[t] # NoSession => p[t] = Home[t])
  BY DEF Places
<1>2. Kind[t] = "goal" => Home[t] \in Sessions
  <2>1. \A u \in Tasks : Kind[u] # "saved" => Home[u] \in Sessions
    BY TasksAssumption
  <2>2. t \in Tasks /\ "goal" # "saved"
    OBVIOUS
  <2>. QED
    BY <2>1, <2>2
<1>3. NoSession \notin Sessions
  BY TasksAssumption
<1>. QED
  BY <1>1, <1>2, <1>3

\* A goal's turn is accepted only when its session has no prompt, so none of its own.
LEMMA GoalTurnQuiet ==
  ASSUME NEW d, Placed(d), NEW B \in SUBSET Tasks, NEW p \in Places(d, B), d \in Database, NEW n,
         NEW t \in B, Accepted(d, B, p, t, n), Kind[t] = "goal"
  PROVE  \A i \in d.queue : d.runs[i].task # t
<1>1. p[t] \in Sessions /\ p[t] = Home[t]
  BY PlacesType
<1>2. p[t] # NoSession
  BY <1>1, TasksAssumption
<1>3. QueueOf(d, p[t]) = {}
  BY <1>2 DEF Accepted, GoalTurn
<1>4. t # NoTask
  BY TasksAssumption DEF NoTask
<1>. QED
  BY <1>1, <1>3, <1>4 DEF QueueOf, Placed, Scheduled

\* The occurrences a poll creates have ids and due times that were never used.
LEMMA InsertSound ==
  ASSUME NEW n \in Nat, NEW h, NEW d, Sound(d, n),
         NEW B \in SUBSET {t \in Tasks : IsDue(d, h, n, t)}, NEW p \in Places(d, B),
         d.last + Cardinality({t \in B : Accepted(d, B, p, t, n)}) <= MaxId
  PROVE  Sound(Insert(d, B, p, n), n)
<1>. DEFINE A == {t \in B : Accepted(d, B, p, t, n)}
            row == [t \in A |-> d.last + 1 + Cardinality({u \in A : Sooner(d, u, t)})]
            new(i) == \E t \in A : row[t] = i
            who(i) == CHOOSE t \in A : row[t] = i
            made == {i \in Ids : new(i) /\ p[who(i)] # NoSession}
            run(i) == [task |-> who(i), due |-> d.task[who(i)].next, until |-> 0,
                       status |-> IF p[who(i)] = NoSession THEN "failed" ELSE "queued",
                       grev |-> IF Kind[who(i)] = "goal" THEN d.worker[p[who(i)]].rev ELSE 0]
            rn == [i \in Ids |-> IF new(i) THEN run(i) ELSE d.runs[i]]
            pm == [i \in Ids |-> IF i \in made THEN [session |-> p[who(i)], guidance |-> FALSE]
                                               ELSE d.prompt[i]]
            mn == [t \in Tasks |-> IF t \in A /\ Kind[t] = "monitor"
                                   THEN [d.mon[t] EXCEPT !.left = @ - 1] ELSE d.mon[t]]
            tk == [t \in Tasks |-> IF t \in A
                                   THEN [d.task[t] EXCEPT !.next = NextAfter(d.task[t].sched, n)]
                                   ELSE d.task[t]]
            ss == [s \in Sessions |-> IF \E t \in B : p[t] = s THEN "open" ELSE d.sess[s]]
            e == [d EXCEPT !.runs = rn, !.prompt = pm, !.queue = d.queue \cup made,
                           !.mon = mn, !.task = tk, !.sess = ss,
                           !.last = d.last + Cardinality(A)]
<1>0. d \in Database /\ d.last \in 0..MaxId /\ B \in SUBSET Tasks
  <2>1. d \in Database /\ B \in SUBSET Tasks
    BY DEF Sound
  <2>. QED
    BY <2>1 DEF Database
<1>1. d \in Database /\ Insert(d, B, p, n) = e
  <2>1. d \in Database
    BY DEF Sound
  <2>2. Insert(d, B, p, n) = e
    BY DEF Insert
  <2>. QED
    BY <2>1, <2>2
<1>2. /\ A \in SUBSET Tasks
      /\ \A t \in A : /\ t \in B /\ d.task[t].next \in Nat /\ d.task[t].next <= n /\ ~HasActive(d, t)
                      /\ p[t] \in Sessions \cup {NoSession}
                      /\ Kind[t] = "goal" => /\ p[t] \in Sessions /\ p[t] = Home[t]
                                             /\ \A i \in d.queue : d.runs[i].task # t
  <2>1. A \in SUBSET Tasks /\ B \in SUBSET Tasks
    OBVIOUS
  <2>2. ASSUME NEW t \in A
        PROVE  /\ t \in B /\ d.task[t].next \in Nat /\ d.task[t].next <= n /\ ~HasActive(d, t)
               /\ p[t] \in Sessions \cup {NoSession}
               /\ Kind[t] = "goal" => /\ p[t] \in Sessions /\ p[t] = Home[t]
                                      /\ \A i \in d.queue : d.runs[i].task # t
    <3>1. t \in B /\ t \in Tasks /\ d.task[t] \in TaskRows
      BY <1>1 DEF Database
    <3>2. d.task[t].next \in Nat /\ d.task[t].next <= n /\ ~HasActive(d, t)
      BY <3>1 DEF IsDue, TaskRows
    <3>3. /\ p[t] \in Sessions \cup {NoSession}
          /\ Kind[t] = "goal" => p[t] \in Sessions /\ p[t] = Home[t]
      BY <1>1, <2>1, <3>1, PlacesType
    <3>4. Placed(d) /\ Accepted(d, B, p, t, n)
      BY DEF Sound
    <3>5. Kind[t] = "goal" => \A i \in d.queue : d.runs[i].task # t
      BY <1>0, <3>1, <3>4, GoalTurnQuiet
    <3>. QED
      BY <3>1, <3>2, <3>3, <3>5
  <2>. QED
    BY <2>1, <2>2
<1>3. Cardinality(A) \in Nat /\ d.last \in Nat /\ d.last + Cardinality(A) \in 0..MaxId
  <2>1. IsFiniteSet(A)
    BY <1>2, FS_Subset, TasksAssumption
  <2>2. Cardinality(A) \in Nat
    BY <2>1, FS_CardinalityType
  <2>. QED
    BY <1>0, <2>2, TimesAssumption
<1>4. \A t \in A : row[t] \in Nat /\ d.last < row[t] /\ row[t] <= d.last + Cardinality(A)
  <2>. SUFFICES ASSUME NEW t \in A
                PROVE  row[t] \in Nat /\ d.last < row[t] /\ row[t] <= d.last + Cardinality(A)
    OBVIOUS
  <2>. HIDE DEF A
  <2>1. /\ Cardinality({u \in A : Sooner(d, u, t)}) \in Nat
        /\ Cardinality({u \in A : Sooner(d, u, t)}) < Cardinality(A)
    BY <1>1, <1>2, RowNumbers
  <2>2. row[t] = d.last + 1 + Cardinality({u \in A : Sooner(d, u, t)})
    OBVIOUS
  <2>. HIDE DEF row
  <2>. QED
    BY <1>3, <2>1, <2>2
<1>. HIDE DEF row, A
<1>5. \A i \in Ids : new(i) => who(i) \in A /\ row[who(i)] = i
  OBVIOUS
<1>. HIDE DEF who
<1>6. ASSUME NEW i \in Ids, new(i)
      PROVE  run(i) \in Runs
  <2>1. who(i) \in A
    BY <1>5, <1>6
  <2>2. Kind[who(i)] = "goal" => d.worker[p[who(i)]].rev \in Nat
    BY <1>1, <1>2, <2>1 DEF Database
  <2>3. who(i) \in Tasks /\ d.task[who(i)].next \in Nat
    BY <1>2, <2>1
  <2>. QED
    BY <2>2, <2>3 DEF Runs, Active, Ended
<1>7. rn \in [Ids -> Runs]
  BY <1>1, <1>6 DEF Database
<1>8. pm \in [Ids -> Prompts]
  <2>. SUFFICES ASSUME NEW i \in Ids PROVE pm[i] \in Prompts
    OBVIOUS
  <2>1. d.prompt[i] \in Prompts
    BY <1>1 DEF Database
  <2>2. i \in made => [session |-> p[who(i)], guidance |-> FALSE] \in Prompts
    BY <1>2, <1>5 DEF Prompts
  <2>. QED
    BY <2>1, <2>2
<1>9. /\ \A i \in made : pm[i].session \in Sessions /\ pm[i].session = p[who(i)]
      /\ \A i \in Ids : i \notin made => pm[i] = d.prompt[i]
  <2>1. \A i \in made : i \in Ids /\ who(i) \in A /\ p[who(i)] # NoSession
    BY <1>5
  <2>. QED
    BY <1>2, <2>1
<1>10. mn \in [Tasks -> [left : Int, until : Nat]]
  <2>. SUFFICES ASSUME NEW t \in Tasks PROVE mn[t] \in [left : Int, until : Nat]
    OBVIOUS
  <2>1. d.mon[t] \in [left : Int, until : Nat]
    BY <1>1 DEF Database
  <2>. QED
    BY <2>1
<1>11. ASSUME NEW t \in Tasks
       PROVE  /\ tk[t] \in TaskRows
              /\ t \notin A => tk[t].next = d.task[t].next
              /\ t \in A => tk[t].next = NoTime \/ tk[t].next > n
  <2>1. d.task[t] \in TaskRows
    BY <1>1 DEF Database
  <2>2. /\ NextAfter(d.task[t].sched, n) \in Nat \cup {NoTime}
        /\ NextAfter(d.task[t].sched, n) = NoTime \/ NextAfter(d.task[t].sched, n) > n
    BY <2>1, NextAfterLater DEF TaskRows
  <2>. QED
    BY <2>1, <2>2 DEF TaskRows
<1>12. tk \in [Tasks -> TaskRows]
  BY <1>11
<1>13. ss \in [Sessions -> {"unborn", "open", "deleted"}]
  BY <1>1 DEF Database
<1>14. /\ \A i \in Ids : ~new(i) => rn[i] = d.runs[i]
       /\ \A i \in Ids : new(i) => /\ rn[i].task = who(i) /\ rn[i].due = d.task[who(i)].next
                                   /\ rn[i].status \in {"failed", "queued"}
  OBVIOUS
<1>15. \A i \in Ids : new(i) => d.last < i /\ i <= d.last + Cardinality(A)
  BY <1>4
<1>16. made \in SUBSET Ids /\ \A i \in made : new(i)
  OBVIOUS
<1>. HIDE DEF rn, pm, mn, tk, ss, made, new, run
<1>17. /\ e \in Database /\ e.runs = rn /\ e.queue = d.queue \cup made /\ e.sent = d.sent
       /\ e.last = d.last + Cardinality(A) /\ e.task = tk /\ e.prompt = pm
  BY <1>1, <1>3, <1>7, <1>8, <1>10, <1>12, <1>13, <1>16 DEF Database
<1>. HIDE DEF e
<1>18. \A i \in Ids : new(i) => d.runs[i].task = NoTask /\ i \notin d.queue /\ d.sent[i] = 0
  BY <1>15 DEF Sound, Unused
<1>19. Placed(e)
  <2>. SUFFICES ASSUME NEW i \in d.queue \cup made
                PROVE  /\ pm[i].session \in Sessions
                       /\ rn[i].task # NoTask /\ Kind[rn[i].task] = "goal"
                          => pm[i].session = Home[rn[i].task]
    BY <1>17 DEF Placed, Scheduled
  <2>1. i \in Ids
    BY <1>1, <1>16 DEF Database
  <2>3. CASE i \in made
    BY <1>2, <1>5, <1>9, <1>14, <1>16, <2>1, <2>3
  <2>4. CASE i \notin made
    <3>1. pm[i] = d.prompt[i] /\ i \in d.queue
      BY <1>9, <2>1, <2>4
    <3>2. rn[i] = d.runs[i]
      BY <1>14, <1>18, <2>1, <3>1
    <3>. QED
      BY <3>1, <3>2 DEF Sound, Placed, Scheduled
  <2>. QED
    BY <2>3, <2>4
<1>20. Unused(e)
  <2>. SUFFICES ASSUME NEW i \in Ids, i > d.last + Cardinality(A)
                PROVE  rn[i].task = NoTask /\ i \notin d.queue \cup made /\ d.sent[i] = 0
    BY <1>17 DEF Unused
  <2>1. i > d.last /\ ~new(i)
    BY <1>3, <1>15 DEF Ids
  <2>. QED
    BY <1>14, <1>16, <2>1 DEF Sound, Unused
<1>21. Once(e)
  BY <1>14, <1>16, <1>17, <1>18 DEF Sound, Once
<1>22. Alone(e)
  <2>. SUFFICES ASSUME NEW i \in Ids, NEW j \in Ids, rn[i].task # NoTask, rn[i].task = rn[j].task,
                       Busy(e, i), Busy(e, j)
                PROVE  i = j
    BY <1>17 DEF Alone, Scheduled
  <2>0. \A k \in Ids : Busy(e, k) /\ ~new(k) => Busy(d, k) /\ rn[k] = d.runs[k]
    BY <1>14, <1>16, <1>17 DEF Busy
  <2>1. CASE ~new(i) /\ ~new(j)
    BY <1>14, <2>0, <2>1 DEF Sound, Alone, Scheduled
  <2>2. CASE new(i) /\ new(j)
    BY <1>5, <1>14, <2>2
  <2>3. \A k, l \in Ids : new(k) /\ Busy(d, l) => d.runs[l].task # rn[k].task
    BY <1>2, <1>5, <1>14 DEF HasActive, RunsOf, Busy
  <2>4. CASE new(i) /\ ~new(j)
    BY <2>0, <2>3, <2>4
  <2>5. CASE ~new(i) /\ new(j)
    BY <2>0, <2>3, <2>5
  <2>. QED
    BY <2>1, <2>2, <2>4, <2>5
<1>23. Dated(e, n)
  BY <1>2, <1>5, <1>14, <1>17 DEF Sound, Dated, Scheduled
<1>24. \A i \in Ids : rn[i].task # NoTask =>
         rn[i].task \in Tasks /\ rn[i].due \in Nat /\ rn[i].due <= n
  <2>1. Dated(e, n) => \A i \in Ids : rn[i].task # NoTask => rn[i].due <= n
    BY <1>17 DEF Dated, Scheduled
  <2>. QED
    BY <1>7, <1>23, <2>1 DEF Runs
<1>25. InOrder(e)
  <2>. SUFFICES ASSUME NEW i \in Ids, rn[i].task # NoTask, Kind[rn[i].task] # "goal"
                PROVE  /\ \A j \in Ids : rn[j].task = rn[i].task /\ i < j => rn[i].due < rn[j].due
                       /\ tk[rn[i].task].next # NoTime => rn[i].due < tk[rn[i].task].next
    BY <1>17 DEF InOrder, Scheduled
  <2>1. ASSUME NEW j \in Ids, rn[j].task = rn[i].task, i < j
        PROVE  rn[i].due < rn[j].due
    <3>1. CASE ~new(i) /\ ~new(j)
      BY <1>14, <2>1, <3>1 DEF Sound, InOrder, Scheduled
    <3>2. CASE ~new(i) /\ new(j)
      <4>1. who(j) \in A /\ rn[j].task = who(j) /\ rn[j].due = d.task[who(j)].next
        BY <1>5, <1>14, <3>2
      <4>2. d.task[who(j)].next \in Nat /\ d.task[who(j)].next # NoTime
        <5>1. d.task[who(j)].next \in Nat
          BY <1>2, <4>1
        <5>. QED
          BY <5>1 DEF NoTime
      <4>3. rn[i] = d.runs[i] /\ d.runs[i].task = who(j)
        BY <1>14, <2>1, <3>2, <4>1
      <4>. QED
        BY <4>1, <4>2, <4>3 DEF Sound, InOrder, Scheduled
    <3>3. CASE new(i) /\ new(j)
      BY <1>5, <1>14, <2>1, <3>3 DEF Ids
    <3>4. CASE new(i) /\ ~new(j)
      <4>1. d.last < i /\ i < j
        BY <1>15, <2>1, <3>4
      <4>2. d.runs[j].task = NoTask
        BY <1>3, <4>1 DEF Sound, Unused, Ids
      <4>. QED
        BY <1>14, <2>1, <3>4, <4>2
    <3>. QED
      BY <3>1, <3>2, <3>3, <3>4
  <2>2. ASSUME tk[rn[i].task].next # NoTime
        PROVE  rn[i].due < tk[rn[i].task].next
    <3>1. rn[i].task \in Tasks /\ rn[i].due \in Nat /\ rn[i].due <= n
      BY <1>24
    <3>2. CASE rn[i].task \in A
      <4>1. tk[rn[i].task].next > n /\ tk[rn[i].task].next \in Nat
        BY <1>11, <2>2, <3>1, <3>2 DEF TaskRows
      <4>. QED
        BY <3>1, <4>1
    <3>3. CASE rn[i].task \notin A
      <4>1. ~new(i) /\ rn[i] = d.runs[i]
        BY <1>5, <1>14, <3>3
      <4>. QED
        BY <1>11, <2>2, <3>1, <3>3, <4>1 DEF Sound, InOrder, Scheduled
    <3>. QED
      BY <3>2, <3>3
  <2>. QED
    BY <2>1, <2>2
<1>. QED
  BY <1>1, <1>17, <1>19, <1>20, <1>21, <1>22, <1>23, <1>25 DEF Sound

\* A poll is recovery, cleanup, creation and claims, one after the other.
LEMMA PollSound ==
  ASSUME IInv, NEW h \in Hosts, Poll(h)
  PROVE  Sound(db', now)
<1>. DEFINE d == Cleanup(Rearm(Recover(db, now), now), now)
            B == Batch(d, h, now)
<1>1. now \in Nat /\ Sound(db, now)
  BY DEF IInv, TypeOK
<1>2. Sound(d, now)
  BY <1>1, RecoverSound, RearmSound, CleanupSound
<1>3. B \in SUBSET {t \in Tasks : IsDue(d, h, now, t)}
  BY DEF Batch
<1>4. PICK p \in Places(d, B) :
        /\ d.last + Cardinality({t \in B : Accepted(d, B, p, t, now)}) <= MaxId
        /\ db' = Claim(Insert(d, B, p, now), h, now)
  BY DEF Poll
<1>. HIDE DEF d, B
<1>5. Sound(Insert(d, B, p, now), now)
  BY <1>1, <1>2, <1>3, <1>4, InsertSound
<1>. QED
  BY <1>1, <1>4, <1>5, ClaimSound

-----------------------------------------------------------------------------
(* The invariant. *)

\* The empty database is sound.
LEMMA InitIInv == Init => IInv
<1>. SUFFICES ASSUME Init PROVE IInv
  OBVIOUS
<1>1. NoHolder \in Holders /\ 0 \in 0..MaxId /\ 0 \in 0..MaxNow
  BY TimesAssumption DEF Holders
<1>2. db \in Database
  <2>1. db.task \in [Tasks -> TaskRows] /\ db.runs \in [Ids -> Runs]
    BY DEF Init, TaskRows, Runs, NoRun
  <2>2. db.prompt \in [Ids -> Prompts] /\ db.sent \in [Ids -> Nat]
    BY DEF Init, Prompts
  <2>3. /\ db.lease \in [Sessions -> [holder : Holders, until : Nat]]
        /\ db.goal \in [Sessions -> [status : {"none", "active", "paused", "completed"}, rev : Nat]]
        /\ db.worker \in [Sessions -> [rev : Nat, turns : Nat, stalls : Nat]]
    BY <1>1 DEF Init, NoLease, NoWorker
  <2>4. /\ db.mon \in [Tasks -> [left : Int, until : Nat]]
        /\ db.sess \in [Sessions -> {"unborn", "open", "deleted"}]
        /\ db.queue \in SUBSET Ids /\ db.locked \in SUBSET Sessions /\ db.last \in 0..MaxId
    BY <1>1 DEF Init
  <2>5. db = [task |-> db.task, runs |-> db.runs, queue |-> db.queue, prompt |-> db.prompt,
              sent |-> db.sent, lease |-> db.lease, goal |-> db.goal, worker |-> db.worker,
              mon |-> db.mon, sess |-> db.sess, locked |-> db.locked, last |-> db.last]
    BY DEF Init
  <2>. QED
    BY <2>1, <2>2, <2>3, <2>4, <2>5 DEF Database
<1>3. \A i \in Ids : db.runs[i] = NoRun /\ db.sent[i] = 0 /\ i \notin db.queue
  BY DEF Init
<1>4. Unused(db) /\ Placed(db) /\ Once(db) /\ Alone(db) /\ Dated(db, now) /\ InOrder(db)
  BY <1>2, <1>3 DEF Unused, Placed, Once, Alone, Dated, InOrder, Scheduled, NoRun, Database
<1>. QED
  BY <1>1, <1>2, <1>4 DEF IInv, TypeOK, Sound, Init, NoRemoval

\* The lease requests in progress, through every step.
LEMMA YieldsType ==
  ASSUME IInv, [Next]_vars
  PROVE  yields' \in [Clients -> Yields \cup {NoYield}]
<1>1. now \in Nat /\ yields \in [Clients -> Yields \cup {NoYield}]
  BY DEF IInv, TypeOK
<1>2. ASSUME NEW s \in Sessions, NEW k \in Ids \cup Clients, Lease(s, k)
      PROVE  yields' \in [Clients -> Yields \cup {NoYield}]
  <2>. DEFINE y == [stage |-> "leased", session |-> s, at |-> now]
  <2>1. y \in Yields
    BY <1>1 DEF Yields
  <2>2. yields' = [yields EXCEPT ![k] = y] \/ yields' = yields
    BY <1>2 DEF Lease
  <2>. HIDE DEF y
  <2>. QED
    BY <1>1, <2>1, <2>2
<1>3. ASSUME NEW c \in Clients,
             YieldFind(c) \/ YieldCancel(c) \/ YieldDelete(c) \/ YieldNext(c) \/ YieldAbandoned(c)
      PROVE  yields' \in [Clients -> Yields \cup {NoYield}]
  <2>1. yields[c] # NoYield
    BY <1>3 DEF YieldFind, YieldCancel, YieldDelete, YieldNext, YieldAbandoned, NoYield
  <2>2. yields[c] \in Yields
    BY <1>1, <2>1
  <2>3. \A st \in {"found", "cancelled", "deleted"} : [yields[c] EXCEPT !.stage = st] \in Yields
    BY <2>2 DEF Yields
  <2>4. \/ yields' = [yields EXCEPT ![c] = NoYield]
        \/ \E st \in {"found", "cancelled", "deleted"} :
              yields' = [yields EXCEPT ![c] = [yields[c] EXCEPT !.stage = st]]
    BY <1>1, <1>3 DEF YieldFind, YieldCancel, YieldDelete, YieldNext, YieldAbandoned
  <2>. QED
    BY <1>1, <2>3, <2>4
<1>4. ASSUME \/ Edit \/ Goals \/ Chat \/ Upkeep \/ UNCHANGED vars
             \/ \E s \in Sessions, k \in Ids \cup Clients : Release(s, k)
             \/ \E h \in Hosts : Poll(h)
             \/ \E i \in Ids : Report(i)
      PROVE  yields' = yields
  <2>1. CASE Edit
    BY <2>1 DEF Edit, CreateTask, UpdateTask, EnableTask, DisableTask, DeleteTask, StartMonitor,
                CancelMonitor
  <2>2. CASE Goals
    BY <2>2 DEF Goals, StartGoal, ResumeGoal, PauseGoal, CompleteGoal, GoalCommand
  <2>3. CASE Chat
    BY <2>3 DEF Chat, Enqueue, Consume, RemoveFind, RemoveReadGoal, RemoveSaveGoal,
                RemoveStopWorker, RemoveCancel, RemoveDelete, RemoveAbandoned
  <2>4. CASE Upkeep
    BY <2>4 DEF Upkeep, Tick, PrepareRewind, CompleteRewind, DeleteSession
  <2>5. CASE \/ UNCHANGED vars
             \/ \E s \in Sessions, k \in Ids \cup Clients : Release(s, k)
             \/ \E h \in Hosts : Poll(h)
             \/ \E i \in Ids : Report(i)
    BY <2>5 DEF vars, Release, Poll, Report, Result
  <2>. QED
    BY <1>4, <2>1, <2>2, <2>3, <2>4, <2>5
<1>. QED
  BY <1>1, <1>2, <1>3, <1>4 DEF Next, Running, Yielding

\* Only removals and the clock change anything beside the database and the leases'
\* withdrawals.
LEMMA RestType ==
  ASSUME IInv, [Next]_vars
  PROVE  now' \in 0..MaxNow /\ removal' \in Removals \cup {NoRemoval}
<1>1. now \in 0..MaxNow /\ removal \in Removals \cup {NoRemoval}
  BY DEF IInv, TypeOK
<1>2. ASSUME Edit \/ Goals \/ Running \/ UNCHANGED vars
      PROVE  UNCHANGED <<now, removal>>
  <2>1. CASE Edit
    BY <2>1 DEF Edit, CreateTask, UpdateTask, EnableTask, DisableTask, DeleteTask, StartMonitor,
                CancelMonitor
  <2>2. CASE Goals
    BY <2>2 DEF Goals, StartGoal, ResumeGoal, PauseGoal, CompleteGoal, GoalCommand
  <2>3. CASE Running
    BY <2>3 DEF Running, Lease, Release, Poll, Report, Result, Yielding, YieldFind, YieldCancel,
                YieldDelete, YieldNext, YieldAbandoned
  <2>. QED
    BY <1>2, <2>1, <2>2, <2>3 DEF vars
<1>3. ASSUME Chat
      PROVE  now' = now /\ removal' \in Removals \cup {NoRemoval}
  <2>1. ASSUME NEW i \in Ids, RemoveFind(i)
        PROVE  now' = now /\ removal' \in Removals \cup {NoRemoval}
    <3>1. i \in db.queue /\ db.prompt[i].session \in Sessions
      BY <2>1 DEF RemoveFind, IInv, Sound, Placed
    <3>. QED
      BY <2>1, <3>1 DEF RemoveFind, Removals
  <2>2. CASE RemoveReadGoal
    <3>1. removal \in Removals
      BY <1>1, <2>2 DEF RemoveReadGoal, NoRemoval
    <3>2. db.goal[removal.session].rev \in Nat
      BY <3>1 DEF IInv, TypeOK, Database, Removals
    <3>. QED
      BY <2>2, <3>1, <3>2 DEF RemoveReadGoal, Removals
  <2>3. CASE RemoveSaveGoal
    <3>1. removal \in Removals
      BY <1>1, <2>3 DEF RemoveSaveGoal, NoRemoval
    <3>. QED
      BY <2>3, <3>1 DEF RemoveSaveGoal, Removals
  <2>4. CASE RemoveStopWorker
    <3>1. removal \in Removals
      BY <1>1, <2>4 DEF RemoveStopWorker, NoRemoval
    <3>. QED
      BY <2>4, <3>1 DEF RemoveStopWorker, Removals
  <2>5. CASE RemoveCancel
    <3>1. removal \in Removals
      BY <1>1, <2>5 DEF RemoveCancel, NoRemoval
    <3>. QED
      BY <2>5, <3>1 DEF RemoveCancel, Removals
  <2>6. CASE RemoveDelete \/ RemoveAbandoned
    BY <2>6 DEF RemoveDelete, RemoveAbandoned
  <2>7. CASE \/ \E s \in Sessions, g \in BOOLEAN : Enqueue(s, g)
             \/ \E i \in Ids : Consume(i)
    BY <1>1, <2>7 DEF Enqueue, Consume
  <2>. QED
    BY <1>3, <2>1, <2>2, <2>3, <2>4, <2>5, <2>6, <2>7 DEF Chat
<1>4. ASSUME Upkeep
      PROVE  now' \in 0..MaxNow /\ removal' = removal
  <2>1. CASE Tick
    BY <1>1, <2>1, TimesAssumption DEF Tick
  <2>2. CASE \E s \in Sessions : PrepareRewind(s) \/ CompleteRewind(s) \/ DeleteSession(s)
    BY <1>1, <2>2 DEF PrepareRewind, CompleteRewind, DeleteSession
  <2>. QED
    BY <1>4, <2>1, <2>2 DEF Upkeep
<1>. QED
  BY <1>1, <1>2, <1>3, <1>4 DEF Next

\* Every step leaves a sound database, one action after the other.
LEMMA NextSound ==
  ASSUME IInv, [Next]_vars
  PROVE  Sound(db', now')
<1>1. now \in Nat /\ Sound(db, now)
  BY DEF IInv, TypeOK
<1>2. CASE Edit
  <2>1. now' = now
    BY <1>2 DEF Edit, CreateTask, UpdateTask, EnableTask, DisableTask, DeleteTask, StartMonitor,
                CancelMonitor
  <2>2. PICK t \in Tasks :
          \/ \E sch \in Schedules, en \in BOOLEAN : CreateTask(t, sch, en) \/ UpdateTask(t, sch, en)
          \/ EnableTask(t) \/ DisableTask(t) \/ DeleteTask(t)
          \/ \E delay \in Delays, checks \in Checks : StartMonitor(t, delay, checks)
          \/ CancelMonitor(t)
    BY <1>2 DEF Edit
  <2>. QED
    BY <2>1, <2>2, CreateTaskSound, UpdateTaskSound, EnableTaskSound, DisableTaskSound,
       DeleteTaskSound, StartMonitorSound, CancelMonitorSound
<1>3. CASE Goals
  <2>1. PICK s \in Sessions : StartGoal(s) \/ ResumeGoal(s) \/ PauseGoal(s) \/ CompleteGoal(s)
    BY <1>3 DEF Goals
  <2>2. PICK status \in {"active", "paused", "completed"} : \E from : GoalCommand(s, status, from)
    BY <2>1 DEF StartGoal, ResumeGoal, PauseGoal, CompleteGoal
  <2>3. now' = now
    BY <2>2 DEF GoalCommand
  <2>. QED
    BY <2>2, <2>3, GoalCommandSound
<1>4. CASE Chat
  <2>1. now' = now
    BY <1>4, RestType DEF Chat, Enqueue, Consume, RemoveFind, RemoveReadGoal,
                          RemoveSaveGoal, RemoveStopWorker, RemoveCancel, RemoveDelete,
                          RemoveAbandoned
  <2>2. CASE \E s \in Sessions, g \in BOOLEAN : Enqueue(s, g)
    BY <2>1, <2>2, EnqueueSound
  <2>3. CASE \E i \in Ids : Consume(i)
    BY <2>1, <2>3, ConsumeSound
  <2>4. CASE (\E i \in Ids : RemoveFind(i)) \/ RemoveReadGoal \/ RemoveAbandoned
    BY <1>1, <2>1, <2>4 DEF RemoveFind, RemoveReadGoal, RemoveAbandoned
  <2>5. CASE RemoveSaveGoal \/ RemoveStopWorker \/ RemoveCancel \/ RemoveDelete
    BY <2>1, <2>5, RemoveSaveGoalSound, RemoveStopWorkerSound, RemoveCancelSound, RemoveDeleteSound
  <2>. QED
    BY <1>4, <2>2, <2>3, <2>4, <2>5 DEF Chat
<1>5. CASE Running
  <2>1. now' = now
    BY <1>5 DEF Running, Lease, Release, Poll, Report, Result, Yielding, YieldFind, YieldCancel,
                YieldDelete, YieldNext, YieldAbandoned
  <2>2. CASE (\E s \in Sessions, k \in Ids \cup Clients : Lease(s, k)) \/ Yielding
    <3>1. Withdraws(db, db', now)
      BY <2>2, LeaseWithdraws, YieldWithdraws DEF Yielding
    <3>. QED
      BY <1>1, <2>1, <3>1, WithdrawsSound
  <2>3. CASE \E s \in Sessions, k \in Ids \cup Clients : Release(s, k)
    BY <2>1, <2>3, UpkeepSound
  <2>4. CASE \E h \in Hosts : Poll(h)
    BY <2>1, <2>4, PollSound
  <2>5. CASE \E i \in Ids : Report(i)
    <3>1. PICK i \in Ids : Report(i)
      BY <2>5
    <3>2. \E st \in {"queued", "running", "blocked", "complete", "cancelled", "failed"},
             a \in Assessments \cup {Unassessed} : Result(i, st, a)
      BY <3>1 DEF Report
    <3>. QED
      BY <2>1, <3>2, ResultSound
  <2>. QED
    BY <1>5, <2>2, <2>3, <2>4, <2>5 DEF Running
<1>6. CASE Upkeep
  <2>1. CASE Tick
    <3>1. now' = now + 1 /\ db' = db
      BY <2>1 DEF Tick
    <3>2. Dated(db, now + 1)
      <4>1. \A i \in Ids : db.runs[i].due \in Nat
        BY <1>1 DEF Sound, Database, Runs
      <4>. QED
        BY <1>1, <4>1 DEF Sound, Dated
    <3>. QED
      BY <1>1, <3>1, <3>2 DEF Sound
  <2>2. CASE \E s \in Sessions : PrepareRewind(s) \/ CompleteRewind(s) \/ DeleteSession(s)
    <3>1. now' = now
      BY <2>2 DEF PrepareRewind, CompleteRewind, DeleteSession
    <3>. QED
      BY <2>2, <3>1, UpkeepSound, DeleteSessionSound
  <2>. QED
    BY <1>6, <2>1, <2>2 DEF Upkeep
<1>7. CASE UNCHANGED vars
  BY <1>1, <1>7 DEF vars
<1>. QED
  BY <1>2, <1>3, <1>4, <1>5, <1>6, <1>7 DEF Next

\* The invariant is inductive: whatever the callers of the store do, in any
\* order, its database stays sound.
THEOREM Invariance == Spec => []IInv
<1>1. IInv /\ [Next]_vars => IInv'
  <2>. SUFFICES ASSUME IInv, [Next]_vars PROVE IInv'
    OBVIOUS
  <2>1. Sound(db', now')
    BY NextSound
  <2>. QED
    BY <2>1, RestType, YieldsType DEF IInv, TypeOK, Sound, Unused, Placed, Once, Alone, Dated, InOrder, Scheduled
<1>. QED
  BY <1>1, InitIInv, PTL DEF Spec

-----------------------------------------------------------------------------
\* The rows of every table keep their types (the schema of migrations.rs).
THEOREM TypeCorrect == Spec => []TypeOK
<1>1. IInv => TypeOK
  BY DEF IInv
<1>. QED
  BY <1>1, Invariance, PTL

\* A queued prompt becomes a chat message at most once, with any number of hosts,
\* sessions, tasks and retries (consume_queued_prompt, due_scheduled).
THEOREM PromptDeliveredOnce == Spec => []DeliveredOnce
<1>1. IInv => DeliveredOnce
  <2>. SUFFICES ASSUME IInv, NEW i \in Ids
                PROVE  /\ db.sent[i] <= 1
                       /\ db.sent[i] > 0 => i \notin db.queue /\ db.runs[i].status # "claimed"
                       /\ db.runs[i].status \in {"running", "blocked", "complete", "interrupted"}
                          => db.sent[i] = 1
    BY DEF DeliveredOnce
  <2>. QED
    BY DEF IInv, Sound, Once
<1>. QED
  BY <1>1, Invariance, PTL

\* A task never has two runs that are pending or running (due_scheduled).
THEOREM OccurrenceSingle == Spec => []SingleOccurrence
<1>1. IInv => SingleOccurrence
  BY DEF IInv, Sound, Alone, Busy, SingleOccurrence
<1>. QED
  BY <1>1, Invariance, PTL

\* The occurrences of a saved task or a monitor are strictly ordered in time, so that
\* the unique index on task and due time is never violated (due_scheduled, next_after).
THEOREM OccurrenceFresh == Spec => []FreshOccurrence
<1>1. IInv => FreshOccurrence
  BY DEF IInv, Sound, InOrder, FreshOccurrence, RunsOf
<1>. QED
  BY <1>1, Invariance, PTL

-----------------------------------------------------------------------------
(* The store implements PromptDelivery.  Every transaction but a delivery   *)
(* only lets the queue grow by new ids, or shrink: the relation Grows, which *)
(* composes along the passes of a transaction and maps to the step Change.  *)


Grows(d, e) ==
  /\ e \in Database
  /\ e.last >= d.last
  /\ e.queue \subseteq d.queue \cup (d.last + 1)..e.last
  /\ \A i \in 1..d.last : e.prompt[i] = d.prompt[i]
  /\ e.sent = d.sent

\* Growth composes.
LEMMA GrowsTwice ==
  ASSUME NEW c \in Database, NEW d, NEW e, Grows(c, d), Grows(d, e)
  PROVE  Grows(c, e)
<1>1. c.last \in Int /\ d.last \in Int /\ e.last \in Int /\ c.last <= d.last /\ d.last <= e.last
  BY DEF Grows, Database
<1>2. e.queue \subseteq c.queue \cup (c.last + 1)..e.last
  <2>1. (d.last + 1)..e.last \subseteq (c.last + 1)..e.last
    BY <1>1
  <2>2. (c.last + 1)..d.last \subseteq (c.last + 1)..e.last
    BY <1>1
  <2>. QED
    BY <2>1, <2>2 DEF Grows
<1>3. \A i \in 1..c.last : e.prompt[i] = c.prompt[i]
  <2>1. 1..c.last \subseteq 1..d.last
    BY <1>1
  <2>. QED
    BY <2>1 DEF Grows
<1>. QED
  BY <1>1, <1>2, <1>3 DEF Grows

\* A pass that leaves the ids and the prompts alone and only withdraws.
LEMMA SameGrows ==
  ASSUME NEW d \in Database, NEW e \in Database,
         e.last = d.last, e.prompt = d.prompt, e.sent = d.sent, e.queue \subseteq d.queue
  PROVE  Grows(d, e)
<1>1. d.last \in Int
  BY DEF Database
<1>. QED
  BY <1>1 DEF Grows

\* What withdraws does not add.
LEMMA WithdrawsGrows ==
  ASSUME NEW n, NEW d \in Database, NEW e, Withdraws(d, e, n)
  PROVE  Grows(d, e)
BY SameGrows DEF Withdraws

\* The prompts of some tasks are withdrawn.
LEMMA CancelPendingGrows ==
  ASSUME NEW d \in Database, NEW T
  PROVE  Grows(d, CancelPending(d, T)) /\ CancelPending(d, T) \in Database
<1>1. Withdraws(d, CancelPending(d, T), 0)
  BY CancelPendingWithdraws
<1>. QED
  BY <1>1, WithdrawsGrows DEF Withdraws

\* Some tasks are deleted.
LEMMA DropTasksGrows ==
  ASSUME NEW d \in Database, NEW T
  PROVE  Grows(d, DropTasks(d, T)) /\ DropTasks(d, T) \in Database
<1>1. Withdraws(d, DropTasks(d, T), 0)
  BY DropTasksWithdraws
<1>. QED
  BY <1>1, WithdrawsGrows DEF Withdraws

\* The transactions below end with a cleanup.
LEMMA CleanupGrows ==
  ASSUME NEW n \in Nat, NEW c \in Database, NEW d, Grows(c, d)
  PROVE  Grows(c, Cleanup(d, n))
<1>1. d \in Database
  BY DEF Grows
<1>2. Grows(d, Cleanup(d, n))
  BY <1>1, CleanupWithdraws, WithdrawsGrows
<1>. QED
  BY <1>2, GrowsTwice

-----------------------------------------------------------------------------
(* The commands. *)

\* Writing the row of a task, whatever it says, leaves the queue alone.
LEMMA RowGrows ==
  ASSUME NEW d \in Database, NEW t \in Tasks, NEW row \in TaskRows
  PROVE  Grows(d, [d EXCEPT !.task[t] = row])
<1>. DEFINE e == [d EXCEPT !.task[t] = row]
<1>1. [d.task EXCEPT ![t] = row] \in [Tasks -> TaskRows]
  BY DEF Database
<1>2. /\ e \in Database /\ e.last = d.last /\ e.prompt = d.prompt /\ e.sent = d.sent
      /\ e.queue = d.queue
  BY <1>1 DEF Database
<1>. HIDE DEF e
<1>3. Grows(d, e)
  BY <1>2, SameGrows
<1>. QED
  BY <1>3 DEF e

\* The users' and the agents' commands on tasks and monitors.
LEMMA EditGrows ==
  ASSUME IInv, Edit
  PROVE  Grows(db, db')
<1>1. now \in Nat /\ db \in Database
  BY DEF IInv, TypeOK
<1>2. ASSUME NEW t \in Tasks, NEW sch \in Schedules, NEW en \in BOOLEAN,
             CreateTask(t, sch, en) \/ UpdateTask(t, sch, en)
      PROVE  Grows(db, db')
  <2>. DEFINE row == [state |-> "live", enabled |-> en, next |-> NextAfter(sch, now), sched |-> sch]
              d == CancelPending(db, {t})
  <2>1. row \in TaskRows
    BY <1>1, TimesAssumption, NextAfterLater DEF TaskRows
  <2>2. Grows(db, d) /\ d \in Database
    BY <1>1, CancelPendingGrows
  <2>3. db' = Cleanup([db EXCEPT !.task[t] = row], now) \/ db' = Cleanup([d EXCEPT !.task[t] = row], now)
    BY <1>2 DEF CreateTask, UpdateTask, Save
  <2>. HIDE DEF row, d
  <2>4. Grows(db, [db EXCEPT !.task[t] = row]) /\ Grows(db, [d EXCEPT !.task[t] = row])
    BY <1>1, <2>1, <2>2, RowGrows, GrowsTwice
  <2>. QED
    BY <1>1, <2>3, <2>4, CleanupGrows
<1>3. ASSUME NEW t \in Tasks, EnableTask(t)
      PROVE  Grows(db, db')
  <2>1. db.task[t].sched \in SUBSET Nat
    BY <1>1 DEF Database, TaskRows
  <2>2. NextAfter(db.task[t].sched, now) \in Nat /\ NextAfter(db.task[t].sched, now) > now
    BY <1>1, <1>3, <2>1, NextAfterLater DEF EnableTask
  <2>3. Withdraws(db, SetTasks(db, {t}, TRUE, NextAfter(db.task[t].sched, now)), now)
    BY <1>1, <2>2, SetTasksWithdraws
  <2>. QED
    BY <1>1, <1>3, <2>3, WithdrawsGrows, CleanupGrows DEF EnableTask
<1>4. ASSUME NEW t \in Tasks
      PROVE  Grows(db, SetTasks(CancelPending(db, {t}), {t}, FALSE, db.task[t].next))
  <2>. DEFINE d == CancelPending(db, {t})
  <2>1. Withdraws(db, d, now) /\ d.task = db.task /\ db.task[t].next \in Nat \cup {NoTime}
    BY <1>1, CancelPendingWithdraws, CancelPendingTask DEF Database, TaskRows
  <2>2. Grows(db, d) /\ d \in Database
    BY <1>1, <2>1, WithdrawsGrows DEF Grows
  <2>. HIDE DEF d
  <2>3. Withdraws(d, SetTasks(d, {t}, FALSE, db.task[t].next), now)
    BY <1>1, <2>1, <2>2, SetTasksWithdraws
  <2>. QED
    BY <1>1, <2>2, <2>3, WithdrawsGrows, GrowsTwice DEF d
<1>5. ASSUME NEW t \in Tasks, DisableTask(t)
      PROVE  Grows(db, db')
  BY <1>1, <1>4, <1>5, CleanupGrows DEF DisableTask
<1>6. ASSUME NEW t \in Tasks, DeleteTask(t)
      PROVE  Grows(db, db')
  <2>. DEFINE d == CancelPending(db, {t})
  <2>1. Grows(db, d) /\ d \in Database
    BY <1>1, CancelPendingGrows
  <2>2. Grows(d, DropTasks(d, {t}))
    BY <2>1, DropTasksGrows
  <2>. QED
    BY <1>1, <1>6, <2>1, <2>2, GrowsTwice, CleanupGrows DEF DeleteTask
<1>7. ASSUME NEW t \in Tasks, NEW delay \in Delays, NEW checks \in Checks,
             StartMonitor(t, delay, checks)
      PROVE  Grows(db, db')
  <2>. DEFINE row == [state |-> "live", enabled |-> TRUE, next |-> now + delay, sched |-> {}]
              d == Save(t, row)
              m == [left |-> checks, until |-> now + MonitorLife]
              e == [d EXCEPT !.mon[t] = m]
  <2>1. row \in TaskRows /\ m \in [left : Int, until : Nat]
    BY <1>1, TimesAssumption DEF TaskRows
  <2>2. db' = Cleanup(e, now)
    BY <1>7 DEF StartMonitor
  <2>. HIDE DEF row, m
  <2>3. Grows(db, d) /\ d \in Database
    BY <1>1, <2>1, RowGrows DEF Save, Grows
  <2>. HIDE DEF d
  <2>4. Grows(d, e)
    <3>1. [d.mon EXCEPT ![t] = m] \in [Tasks -> [left : Int, until : Nat]]
      BY <2>1, <2>3 DEF Database
    <3>2. /\ e \in Database /\ e.last = d.last /\ e.prompt = d.prompt /\ e.sent = d.sent
          /\ e.queue = d.queue
      BY <2>3, <3>1 DEF Database
    <3>. HIDE DEF e
    <3>. QED
      BY <2>3, <3>2, SameGrows
  <2>. HIDE DEF e
  <2>. QED
    BY <1>1, <2>2, <2>3, <2>4, GrowsTwice, CleanupGrows
<1>8. ASSUME NEW t \in Tasks, CancelMonitor(t)
      PROVE  Grows(db, db')
  <2>. DEFINE d == SetTasks(CancelPending(db, {t}), {t}, FALSE, db.task[t].next)
              e == [d EXCEPT !.mon[t].left = 0]
  <2>1. db' = Cleanup(e, now)
    BY <1>8 DEF CancelMonitor
  <2>2. Grows(db, d) /\ d \in Database
    BY <1>4 DEF Grows
  <2>. HIDE DEF d
  <2>3. Grows(d, e)
    <3>1. [d.mon[t] EXCEPT !.left = 0] \in [left : Int, until : Nat]
      BY <2>2 DEF Database
    <3>2. [d.mon EXCEPT ![t].left = 0] \in [Tasks -> [left : Int, until : Nat]]
      BY <2>2, <3>1 DEF Database
    <3>3. /\ e \in Database /\ e.last = d.last /\ e.prompt = d.prompt /\ e.sent = d.sent
          /\ e.queue = d.queue
      BY <2>2, <3>2 DEF Database
    <3>. HIDE DEF e
    <3>. QED
      BY <2>2, <3>3, SameGrows
  <2>. HIDE DEF e
  <2>. QED
    BY <1>1, <2>1, <2>2, <2>3, GrowsTwice, CleanupGrows
<1>. QED
  BY <1>2, <1>3, <1>5, <1>6, <1>7, <1>8 DEF Edit

\* The commands on goals withdraw the worker's prompts.
LEMMA GoalCommandGrows ==
  ASSUME IInv, NEW s \in Sessions, NEW status \in {"active", "paused", "completed"}, NEW from,
         GoalCommand(s, status, from)
  PROVE  Grows(db, db')
<1>. DEFINE G == {t \in Tasks : IsGoalTask(t, s)}
            c == CancelPending(db, G)
            d == [c EXCEPT !.goal[s] = Revised(db.goal[s], status)]
<1>1. now \in Nat /\ db \in Database /\ db' \in Database
  BY GoalCommandSound DEF IInv, TypeOK, Sound
<1>2. Grows(db, c) /\ c \in Database
  BY <1>1, CancelPendingGrows
<1>. HIDE DEF c
<1>3. Revised(db.goal[s], status) \in [status : {"none", "active", "paused", "completed"}, rev : Nat]
  BY <1>1 DEF Revised, Database
<1>4. d \in Database
  BY <1>2, <1>3 DEF Database
<1>5. d.last = c.last /\ d.prompt = c.prompt /\ d.sent = c.sent /\ d.queue = c.queue
  BY <1>2 DEF Database
<1>6. Grows(db, d)
  <2>. HIDE DEF d
  <2>. QED
    BY <1>1, <1>2, <1>4, <1>5, SameGrows, GrowsTwice
<1>7. CASE status = "active"
  <2>1. PICK tk, wk : db' = [d EXCEPT !.task = tk, !.worker[s] = wk]
    BY <1>7 DEF GoalCommand, c
  <2>. HIDE DEF d
  <2>2. /\ db'.last = d.last /\ db'.prompt = d.prompt /\ db'.sent = d.sent
        /\ db'.queue = d.queue
    BY <1>4, <2>1 DEF Database
  <2>. QED
    BY <1>1, <1>4, <1>6, <2>2, SameGrows, GrowsTwice
<1>8. CASE status # "active"
  <2>1. db' = SetTasks(d, {t \in G : Live(d, t)}, FALSE, NoTime)
    BY <1>8 DEF GoalCommand, c
  <2>. HIDE DEF d
  <2>2. Grows(d, db')
    BY <1>1, <1>4, <2>1, SetTasksWithdraws, WithdrawsGrows
  <2>. QED
    BY <1>1, <1>6, <2>2, GrowsTwice
<1>. QED
  BY <1>7, <1>8

-----------------------------------------------------------------------------
(* The chat queue. *)

\* A prompt arrives under a new id.
LEMMA EnqueueGrows ==
  ASSUME IInv, NEW s \in Sessions, NEW first \in BOOLEAN, Enqueue(s, first)
  PROVE  Grows(db, db')
<1>. DEFINE d == YieldGoal(db, s, now)
            p == [session |-> s, guidance |-> first]
<1>1. now \in Nat /\ db \in Database /\ db' \in Database
  BY EnqueueSound DEF IInv, TypeOK, Sound
<1>2. Withdraws(db, d, now)
  BY <1>1, YieldGoalWithdraws
<1>3. d \in Database /\ Grows(db, d) /\ d.last = db.last
  BY <1>1, <1>2, WithdrawsGrows DEF Withdraws
<1>4. db' = [d EXCEPT !.queue = d.queue \cup {db.last + 1}, !.prompt[db.last + 1] = p,
                      !.last = db.last + 1]
  BY DEF Enqueue
<1>. HIDE DEF d, p
<1>5. /\ db'.last = d.last + 1 /\ db'.queue = d.queue \cup {d.last + 1} /\ db'.sent = d.sent
      /\ db'.prompt = [d.prompt EXCEPT ![d.last + 1] = p]
  BY <1>3, <1>4 DEF Database
<1>6. d.last \in Int
  BY <1>3 DEF Database
<1>7. Grows(d, db')
  <2>1. d.last + 1 \in (d.last + 1)..db'.last /\ db'.last >= d.last
    BY <1>5, <1>6
  <2>2. \A i \in 1..d.last : db'.prompt[i] = d.prompt[i]
    <3>. SUFFICES ASSUME NEW i \in 1..d.last PROVE [d.prompt EXCEPT ![d.last + 1] = p][i] = d.prompt[i]
      BY <1>5
    <3>1. i # d.last + 1
      BY <1>6
    <3>2. i \in Ids /\ d.prompt \in [Ids -> Prompts]
      BY <1>3, TimesAssumption DEF Database, Ids
    <3>. QED
      BY <3>1, <3>2
  <2>. QED
    BY <1>1, <1>5, <2>1, <2>2 DEF Grows
<1>. QED
  BY <1>1, <1>3, <1>7, GrowsTwice

\* The statements of a removal only withdraw.
LEMMA RemovalGrows ==
  ASSUME IInv,
         \/ \E i \in Ids : RemoveFind(i)
         \/ RemoveReadGoal \/ RemoveSaveGoal \/ RemoveStopWorker
         \/ RemoveCancel \/ RemoveDelete \/ RemoveAbandoned
  PROVE  Grows(db, db')
<1>1. now \in Nat /\ db \in Database /\ Sound(db, now)
  BY DEF IInv, TypeOK
<1>2. CASE (\E i \in Ids : RemoveFind(i)) \/ RemoveReadGoal \/ RemoveAbandoned
  <2>1. db' = db
    BY <1>2 DEF RemoveFind, RemoveReadGoal, RemoveAbandoned
  <2>. QED
    BY <1>1, <2>1, SameGrows
<1>3. CASE RemoveSaveGoal
  <2>1. db' \in Database
    BY <1>3, RemoveSaveGoalSound DEF Sound
  <2>2. db'.last = db.last /\ db'.prompt = db.prompt /\ db'.sent = db.sent /\ db'.queue = db.queue
    BY <1>1, <1>3 DEF RemoveSaveGoal, Database
  <2>. QED
    BY <1>1, <2>1, <2>2, SameGrows
<1>4. CASE RemoveStopWorker
  <2>1. db' = SetTasks(db, {t \in Tasks : IsGoalTask(t, removal.session) /\ Live(db, t)}, FALSE, NoTime)
    BY <1>4 DEF RemoveStopWorker
  <2>. QED
    BY <1>1, <2>1, SetTasksWithdraws, WithdrawsGrows
<1>5. CASE RemoveCancel
  <2>1. db' \in Database
    BY <1>5, RemoveCancelSound DEF Sound
  <2>2. db'.last = db.last /\ db'.prompt = db.prompt /\ db'.sent = db.sent /\ db'.queue = db.queue
    BY <1>1, <1>5 DEF RemoveCancel, SetStatus, Database
  <2>. QED
    BY <1>1, <2>1, <2>2, SameGrows
<1>6. CASE RemoveDelete
  <2>1. db' \in Database
    BY <1>6, RemoveDeleteSound DEF Sound
  <2>2. /\ db'.last = db.last /\ db'.prompt = db.prompt /\ db'.sent = db.sent
        /\ db'.queue \subseteq db.queue
    BY <1>1, <1>6 DEF RemoveDelete, Database
  <2>. QED
    BY <1>1, <2>1, <2>2, SameGrows
<1>. QED
  BY <1>2, <1>3, <1>4, <1>5, <1>6

-----------------------------------------------------------------------------
(* Leases, polls and reports. *)

\* A lease, and each statement that follows it, withdraws at most a goal's prompt.
LEMMA LeaseGrows ==
  ASSUME IInv,
         \/ \E s \in Sessions, token \in Ids \cup Clients : Lease(s, token) \/ Release(s, token)
         \/ Yielding
  PROVE  Grows(db, db')
<1>1. now \in Nat /\ db \in Database
  BY DEF IInv, TypeOK
<1>2. CASE \E s \in Sessions, token \in Ids \cup Clients : Release(s, token)
  <2>1. NoLease \in [holder : Holders, until : Nat]
    BY DEF Holders, NoLease
  <2>2. PICK s \in Sessions, token \in Ids \cup Clients : Release(s, token)
    BY <1>2
  <2>3. /\ db' \in Database /\ db'.last = db.last /\ db'.prompt = db.prompt
        /\ db'.sent = db.sent /\ db'.queue = db.queue
    BY <1>1, <2>1, <2>2 DEF Release, Database
  <2>. QED
    BY <1>1, <2>3, SameGrows
<1>3. CASE (\E s \in Sessions, token \in Ids \cup Clients : Lease(s, token)) \/ Yielding
  <2>1. Withdraws(db, db', now)
    BY <1>3, LeaseWithdraws, YieldWithdraws DEF Yielding
  <2>. QED
    BY <1>1, <2>1, WithdrawsGrows
<1>. QED
  BY <1>2, <1>3

\* A report withdraws at most the prompt of a run that ended.
LEMMA ResultGrows ==
  ASSUME IInv, NEW i \in Ids,
         NEW st \in {"queued", "running", "blocked", "complete", "cancelled", "failed"}, NEW a,
         Result(i, st, a)
  PROVE  Grows(db, db')
<1>. DEFINE un == IF st \in {"running", "blocked"} THEN now + LeaseTime ELSE 0
            r == [db.runs[i] EXCEPT !.status = st, !.until = un]
            e == [db EXCEPT !.runs[i].status = st, !.runs[i].until = un]
            g == ApplyGoal(e, i, st, a, now)
            q == IF st \in Ended THEN [g EXCEPT !.queue = @ \ {i}] ELSE g
            c == IF st = "complete" THEN NextCheck(q, db.runs[i].task, now) ELSE q
<1>1. now \in Nat /\ db \in Database /\ db.runs[i] \in Runs
  BY DEF IInv, TypeOK, Database
<1>2. db' = Cleanup(c, now)
  BY DEF Result, Reported
<1>3. un \in Nat
  BY <1>1, TimesAssumption
<1>. HIDE DEF un
<1>4. r \in Runs
  BY <1>1, <1>3 DEF Runs, Active, Ended
<1>5. e = [db EXCEPT !.runs = [db.runs EXCEPT ![i] = r]]
  BY <1>1 DEF Database, Runs
<1>. HIDE DEF r, e
<1>6. [db.runs EXCEPT ![i] = r] \in [Ids -> Runs]
  BY <1>1, <1>4 DEF Database
<1>7. /\ e \in Database /\ e.last = db.last /\ e.prompt = db.prompt /\ e.sent = db.sent
      /\ e.queue = db.queue
  BY <1>1, <1>5, <1>6 DEF Database
<1>8. Grows(db, g) /\ g \in Database
  <2>1. Grows(db, e) /\ Grows(e, g)
    BY <1>1, <1>7, SameGrows, ApplyGoalWithdraws, WithdrawsGrows
  <2>2. Grows(db, g)
    BY <1>1, <2>1, GrowsTwice
  <2>. QED
    BY <2>2 DEF Grows
<1>. HIDE DEF g
<1>9. Grows(db, q) /\ q \in Database
  <2>1. /\ q \in Database /\ q.last = g.last /\ q.prompt = g.prompt /\ q.sent = g.sent
        /\ q.queue \subseteq g.queue
    BY <1>8 DEF Database
  <2>. HIDE DEF q
  <2>. QED
    BY <1>1, <1>8, <2>1, SameGrows, GrowsTwice
<1>. HIDE DEF q
<1>10. Grows(q, c)
  <2>1. c = q \/ c = SetNext(q, {db.runs[i].task}, now + Interval)
    BY DEF NextCheck
  <2>2. now + Interval \in Nat \cup {NoTime} /\ now + Interval > now
    BY <1>1, TimesAssumption
  <2>. QED
    BY <1>1, <1>9, <2>1, <2>2, SameGrows, SetNextWithdraws, WithdrawsGrows
<1>. HIDE DEF c
<1>. QED
  BY <1>1, <1>2, <1>9, <1>10, GrowsTwice, CleanupGrows

\* New occurrences get the ids that follow the last one.
LEMMA InsertGrows ==
  ASSUME NEW n \in Nat, NEW h, NEW d, Sound(d, n),
         NEW B \in SUBSET {t \in Tasks : IsDue(d, h, n, t)}, NEW p \in Places(d, B),
         d.last + Cardinality({t \in B : Accepted(d, B, p, t, n)}) <= MaxId
  PROVE  Grows(d, Insert(d, B, p, n))
<1>. DEFINE A == {t \in B : Accepted(d, B, p, t, n)}
            row == [t \in A |-> d.last + 1 + Cardinality({u \in A : Sooner(d, u, t)})]
            new(i) == \E t \in A : row[t] = i
            who(i) == CHOOSE t \in A : row[t] = i
            made == {i \in Ids : new(i) /\ p[who(i)] # NoSession}
            pm == [i \in Ids |-> IF i \in made THEN [session |-> p[who(i)], guidance |-> FALSE]
                                               ELSE d.prompt[i]]
            e == Insert(d, B, p, n)
<1>1. d \in Database /\ e \in Database
  BY InsertSound DEF Sound
<1>2. /\ e.last = d.last + Cardinality(A) /\ e.queue = d.queue \cup made
      /\ e.prompt = pm /\ e.sent = d.sent
  BY <1>1 DEF Insert, Database
<1>3. d.last \in Nat /\ Cardinality(A) \in Nat /\ d.last <= MaxId
  <2>1. IsFiniteSet(A)
    BY FS_Subset, TasksAssumption
  <2>. QED
    BY <1>1, <2>1, FS_CardinalityType, TimesAssumption DEF Database
<1>4. \A t \in A : row[t] \in (d.last + 1)..(d.last + Cardinality(A))
  <2>. SUFFICES ASSUME NEW t \in A
                PROVE  row[t] \in (d.last + 1)..(d.last + Cardinality(A))
    OBVIOUS
  <2>1. /\ Cardinality({u \in A : Sooner(d, u, t)}) \in Nat
        /\ Cardinality({u \in A : Sooner(d, u, t)}) < Cardinality(A)
    BY <1>1, RowNumbers
  <2>. QED
    BY <1>3, <2>1
<1>5. made \subseteq (d.last + 1)..(d.last + Cardinality(A))
  BY <1>4
<1>6. \A i \in 1..d.last : pm[i] = d.prompt[i]
  <2>. SUFFICES ASSUME NEW i \in 1..d.last PROVE pm[i] = d.prompt[i]
    OBVIOUS
  <2>1. i \in Ids /\ i \notin (d.last + 1)..(d.last + Cardinality(A))
    BY <1>3, TimesAssumption DEF Ids
  <2>2. i \notin made
    BY <1>5, <2>1
  <2>. QED
    BY <2>1, <2>2
<1>. HIDE DEF A, made, pm, e
<1>7. e.last >= d.last
  BY <1>2, <1>3
<1>8. Grows(d, e)
  BY <1>1, <1>2, <1>5, <1>6, <1>7 DEF Grows
<1>. QED
  BY <1>8 DEF e

\* A poll recovers, cleans up, adds occurrences and claims.
LEMMA PollGrows ==
  ASSUME IInv, NEW h \in Hosts, Poll(h)
  PROVE  Grows(db, db')
<1>. DEFINE c == Recover(db, now)
            r == Rearm(c, now)
            d == Cleanup(r, now)
            B == Batch(d, h, now)
<1>1. now \in Nat /\ Sound(db, now) /\ db \in Database
  BY DEF IInv, TypeOK
<1>2. Sound(c, now) /\ Sound(r, now) /\ Sound(d, now)
  BY <1>1, RecoverSound, RearmSound, CleanupSound
<1>3. c \in Database /\ r \in Database /\ d \in Database
  BY <1>2 DEF Sound
<1>4. Grows(db, d)
  <2>1. c.last = db.last /\ c.prompt = db.prompt /\ c.sent = db.sent /\ c.queue = db.queue
    BY <1>1 DEF Recover, Database
  <2>. HIDE DEF c
  <2>2. r.last = c.last /\ r.prompt = c.prompt /\ r.sent = c.sent /\ r.queue = c.queue
    BY <1>3 DEF Rearm, SetNext, Database
  <2>3. Grows(db, r)
    BY <1>1, <1>3, <2>1, <2>2, SameGrows
  <2>. QED
    BY <1>1, <2>3, CleanupGrows
<1>5. B \in SUBSET {t \in Tasks : IsDue(d, h, now, t)}
  BY DEF Batch
<1>6. PICK p \in Places(d, B) :
        /\ d.last + Cardinality({t \in B : Accepted(d, B, p, t, now)}) <= MaxId
        /\ db' = Claim(Insert(d, B, p, now), h, now)
  BY DEF Poll
<1>. HIDE DEF d, B
<1>. DEFINE e == Insert(d, B, p, now)
<1>7. Grows(d, e) /\ Sound(e, now)
  BY <1>1, <1>2, <1>5, <1>6, InsertGrows, InsertSound
<1>8. e \in Database /\ Claim(e, h, now) \in Database
  BY <1>1, <1>7, ClaimSound DEF Sound
<1>. HIDE DEF e
<1>9. /\ Claim(e, h, now).last = e.last /\ Claim(e, h, now).prompt = e.prompt
      /\ Claim(e, h, now).sent = e.sent /\ Claim(e, h, now).queue = e.queue
  BY <1>8 DEF Claim, Database
<1>10. Grows(e, db')
  BY <1>6, <1>8, <1>9, SameGrows DEF e
<1>. QED
  BY <1>1, <1>3, <1>4, <1>7, <1>10, GrowsTwice

\* Rewinds leave the queue alone; deleting a session withdraws its prompts.
LEMMA UpkeepGrows ==
  ASSUME IInv, NEW s \in Sessions, PrepareRewind(s) \/ CompleteRewind(s) \/ DeleteSession(s)
  PROVE  Grows(db, db')
<1>1. now \in Nat /\ db \in Database /\ db' \in Database
  BY UpkeepSound, DeleteSessionSound DEF IInv, TypeOK, Sound
<1>2. CASE PrepareRewind(s) \/ CompleteRewind(s)
  <2>1. db'.last = db.last /\ db'.prompt = db.prompt /\ db'.sent = db.sent /\ db'.queue = db.queue
    BY <1>1, <1>2 DEF PrepareRewind, CompleteRewind, Database
  <2>. QED
    BY <1>1, <2>1, SameGrows
<1>3. CASE DeleteSession(s)
  <2>. DEFINE d == DropTasks(db, {t \in Tasks : Home[t] = s /\ Live(db, t)})
  <2>1. Grows(db, d) /\ d \in Database
    BY <1>1, DropTasksGrows
  <2>2. db' = [d EXCEPT !.sess[s] = "deleted",
                        !.queue = {i \in d.queue : d.prompt[i].session # s},
                        !.lease[s] = NoLease,
                        !.goal[s] = [status |-> "none", rev |-> 0],
                        !.locked = @ \ {s}]
    BY <1>3 DEF DeleteSession
  <2>. HIDE DEF d
  <2>3. /\ db'.last = d.last /\ db'.prompt = d.prompt /\ db'.sent = d.sent
        /\ db'.queue \subseteq d.queue
    BY <2>1, <2>2 DEF Database
  <2>. QED
    BY <1>1, <2>1, <2>3, SameGrows, GrowsTwice
<1>. QED
  BY <1>2, <1>3

-----------------------------------------------------------------------------
(* The refinement. *)

\* Growth is a step of the abstract queue.
LEMMA GrowsChanges ==
  ASSUME IInv, Grows(db, db')
  PROVE  Delivery!Change
<1>1. db.last \in Int /\ db'.last \in 0..MaxId /\ MaxId \in Int
  BY TimesAssumption DEF IInv, TypeOK, Grows, Database
<1>2. db'.last \in db.last..MaxId
  BY <1>1 DEF Grows
<1>. QED
  BY <1>2 DEF Grows, Delivery!Change

\* Consuming the head of a queue is a delivery.
LEMMA ConsumeDelivers ==
  ASSUME IInv, NEW i \in Ids, Consume(i)
  PROVE  Delivery!Deliver(i)
<1>1. db \in Database /\ Sound(db, now)
  BY DEF IInv, TypeOK
<1>2. /\ i \in db.queue /\ IsHead(db, i)
  BY DEF Consume, MayConsume
<1>3. db.sent[i] = 0
  BY <1>1, <1>2 DEF Sound, Once, Database
<1>4. /\ db'.sent = [db.sent EXCEPT ![i] = @ + 1] /\ db'.queue = db.queue \ {i}
      /\ db'.last = db.last /\ db'.prompt = db.prompt
  BY <1>1 DEF Consume, Database
<1>5. {j \in Ids : db'.sent[j] > 0} = {j \in Ids : db.sent[j] > 0} \cup {i}
  BY <1>1, <1>3, <1>4 DEF Database
<1>6. \A j \in db.queue : db.prompt[j].session = db.prompt[i].session
                          => j = i \/ Delivery!Goes(i, j)
  BY <1>2 DEF IsHead, QueueOf, Ahead, Delivery!Goes
<1>. QED
  BY <1>2, <1>3, <1>4, <1>5, <1>6 DEF Delivery!Deliver

\* Every step of the store is a step of the abstract queue, or none.
LEMMA NextDelivers ==
  ASSUME IInv, [Next]_vars
  PROVE  [Delivery!Next]_Delivery!vars
<1>1. CASE Edit
  BY <1>1, EditGrows, GrowsChanges DEF Delivery!Next
<1>2. CASE Goals
  <2>1. PICK s \in Sessions : StartGoal(s) \/ ResumeGoal(s) \/ PauseGoal(s) \/ CompleteGoal(s)
    BY <1>2 DEF Goals
  <2>2. PICK status \in {"active", "paused", "completed"} : \E from : GoalCommand(s, status, from)
    BY <2>1 DEF StartGoal, ResumeGoal, PauseGoal, CompleteGoal
  <2>3. Grows(db, db')
    BY <2>2, GoalCommandGrows
  <2>. QED
    BY <2>3, GrowsChanges DEF Delivery!Next
<1>3. CASE Chat
  <2>1. CASE \E i \in Ids : Consume(i)
    BY <2>1, ConsumeDelivers DEF Delivery!Next, Ids
  <2>2. CASE ~ \E i \in Ids : Consume(i)
    BY <1>3, <2>2, EnqueueGrows, RemovalGrows, GrowsChanges DEF Chat, Delivery!Next
  <2>. QED
    BY <2>1, <2>2
<1>4. CASE Running
  <2>1. CASE \E i \in Ids : Report(i)
    <3>1. PICK i \in Ids : Report(i)
      BY <2>1
    <3>2. \E st \in {"queued", "running", "blocked", "complete", "cancelled", "failed"},
             a \in Assessments \cup {Unassessed} : Result(i, st, a)
      BY <3>1 DEF Report
    <3>. QED
      BY <3>2, ResultGrows, GrowsChanges DEF Delivery!Next
  <2>2. CASE ~ \E i \in Ids : Report(i)
    BY <1>4, <2>2, LeaseGrows, PollGrows, GrowsChanges DEF Running, Delivery!Next
  <2>. QED
    BY <2>1, <2>2
<1>5. CASE Upkeep
  <2>1. CASE Tick
    BY <2>1 DEF Tick, Delivery!vars
  <2>2. CASE \E s \in Sessions : PrepareRewind(s) \/ CompleteRewind(s) \/ DeleteSession(s)
    BY <2>2, UpkeepGrows, GrowsChanges DEF Delivery!Next
  <2>. QED
    BY <1>5, <2>1, <2>2 DEF Upkeep
<1>6. CASE UNCHANGED vars
  BY <1>6 DEF vars, Delivery!vars
<1>. QED
  BY <1>1, <1>2, <1>3, <1>4, <1>5, <1>6 DEF Next

\* Whatever hosts, users and agents do, a queued prompt becomes a message at most
\* once and in its session's order, and nothing returns to the queue: the store
\* implements PromptDelivery (queue_prompt, consume_queued_prompt, due_scheduled,
\* remove_queued_prompt and every operation that withdraws prompts).
THEOREM QueueImplementsDelivery == Spec => DeliversInOrder
<1>1. Init => Delivery!Init
  BY DEF Init, Delivery!Init
<1>2. IInv /\ [Next]_vars => [Delivery!Next]_Delivery!vars
  BY NextDelivers
<1>. QED
  BY <1>1, <1>2, Invariance, PTL DEF Spec, DeliversInOrder, Delivery!Spec
=============================================================================
