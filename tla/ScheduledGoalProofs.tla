------------------------ MODULE ScheduledGoalProofs ------------------------
(***************************************************************************)
(* Unattended goal work is bounded, and a goal's status never changes under *)
(* a revision that a window may still hold, for every value of the          *)
(* constants of ScheduledStore.  Few transactions touch goals: the relation *)
(* Spares says that a pass leaves them and their workers' counts alone.     *)
(***************************************************************************)
EXTENDS ScheduledStoreProofs

GoalFields(d) == "goal" \in DOMAIN d /\ "worker" \in DOMAIN d

\* No goal changes, and no worker's counts except that a worker may be deleted.
Spares(d, e) ==
  /\ GoalFields(e) /\ e.goal = d.goal
  /\ \A s \in Sessions : e.worker[s] = d.worker[s] \/ e.worker[s] = NoWorker

\* The action of GoalChangesRevision.
AllRevised ==
  \A s \in Sessions : /\ db'.goal[s].status # db.goal[s].status
                       /\ db'.sess[s] = "open"
                       => db'.goal[s].rev > db.goal[s].rev

\* No removal in progress is that of a goal's prompt, before its worker is stopped.
NoGoalRemoval == removal.stage \in {"idle", "paused", "cancelled"}

\* What GoalTurnBound says of one session of a database.
BoundAt(d, s) ==
  /\ d.worker[s].turns <= MaxTurns
  /\ d.goal[s].status = "active" => d.worker[s].turns < MaxTurns /\ d.worker[s].stalls < MaxStalls

\* What GoalChangesRevision says of one session over a step.
RevisedAt(d, e, s) == e.goal[s].status # d.goal[s].status => e.goal[s].rev > d.goal[s].rev

-----------------------------------------------------------------------------
(* The passes.                                                              *)

\* A database has goals and workers, and their numbers are natural.
LEMMA GoalTypes ==
  ASSUME NEW d \in Database, NEW s \in Sessions
  PROVE  /\ GoalFields(d) /\ d.goal[s].rev \in Nat
         /\ d.goal[s] \in [status : {"none", "active", "paused", "completed"}, rev : Nat]
         /\ d.worker[s] \in [rev : Nat, turns : Nat, stalls : Nat]
         /\ d.worker[s].turns \in Nat /\ d.worker[s].stalls \in Nat
  BY DEF Database, GoalFields

LEMMA DatabaseGoals == ASSUME NEW d \in Database PROVE GoalFields(d)
  BY DEF Database, GoalFields

\* Sparing composes.
LEMMA SparesTwice ==
  ASSUME NEW c, NEW d, NEW e, Spares(c, d), Spares(d, e)
  PROVE  Spares(c, e)
  BY DEF Spares

LEMMA SparesFields == ASSUME NEW d, NEW e, Spares(d, e) PROVE GoalFields(e)
  BY DEF Spares

\* A pass that writes other fields.
LEMMA OtherFields ==
  ASSUME NEW d, GoalFields(d)
  PROVE  /\ Spares(d, d)
         /\ \A x : /\ Spares(d, [d EXCEPT !.runs = x]) /\ Spares(d, [d EXCEPT !.task = x])
                   /\ Spares(d, [d EXCEPT !.queue = x])
  BY DEF Spares, GoalFields

LEMMA PassesSpare ==
  ASSUME NEW d, GoalFields(d)
  PROVE  /\ \A I, st : Spares(d, SetStatus(d, I, st))
         /\ \A T : Spares(d, CancelPending(d, T)) /\ Spares(d, DropTasks(d, T))
         /\ \A T, en, nx : Spares(d, SetTasks(d, T, en, nx))
         /\ \A T, nx : Spares(d, SetNext(d, T, nx))
<1>1. /\ \A I, st : Spares(d, SetStatus(d, I, st))
      /\ \A T, en, nx : Spares(d, SetTasks(d, T, en, nx))
      /\ \A T, nx : Spares(d, SetNext(d, T, nx))
  BY OtherFields DEF SetStatus, SetTasks, SetNext
<1>2. ASSUME NEW T PROVE Spares(d, CancelPending(d, T))
  <2>. DEFINE P == {i \in d.queue : d.runs[i].task \in T}
              e == SetStatus(d, P, "cancelled")
  <2>1. Spares(d, e)
    BY OtherFields DEF SetStatus
  <2>2. CancelPending(d, T) = [e EXCEPT !.queue = d.queue \ P]
    BY DEF CancelPending
  <2>. HIDE DEF e, P
  <2>3. Spares(e, [e EXCEPT !.queue = d.queue \ P])
    BY <2>1, SparesFields, OtherFields
  <2>. QED
    BY <2>1, <2>2, <2>3, SparesTwice
<1>3. ASSUME NEW T PROVE Spares(d, DropTasks(d, T))
  BY DEF DropTasks, Spares, GoalFields
<1>. QED
  BY <1>1, <1>2, <1>3

LEMMA CleanupSpares ==
  ASSUME NEW c, NEW d, Spares(c, d), NEW n
  PROVE  Spares(c, Cleanup(d, n))
<1>. DEFINE e == ExpireMonitors(d, n)
<1>1. GoalFields(d)
  BY DEF Spares
<1>2. Spares(d, e)
  <2>1. PICK E : e = SetTasks(CancelPending(d, E), E, FALSE, NoTime)
    BY DEF ExpireMonitors
  <2>2. Spares(d, CancelPending(d, E)) /\ GoalFields(CancelPending(d, E))
    BY <1>1, PassesSpare, SparesFields
  <2>. QED
    BY <2>1, <2>2, PassesSpare, SparesTwice
<1>3. Cleanup(d, n) = DropSpent(e, n)
  BY DEF Cleanup
<1>. HIDE DEF e
<1>4. \E T : DropSpent(e, n) = DropTasks(e, T)
  BY DEF DropSpent
<1>5. Spares(e, DropSpent(e, n))
  BY <1>2, <1>4, PassesSpare, SparesFields
<1>. QED
  BY <1>2, <1>3, <1>5, SparesTwice

LEMMA YieldGoalSpares ==
  ASSUME NEW c, NEW d, Spares(c, d), NEW s, NEW n
  PROVE  Spares(c, YieldGoal(d, s, n))
<1>1. PICK G, H : YieldGoal(d, s, n) = SetNext(CancelPending(d, G), H, n + 1)
  BY DEF YieldGoal
<1>2. Spares(d, CancelPending(d, G)) /\ GoalFields(CancelPending(d, G))
  BY PassesSpare, SparesFields
<1>3. Spares(CancelPending(d, G), SetNext(CancelPending(d, G), H, n + 1))
  BY <1>2, PassesSpare
<1>. QED
  BY <1>1, <1>2, <1>3, SparesTwice

-----------------------------------------------------------------------------
(* The transactions that leave goals alone.                                 *)

LEMMA EditSpares == ASSUME GoalFields(db), Edit PROVE Spares(db, db')
<1>1. PICK t \in Tasks :
        \/ \E sch \in Schedules, en \in BOOLEAN : CreateTask(t, sch, en) \/ UpdateTask(t, sch, en)
        \/ EnableTask(t) \/ DisableTask(t) \/ DeleteTask(t)
        \/ \E delay \in Delays, checks \in Checks : StartMonitor(t, delay, checks)
        \/ CancelMonitor(t)
  BY DEF Edit
<1>. DEFINE P == CancelPending(db, {t})
<1>2. Spares(db, db) /\ Spares(db, P) /\ GoalFields(P)
  BY OtherFields, PassesSpare, SparesFields
<1>3. ASSUME NEW d, GoalFields(d), NEW x, NEW y
      PROVE  /\ Spares(d, [d EXCEPT !.task[t] = x]) /\ Spares(d, [d EXCEPT !.mon[t] = y])
             /\ Spares(d, [d EXCEPT !.mon[t].left = 0])
  BY <1>3 DEF Spares, GoalFields
<1>4. CASE \E x : \/ db' = Cleanup([db EXCEPT !.task[t] = x], now)
                  \/ db' = Cleanup([P EXCEPT !.task[t] = x], now)
  <2>1. PICK x : \/ db' = Cleanup([db EXCEPT !.task[t] = x], now)
                 \/ db' = Cleanup([P EXCEPT !.task[t] = x], now)
    BY <1>4
  <2>2. Spares(db, [db EXCEPT !.task[t] = x]) /\ Spares(P, [P EXCEPT !.task[t] = x])
    BY <1>2, <1>3
  <2>3. Spares(db, [P EXCEPT !.task[t] = x])
    BY <1>2, <2>2, SparesTwice
  <2>. QED
    BY <2>1, <2>2, <2>3, CleanupSpares
<1>5. CASE \E x : \/ db' = Cleanup(SetTasks(db, {t}, TRUE, x), now)
                  \/ db' = Cleanup(SetTasks(P, {t}, FALSE, x), now)
  <2>1. PICK x : \/ db' = Cleanup(SetTasks(db, {t}, TRUE, x), now)
                 \/ db' = Cleanup(SetTasks(P, {t}, FALSE, x), now)
    BY <1>5
  <2>2. Spares(db, SetTasks(db, {t}, TRUE, x)) /\ Spares(P, SetTasks(P, {t}, FALSE, x))
    BY <1>2, PassesSpare
  <2>3. Spares(db, SetTasks(P, {t}, FALSE, x))
    BY <1>2, <2>2, SparesTwice
  <2>. QED
    BY <2>1, <2>2, <2>3, CleanupSpares
<1>6. CASE db' = Cleanup(DropTasks(P, {t}), now)
  BY <1>2, <1>6, PassesSpare, CleanupSpares, SparesTwice
<1>7. CASE \E x, y : db' = Cleanup([[db EXCEPT !.task[t] = x] EXCEPT !.mon[t] = y], now)
  <2>1. PICK x, y : db' = Cleanup([[db EXCEPT !.task[t] = x] EXCEPT !.mon[t] = y], now)
    BY <1>7
  <2>. DEFINE d == [db EXCEPT !.task[t] = x]
              e == [d EXCEPT !.mon[t] = y]
  <2>2. Spares(db, d) /\ db' = Cleanup(e, now)
    BY <1>3, <2>1
  <2>. HIDE DEF d
  <2>3. Spares(d, e)
    <3>1. GoalFields(d)
      BY <2>2, SparesFields
    <3>. QED
      BY <1>3, <3>1
  <2>. HIDE DEF e
  <2>4. Spares(db, e)
    BY <2>2, <2>3, SparesTwice
  <2>. QED
    BY <2>2, <2>4, CleanupSpares
<1>8. CASE \E x : db' = Cleanup([SetTasks(P, {t}, FALSE, x) EXCEPT !.mon[t].left = 0], now)
  <2>1. PICK x : db' = Cleanup([SetTasks(P, {t}, FALSE, x) EXCEPT !.mon[t].left = 0], now)
    BY <1>8
  <2>. DEFINE d == SetTasks(P, {t}, FALSE, x)
              e == [d EXCEPT !.mon[t].left = 0]
  <2>2. Spares(db, d) /\ db' = Cleanup(e, now)
    BY <1>2, <2>1, PassesSpare, SparesTwice
  <2>. HIDE DEF d
  <2>3. Spares(d, e)
    <3>1. GoalFields(d)
      BY <2>2, SparesFields
    <3>. QED
      BY <1>3, <3>1
  <2>. HIDE DEF e
  <2>4. Spares(db, e)
    BY <2>2, <2>3, SparesTwice
  <2>. QED
    BY <2>2, <2>4, CleanupSpares
<1>9. CASE \E sch \in Schedules, en \in BOOLEAN : CreateTask(t, sch, en) \/ UpdateTask(t, sch, en)
  <2>1. \E x : \/ db' = Cleanup([db EXCEPT !.task[t] = x], now)
               \/ db' = Cleanup([P EXCEPT !.task[t] = x], now)
    BY <1>9 DEF CreateTask, UpdateTask, Save
  <2>. QED
    BY <1>4, <2>1
<1>10. CASE EnableTask(t) \/ DisableTask(t)
  <2>1. \E x : \/ db' = Cleanup(SetTasks(db, {t}, TRUE, x), now)
               \/ db' = Cleanup(SetTasks(P, {t}, FALSE, x), now)
    BY <1>10 DEF EnableTask, DisableTask
  <2>. QED
    BY <1>5, <2>1
<1>11. CASE DeleteTask(t)
  BY <1>6, <1>11 DEF DeleteTask
<1>12. CASE \E delay \in Delays, checks \in Checks : StartMonitor(t, delay, checks)
  <2>1. \E x, y : db' = Cleanup([[db EXCEPT !.task[t] = x] EXCEPT !.mon[t] = y], now)
    BY <1>12 DEF StartMonitor, Save
  <2>. QED
    BY <1>7, <2>1
<1>13. CASE CancelMonitor(t)
  <2>1. \E x : db' = Cleanup([SetTasks(P, {t}, FALSE, x) EXCEPT !.mon[t].left = 0], now)
    BY <1>13 DEF CancelMonitor
  <2>. QED
    BY <1>8, <2>1
<1>. QED
  BY <1>1, <1>9, <1>10, <1>11, <1>12, <1>13

LEMMA ChatSpares == ASSUME GoalFields(db), Chat, ~RemoveSaveGoal PROVE Spares(db, db')
<1>1. CASE \E s \in Sessions, g \in BOOLEAN : Enqueue(s, g)
  <2>1. PICK s \in Sessions, g \in BOOLEAN : Enqueue(s, g)
    BY <1>1
  <2>. DEFINE d == YieldGoal(db, s, now)
              i == db.last + 1
  <2>2. Spares(db, d)
    BY OtherFields, YieldGoalSpares
  <2>3. db' = [d EXCEPT !.queue = d.queue \cup {i},
                        !.prompt[i] = [session |-> s, guidance |-> g], !.last = i]
    BY <2>1 DEF Enqueue
  <2>. HIDE DEF d
  <2>4. Spares(d, db')
    BY <2>2, <2>3 DEF Spares, GoalFields
  <2>. QED
    BY <2>2, <2>4, SparesTwice
<1>2. CASE \E i \in Ids : Consume(i)
  BY <1>2 DEF Consume, Spares, GoalFields
<1>3. CASE RemoveStopWorker
  BY <1>3, PassesSpare DEF RemoveStopWorker
<1>6. CASE RemoveCancel
  <2>1. db' = SetStatus(db, {removal.id}, "cancelled") \/ db' = db
    BY <1>6 DEF RemoveCancel
  <2>. QED
    BY <2>1, PassesSpare, OtherFields
<1>4. CASE RemoveDelete
  BY <1>4 DEF RemoveDelete, Spares, GoalFields
<1>5. CASE (\E i \in Ids : RemoveFind(i)) \/ RemoveReadGoal \/ RemoveAbandoned
  BY <1>5, OtherFields DEF RemoveFind, RemoveReadGoal, RemoveAbandoned
<1>. QED
  BY <1>1, <1>2, <1>3, <1>4, <1>5, <1>6 DEF Chat

LEMMA LeaseSpares ==
  ASSUME GoalFields(db), NEW s \in Sessions, NEW k, Lease(s, k) \/ Release(s, k)
  PROVE  Spares(db, db')
<1>1. PICK x : db' = [db EXCEPT !.lease[s] = x]
  BY DEF Lease, Release
<1>. QED
  BY <1>1 DEF Spares, GoalFields

LEMMA YieldSpares == ASSUME GoalFields(db), Yielding PROVE Spares(db, db')
<1>1. PICK c \in Clients : \/ YieldFind(c) \/ YieldCancel(c) \/ YieldDelete(c) \/ YieldNext(c)
                          \/ YieldAbandoned(c)
  BY DEF Yielding
<1>2. CASE YieldFind(c) \/ YieldAbandoned(c)
  BY <1>2, OtherFields DEF YieldFind, YieldAbandoned
<1>3. CASE YieldCancel(c)
  BY <1>3, PassesSpare DEF YieldCancel, CancelRuns
<1>4. CASE YieldDelete(c)
  BY <1>4, OtherFields DEF YieldDelete, DropPrompts
<1>5. CASE YieldNext(c)
  BY <1>5, PassesSpare DEF YieldNext
<1>. QED
  BY <1>1, <1>2, <1>3, <1>4, <1>5

LEMMA PollSpares == ASSUME GoalFields(db), NEW h \in Hosts, Poll(h) PROVE Spares(db, db')
<1>. DEFINE d1 == Recover(db, now)
            d2 == Rearm(d1, now)
            d3 == Cleanup(d2, now)
            B == Batch(d3, h, now)
<1>1. PICK p : db' = Claim(Insert(d3, B, p, now), h, now)
  BY DEF Poll
<1>2. Spares(db, d1)
  BY OtherFields DEF Recover
<1>. HIDE DEF d1
<1>3. Spares(d1, d2)
  BY <1>2, PassesSpare, SparesFields DEF Rearm
<1>. HIDE DEF d2
<1>4. Spares(d2, d3)
  BY <1>3, OtherFields, CleanupSpares, SparesFields
<1>. HIDE DEF d3, B
<1>. DEFINE e == Insert(d3, B, p, now)
<1>5. Spares(d3, e)
  <2>1. PICK x1, x2, x3, x4, x5, x6, x7 :
          e = [d3 EXCEPT !.runs = x1, !.prompt = x2, !.queue = x3, !.mon = x4, !.task = x5,
                         !.sess = x6, !.last = x7]
    BY DEF Insert
  <2>. HIDE DEF e
  <2>. QED
    BY <1>4, <2>1 DEF Spares, GoalFields
<1>. HIDE DEF e
<1>6. Spares(e, Claim(e, h, now))
  BY <1>5, OtherFields, SparesFields DEF Claim
<1>. QED
  BY <1>1, <1>2, <1>3, <1>4, <1>5, <1>6, SparesTwice DEF e

-----------------------------------------------------------------------------
(* What a step may do to a session's goal.                                  *)

LEMMA SparesKeep ==
  ASSUME NEW d \in Database, NEW e, Spares(d, e), NEW s \in Sessions
  PROVE  (BoundAt(d, s) => BoundAt(e, s)) /\ RevisedAt(d, e, s)
  BY GoalTypes, LimitsAssumption DEF Spares, BoundAt, RevisedAt, NoWorker

\* A command starts the counts anew, or the goal is no longer active.
LEMMA GoalCommandKeeps ==
  ASSUME db \in Database, NEW s \in Sessions, NEW status, NEW from, GoalCommand(s, status, from),
         NEW q \in Sessions
  PROVE  (BoundAt(db, q) => BoundAt(db', q)) /\ RevisedAt(db, db', q)
<1>. DEFINE G == {t \in Tasks : IsGoalTask(t, s)}
            c == CancelPending(db, G)
            r == Revised(db.goal[s], status)
            d == [c EXCEPT !.goal[s] = r]
<1>1. GoalFields(db) /\ db.goal[s].rev \in Nat
  BY GoalTypes
<1>2. Spares(db, c)
  BY <1>1, PassesSpare
<1>3. c.goal = db.goal /\ GoalFields(c) /\ \A u \in Sessions : BoundAt(db, u) => BoundAt(c, u)
  BY <1>2, SparesKeep DEF Spares
<1>4. r.status = status /\ r.rev = db.goal[s].rev + 1
  BY DEF Revised
<1>5. IF status = "active"
      THEN \E x : db' = [d EXCEPT !.task = x, !.worker[s] = [rev |-> d.goal[s].rev, turns |-> 0, stalls |-> 0]]
      ELSE \E T : db' = SetTasks(d, T, FALSE, NoTime)
  BY DEF GoalCommand
<1>. HIDE DEF c, r
<1>6. /\ GoalFields(d) /\ d.worker = c.worker /\ d.goal = [db.goal EXCEPT ![s] = r]
  BY <1>3 DEF GoalFields
<1>. HIDE DEF d
<1>7. db.goal \in [Sessions -> [status : {"none", "active", "paused", "completed"}, rev : Nat]]
  BY DEF Database
<1>8. /\ db'.goal[q] = IF q = s THEN r ELSE db.goal[q]
      /\ IF q = s /\ status = "active" THEN db'.worker[q].turns = 0 /\ db'.worker[q].stalls = 0
                                       ELSE db'.worker[q] = c.worker[q]
  <2>1. CASE status = "active"
    <3>1. PICK x : db' = [d EXCEPT !.task = x,
                                   !.worker[s] = [rev |-> d.goal[s].rev, turns |-> 0, stalls |-> 0]]
      BY <1>5, <2>1
    <3>2. /\ db'.goal = d.goal
          /\ db'.worker = [d.worker EXCEPT ![s] = [rev |-> d.goal[s].rev, turns |-> 0, stalls |-> 0]]
      BY <1>6, <3>1 DEF GoalFields
    <3>3. Sessions = DOMAIN c.worker
      BY <1>2 DEF c, CancelPending, SetStatus, Database
    <3>. QED
      BY <1>6, <1>7, <2>1, <3>2, <3>3
  <2>2. CASE status # "active"
    <3>1. db'.goal = d.goal /\ db'.worker = d.worker
      BY <1>5, <1>6, <2>2 DEF SetTasks, GoalFields
    <3>. QED
      BY <1>6, <1>7, <2>2, <3>1
  <2>. QED
    BY <2>1, <2>2
<1>9. RevisedAt(db, db', q)
  BY <1>1, <1>4, <1>8 DEF RevisedAt
<1>10. ASSUME BoundAt(db, q) PROVE BoundAt(db', q)
  BY <1>3, <1>4, <1>8, <1>10, LimitsAssumption DEF BoundAt
<1>. QED
  BY <1>9, <1>10

\* The removal of a goal's prompt pauses the goal.
LEMMA SaveGoalKeeps ==
  ASSUME db \in Database, RemoveSaveGoal, NEW q \in Sessions
  PROVE  BoundAt(db, q) => BoundAt(db', q)
<1>1. /\ db'.worker = db.worker
      /\ db'.goal = [db.goal EXCEPT ![removal.session] = [status |-> "paused", rev |-> removal.rev + 1]]
  BY DatabaseGoals DEF RemoveSaveGoal, GoalFields
<1>2. db'.goal[q].status = "paused" \/ db'.goal[q] = db.goal[q]
  BY <1>1 DEF Database
<1>. QED
  BY <1>1, <1>2 DEF BoundAt

\* A deleted session has no goal; its worker's counts go with its task.
LEMMA DeleteSessionKeeps ==
  ASSUME db \in Database, NEW s \in Sessions, DeleteSession(s), NEW q \in Sessions
  PROVE  /\ BoundAt(db, q) => BoundAt(db', q)
         /\ db'.sess[q] = "open" => RevisedAt(db, db', q)
<1>. DEFINE T == {t \in Tasks : Home[t] = s /\ Live(db, t)}
            d == DropTasks(db, T)
<1>1. Spares(db, d)
  BY DatabaseGoals, PassesSpare
<1>2. d \in Database
  BY DropTasksWithdraws DEF Withdraws
<1>3. db' = [d EXCEPT !.sess[s] = "deleted", !.queue = {i \in d.queue : d.prompt[i].session # s},
                      !.lease[s] = NoLease, !.goal[s] = [status |-> "none", rev |-> 0],
                      !.locked = @ \ {s}]
  BY DEF DeleteSession
<1>. HIDE DEF d
<1>4. /\ db'.worker = d.worker
      /\ db'.goal = [d.goal EXCEPT ![s] = [status |-> "none", rev |-> 0]]
      /\ db'.sess = [d.sess EXCEPT ![s] = "deleted"]
  BY <1>2, <1>3 DEF Database
<1>5. /\ q = s => db'.goal[q].status = "none" /\ db'.sess[q] = "deleted"
      /\ q # s => db'.goal[q] = d.goal[q]
  BY <1>2, <1>4 DEF Database
<1>6. (BoundAt(db, q) => BoundAt(d, q)) /\ RevisedAt(db, d, q)
  BY <1>1, SparesKeep
<1>. QED
  BY <1>4, <1>5, <1>6 DEF BoundAt, RevisedAt

\* A worker that goes on has turns and stalls left.
LEMMA GoesOn ==
  ASSUME NEW w, NEW st, NEW a, w.turns \in Nat, w.stalls \in Nat, Verdict(w, st, a) = "active"
  PROVE  w.turns < MaxTurns /\ w.stalls < MaxStalls
  BY LimitsAssumption DEF Verdict

\* A turn is counted while the goal is active, and a turn that reaches a limit
\* ends its activity under a new revision.
LEMMA ApplyGoalKeeps ==
  ASSUME NEW d \in Database, NEW i, NEW st, NEW a, NEW n, NEW q \in Sessions
  PROVE  /\ BoundAt(d, q) => BoundAt(ApplyGoal(d, i, st, a, n), q)
         /\ RevisedAt(d, ApplyGoal(d, i, st, a, n), q)
         /\ GoalFields(ApplyGoal(d, i, st, a, n))
<1>. DEFINE t == d.runs[i].task
            s == Home[t]
            w == [d.worker[s] EXCEPT !.turns = @ + 1, !.stalls = IF a.tools THEN 0 ELSE @ + 1]
            to == Verdict(w, st, a)
            e == [d EXCEPT !.worker[s] = w]
            f == [e EXCEPT !.goal[s] = Revised(@, to)]
            g == ApplyGoal(d, i, st, a, n)
<1>1. \/ g = d
      \/ g = SetNext(d, {t}, n + 1)
      \/ g = SetNext(e, {t}, n + 1) /\ to = "active" /\ d.goal[s].status = "active"
      \/ g = SetTasks(f, {t}, FALSE, NoTime) /\ to # "active" /\ d.goal[s].status = "active"
  <2>. DEFINE skip == \/ Kind[t] # "goal" \/ d.runs[i].grev # d.worker[s].rev
                      \/ d.goal[s] # [status |-> "active", rev |-> d.worker[s].rev]
                      \/ st \in {"queued", "running", "blocked"}
  <2>1. g = IF skip THEN d
            ELSE IF st = "complete" /\ ~a.fresh THEN SetNext(d, {t}, n + 1)
            ELSE IF to = "active" THEN SetNext(e, {t}, n + 1)
            ELSE SetTasks(f, {t}, FALSE, NoTime)
    BY DEF ApplyGoal
  <2>2. ~skip => d.goal[s].status = "active"
    OBVIOUS
  <2>. HIDE DEF g, skip, e, f, to, t, s
  <2>. QED
    BY <2>1, <2>2
<1>2. CASE g = d \/ g = SetNext(d, {t}, n + 1)
  <2>1. Spares(d, g)
    BY <1>2, DatabaseGoals, OtherFields, PassesSpare
  <2>. HIDE DEF g
  <2>2. (BoundAt(d, q) => BoundAt(g, q)) /\ RevisedAt(d, g, q) /\ GoalFields(g)
    BY <2>1, SparesKeep, SparesFields
  <2>. QED
    BY <2>2 DEF g
<1>3. CASE q = s /\ d.goal[s].status = "active"
           /\ (\/ g = SetNext(e, {t}, n + 1) /\ to = "active"
               \/ g = SetTasks(f, {t}, FALSE, NoTime) /\ to # "active")
  <2>1. /\ w.turns = d.worker[s].turns + 1
        /\ w.stalls \in Nat /\ w.turns \in Nat /\ d.worker[s].turns \in Nat
        /\ d.goal[s].rev \in Nat
    <3>1. /\ d.worker[s] \in [rev : Nat, turns : Nat, stalls : Nat]
          /\ d.worker[s].turns \in Nat /\ d.worker[s].stalls \in Nat /\ d.goal[s].rev \in Nat
      BY <1>3, GoalTypes
    <3>. HIDE DEF s
    <3>2. d.worker[s].stalls + 1 \in Nat /\ d.worker[s].turns + 1 \in Nat
      BY <3>1
    <3>. QED
      BY <3>1, <3>2
  <2>2. to = "active" => w.turns < MaxTurns /\ w.stalls < MaxStalls
    <3>. HIDE DEF w
    <3>. QED
      BY <2>1, GoesOn
  <2>. HIDE DEF w, to
  <2>3. /\ GoalFields(e) /\ e.goal = d.goal /\ e.worker[s] = w
    BY <1>3, DatabaseGoals DEF Database, GoalFields
  <2>. HIDE DEF e
  <2>4. /\ GoalFields(f) /\ f.worker = e.worker
        /\ f.goal[s].status = to /\ f.goal[s].rev = d.goal[s].rev + 1
    BY <1>3, <2>3 DEF GoalFields, Revised, Database
  <2>. HIDE DEF f
  <2>5. /\ GoalFields(g) /\ g.worker[s] = w
        /\ \/ to = "active" /\ g.goal = d.goal
           \/ to # "active" /\ g.goal[s].status = to /\ g.goal[s].rev = d.goal[s].rev + 1
    BY <1>3, <2>3, <2>4 DEF SetNext, SetTasks, GoalFields
  <2>. HIDE DEF g
  <2>. HIDE DEF s
  <2>6. BoundAt(d, q) => BoundAt(g, q)
    <3>1. ASSUME BoundAt(d, q) PROVE g.worker[q].turns <= MaxTurns
      <4>1. d.worker[q].turns < MaxTurns /\ g.worker[q].turns = d.worker[q].turns + 1
        BY <1>3, <2>1, <2>5, <3>1 DEF BoundAt
      <4>. QED
        BY <1>3, <2>1, <4>1, LimitsAssumption
    <3>2. g.goal[q].status = "active" => g.worker[q].turns < MaxTurns /\ g.worker[q].stalls < MaxStalls
      BY <1>3, <2>2, <2>5
    <3>. QED
      BY <3>1, <3>2 DEF BoundAt
  <2>7. RevisedAt(d, g, q)
    <3>1. d.goal[q].rev + 1 > d.goal[q].rev
      BY <1>3, <2>1
    <3>. QED
      BY <1>3, <2>5, <3>1 DEF RevisedAt
  <2>. QED
    BY <2>5, <2>6, <2>7 DEF g
<1>4. CASE q # s /\ (\/ g = SetNext(e, {t}, n + 1)
                     \/ g = SetTasks(f, {t}, FALSE, NoTime))
  <2>. HIDE DEF w, to, s
  <2>1. GoalFields(e) /\ e.goal = d.goal /\ e.worker[q] = d.worker[q]
    BY <1>4, DatabaseGoals DEF Database, GoalFields
  <2>. HIDE DEF e
  <2>2. GoalFields(f) /\ f.worker = e.worker /\ f.goal[q] = d.goal[q]
    BY <1>4, <2>1 DEF GoalFields, Database
  <2>. HIDE DEF f
  <2>3. GoalFields(g) /\ g.goal[q] = d.goal[q] /\ g.worker[q] = d.worker[q]
    BY <1>4, <2>1, <2>2 DEF SetNext, SetTasks, GoalFields
  <2>. HIDE DEF g
  <2>4. (BoundAt(d, q) => BoundAt(g, q)) /\ RevisedAt(d, g, q)
    BY <2>3 DEF BoundAt, RevisedAt
  <2>. QED
    BY <2>3, <2>4 DEF g
<1>. QED
  BY <1>1, <1>2, <1>3, <1>4

LEMMA ResultKeeps ==
  ASSUME db \in Database, now \in Nat, NEW i \in Ids,
         NEW st \in {"queued", "running", "blocked", "complete", "cancelled", "failed"}, NEW a,
         Result(i, st, a), NEW q \in Sessions
  PROVE  (BoundAt(db, q) => BoundAt(db', q)) /\ RevisedAt(db, db', q)
<1>. DEFINE un == IF st \in {"running", "blocked"} THEN now + LeaseTime ELSE 0
            r == [db.runs[i] EXCEPT !.status = st, !.until = un]
            e == [db EXCEPT !.runs[i].status = st, !.runs[i].until = un]
            g == ApplyGoal(e, i, st, a, now)
            p == IF st \in Ended THEN [g EXCEPT !.queue = @ \ {i}] ELSE g
            c == IF st = "complete" THEN NextCheck(p, db.runs[i].task, now) ELSE p
<1>1. db' = Cleanup(c, now)
  BY DEF Result, Reported
<1>2. e \in Database /\ e.goal = db.goal /\ e.worker = db.worker
  <2>1. un \in Nat /\ db.runs[i] \in Runs
    BY TimesAssumption DEF Database
  <2>. HIDE DEF un
  <2>2. r \in Runs
    BY <2>1 DEF Runs, Active, Ended
  <2>3. e = [db EXCEPT !.runs = [db.runs EXCEPT ![i] = r]]
    BY DEF Database
  <2>. HIDE DEF r, e
  <2>4. [db.runs EXCEPT ![i] = r] \in [Ids -> Runs]
    BY <2>2 DEF Database
  <2>. QED
    BY <2>3, <2>4 DEF Database
<1>. HIDE DEF e
<1>3. (BoundAt(e, q) => BoundAt(g, q)) /\ RevisedAt(e, g, q) /\ GoalFields(g)
  BY <1>2, ApplyGoalKeeps
<1>. HIDE DEF g
<1>4. GoalFields(p) /\ p.goal = g.goal /\ p.worker = g.worker
  BY <1>3 DEF GoalFields
<1>. HIDE DEF p
<1>5. Spares(p, c)
  <2>1. c = p \/ c = SetNext(p, {db.runs[i].task}, now + Interval)
    BY DEF NextCheck
  <2>. HIDE DEF c
  <2>. QED
    BY <1>4, <2>1, OtherFields, PassesSpare
<1>. HIDE DEF c
<1>6. Spares(p, db')
  BY <1>1, <1>5, CleanupSpares
<1>7. db'.goal = p.goal /\ (db'.worker[q] = p.worker[q] \/ db'.worker[q] = NoWorker)
  BY <1>6 DEF Spares
<1>8. BoundAt(db, q) => BoundAt(db', q)
  BY <1>2, <1>3, <1>4, <1>7, LimitsAssumption DEF BoundAt, NoWorker
<1>9. RevisedAt(db, db', q)
  BY <1>2, <1>3, <1>4, <1>7 DEF RevisedAt
<1>. QED
  BY <1>8, <1>9

-----------------------------------------------------------------------------
(* The theorems.                                                            *)

\* What every step does to every session's goal.
LEMMA StepKeeps ==
  ASSUME IInv, [Next]_vars, NEW q \in Sessions
  PROVE  /\ BoundAt(db, q) => BoundAt(db', q)
         /\ ~RemoveSaveGoal /\ db'.sess[q] = "open" => RevisedAt(db, db', q)
<1>1. db \in Database /\ now \in Nat /\ GoalFields(db)
  BY DatabaseGoals DEF IInv, TypeOK
<1>2. CASE Spares(db, db')
  BY <1>1, <1>2, SparesKeep
<1>3. CASE Edit
  BY <1>1, <1>2, <1>3, EditSpares
<1>4. CASE Goals
  <2>1. \E s \in Sessions : \E status, from : GoalCommand(s, status, from)
    BY <1>4 DEF Goals, StartGoal, ResumeGoal, PauseGoal, CompleteGoal
  <2>. QED
    BY <1>1, <2>1, GoalCommandKeeps
<1>5. CASE Chat
  BY <1>1, <1>2, <1>5, ChatSpares, SaveGoalKeeps
<1>6. CASE Running
  <2>1. CASE \E i \in Ids : Report(i)
    <3>1. PICK i \in Ids : Report(i)
      BY <2>1
    <3>2. \E st \in {"queued", "running", "blocked", "complete", "cancelled", "failed"},
             a \in Assessments \cup {Unassessed} : Result(i, st, a)
      BY <3>1 DEF Report
    <3>. QED
      BY <1>1, <3>2, ResultKeeps
  <2>2. CASE \/ \E s \in Sessions, k \in Ids \cup Clients : Lease(s, k) \/ Release(s, k)
             \/ Yielding
             \/ \E h \in Hosts : Poll(h)
    BY <1>1, <1>2, <2>2, LeaseSpares, YieldSpares, PollSpares
  <2>. QED
    BY <1>6, <2>1, <2>2 DEF Running
<1>7. CASE Upkeep
  <2>1. CASE \E s \in Sessions : DeleteSession(s)
    BY <1>1, <2>1, DeleteSessionKeeps
  <2>2. CASE \E s \in Sessions : PrepareRewind(s) \/ CompleteRewind(s)
    <3>1. Spares(db, db')
      BY <1>1, <2>2 DEF PrepareRewind, CompleteRewind, Spares, GoalFields
    <3>. QED
      BY <1>2, <3>1
  <2>3. CASE Tick
    BY <1>1, <1>2, <2>3, OtherFields DEF Tick
  <2>. QED
    BY <1>7, <2>1, <2>2, <2>3 DEF Upkeep
<1>8. CASE UNCHANGED vars
  BY <1>1, <1>2, <1>8, OtherFields DEF vars
<1>. QED
  BY <1>3, <1>4, <1>5, <1>6, <1>7, <1>8 DEF Next

\* An active goal always has turns and stalls left, whatever hosts report and users
\* command, removals cut off included: the worker stops for review at its limits
\* (apply_goal_result).
THEOREM GoalWorkBounded == Spec => []GoalTurnBound
<1>1. Init => GoalTurnBound
  BY LimitsAssumption DEF Init, GoalTurnBound, NoWorker
<1>2. IInv /\ GoalTurnBound /\ [Next]_vars => GoalTurnBound'
  <2>. SUFFICES ASSUME IInv, GoalTurnBound, [Next]_vars, NEW q \in Sessions
                PROVE  BoundAt(db', q)
    BY DEF GoalTurnBound, BoundAt
  <2>1. BoundAt(db, q)
    BY DEF GoalTurnBound, BoundAt
  <2>. QED
    BY <2>1, StepKeeps
<1>. QED
  BY <1>1, <1>2, Invariance, PTL DEF Spec

\* The users who remove no goal prompt have none under way.
LEMMA GoalPromptsStay ==
  ASSUME GoalRemoval = FALSE
  PROVE  Spec => []NoGoalRemoval
<1>1. Init => NoGoalRemoval
  BY DEF Init, NoRemoval, NoGoalRemoval
<1>2. NoGoalRemoval /\ [Next]_vars => NoGoalRemoval'
  <2>. SUFFICES ASSUME NoGoalRemoval, [Next]_vars PROVE NoGoalRemoval'
    OBVIOUS
  <2>. USE DEF NoGoalRemoval
  <2>1. CASE Edit
    BY <2>1 DEF Edit, CreateTask, UpdateTask, EnableTask, DisableTask, DeleteTask, StartMonitor,
                CancelMonitor
  <2>2. CASE Goals
    BY <2>2 DEF Goals, StartGoal, ResumeGoal, PauseGoal, CompleteGoal, GoalCommand
  <2>3. CASE Chat
    <3>1. CASE \E i \in Ids : RemoveFind(i)
      BY <3>1 DEF RemoveFind
    <3>2. CASE (\E s \in Sessions, g \in BOOLEAN : Enqueue(s, g)) \/ (\E i \in Ids : Consume(i))
      BY <3>2 DEF Enqueue, Consume
    <3>3. CASE RemoveReadGoal \/ RemoveSaveGoal \/ RemoveStopWorker
      BY <3>3 DEF RemoveReadGoal, RemoveSaveGoal, RemoveStopWorker
    <3>4. CASE RemoveCancel
      <4>1. removal' = [removal EXCEPT !.stage = "cancelled"] /\ removal.stage = "paused"
        BY <3>4 DEF RemoveCancel
      <4>. QED
        BY <4>1
    <3>5. CASE RemoveDelete \/ RemoveAbandoned
      BY <3>5 DEF RemoveDelete, RemoveAbandoned, NoRemoval
    <3>. QED
      BY <2>3, <3>1, <3>2, <3>3, <3>4, <3>5 DEF Chat
  <2>4. CASE Running
    BY <2>4 DEF Running, Lease, Release, Poll, Report, Result, Yielding, YieldFind, YieldCancel,
                YieldDelete, YieldNext, YieldAbandoned
  <2>5. CASE Upkeep
    BY <2>5 DEF Upkeep, Tick, PrepareRewind, CompleteRewind, DeleteSession
  <2>6. CASE UNCHANGED vars
    BY <2>6 DEF vars
  <2>. QED
    BY <2>1, <2>2, <2>3, <2>4, <2>5, <2>6 DEF Next
<1>. QED
  BY <1>1, <1>2, PTL DEF Spec

\* Where no goal prompt is removed from the queue, the status of a goal changes only
\* under a new revision (revised goals of dispatch_goal and apply_goal_result; the
\* removal writes back a goal it read earlier, see the README's known limits).
THEOREM GoalsAreRevised ==
  ASSUME GoalRemoval = FALSE
  PROVE  Spec => GoalChangesRevision
<1>1. IInv /\ NoGoalRemoval /\ [Next]_vars => [AllRevised]_vars
  BY StepKeeps DEF AllRevised, RevisedAt, RemoveSaveGoal, NoGoalRemoval
<1>2. Spec => []NoGoalRemoval
  BY GoalPromptsStay
<1>3. Spec => []IInv
  BY Invariance, PTL
<1>. QED
  BY <1>1, <1>2, <1>3, PTL DEF Spec, GoalChangesRevision, AllRevised
=============================================================================
