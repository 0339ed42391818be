----------------------------- MODULE RunDelivery -----------------------------
(***************************************************************************)
(* One run of a bridge daemon and one browser window that shows it.  The   *)
(* run's events get numbers and go through a bounded ring; a forwarder     *)
(* task per socket copies them, or a snapshot where the ring has moved on, *)
(* into the socket's bounded queue; the window drops what it has seen.     *)
(* The socket may break, the page may be reloaded, the user may look at    *)
(* another session, and a run may end before it begins.                    *)
(* The numbers of events stand for the events: a view <<1, 2, 3>> shows    *)
(* the first three, once and in order.                                     *)
(***************************************************************************)
EXTENDS Integers, Sequences

CONSTANTS
  Capacity,       \* events the ring holds (4096), also the size of a read
  Room,           \* messages the socket's queue holds (256)
  HostGoal,       \* TRUE: the host works on the session's goal and starts the run
  MayFail,        \* TRUE: a reserved run may fail before its first event
  LateAbort,      \* TRUE: an aborted task that is running goes on until it waits
  MaxSeq,         \* bound of the model: events of the run
  MaxAsks,        \* bound of the model: requests under way
  MaxBreaks,      \* bound of the model: lost sockets, reloads, bridge restarts
  MaxVisits,      \* bound of the model: times another session is looked at
  MaxGoalNews     \* bound of the model: news about the goal

ASSUME RunDeliveryAssumption ==
  /\ Capacity \in Nat \ {0} /\ Room \in Nat \ {0}
  /\ MaxSeq \in Nat \ {0} /\ MaxAsks \in Nat /\ MaxBreaks \in Nat
  /\ MaxVisits \in Nat /\ MaxGoalNews \in Nat
  /\ {HostGoal, MayFail, LateAbort} \subseteq BOOLEAN

VARIABLES
  run,       \* the run in the bridge's registry
  task,      \* the forwarder of the socket, and one that was aborted
  asks,      \* requests on their way to the bridge
  wire,      \* messages on their way to the window
  win,       \* the window
  left       \* what the bounds still allow

vars == <<run, task, asks, wire, win, left>>

Known == run.phase \in {"reserved", "running", "ended"}       \* RunRegistry::get finds it
Ended == run.phase \in {"ended", "reaped"}                    \* its last event was emitted
Over == run.phase \in {"failed", "lost", "ended", "reaped"}
Going == run.phase \in {"reserved", "running"}

NoTask == [at |-> "none", cursor |-> 0, fresh |-> FALSE, next |-> 0,
           whole |-> FALSE, last |-> FALSE, mark |-> 0]
Tasks == [at : {"none", "read", "send", "wait"}, cursor : Nat, fresh : BOOLEAN, next : Nat,
          whole : BOOLEAN, last : BOOLEAN, mark : Nat]
Asks == [kind : {"start", "attach", "list"}, fresh : BOOLEAN, last : Nat]
Messages == [kind : {"event", "snapshot", "rejected", "missing", "runs", "noruns"},
             seq : Nat, end : BOOLEAN]

Start == [kind |-> "start", fresh |-> FALSE, last |-> 0]
List == [kind |-> "list", fresh |-> FALSE, last |-> 0]
\* Mutant of Attach: it asks from the event before, below zero for a window that saw none.
AttachBefore(fresh, last) ==
  [kind |-> "attach", fresh |-> fresh, last |-> IF fresh THEN 0 ELSE last - 1]
Attach(fresh, last) == [kind |-> "attach", fresh |-> fresh, last |-> IF fresh THEN 0 ELSE last]
Message(kind, seq, end) == [kind |-> kind, seq |-> seq, end |-> end]

Upto(n) == [i \in 1..n |-> i]

Phases == {"none", "late", "reserved", "running", "failed", "lost", "ended", "reaped"}
Windows == [conn : BOOLEAN, loaded : BOOLEAN, away : BOOLEAN, tracked : BOOLEAN, seen : Nat,
            view : Seq(Nat), whole : BOOLEAN, clean : BOOLEAN, stale : BOOLEAN,
            listening : BOOLEAN, observed : SUBSET Nat,
            outcome : {"none", "ended", "unknown", "rejected"}]

TypeOK ==
  /\ run \in [phase : Phases, seq : Nat, here : BOOLEAN]
  /\ task \in [{"live", "stray"} -> Tasks]
  /\ asks \in Seq(Asks)
  /\ wire \in Seq(Messages)
  /\ win \in Windows
  /\ left \in [breaks : Nat, visits : Nat, goals : Nat]

NewWindow == [conn |-> FALSE, loaded |-> FALSE, away |-> FALSE, tracked |-> FALSE, seen |-> 0,
              view |-> <<>>, whole |-> TRUE, clean |-> TRUE, stale |-> FALSE, listening |-> FALSE,
              observed |-> {}, outcome |-> "none"]

Init ==
  /\ run = [phase |-> "none", seq |-> 0, here |-> FALSE]
  /\ task = [t \in {"live", "stray"} |-> NoTask]
  /\ asks = <<>> /\ wire = <<>>
  /\ win = NewWindow
  /\ left = [breaks |-> MaxBreaks, visits |-> MaxVisits, goals |-> MaxGoalNews]

-----------------------------------------------------------------------------
(* The bridge: the run and its registry. *)

Reserve(here) == run' = [run EXCEPT !.phase = "reserved", !.here = here]

Forward(fresh, last) ==
  [NoTask EXCEPT !.at = "read", !.fresh = fresh, !.cursor = IF fresh THEN 0 ELSE last,
                 !.mark = run.seq]

\* A forwarder replaces the one of the same socket, which is aborted: at once,
\* or, if another thread runs it now, at a later step.
Replace(t) ==
  \E stray \in {NoTask} \cup (IF LateAbort /\ task.live.at # "wait" THEN {task.live} ELSE {}) :
     task' = [task EXCEPT !.live = t, !.stray = stray]

\* RunRegistry::prepare: the run has its first event, or was cancelled before.
Prepare ==
  /\ run.phase = "reserved"
  /\ \E phase \in {"running", "ended"} : run' = [run EXCEPT !.phase = phase, !.seq = 1]
  /\ UNCHANGED <<task, asks, wire, win, left>>

\* It fails and the run leaves the registry, without an event.
PrepareFails ==
  /\ MayFail /\ run.phase = "reserved"
  /\ run' = [run EXCEPT !.phase = "failed"]
  /\ UNCHANGED <<task, asks, wire, win, left>>

\* The task of on_run_start goes on after prepare, if its socket is still there:
\* only that socket hears of a failure, and gets the run from its first event.
Refuse ==
  /\ run.here /\ run.phase = "failed" /\ Len(wire) < Room
  /\ run' = [run EXCEPT !.here = FALSE]
  /\ wire' = Append(wire, Message("rejected", 0, TRUE))
  /\ UNCHANGED <<task, asks, win, left>>

Accept ==
  /\ run.here /\ run.phase \in {"running", "ended", "reaped"}
  /\ run' = [run EXCEPT !.here = FALSE]
  /\ Replace(Forward(FALSE, 0))
  /\ UNCHANGED <<asks, wire, win, left>>

\* Run::emit; the last event ends the run.
Emit ==
  /\ run.phase = "running" /\ run.seq < MaxSeq
  /\ \E phase \in {"running", "ended"} : run' = [run EXCEPT !.phase = phase, !.seq = @ + 1]
  /\ UNCHANGED <<task, asks, wire, win, left>>

\* RunRegistry::reap, ten minutes after the end.
Reap ==
  /\ run.phase = "ended"
  /\ run' = [run EXCEPT !.phase = "reaped"]
  /\ UNCHANGED <<task, asks, wire, win, left>>

\* The dispatcher starts the run, without a window.
HostStart ==
  /\ HostGoal /\ run.phase = "none"
  /\ Reserve(FALSE)
  /\ UNCHANGED <<task, asks, wire, win, left>>

\* The bridge reads the start that an old socket still held.
ServeLate ==
  /\ run.phase = "late"
  /\ Reserve(FALSE)
  /\ UNCHANGED <<task, asks, wire, win, left>>

\* The socket's loop serves the next request.  A start is the only one of its
\* session here, so it is never refused as busy.
Answer(m) ==
  /\ Len(wire) < Room
  /\ wire' = Append(wire, m)

Serve ==
  /\ asks # <<>>
  /\ LET ask == Head(asks) IN
     \/ /\ ask.kind = "start" /\ run.phase = "none"
        /\ Reserve(TRUE)
        /\ UNCHANGED <<task, wire>>
     \/ /\ ask.kind = "attach" /\ Known
        /\ Replace(Forward(ask.fresh, ask.last))
        /\ UNCHANGED <<run, wire>>
     \/ /\ ask.kind = "attach" /\ ~Known
        /\ Answer(Message("missing", 0, FALSE))
        /\ UNCHANGED <<run, task>>
     \/ /\ ask.kind = "list"
        /\ Answer(IF Going \/ (Known /\ HostGoal) THEN Message("runs", run.seq, ~Going)
                  ELSE Message("noruns", 0, FALSE))
        /\ UNCHANGED <<run, task>>
  /\ asks' = Tail(asks)
  /\ UNCHANGED <<win, left>>

-----------------------------------------------------------------------------
(* The bridge: Run::forward over SeqRing. *)

FirstSeq == IF run.seq > Capacity THEN run.seq - Capacity + 1 ELSE 1

\* Mutant of Lag: an event too few before the ring counts as a gap.
LagByOne(t) == t.fresh \/ t.cursor + 2 < FirstSeq \/ t.cursor > run.seq
\* Mutant of Lag: an attach without a number is one with number 0.
LagWithoutFresh(t) == t.cursor + 1 < FirstSeq \/ t.cursor > run.seq
\* A snapshot goes out where the ring no longer holds what comes after the cursor.
Lag(t) == t.fresh \/ t.cursor + 1 < FirstSeq \/ t.cursor > run.seq

\* Mutant of Settle: the task subscribes to the ring after it sent, not before it read.
SettleLate(t) ==
  IF t.whole \/ t.cursor < t.next THEN [t EXCEPT !.at = "send"]
  ELSE IF t.last THEN NoTask ELSE [t EXCEPT !.at = "wait", !.mark = run.seq]
\* After a send: more to send, the end, or wait for the ring to change.
Settle(t) ==
  IF t.whole \/ t.cursor < t.next THEN [t EXCEPT !.at = "send"]
  ELSE IF t.last THEN NoTask ELSE [t EXCEPT !.at = "wait"]

\* Under the lock: a snapshot, or what the ring holds after the cursor.
Read(k) ==
  LET t == task[k] IN
  /\ t.at = "read" \/ (t.at = "wait" /\ k = "live" /\ run.seq > t.mark)
  /\ task' = [task EXCEPT ![k] =
       Settle([t EXCEPT !.whole = Lag(t), !.fresh = FALSE, !.next = run.seq, !.last = Ended,
                        !.cursor = IF ~Lag(t) /\ @ + 1 < FirstSeq THEN FirstSeq - 1 ELSE @,
                        !.mark = IF t.at = "wait" THEN run.seq ELSE @])]
  /\ UNCHANGED <<run, asks, wire, win, left>>

\* Mutant of Send: whether the run has ended is read when the snapshot is sent.
SendEndLate(k) ==
  LET t == task[k]
      seq == IF t.whole THEN t.next ELSE t.cursor + 1 IN
  /\ t.at = "send" /\ Len(wire) < Room
  /\ wire' = Append(wire, IF t.whole THEN Message("snapshot", seq, Ended)
                          ELSE Message("event", seq, Ended /\ seq = run.seq))
  /\ task' = [task EXCEPT ![k] = Settle([t EXCEPT !.cursor = seq, !.whole = FALSE])]
  /\ UNCHANGED <<run, asks, win, left>>
Send(k) ==
  LET t == task[k]
      seq == IF t.whole THEN t.next ELSE t.cursor + 1 IN
  /\ t.at = "send" /\ Len(wire) < Room
  /\ wire' = Append(wire, IF t.whole THEN Message("snapshot", seq, t.last)
                          ELSE Message("event", seq, Ended /\ seq = run.seq))
  /\ task' = [task EXCEPT ![k] = Settle([t EXCEPT !.cursor = seq, !.whole = FALSE])]
  /\ UNCHANGED <<run, asks, win, left>>

\* The abort takes effect.
Vanish ==
  /\ task.stray # NoTask
  /\ task' = [task EXCEPT !.stray = NoTask]
  /\ UNCHANGED <<run, asks, wire, win, left>>

-----------------------------------------------------------------------------
(* The window. *)

\* The Effect of install_reconnect: attach to the tracked run, or look for one.
\* w is the window with the change that set the Effect off.
Effect(w) ==
  IF ~w.conn THEN /\ win' = w
                  /\ UNCHANGED asks
  ELSE IF w.tracked THEN /\ win' = [w EXCEPT !.stale = FALSE]
                         /\ asks' = Append(asks, Attach(w.stale, w.seen))
  ELSE IF w.loaded /\ ~w.away THEN /\ win' = [w EXCEPT !.stale = FALSE, !.listening = TRUE]
                                   /\ asks' = Append(asks, List)
  ELSE /\ win' = [w EXCEPT !.stale = FALSE]
       /\ UNCHANGED asks

\* Mutant of Finish: the end that was shown is not noted.
FinishUnnoted(w, outcome) ==
  Effect([w EXCEPT !.tracked = FALSE, !.outcome = outcome])
\* RunActions::finish, and the Effect that follows.
Finish(w, outcome) ==
  Effect([w EXCEPT !.tracked = FALSE, !.observed = {w.seen}, !.outcome = outcome])

\* Mutant of Connect: a new socket does not attach to the run.
ConnectOnly ==
  /\ ~win.conn
  /\ win' = [win EXCEPT !.conn = TRUE]
  /\ UNCHANGED <<run, task, asks, wire, left>>
\* The socket is open and the bridge has said hello.
Connect ==
  /\ ~win.conn
  /\ Effect([win EXCEPT !.conn = TRUE])
  /\ UNCHANGED <<run, task, wire, left>>

\* The session's messages arrive from the database and replace the view: when
\* the page opens and when the user comes back from another session.
LoadHistory ==
  /\ ~win.loaded \/ win.away
  /\ Effect([win EXCEPT !.loaded = TRUE, !.away = FALSE, !.view = <<>>, !.stale = TRUE,
                        !.seen = IF win.tracked THEN @ ELSE 0,
                        !.whole = ~win.tracked \/ win.seen = 0,
                        !.listening = FALSE, !.observed = {},
                        !.outcome = IF win.tracked THEN @ ELSE "none"])
  /\ UNCHANGED <<run, task, wire, left>>

\* The user looks at another session.
Leave ==
  /\ win.loaded /\ ~win.away /\ left.visits > 0 /\ Len(asks) < MaxAsks
  /\ left' = [left EXCEPT !.visits = @ - 1]
  /\ Effect([win EXCEPT !.away = TRUE, !.stale = FALSE, !.listening = FALSE, !.observed = {}])
  /\ UNCHANGED <<run, task, wire>>

\* News about the goal sets the Effect off.
GoalNews ==
  /\ win.loaded /\ left.goals > 0 /\ Len(asks) < MaxAsks
  /\ left' = [left EXCEPT !.goals = @ - 1]
  /\ Effect(win)
  /\ UNCHANGED <<run, task, wire>>

\* Mutant of Poll: it asks only while an earlier list is awaited.
PollAwaited ==
  /\ HostGoal /\ win.conn /\ win.loaded /\ ~win.away /\ ~win.tracked /\ win.listening
  /\ asks = <<>> /\ ~\E i \in 1..Len(wire) : wire[i].kind \in {"runs", "noruns"}
  /\ asks' = Append(asks, List)
  /\ UNCHANGED <<run, task, wire, win, left>>
\* Every second, while a goal is worked on and nothing is shown; in the model not
\* before the last list has been answered.
Poll ==
  /\ HostGoal /\ win.conn /\ win.loaded /\ ~win.away /\ ~win.tracked
  /\ asks = <<>> /\ ~\E i \in 1..Len(wire) : wire[i].kind \in {"runs", "noruns"}
  /\ asks' = Append(asks, List)
  /\ win' = [win EXCEPT !.listening = TRUE]
  /\ UNCHANGED <<run, task, wire, left>>

\* The window takes the run up from its first event.  Its history field clean says
\* that nothing of the run was on the socket then.
Busy ==
  \/ \E k \in {"live", "stray"} : task[k].at # "none"
  \/ \E i \in 1..Len(wire) : wire[i].kind \in {"event", "snapshot"}
  \/ \E i \in 1..Len(asks) : asks[i].kind = "attach"
Track ==
  win' = [win EXCEPT !.tracked = TRUE, !.seen = 0, !.view = <<>>, !.whole = TRUE,
                     !.clean = ~Busy, !.stale = FALSE, !.listening = FALSE, !.outcome = "none"]

\* RunActions::start; the Effect on the tracked run attaches at once.
StartRun ==
  /\ ~HostGoal /\ run.phase = "none"
  /\ win.conn /\ win.loaded /\ ~win.away /\ ~win.tracked /\ Len(asks) + 1 < MaxAsks
  /\ ~\E i \in 1..Len(asks) : asks[i].kind = "start"
  /\ asks' = asks \o <<Start, Attach(win.stale, 0)>>
  /\ Track
  /\ UNCHANGED <<run, task, wire, left>>

\* Only an event it has not seen, or a snapshot that does not go back, moves a window.
Advances(m) ==
  \/ m.kind = "event" /\ m.seq > win.seen
  \/ m.kind = "snapshot" /\ m.seq >= win.seen

\* A message of the bridge reaches the window.
Receive ==
  /\ wire # <<>>
  /\ wire' = Tail(wire)
  /\ LET m == Head(wire) IN
     \/ /\ m.kind = "event" /\ win.tracked /\ Advances(m)
        /\ LET w == [win EXCEPT !.seen = m.seq,
                                !.view = IF win.away THEN @ ELSE Append(@, m.seq),
                                !.whole = @ /\ ~win.away] IN
           IF m.end THEN Finish(w, "ended") ELSE win' = w /\ UNCHANGED asks
     \/ /\ m.kind = "snapshot" /\ win.tracked /\ Advances(m)
        /\ LET w == [win EXCEPT !.seen = m.seq,
                                !.view = IF win.away THEN @ ELSE Upto(m.seq),
                                !.whole = ~win.away \/ (@ /\ m.seq = win.seen)] IN
           IF m.end THEN Finish(w, "ended") ELSE win' = w /\ UNCHANGED asks
     \/ /\ m.kind = "rejected" /\ win.tracked
        /\ Finish(win, "rejected")
     \/ /\ m.kind = "missing" /\ win.tracked
        /\ Finish(win, "unknown")
     \* RunActions::discover; the Effect on the tracked run attaches once more.
     \/ /\ m.kind = "runs" /\ win.listening /\ ~win.tracked /\ m.seq \notin win.observed
        /\ asks' = asks \o <<Attach(TRUE, 0), Attach(win.stale, 0)>>
        /\ Track
     \/ /\ m.kind \in {"runs", "noruns"}
        /\ m.kind = "noruns" \/ ~win.listening \/ win.tracked \/ m.seq \in win.observed
        /\ win' = [win EXCEPT !.listening = FALSE]
        /\ UNCHANGED asks
     \/ /\ \/ m.kind \in {"event", "snapshot", "rejected", "missing"} /\ ~win.tracked
           \/ m.kind \in {"event", "snapshot"} /\ ~Advances(m)
        /\ UNCHANGED <<win, asks>>
  /\ UNCHANGED <<run, task, left>>

-----------------------------------------------------------------------------
(* What breaks. *)

Broken(w) ==
  /\ left.breaks > 0
  /\ left' = [left EXCEPT !.breaks = @ - 1]
  /\ asks' = <<>> /\ wire' = <<>>
  /\ task' = [t \in {"live", "stray"} |-> NoTask]
  /\ win' = w

\* The bridge goes on with a run it accepted, and may still find a start in the
\* old socket.
Outlive ==
  \/ run' = [run EXCEPT !.here = FALSE]
  \/ /\ \E i \in 1..Len(asks) : asks[i].kind = "start"
     /\ run.phase = "none"
     /\ run' = [run EXCEPT !.phase = "late"]

Disconnect ==
  /\ win.conn
  /\ Broken([win EXCEPT !.conn = FALSE])
  /\ Outlive

ReloadPage ==
  /\ win.loaded
  /\ Broken(NewWindow)
  /\ Outlive

\* The bridge restarts and forgets its runs.
Restart ==
  /\ Broken([win EXCEPT !.conn = FALSE])
  /\ run' = [run EXCEPT !.phase = IF Known THEN "lost" ELSE IF @ = "late" THEN "none" ELSE @,
                        !.here = FALSE]

-----------------------------------------------------------------------------

Next ==
  \/ Prepare \/ PrepareFails \/ Refuse \/ Accept \/ Emit \/ Reap \/ HostStart \/ ServeLate \/ Serve
  \/ \E k \in {"live", "stray"} : Read(k) \/ Send(k)
  \/ Vanish
  \/ Connect \/ LoadHistory \/ Leave \/ GoalNews \/ Poll \/ StartRun \/ Receive
  \/ Disconnect \/ ReloadPage \/ Restart

Spec == Init /\ [][Next]_vars

\* Tasks, sockets and timers go on; a run may go on for ever.
Fairness ==
  /\ WF_vars(Serve) /\ WF_vars(ServeLate) /\ WF_vars(Prepare) /\ WF_vars(Accept) /\ WF_vars(Refuse)
  /\ WF_vars(Read("live")) /\ WF_vars(Send("live")) /\ WF_vars(Receive)
  /\ WF_vars(Connect) /\ WF_vars(LoadHistory) /\ WF_vars(Poll)
FairSpec == Spec /\ Fairness

-----------------------------------------------------------------------------
(* Properties. *)

\* The view is exact: as long as the window holds everything it was sent, it
\* shows each event once, in order, without a gap, over any number of lost
\* sockets, slow reads, overtaken snapshots and attaches that cross each other.
ViewExact == win.clean /\ win.whole => win.view = Upto(win.seen)

\* A window that shows the end of the run has seen all of it.
EndSeenWhole == win.outcome = "ended" => win.seen = run.seq

\* A window with nothing under way shows the run whole, also after its history
\* was loaded again.
Quiet ==
  /\ win.conn /\ win.tracked /\ ~win.away
  /\ asks = <<>> /\ wire = <<>> /\ task.stray = NoTask
  /\ task.live.at = "none" \/ (task.live.at = "wait" /\ task.live.cursor = run.seq)
Restored == Quiet => win.view = Upto(run.seq)

\* The same where only sockets were lost, or only histories were loaded again.
RestoredFromOne ==
  Quiet /\ left.goals = MaxGoalNews /\ (left.breaks = MaxBreaks \/ left.visits = MaxVisits)
    => win.view = Upto(run.seq)

\* A run whose end is shown is not taken up again, although every list of the
\* host's runs names it until it is reaped.
NotAgain == [][win.outcome = "ended" => ~win'.tracked]_vars

\* A window does not go on showing a run that is over, whether it ended, failed, was
\* reaped or was lost in a restart.  One thing keeps it from that: the window's
\* forwarder had found the run when it failed, and the socket that would be told of
\* the failure is gone or never was, so that nobody hears of it before a new socket
\* asks (RunRegistry::start, install_reconnect).
Forsaken == run.phase = "failed" /\ ~run.here /\ task.live # NoTask
EndShown == (win.tracked /\ Over /\ ~Forsaken) ~> ~win.tracked

\* A window on an active goal finds the host's run.
RunFound == Going ~> (win.tracked \/ win.away \/ ~Going)

=============================================================================
