-------------------------- MODULE ScheduledDispatch --------------------------
(***************************************************************************)
(* The store of ScheduledStore together with the processes that deliver    *)
(* its prompts: one bridge daemon, whose dispatcher polls and follows each *)
(* delivery in a task of its own, whose RunRegistry starts and finishes    *)
(* runs, and the foreground runs that compete for the same sessions.       *)
(* Requests and replies get lost, and the daemon may crash at any step and *)
(* come back with an empty memory.  A request that is lost to its caller   *)
(* either never happens or has happened when the caller moves on.          *)
(***************************************************************************)
EXTENDS ScheduledStore

CONSTANTS
  Slots,      \* dispatch tasks that may run at once (10 in the dispatcher)
  ViaBridge,  \* the foreground runs that this daemon's registry holds
  Calm,       \* the moment from which nothing is lost and the daemon stays up
  Crashes,    \* bound of the model: daemon crashes
  SlowPlan    \* whether a dispatch may outlast the claim it works on

ASSUME DispatchAssumption ==
  /\ Slots \subseteq Nat /\ IsFiniteSet(Slots) /\ ViaBridge \subseteq Clients
  /\ Calm \in Nat /\ SlowPlan \in BOOLEAN /\ Crashes \in Nat

VARIABLES
  slot,     \* the dispatch tasks of scheduled::serve
  reg,      \* RunRegistry: the runs "scheduled-<id>"
  fg,       \* the foreground runs
  crashes   \* crashes so far

dvars == <<db, now, removal, yields, slot, reg, fg, crashes>>

Absent == [state |-> "absent", event |-> "none", control |-> FALSE, cancel |-> FALSE, begun |-> 0]
Idle == [pc |-> "idle", run |-> 0, answer |-> "none"]
NoFg == [pc |-> "idle", session |-> NoSession]

\* Whether a request, or its reply, may get lost.
Lossy == now < Calm

Events == {"complete", "cancelled", "failed"}

DispatchTypeOK ==
  /\ TypeOK
  /\ slot \in [Slots -> [pc : {"idle", "start", "plan", "lease", "consume", "abort", "report", "watch"},
                         run : Ids \cup {0}, answer : {"none", "queued", "failed"}]]
  /\ reg \in [Ids -> [state : {"absent", "reserved", "running", "ended", "finished"},
                      event : Events \cup {"none"}, control : BOOLEAN, cancel : BOOLEAN,
                      begun : Nat]]
  /\ fg \in [Clients -> [pc : {"idle", "reserved", "running", "replying", "ended"},
                         session : Sessions \cup {NoSession}]]
  /\ crashes \in 0..Crashes

DispatchInit ==
  /\ Init
  /\ slot = [k \in Slots |-> Idle]
  /\ reg = [i \in Ids |-> Absent]
  /\ fg = [c \in Clients |-> NoFg]
  /\ crashes = 0

SessionOf(i) == db.prompt[i].session
InRegistry(i) == reg[i].state # "absent"

\* run.running of the registry's entries for a session.
Occupied(s) == \/ \E i \in Ids : SessionOf(i) = s /\ reg[i].state \in {"reserved", "running"}
               \/ \E c \in ViaBridge : fg[c].session = s /\ fg[c].pc \in {"reserved", "running"}

Goto(k, pc) == slot' = [slot EXCEPT ![k].pc = pc]
GiveUp(k, answer) == slot' = [slot EXCEPT ![k].pc = "abort", ![k].answer = answer]

-----------------------------------------------------------------------------
(* scheduled::serve *)

FreeSlots == {k \in Slots : slot[k].pc = "idle"}

\* The runs a poll has just claimed.
Delivered == {i \in Ids : /\ db'.runs[i].status = "claimed"
                          /\ ~(db.runs[i].status = "claimed" /\ db.runs[i].until >= now)}

\* One dispatch task per delivery, for as many as there is room; a delivery
\* beyond that, or one whose reply is lost, stays claimed with nobody at work.
Dispatch(h) ==
  /\ FreeSlots # {}
  /\ Poll(h)
  /\ LET Place(i) == CHOOSE k \in FreeSlots :
             Cardinality({j \in FreeSlots : j < k}) = Cardinality({j \in Delivered : j < i})
         Taken == {i \in Delivered : Cardinality({j \in Delivered : j < i}) < Cardinality(FreeSlots)}
     IN  \/ slot' = [k \in Slots |->
                       IF \E i \in Taken : Place(i) = k
                       THEN [pc |-> "start", run |-> CHOOSE i \in Taken : Place(i) = k, answer |-> "none"]
                       ELSE slot[k]]
         \/ Lossy /\ Delivered # {} /\ UNCHANGED slot
  /\ UNCHANGED <<reg, fg, crashes>>

\* A start that was refused is reported once, whether or not it arrives.
ReportRefusal(k) ==
  /\ slot[k].pc = "report"
  /\ \/ Result(slot[k].run, slot[k].answer, Unassessed)
     \/ /\ \/ db.runs[slot[k].run].status \notin {"claimed", "running", "blocked"}
           \/ Lossy
        /\ UNCHANGED <<db, now, removal, yields>>
  /\ slot' = [slot EXCEPT ![k] = Idle]
  /\ UNCHANGED <<reg, fg, crashes>>

\* A run that started is watched until its end has been reported.
ReportProgress(k) ==
  LET i == slot[k].run
      st == IF reg[i].event # "none" THEN reg[i].event ELSE "running"
      over == reg[i].event # "none"
      asked == IF st = "complete" /\ Scheduled(db, i) /\ Kind[db.runs[i].task] = "goal"
               THEN Assessments \cup {Unassessed} ELSE {Unassessed}
  IN  /\ slot[k].pc = "watch"
      /\ \/ /\ IF db.runs[i].status \in {"claimed", "running", "blocked"}
               THEN \E a \in asked : Result(i, st, a) ELSE UNCHANGED <<db, now, removal, yields>>
            /\ slot' = IF over THEN [slot EXCEPT ![k] = Idle] ELSE slot
         \/ /\ Lossy /\ over
            /\ Result(i, st, Unassessed)
            /\ UNCHANGED slot
      /\ UNCHANGED <<reg, fg, crashes>>

-----------------------------------------------------------------------------
(* RunRegistry::start *)

Reserve(k) ==
  LET i == slot[k].run
  IN  /\ slot[k].pc = "start"
      /\ IF InRegistry(i) \/ Occupied(SessionOf(i))
         THEN /\ slot' = [slot EXCEPT ![k].pc = "report", ![k].answer = "queued"]
              /\ UNCHANGED reg
         ELSE /\ Goto(k, "plan")
              /\ reg' = [reg EXCEPT ![i] = [Absent EXCEPT !.state = "reserved", !.begun = reg[i].begun]]
      /\ UNCHANGED <<db, now, removal, yields, fg, crashes>>

\* The plan is refused when the prompt has changed or left the queue, the
\* model is unavailable or the project cannot be opened.  A run that its user
\* cancelled right after it was reserved is over without a body or a lease.
Plan(k) ==
  /\ slot[k].pc = "plan"
  /\ \/ slot[k].run \in db.queue /\ Goto(k, "lease") /\ UNCHANGED reg
     \/ GiveUp(k, "failed") /\ UNCHANGED reg
     \/ /\ Goto(k, "watch")
        /\ reg' = [reg EXCEPT ![slot[k].run].state = "finished", ![slot[k].run].event = "cancelled"]
  /\ UNCHANGED <<db, now, removal, yields, fg, crashes>>

TakeLease(k) ==
  LET i == slot[k].run
      s == SessionOf(i)
  IN  /\ slot[k].pc = "lease"
      /\ \/ Lease(s, i) /\ Goto(k, "consume")
         \/ Lease(s, i) /\ Lossy /\ GiveUp(k, "queued")
         \/ /\ Lossy \/ db.sess[s] # "open"
               \/ ~(db.lease[s].holder = i \/ LeaseFree(db, s, now))
            /\ GiveUp(k, "queued")
            /\ UNCHANGED <<db, now, removal, yields>>
      /\ UNCHANGED <<reg, fg, crashes>>

TakePrompt(k) ==
  LET i == slot[k].run
  IN  /\ slot[k].pc = "consume"
      /\ \/ /\ Consume(i) /\ Goto(k, "watch")
            /\ reg' = [reg EXCEPT ![i].state = "running", ![i].control = TRUE, ![i].begun = @ + 1]
         \/ Consume(i) /\ Lossy /\ GiveUp(k, "failed") /\ UNCHANGED reg
         \/ /\ Lossy \/ ~MayConsume(db, i, now)
            /\ GiveUp(k, "failed")
            /\ UNCHANGED <<db, now, removal, yields, reg>>
      /\ UNCHANGED <<fg, crashes>>

\* A failed start lets go of the lease, if the request arrives, and of its entry.
Abort(k) ==
  LET i == slot[k].run
      s == SessionOf(i)
  IN  /\ slot[k].pc = "abort"
      /\ \/ Release(s, i)
         \/ /\ Lossy \/ db.lease[s].holder # i
            /\ UNCHANGED <<db, now, removal, yields>>
      /\ reg' = [reg EXCEPT ![i] = [Absent EXCEPT !.begun = reg[i].begun]]
      /\ Goto(k, "report")
      /\ UNCHANGED <<fg, crashes>>

-----------------------------------------------------------------------------
(* A run in progress: its body, and the control loop beside it. *)

\* The control loop renews the lease.  The reply may ask for the run to be
\* cancelled (by the user, or for its goal); a failure of any kind cancels it too.
Renew(i) ==
  LET s == SessionOf(i)
  IN  /\ reg[i].control
      /\ \/ Lease(s, i) /\ UNCHANGED reg
         \/ Lease(s, i) /\ reg' = [reg EXCEPT ![i].cancel = TRUE]
         \/ /\ Lossy \/ db.sess[s] # "open"
               \/ ~(db.lease[s].holder = i \/ LeaseFree(db, s, now))
            /\ reg' = [reg EXCEPT ![i].control = FALSE, ![i].cancel = TRUE]
            /\ UNCHANGED <<db, now, removal, yields>>
      /\ UNCHANGED <<slot, fg, crashes>>

\* The last event of the body; a cancelled body ends as cancelled.
BodyEnds(i) ==
  /\ reg[i].state = "running"
  /\ \E ev \in (IF reg[i].cancel THEN {"cancelled"} ELSE Events) :
       reg' = [reg EXCEPT ![i].state = "ended", ![i].event = ev]
  /\ UNCHANGED <<db, now, removal, yields, slot, fg, crashes>>

\* Then the control loop is aborted and the lease let go.
BodyReleases(i) ==
  /\ reg[i].state = "ended"
  /\ LET s == SessionOf(i)
     IN  \/ Release(s, i)
         \/ /\ Lossy \/ db.lease[s].holder # i
            /\ UNCHANGED <<db, now, removal, yields>>
  /\ reg' = [reg EXCEPT ![i].state = "finished", ![i].control = FALSE]
  /\ UNCHANGED <<slot, fg, crashes>>

\* RunRegistry::reap, ten minutes after the end of a run.
Reap(i) ==
  /\ reg[i].state = "finished" /\ \A k \in Slots : slot[k].run # i
  /\ reg' = [reg EXCEPT ![i] = [Absent EXCEPT !.begun = reg[i].begun]]
  /\ UNCHANGED <<db, now, removal, yields, slot, fg, crashes>>

\* begun is history and outlives the daemon's memory.
Crash ==
  /\ crashes < Crashes /\ now < Calm
  /\ crashes' = crashes + 1
  /\ slot' = [k \in Slots |-> Idle]
  /\ reg' = [i \in Ids |-> [Absent EXCEPT !.begun = reg[i].begun]]
  /\ fg' = [c \in Clients |-> IF c \in ViaBridge THEN NoFg ELSE fg[c]]
  /\ UNCHANGED <<db, now, removal, yields>>

-----------------------------------------------------------------------------
(* Foreground runs: in the browser, in Spin, or in the daemon's registry.   *)
(* A plain chat reply of Spin ("replying") takes its lease once, never      *)
(* renews it and lasts as long as its stream does; every other run renews.  *)
(* A run counts as at work as soon as it has the lease.                     *)

FgReserve(c, s) ==
  /\ fg[c].pc = "idle" /\ db.sess[s] = "open"
  /\ c \in ViaBridge => ~Occupied(s)
  /\ fg' = [fg EXCEPT ![c] = [pc |-> "reserved", session |-> s]]
  /\ UNCHANGED <<db, now, removal, yields, slot, reg, crashes>>

FgStart(c) ==
  LET s == fg[c].session
  IN  /\ fg[c].pc = "reserved"
      /\ \/ Lease(s, c) /\ fg' = [fg EXCEPT ![c].pc = "running"]
         \/ Lease(s, c) /\ c \notin ViaBridge /\ fg' = [fg EXCEPT ![c].pc = "replying"]
         \/ /\ Lossy \/ db.sess[s] # "open" \/ ~(db.lease[s].holder = c \/ LeaseFree(db, s, now))
            /\ fg' = [fg EXCEPT ![c] = NoFg]
            /\ UNCHANGED <<db, now, removal, yields>>
      /\ UNCHANGED <<slot, reg, crashes>>

FgRenew(c) ==
  /\ fg[c].pc = "running" /\ Lease(fg[c].session, c)
  /\ UNCHANGED <<slot, reg, fg, crashes>>

FgEnds(c) ==
  /\ fg[c].pc \in {"running", "replying"}
  /\ fg' = [fg EXCEPT ![c].pc = "ended"]
  /\ UNCHANGED <<db, now, removal, yields, slot, reg, crashes>>

FgReleases(c) ==
  /\ fg[c].pc = "ended"
  /\ \/ Release(fg[c].session, c)
     \/ /\ Lossy \/ db.lease[fg[c].session].holder # c
        /\ UNCHANGED <<db, now, removal, yields>>
  /\ fg' = [fg EXCEPT ![c] = NoFg]
  /\ UNCHANGED <<slot, reg, crashes>>

-----------------------------------------------------------------------------
Bodies(s) == {i \in Ids : SessionOf(i) = s /\ reg[i].state = "running"}
               \cup {c \in Clients : fg[c].session = s /\ fg[c].pc \in {"running", "replying"}}

\* A plain reply that goes on after its lease has run out or been let go.
Replying(b) == b \in Clients /\ fg[b].pc = "replying"
Outlived(b, s) == Replying(b) /\ db.lease[s].holder # b

\* Timing.  A body that renews does so every 15 seconds for a lease of 120, and
\* one that is cancelled stops within the rest: it is over before its lease is.
\* The same holds between taking the lease and starting the body; of a plain
\* reply nothing is assumed.  A dispatch
\* that is not slow has taken the prompt, or reported why not, before its claim
\* runs out; the watcher of a live run reports every 5 seconds what lasts 120.
InTime ==
  /\ \A s \in Sessions :
       /\ \A b \in Bodies(s) :
            ~Replying(b) /\ db.lease[s].holder = b => now + 1 < db.lease[s].until
       /\ \A k \in Slots : /\ slot[k].pc = "consume" /\ SessionOf(slot[k].run) = s
                           /\ db.lease[s].holder = slot[k].run
                           => now + 1 < db.lease[s].until
  /\ ~SlowPlan => \A k \in Slots :
       /\ slot[k].pc \notin {"idle", "watch"}
       /\ db.runs[slot[k].run].status = "claimed"
       => now < db.runs[slot[k].run].until
  /\ \A k \in Slots : slot[k].pc = "watch" /\ db.runs[slot[k].run].status = "running"
                       => now < db.runs[slot[k].run].until

DispatchTick == InTime /\ Tick /\ UNCHANGED <<slot, reg, fg, crashes>>

SlotStep(k) == \/ Reserve(k) \/ Plan(k) \/ TakeLease(k) \/ TakePrompt(k)
               \/ Abort(k) \/ ReportRefusal(k) \/ ReportProgress(k)

Serve == \/ \E h \in Hosts : Dispatch(h)
         \/ \E k \in Slots : SlotStep(k)
         \/ \E i \in Ids : Renew(i) \/ BodyEnds(i) \/ BodyReleases(i) \/ Reap(i)
Foreground == \E c \in Clients : \/ \E s \in Sessions : FgReserve(c, s)
                                 \/ FgStart(c) \/ FgRenew(c) \/ FgEnds(c) \/ FgReleases(c)
Users == (Edit \/ Goals \/ Yielding) /\ UNCHANGED <<slot, reg, fg, crashes>>

DispatchNext == Serve \/ Foreground \/ Users \/ Crash \/ DispatchTick
DispatchSpec == DispatchInit /\ [][DispatchNext]_dvars

\* The daemon polls every five seconds, its dispatch tasks take their steps, an
\* agent's run ends, the reaper comes again and again, and time passes.
\* PollHasWork and Ready say when a poll or a dispatch task has something to do.
PollHasWork(h) ==
  /\ FreeSlots # {}
  /\ LET d == Cleanup(Rearm(Recover(db, now), now), now)
         B == Batch(d, h, now)
     IN  \E p \in Places(d, B) :
           /\ d.last + Cardinality({t \in B : Accepted(d, B, p, t, now)}) <= MaxId
           /\ Claim(Insert(d, B, p, now), h, now) # db
Ready(k) == /\ slot[k].pc # "idle"
            /\ slot[k].pc = "watch" => reg[slot[k].run].event # "none"

Fairness == /\ \A h \in Hosts : <>[]PollHasWork(h) => []<><<Dispatch(h)>>_dvars
            /\ \A k \in Slots : <>[]Ready(k) => []<><<SlotStep(k)>>_dvars
            /\ \A i \in Ids : WF_dvars(BodyEnds(i)) /\ WF_dvars(BodyReleases(i)) /\ SF_dvars(Reap(i))
            /\ WF_dvars(DispatchTick)
FairDispatchSpec == DispatchSpec /\ Fairness

-----------------------------------------------------------------------------
\* However often a run is claimed, refused, retried or lost in a crash, an agent
\* starts work on its prompt at most once (docs/scheduled-tasks.md, Delivery and
\* recovery; the lease and claim checks of consume_queued_prompt).
WorkedOnce == \A i \in Ids : reg[i].begun <= 1 /\ reg[i].begun <= db.sent[i]

\* Two agents work in one session at the same time only when one of them is a
\* plain reply of Spin that has lost its lease, whatever mix of daemons, browsers
\* and Spin requests started them (session_run_lease).
BodiesApart ==
  \A s \in Sessions : \A a, b \in Bodies(s) : a = b \/ Outlived(a, s) \/ Outlived(b, s)

\* What docs/scheduled-tasks.md says of the renewable run lease: no two agents ever
\* work in one session at the same time, a normal response being one of them.
OneBodyPerSession ==
  \A s \in Sessions : \A a, b \in Bodies(s) : a = b

\* A queued prompt does not wait for ever: once requests arrive and the daemon
\* stays up, every prompt in the queue becomes a message, fails or is withdrawn,
\* whatever was lost before (scheduled::serve, due_scheduled).
PromptsMove == \A i \in Ids : i \in db.queue ~> i \notin db.queue

\* While an agent works on an occurrence, the database counts that occurrence as
\* the task's active one, so no other occurrence of the task is created beside it.
WorkIsRecorded ==
  \A i \in Ids : reg[i].state = "running" /\ Scheduled(db, i) => db.runs[i].status \in Active

=============================================================================
