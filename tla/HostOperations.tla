--------------------------- MODULE HostOperations ---------------------------
(***************************************************************************)
(* Host administration: the journal of maintenance operations kept by the   *)
(* store, the request handler and the recovery loop of the server bridge,   *)
(* which share one gate, the resident task that executes a claimed          *)
(* operation on a host over SSH, the administrator who may change the       *)
(* connection, and the hosts, which go down and come back with the same or  *)
(* with a new boot identity.  The bridge may crash, a request may be        *)
(* dropped, and a call to the journal may fail or lose its reply.           *)
(***************************************************************************)
EXTENDS Naturals, Sequences, FiniteSets

CONSTANTS Ops, Hosts,    \* the operations, and the machines they maintain
          NoHost,        \* the connection is disabled or not configured
          Target,        \* the host of each operation's plan
          Steps, Checks, \* how many mutation steps and verifications it has
          Reboots,       \* the operations whose plan expects a reboot
          Hour,          \* ticks of the clock until a reconnect expires
          MaxOutputs,    \* the outcomes the journal retains (32 in the code)
          MaxBoot, MaxRev, MaxFaults \* bounds: boots, connections, faults

ASSUME HostAssumption ==
  /\ NoHost \notin Hosts
  /\ Target \in [Ops -> Hosts]
  /\ Steps \in [Ops -> Nat \ {0}] /\ Checks \in [Ops -> Nat]
  /\ Reboots \subseteq Ops
  /\ Hour \in Nat \ {0} /\ MaxOutputs \in Nat
  /\ MaxBoot \in Nat /\ MaxRev \in Nat /\ MaxFaults \in Nat

VARIABLES rows,    \* the journal: one row per operation
          conn,    \* the saved connection: its revision and its host
          up, boot,\* whether each host answers, and its boot identity
          req,     \* the request that holds the gate
          rec,     \* the recovery pass that holds the gate
          task,    \* the resident task of each operation (live_operations)
          ran,     \* history: the mutation steps each operation ran
          good,    \* history: the mutation steps that reported success
          passed,  \* history: the verifications that passed where they count
          faults   \* the faults so far

vars == <<rows, conn, up, boot, req, rec, task, ran, good, passed, faults>>
hostVars == <<up, boot>>
history == <<ran, good, passed>>

Active == {"running", "awaiting"}
Finals == {"succeeded", "failed", "interrupted"}
States == {"none", "prepared", "gone"} \cup Active \cup Finals

NoRow == [state |-> "none", started |-> 0, outs |-> 0, boot |-> 0, rev |-> 0, age |-> 0]
Off == [pc |-> "off", check |-> FALSE, index |-> 0, end |-> "none",
        host |-> NoHost, row |-> NoRow]
NoReq == [pc |-> "idle", op |-> "none", conn |-> [rev |-> 0, host |-> NoHost], boot |-> 0]
NoRec == [pc |-> "idle", conn |-> [rev |-> 0, host |-> NoHost], boot |-> 0, todo |-> {}]

Live(o) == task[o].pc # "off"
GateFree == req.pc = "idle" /\ rec.pc = "idle"
Fault == faults < MaxFaults /\ faults' = faults + 1

Init == /\ rows = [o \in Ops |-> NoRow]
        /\ conn \in [rev : {0}, host : Hosts]
        /\ up = [h \in Hosts |-> TRUE] /\ boot = [h \in Hosts |-> 0]
        /\ req = NoReq /\ rec = NoRec
        /\ task = [o \in Ops |-> Off]
        /\ ran = [o \in Ops |-> <<>>]
        /\ good = [o \in Ops |-> {}] /\ passed = [o \in Ops |-> {}]
        /\ faults = 0

-----------------------------------------------------------------------------
(* The journal.                                                             *)

\* Mutant of Accepts: a row that has ended is overwritten like an active one.
AcceptsEnded(o, r) == rows[o].boot = r.boot /\ rows[o].rev = r.rev /\ r.outs <= MaxOutputs

\* save_host_operation: only an active row of the same plan, boot and
\* revision is overwritten, and only within the retention limit.
Accepts(o, r) == /\ rows[o].state \in Active
                 /\ rows[o].boot = r.boot /\ rows[o].rev = r.rev
                 /\ r.outs <= MaxOutputs

\* A row in another state; a row stamped with the time.
Moved(r, s) == [r EXCEPT !.state = s]
Stamped(r) == [r EXCEPT !.age = 0]

\* A save writes the caller's whole copy, stamped with the time; the caller is
\* told of success, or of an error although (or because) nothing was written.
Save(o, r, told) ==
  \/ /\ Accepts(o, r)
     /\ rows' = [rows EXCEPT ![o] = Stamped(r)]
     /\ IF told THEN UNCHANGED faults ELSE Fault
  \/ ~told /\ UNCHANGED rows /\ IF Accepts(o, r) THEN Fault ELSE UNCHANGED faults

Expired(o, r) == o \in Reboots /\ r.age >= Hour

-----------------------------------------------------------------------------
(* Requests: prepare and apply, one at a time behind the gate.              *)

\* The handler takes the gate and reads the connection.
ReqStart(o) == /\ GateFree
               /\ rows[o].state \in {"none", "prepared"}
               /\ req' = [pc |-> "identity", op |-> o, conn |-> conn, boot |-> 0]
               /\ UNCHANGED <<rows, conn, hostVars, rec, task, history, faults>>

\* It asks the host for its identity; another target, or an operation that is
\* no longer prepared, ends the request.
ReqIdentity == /\ req.pc = "identity"
               /\ LET o == req.op
                      h == req.conn.host
                      answers == h # NoHost /\ h = Target[o] /\ up[h]
                      next == IF rows[o].state = "none" THEN "prepare" ELSE "claim"
                  IN  req' = IF answers /\ rows[o].state \in {"none", "prepared"}
                             THEN [pc |-> next, op |-> o, conn |-> req.conn, boot |-> boot[h]]
                             ELSE NoReq
               /\ UNCHANGED <<rows, conn, hostVars, rec, task, history, faults>>

\* prepare_host_operation: the plan with the identity it was inspected under.
ReqPrepare == /\ req.pc = "prepare"
              /\ rows' = [rows EXCEPT ![req.op] =
                            [state |-> "prepared", started |-> 0, outs |-> 0,
                             boot |-> req.boot, rev |-> req.conn.rev, age |-> 0]]
              /\ req' = NoReq
              /\ UNCHANGED <<conn, hostVars, rec, task, history, faults>>

\* Mutant of Claimable: the claim does not look for another active operation.
ClaimableBeside(o) == /\ conn.rev = req.conn.rev
                      /\ rows[o].boot = req.boot /\ rows[o].rev = req.conn.rev
                      /\ rows[o].state = "prepared"

\* claim_host_operation, one transaction: same connection, same boot, still
\* prepared, and no active operation on the target.
Claimable(o) == /\ conn.rev = req.conn.rev
                /\ rows[o].boot = req.boot /\ rows[o].rev = req.conn.rev
                /\ rows[o].state = "prepared"
                /\ \A p \in Ops : Target[p] = Target[o] => rows[p].state \notin Active

ReqClaim == /\ req.pc = "claim"
            /\ IF Claimable(req.op)
               THEN /\ rows' = [rows EXCEPT ![req.op] = Stamped(Moved(@, "running"))]
                    /\ \/ req' = [req EXCEPT !.pc = "launch"] /\ UNCHANGED faults
                       \/ req' = NoReq /\ Fault
               ELSE req' = NoReq /\ UNCHANGED <<rows, faults>>
            /\ UNCHANGED <<conn, hostVars, rec, task, history>>

\* spawn_operation: a task on host h holds the operation r as it was read.  It is
\* to run step or verification i, or to finish in state e.
Work(h, r, check, i) == [pc |-> "begin", check |-> check, index |-> i, end |-> "none",
                         host |-> h, row |-> r]
Ending(h, r, e) == [pc |-> "finish", check |-> FALSE, index |-> 0, end |-> e,
                    host |-> h, row |-> r]
Verify(o, h, r, i) == IF i <= Checks[o] THEN Work(h, r, TRUE, i)
                      ELSE Ending(h, r, "succeeded")

ReqLaunch == /\ req.pc = "launch"
             /\ task' = [task EXCEPT ![req.op] =
                           Work(req.conn.host, Stamped(rows[req.op]), FALSE, 1)]
             /\ req' = NoReq
             /\ UNCHANGED <<rows, conn, hostVars, rec, history, faults>>

\* The chat is stopped or the call is cut off: the handler's future is dropped.
ReqDrop == /\ req.pc # "idle"
           /\ req' = NoReq
           /\ Fault
           /\ UNCHANGED <<rows, conn, hostVars, rec, task, history>>

\* Mutant of SaveConnection: the connection changes although an operation is active.
SaveConnectionAnytime(h) == /\ conn.rev < MaxRev
                            /\ conn' = [rev |-> conn.rev + 1, host |-> h]
                            /\ UNCHANGED <<rows, hostVars, req, rec, task, history, faults>>

\* save_host_connection, a transaction; MaxRev bounds the changes.
SaveConnection(h) == /\ conn.rev < MaxRev
                     /\ \A o \in Ops : rows[o].state \notin Active
                     /\ conn' = [rev |-> conn.rev + 1, host |-> h]
                     /\ UNCHANGED <<rows, hostVars, req, rec, task, history, faults>>

\* delete_session removes the rows of its operations, unless one is active; their
\* history goes with them.
DeleteSession(o) == /\ rows[o].state \in Finals \cup {"prepared"}
                    /\ rows' = [rows EXCEPT ![o] = [NoRow EXCEPT !.state = "gone"]]
                    /\ ran' = [ran EXCEPT ![o] = <<>>]
                    /\ good' = [good EXCEPT ![o] = {}]
                    /\ passed' = [passed EXCEPT ![o] = {}]
                    /\ UNCHANGED <<conn, hostVars, req, rec, task, faults>>

-----------------------------------------------------------------------------
(* The resident task: execute_operation, run_command and finish.            *)

\* The task saves its copy r and goes on as t when told of success, as e when not.
TaskSave(o, r, t, e) ==
  \E told \in BOOLEAN :
    /\ Save(o, r, told)
    /\ task' = [task EXCEPT ![o] = IF told THEN t ELSE e]

\* run_command: the step is written to the journal before it is run.
TaskBegin(o) ==
  /\ task[o].pc = "begin"
  /\ LET t == task[o]
         r == IF t.check THEN t.row ELSE [t.row EXCEPT !.started = t.index]
     IN  TaskSave(o, r, [pc |-> "ready", check |-> t.check, index |-> t.index,
                         end |-> "none", host |-> t.host, row |-> r],
                  Ending(t.host, r, "failed"))
  /\ UNCHANGED <<conn, hostVars, req, rec, history>>

\* command_stream: the command starts on the host, or SSH reports an error.
TaskCommand(o) ==
  /\ task[o].pc = "ready"
  /\ LET t == task[o]
     IN  IF up[t.host]
         THEN /\ task' = [task EXCEPT ![o].pc = "busy"]
              /\ ran' = IF t.check THEN ran ELSE [ran EXCEPT ![o] = Append(@, t.index)]
         ELSE /\ task' = [task EXCEPT ![o] = Ending(t.host, t.row, "failed")]
              /\ UNCHANGED ran
  /\ UNCHANGED <<rows, conn, hostVars, req, rec, good, passed, faults>>

\* Output or a prompt of an interactive command is saved as it arrives.
TaskOutput(o) ==
  /\ task[o].pc = "busy"
  /\ TaskSave(o, task[o].row, task[o], Ending(task[o].host, task[o].row, "failed"))
  /\ UNCHANGED <<conn, hostVars, req, rec, history>>

\* Mutant of After: any exit status but a cut connection counts as success.
AfterAnyStatus(o, t, r, how) ==
  LET last == ~t.check /\ t.index = Steps[o] /\ o \in Reboots
  IN  IF t.check THEN Verify(o, t.host, r, t.index + 1)
      ELSE IF last THEN Ending(t.host, r, "awaiting")
      ELSE IF t.index < Steps[o] THEN Work(t.host, r, FALSE, t.index + 1)
      ELSE Verify(o, t.host, r, 1)

\* What task t does after an outcome that was saved in row r.
After(o, t, r, how) ==
  LET last == ~t.check /\ t.index = Steps[o] /\ o \in Reboots
  IN  IF how = "ok" /\ t.check THEN Verify(o, t.host, r, t.index + 1)
      ELSE IF how = "ok" /\ t.index < Steps[o] THEN Work(t.host, r, FALSE, t.index + 1)
      ELSE IF how \in {"ok", "cut"} /\ last THEN Ending(t.host, r, "awaiting")
      ELSE IF how = "ok" THEN Verify(o, t.host, r, 1)
      ELSE Ending(t.host, r, "failed")

\* The command ends with success, with another status, or with none or 255 (the
\* connection was cut).  An error while saving its outcome ends the task.
TaskOutcome(o) ==
  /\ task[o].pc = "busy"
  /\ \E how \in {"ok", "bad", "cut"} :
       LET t == task[o]
           r == [t.row EXCEPT !.outs = @ + 1]
       IN  /\ how \in {"ok", "bad"} => up[t.host]
           /\ TaskSave(o, r, After(o, t, r, how), Off)
           /\ good' = IF how = "ok" /\ ~t.check
                      THEN [good EXCEPT ![o] = @ \cup {t.index}] ELSE good
           /\ passed' = IF /\ how = "ok" /\ t.check
                           /\ o \in Reboots => boot[t.host] # t.row.boot
                        THEN [passed EXCEPT ![o] = @ \cup {t.index}] ELSE passed
  /\ UNCHANGED <<conn, hostVars, req, rec, ran>>

\* The stream fails or ends without an exit status (an interactive timeout).
TaskLost(o) == /\ task[o].pc = "busy"
               /\ task' = [task EXCEPT ![o] = Ending(@.host, @.row, "failed")]
               /\ UNCHANGED <<rows, conn, hostVars, req, rec, history, faults>>

\* finish: whether or not the save succeeds, the task ends and its guard drops.
TaskFinish(o) == /\ task[o].pc = "finish"
                 /\ TaskSave(o, Moved(task[o].row, task[o].end), Off, Off)
                 /\ UNCHANGED <<conn, hostVars, req, rec, history>>

-----------------------------------------------------------------------------
(* The recovery loop: every ten seconds, behind the same gate.              *)

RecStart == /\ GateFree
            /\ conn.host # NoHost
            /\ rec' = [pc |-> "list", conn |-> conn, boot |-> 0, todo |-> {}]
            /\ UNCHANGED <<rows, conn, hostVars, req, task, history, faults>>

\* The active rows are read from the journal...
RecList == /\ rec.pc = "list"
           /\ rec' = [rec EXCEPT !.pc = "filter",
                        !.todo = {[op |-> o, row |-> rows[o]] :
                                    o \in {p \in Ops : rows[p].state \in Active}}]
           /\ UNCHANGED <<rows, conn, hostVars, req, task, history, faults>>

\* Mutant of RecFilter: operations with a live task are recovered too.
RecFilterNone == /\ rec.pc = "filter"
                 /\ rec' = [rec EXCEPT !.pc = "expire"]
                 /\ UNCHANGED <<rows, conn, hostVars, req, task, history, faults>>

\* ... and only then compared with the tasks that are live.
RecFilter == /\ rec.pc = "filter"
             /\ rec' = [rec EXCEPT !.pc = "expire", !.todo = {e \in @ : ~Live(e.op)}]
             /\ UNCHANGED <<rows, conn, hostVars, req, task, history, faults>>

\* The entry e is written as interrupted; an error ends the pass.
Interrupt(e) == \E told \in BOOLEAN :
                  /\ Save(e.op, Moved(e.row, "interrupted"), told)
                  /\ rec' = IF told THEN [rec EXCEPT !.todo = @ \ {e}] ELSE NoRec

RecExpire == /\ rec.pc = "expire"
             /\ \E e \in rec.todo : Expired(e.op, e.row) /\ Interrupt(e)
             /\ UNCHANGED <<conn, hostVars, req, task, history>>

\* The host is asked for its identity; while it is down the pass ends.
RecOverview == /\ rec.pc = "expire"
               /\ \A e \in rec.todo : ~Expired(e.op, e.row)
               /\ LET h == rec.conn.host
                  IN  rec' = IF rec.todo # {} /\ up[h]
                             THEN [rec EXCEPT !.pc = "decide", !.boot = boot[h]]
                             ELSE NoRec
               /\ UNCHANGED <<rows, conn, hostVars, req, task, history, faults>>

\* host_recovery: what the observed machine says of an entry.
Recovery(e) ==
  IF \/ Target[e.op] # rec.conn.host \/ e.row.rev # rec.conn.rev \/ Expired(e.op, e.row)
  THEN "interrupt"
  ELSE IF e.op \in Reboots /\ e.row.boot # rec.boot THEN "verify"
  ELSE IF e.row.state = "awaiting" THEN "wait"
  ELSE "interrupt"

\* Mutant of Recovered: an end that the journal does not know.
RecoveredExpired(e) == IF e.row.started = Steps[e.op] /\ Checks[e.op] > 0
                       THEN Work(rec.conn.host, Stamped(e.row), TRUE, 1)
                       ELSE Ending(rec.conn.host, Stamped(e.row), "expired")

\* Mutant of Recovered: the step that was started last is run again.
RecoveredAgain(e) == IF e.row.started > 0
                     THEN Work(rec.conn.host, Stamped(e.row), FALSE, e.row.started)
                     ELSE Ending(rec.conn.host, Stamped(e.row), "interrupted")

\* execute_operation with recovery set never runs a mutation step.
Recovered(e) == IF e.row.started = Steps[e.op] /\ Checks[e.op] > 0
                THEN Work(rec.conn.host, Stamped(e.row), TRUE, 1)
                ELSE Ending(rec.conn.host, Stamped(e.row), "interrupted")

RecDecide == /\ rec.pc = "decide"
             /\ \E e \in rec.todo :
                  \/ /\ Recovery(e) = "wait"
                     /\ rec' = [rec EXCEPT !.todo = @ \ {e}]
                     /\ UNCHANGED <<rows, task, faults>>
                  \/ /\ Recovery(e) = "verify"
                     /\ task' = [task EXCEPT ![e.op] = Recovered(e)]
                     /\ rec' = [rec EXCEPT !.todo = @ \ {e}]
                     /\ UNCHANGED <<rows, faults>>
                  \/ Recovery(e) = "interrupt" /\ Interrupt(e) /\ UNCHANGED task
             /\ UNCHANGED <<conn, hostVars, req, history>>

RecEnd == /\ rec.pc = "decide" /\ rec.todo = {}
          /\ rec' = NoRec
          /\ UNCHANGED <<rows, conn, hostVars, req, task, history, faults>>

-----------------------------------------------------------------------------
(* The environment.                                                         *)

\* The bridge stops: its tasks, its request and its recovery pass are gone.
BridgeCrash == /\ Fault
               /\ task' = [o \in Ops |-> Off]
               /\ req' = NoReq /\ rec' = NoRec
               /\ UNCHANGED <<rows, conn, hostVars, history>>

\* A reboot step takes its host down; otherwise an outage is a fault.
HostDown(h) == /\ up[h]
               /\ up' = [up EXCEPT ![h] = FALSE]
               /\ \/ /\ \E o \in Reboots : /\ task[o].pc = "busy" /\ task[o].host = h
                                           /\ ~task[o].check /\ task[o].index = Steps[o]
                     /\ UNCHANGED faults
                  \/ Fault
               /\ UNCHANGED <<rows, conn, boot, req, rec, task, history>>

\* The host answers again: the network was cut, or the machine was restarted.
HostUp(h) == /\ ~up[h]
             /\ up' = [up EXCEPT ![h] = TRUE]
             /\ \/ UNCHANGED boot
                \/ boot[h] < MaxBoot /\ boot' = [boot EXCEPT ![h] = @ + 1]
             /\ UNCHANGED <<rows, conn, req, rec, task, history, faults>>

\* A tick of the clock ages every copy of an active row; ages stop at Hour.
Older(r) == IF r.age < Hour THEN [r EXCEPT !.age = @ + 1] ELSE r
Tick == /\ \E o \in Ops : rows[o].state \in Active /\ rows[o].age < Hour
        /\ rows' = [o \in Ops |-> IF rows[o].state \in Active THEN Older(rows[o])
                                  ELSE rows[o]]
        /\ rec' = [rec EXCEPT !.todo = {[op |-> e.op, row |-> Older(e.row)] : e \in @}]
        /\ UNCHANGED <<conn, hostVars, req, task, history, faults>>

Request == \/ \E o \in Ops : ReqStart(o)
           \/ ReqIdentity \/ ReqPrepare \/ ReqClaim \/ ReqLaunch \/ ReqDrop
Task(o) == \/ TaskBegin(o) \/ TaskCommand(o) \/ TaskOutput(o)
           \/ TaskOutcome(o) \/ TaskLost(o) \/ TaskFinish(o)
Recover == RecStart \/ RecList \/ RecFilter \/ RecExpire \/ RecOverview \/ RecDecide \/ RecEnd
Environment == \/ BridgeCrash \/ Tick
               \/ \E h \in Hosts : HostDown(h) \/ HostUp(h)
               \/ \E h \in Hosts \cup {NoHost} : SaveConnection(h)
               \/ \E o \in Ops : DeleteSession(o)

Next == Request \/ (\E o \in Ops : Task(o)) \/ Recover \/ Environment

Spec == Init /\ [][Next]_vars

\* The handlers and tasks run on, every command has a timeout, the gate is a
\* fair mutex that the loop asks for every ten seconds, the clock advances and
\* a host that went down comes back.
Fairness ==
  /\ WF_vars(ReqIdentity \/ ReqPrepare \/ ReqClaim \/ ReqLaunch)
  /\ \A o \in Ops : WF_vars(TaskBegin(o) \/ TaskCommand(o) \/ TaskOutcome(o)
                                          \/ TaskLost(o) \/ TaskFinish(o))
  /\ SF_vars(RecStart)
  /\ WF_vars(RecList \/ RecFilter \/ RecExpire \/ RecOverview \/ RecDecide \/ RecEnd)
  /\ WF_vars(Tick)
  /\ \A h \in Hosts : WF_vars(HostUp(h))

FairSpec == Spec /\ Fairness

-----------------------------------------------------------------------------
(* Properties.                                                              *)

Rows == [state : States, started : Nat, outs : Nat, boot : Nat, rev : Nat, age : Nat]
Conns == [rev : Nat, host : Hosts \cup {NoHost}]
Requests == [pc : {"idle", "identity", "prepare", "claim", "launch"},
             op : Ops \cup {"none"}, conn : Conns, boot : Nat]
Entries == [op : Ops, row : Rows]
Passes == [pc : {"idle", "list", "filter", "expire", "decide"},
           conn : Conns, boot : Nat, todo : SUBSET Entries]
Residents == [pc : {"off", "begin", "ready", "busy", "finish"}, check : BOOLEAN,
              index : Nat, end : States, host : Hosts \cup {NoHost}, row : Rows]

\* Every variable has its type.
HostTypeOK == /\ rows \in [Ops -> Rows] /\ conn \in Conns
              /\ up \in [Hosts -> BOOLEAN] /\ boot \in [Hosts -> Nat]
              /\ req \in Requests /\ rec \in Passes /\ task \in [Ops -> Residents]
              /\ ran \in [Ops -> Seq(Nat)]
              /\ good \in [Ops -> SUBSET Nat] /\ passed \in [Ops -> SUBSET Nat]
              /\ faults \in 0 .. MaxFaults

\* Only one operation maintains a target at once, and since the connection
\* selects the target and cannot change meanwhile, only one at all: at most one
\* row is active (claim_host_operation, save_host_connection).
OneMaintainer == \A o, p \in Ops :
                   rows[o].state \in Active /\ rows[p].state \in Active => o = p

\* A command runs on a host only for an operation the journal shows as active,
\* whatever recovery passes, dropped requests and lost replies came before: a
\* task that recovery spawned from a stale row is refused its first save.
WorkIsClaimed == \A o \in Ops :
                   task[o].pc \in {"ready", "busy"} => rows[o].state \in Active

\* An active operation belongs to the saved connection and to its host: the
\* connection settings cannot change during active maintenance, nor can an
\* operation prepared for an earlier connection start (host-administration.md).
ConnectionIsStable == \A o \in Ops : rows[o].state \in Active =>
                        rows[o].rev = conn.rev /\ Target[o] = conn.host

\* Mutation steps start in order and at most once over crashes, recoveries and
\* retries, and the journal of an active operation names every step that has
\* started on the host (the save before the command in run_command).
StepsOnce == \A o \in Ops :
               /\ ran[o] = [i \in 1 .. Len(ran[o]) |-> i]
               /\ rows[o].state \in Active => Len(ran[o]) <= rows[o].started

\* A success is earned: every step reported success and every verification
\* passed.  Of a plan that expects a reboot the final step, the reboot itself, is
\* proved by the new boot instead: its verifications passed after it.
SuccessIsEarned == \A o \in Ops : rows[o].state = "succeeded" =>
                     /\ 1 .. (Steps[o] - 1) \subseteq good[o]
                     /\ o \notin Reboots => Steps[o] \in good[o]
                     /\ passed[o] = 1 .. Checks[o]

\* Every operation that was claimed ends: maintenance never blocks its target,
\* the connection settings and its session for good (recover).
OperationEnds == \A o \in Ops :
                   rows[o].state \in Active ~> rows[o].state \notin Active

\* Host administration implements its promise (HostMaintenance).
M == INSTANCE HostMaintenance
       WITH phase <- [o \in Ops |-> IF rows[o].state \in Active THEN "working"
                                    ELSE rows[o].state],
            executed <- ran
Maintained == M!ASpec
=============================================================================
