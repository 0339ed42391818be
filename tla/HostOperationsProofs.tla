------------------------ MODULE HostOperationsProofs ------------------------
(***************************************************************************)
(* Proofs about HostOperations, for any operations, hosts, plans and bounds: *)
(* its safety properties, and that it implements HostMaintenance.            *)
(***************************************************************************)
EXTENDS HostOperations, SequenceTheorems, TLAPS

-----------------------------------------------------------------------------
(* The inductive invariant.                                                 *)

\* The gate admits one of the two handlers; an idle one remembers nothing, and
\* a recovery pass has a host to ask.
Gate == /\ req.pc # "idle" => rec.pc = "idle"
        /\ rec.pc # "idle" => rec.conn.host \in Hosts
        /\ rec.pc = "idle" => rec.todo = {}

\* A request holds a connection that was saved; an equal revision is the same
\* connection.  Past the identity check it is the connection to the target.
ReqConn == req.pc # "idle" =>
             /\ req.op \in Ops
             /\ req.conn.rev <= conn.rev
             /\ req.conn.rev = conn.rev => req.conn = conn
             /\ req.pc \in {"prepare", "claim", "launch"} => req.conn.host = Target[req.op]

\* An operation being prepared is still unknown; a claimed one waits for its
\* launch untouched.
Launching == /\ req.pc = "prepare" => rows[req.op].state = "none"
             /\ req.pc = "launch" =>
                  /\ rows[req.op].state = "running" /\ rows[req.op].started = 0
                  /\ task[req.op].pc = "off" /\ ran[req.op] = <<>>

\* Before its claim an operation has no task, has run nothing and started nothing.
UnclaimedAt(o) == rows[o].state \in {"none", "prepared"} =>
                    task[o].pc = "off" /\ ran[o] = <<>> /\ rows[o].started = 0

\* Where the steps stand: in order, no more than the plan has, and while the row
\* is active within one of what the journal names.
SteadyAt(o) == /\ ran[o] = [i \in 1 .. Len(ran[o]) |-> i]
               /\ Len(ran[o]) <= Steps[o]
               /\ rows[o].state \in Active =>
                    Len(ran[o]) <= rows[o].started /\ rows[o].started <= Len(ran[o]) + 1

\* The entries of a recovery pass were active rows when they were read; there is
\* one for an operation, and once filtered none has a task.
Todo == /\ \A e \in rec.todo : /\ e.row.state \in Active
                               /\ rows[e.op].state \in Active =>
                                    e.row.started <= Len(ran[e.op]) + 1
                               /\ rec.pc \in {"expire", "decide"} => task[e.op].pc = "off"
        /\ \A e \in rec.todo : rows[e.op].state \notin {"none", "prepared"}
        /\ \A e, f \in rec.todo : e.op = f.op => e = f

\* Every step ran, except that the host may have made the final reboot itself.
Complete(o) == Len(ran[o]) = Steps[o] \/ (o \in Reboots /\ Len(ran[o]) = Steps[o] - 1)

\* A task that is to run, or runs, a step or a verification.
Working(o) ==
  LET t == task[o]
  IN  /\ t.pc \in {"ready", "busy"} => rows[o].state \in Active
      /\ ~t.check => /\ rows[o].state \in Active
                     /\ t.index \in 1 .. Steps[o]
                     /\ t.pc = "busy" => Len(ran[o]) = t.index
                     /\ t.pc # "busy" => Len(ran[o]) = t.index - 1
                     /\ t.pc # "begin" => t.row.started = t.index /\ rows[o].started = t.index
      /\ t.check => /\ t.row.started = Steps[o]
                    /\ rows[o].state \in Active => Complete(o)

\* A task that is to finish.
Finishing(o) ==
  LET t == task[o]
  IN  /\ t.end \in {"awaiting"} \cup Finals
      /\ rows[o].state \in Active /\ t.end = "awaiting" => Len(ran[o]) <= t.row.started
      /\ rows[o].state \in Active /\ t.end = "succeeded" => Complete(o)

\* What a resident task may rely on.
TaskOK(o) ==
  task[o].pc # "off" =>
    /\ task[o].row.state \in Active
    /\ rows[o].state \in Active => task[o].row.started <= Len(ran[o]) + 1
    /\ task[o].pc # "finish" => Working(o)
    /\ task[o].pc = "finish" => Finishing(o)

OpsOK == \A o \in Ops : UnclaimedAt(o) /\ SteadyAt(o) /\ TaskOK(o)

HostInv == /\ HostTypeOK /\ Gate /\ ReqConn /\ Launching
           /\ ConnectionIsStable /\ OneMaintainer /\ Todo /\ OpsOK

-----------------------------------------------------------------------------
(* What the operators on rows and tasks return.                             *)

\* Moving or stamping a row changes its state or its age, nothing else.
LEMMA RowFields ==
  ASSUME NEW r \in Rows, NEW s \in States
  PROVE  /\ Moved(r, s) \in Rows /\ Moved(r, s).state = s
         /\ Moved(r, s).started = r.started /\ Moved(r, s).outs = r.outs
         /\ Moved(r, s).boot = r.boot /\ Moved(r, s).rev = r.rev
         /\ Stamped(r) \in Rows /\ Stamped(r).state = r.state
         /\ Stamped(r).started = r.started /\ Stamped(r).rev = r.rev
         /\ Stamped(r).boot = r.boot
  BY DEF Rows, Moved, Stamped

\* An older row differs in its age only.
LEMMA OlderFields ==
  ASSUME NEW r \in Rows
  PROVE  /\ Older(r) \in Rows /\ Older(r).state = r.state
         /\ Older(r).started = r.started /\ Older(r).rev = r.rev
  BY HostAssumption DEF Rows, Older

\* The rows a task writes before a step and after an outcome.
LEMMA StepFields ==
  ASSUME NEW r \in Rows, NEW n \in Nat
  PROVE  /\ [r EXCEPT !.started = n] \in Rows /\ [r EXCEPT !.started = n].started = n
         /\ [r EXCEPT !.started = n].state = r.state
         /\ [r EXCEPT !.started = n].rev = r.rev
         /\ [r EXCEPT !.outs = @ + 1] \in Rows
         /\ [r EXCEPT !.outs = @ + 1].started = r.started
         /\ [r EXCEPT !.outs = @ + 1].state = r.state
  BY DEF Rows

\* One more step in order.
LEMMA NextStep ==
  ASSUME NEW s \in Seq(Nat), NEW n \in Nat, n = Len(s) + 1, s = [i \in 1 .. Len(s) |-> i]
  PROVE  Append(s, n) = [i \in 1 .. n |-> i]
<1>. DEFINE longer == Append(s, n)
<1>1. /\ longer \in Seq(Nat) /\ Len(longer) = n
      /\ \A i \in 1 .. Len(s) : longer[i] = s[i]
      /\ longer[n] = n
  BY AppendProperties
<1>2. longer \in [1 .. n -> Nat] /\ Len(s) \in Nat
  BY <1>1, LenProperties
<1>3. \A i \in 1 .. Len(s) : s[i] = i
  OBVIOUS
<1>. HIDE DEF longer
<1>4. \A i \in 1 .. n : longer[i] = i
  BY <1>1, <1>2, <1>3
<1>. QED
  BY <1>2, <1>4 DEF longer

\* A task that is to work or to finish.
LEMMA TaskFields ==
  ASSUME NEW h \in Hosts \cup {NoHost}, NEW r \in Rows, NEW c \in BOOLEAN, NEW n \in Nat,
         NEW s \in States
  PROVE  Work(h, r, c, n) \in Residents /\ Ending(h, r, s) \in Residents /\ Off \in Residents
  BY DEF Work, Ending, Off, NoRow, Rows, Residents, States, Active, Finals

\* Verifying goes on with a verification or finishes with success.
LEMMA VerifyFields ==
  ASSUME NEW o \in Ops, NEW h \in Hosts \cup {NoHost}, NEW r \in Rows, NEW n \in Nat
  PROVE  /\ Verify(o, h, r, n) \in Residents
         /\ Verify(o, h, r, n) \in {Work(h, r, TRUE, n), Ending(h, r, "succeeded")}
  BY TaskFields DEF Verify, States, Finals

\* What a task may go on with after an outcome.
LEMMA AfterFields ==
  ASSUME NEW o \in Ops, NEW t \in Residents, NEW r \in Rows, NEW how
  PROVE  /\ After(o, t, r, how) \in Residents
         /\ LET a == After(o, t, r, how)
            IN  \/ a = Ending(t.host, r, "failed")
                \/ a = Ending(t.host, r, "awaiting") /\ ~t.check /\ t.index = Steps[o]
                \/ a = Work(t.host, r, FALSE, t.index + 1) /\ ~t.check /\ t.index < Steps[o]
                \/ /\ a \in {Work(t.host, r, TRUE, 1), Work(t.host, r, TRUE, t.index + 1),
                             Ending(t.host, r, "succeeded")}
                   /\ ~t.check => ~(t.index < Steps[o]) /\ ~(t.index = Steps[o] /\ o \in Reboots)
<1>1. t.host \in Hosts \cup {NoHost} /\ t.index \in Nat /\ t.index + 1 \in Nat /\ t.check \in BOOLEAN
  BY DEF Residents
<1>2. "failed" \in States /\ "awaiting" \in States /\ 1 \in Nat
  BY DEF States, Active, Finals
<1>3. CASE how = "ok" /\ t.check
  <2>1. After(o, t, r, how) = Verify(o, t.host, r, t.index + 1)
    BY <1>3 DEF After
  <2>2. /\ Verify(o, t.host, r, t.index + 1) \in Residents
        /\ Verify(o, t.host, r, t.index + 1) \in
             {Work(t.host, r, TRUE, t.index + 1), Ending(t.host, r, "succeeded")}
    BY <1>1, VerifyFields
  <2>. QED
    BY <1>3, <2>1, <2>2
<1>4. CASE how = "ok" /\ ~t.check /\ t.index < Steps[o]
  <2>1. After(o, t, r, how) = Work(t.host, r, FALSE, t.index + 1)
    BY <1>4 DEF After
  <2>. QED
    BY <1>1, <1>2, <1>4, <2>1, TaskFields
<1>5. CASE how = "ok" /\ ~t.check /\ t.index = Steps[o] /\ o \in Reboots
  <2>1. ~(t.index < Steps[o])
    BY <1>1, <1>5
  <2>2. After(o, t, r, how) = Ending(t.host, r, "awaiting")
    BY <1>5, <2>1 DEF After
  <2>. QED
    BY <1>1, <1>2, <1>5, <2>2, TaskFields
<1>6. CASE how = "ok" /\ ~t.check /\ ~(t.index < Steps[o]) /\ ~(t.index = Steps[o] /\ o \in Reboots)
  <2>1. After(o, t, r, how) = Verify(o, t.host, r, 1)
    BY <1>6 DEF After
  <2>2. /\ Verify(o, t.host, r, 1) \in Residents
        /\ Verify(o, t.host, r, 1) \in {Work(t.host, r, TRUE, 1), Ending(t.host, r, "succeeded")}
    BY <1>1, <1>2, VerifyFields
  <2>. QED
    BY <1>6, <2>1, <2>2
<1>7. CASE how # "ok"
  <2>1. \/ After(o, t, r, how) = Ending(t.host, r, "failed")
        \/ After(o, t, r, how) = Ending(t.host, r, "awaiting") /\ ~t.check /\ t.index = Steps[o]
    BY <1>7 DEF After
  <2>. QED
    BY <1>1, <1>2, <2>1, TaskFields
<1>. QED
  BY <1>1, <1>3, <1>4, <1>5, <1>6, <1>7

\* A save leaves the row as it is, or overwrites an active row of its revision.
LEMMA SaveFacts ==
  ASSUME HostTypeOK, NEW o \in Ops, NEW r \in Rows, NEW told \in BOOLEAN, Save(o, r, told)
  PROVE  /\ rows' \in [Ops -> Rows] /\ faults' \in 0 .. MaxFaults
         /\ \A p \in Ops \ {o} : rows'[p] = rows[p]
         /\ \/ rows'[o] = rows[o] /\ ~told
            \/ /\ rows[o].state \in Active /\ rows'[o] = Stamped(r)
               /\ r.rev = rows[o].rev
<1>1. Stamped(r) \in Rows
  BY RowFields DEF States
<1>2. faults' \in 0 .. MaxFaults
  BY HostAssumption DEF Save, Fault, HostTypeOK
<1>. QED
  BY <1>1, <1>2 DEF Save, Accepts, HostTypeOK

-----------------------------------------------------------------------------
(* The steps of a task.                                                     *)

\* A step of the task of one operation keeps the invariant if it leaves the
\* others alone, activates no row, forgets no step and is sound for its own.
LEMMA OneTask ==
  ASSUME HostInv, HostTypeOK', NEW o \in Ops, task[o].pc # "off",
         conn' = conn, req' = req, rec' = rec,
         \A p \in Ops \ {o} : rows'[p] = rows[p] /\ task'[p] = task[p] /\ ran'[p] = ran[p],
         rows'[o].state \in Active => rows[o].state \in Active /\ rows'[o].rev = rows[o].rev,
         rows'[o].state \notin {"none", "prepared"},
         Len(ran'[o]) >= Len(ran[o]),
         SteadyAt(o)', TaskOK(o)'
  PROVE  HostInv'
<1>1. Gate' /\ ReqConn'
  BY DEF HostInv, Gate, ReqConn
<1>2. Launching'
  BY DEF HostInv, Launching, ReqConn, OpsOK, UnclaimedAt
<1>3. ConnectionIsStable'
  BY DEF HostInv, ConnectionIsStable
<1>4. OneMaintainer'
  BY DEF HostInv, OneMaintainer
<1>5. Todo'
  <2>1. /\ \A e, f \in rec'.todo : e.op = f.op => e = f
        /\ \A e \in rec.todo : rows'[e.op].state \notin {"none", "prepared"}
    BY DEF HostInv, Todo, HostTypeOK, Passes, Entries
  <2>2. ASSUME NEW e \in rec.todo
        PROVE  /\ e.row.state \in Active
               /\ rows'[e.op].state \in Active => e.row.started <= Len(ran'[e.op]) + 1
               /\ rec.pc \in {"expire", "decide"} => task'[e.op].pc = "off"
    <3>1. /\ e.row.state \in Active
          /\ rows[e.op].state \in Active => e.row.started <= Len(ran[e.op]) + 1
          /\ rec.pc \in {"expire", "decide"} => task[e.op].pc = "off"
          /\ e.op \in Ops /\ e.row.started \in Nat
      BY <2>2 DEF HostInv, Todo, HostTypeOK, Passes, Entries, Rows
    <3>2. CASE e.op # o
      BY <3>1, <3>2
    <3>3. CASE e.op = o
      <4>1. Len(ran[o]) \in Nat /\ Len(ran'[o]) \in Nat
        BY DEF HostInv, HostTypeOK
      <4>. QED
        BY <3>1, <3>3, <4>1
    <3>. QED
      BY <3>2, <3>3
  <2>. QED
    BY <2>1, <2>2 DEF Todo
<1>6. OpsOK'
  <2>1. ASSUME NEW p \in Ops, p # o
        PROVE  (UnclaimedAt(p) /\ SteadyAt(p) /\ TaskOK(p))'
    <3>1. UnclaimedAt(p) /\ SteadyAt(p) /\ TaskOK(p)
      BY DEF HostInv, OpsOK
    <3>2. rows'[p] = rows[p] /\ task'[p] = task[p] /\ ran'[p] = ran[p]
      BY <2>1
    <3>. QED
      BY <3>1, <3>2 DEF UnclaimedAt, SteadyAt, TaskOK, Working, Finishing, Complete
  <2>. QED
    BY <2>1 DEF OpsOK, UnclaimedAt
<1>. QED
  BY <1>1, <1>2, <1>3, <1>4, <1>5, <1>6 DEF HostInv

\* What the invariant says of a task that is not off, in one place.
LEMMA Resident ==
  ASSUME HostInv, NEW o \in Ops, task[o].pc # "off"
  PROVE  /\ task[o] \in Residents /\ task[o].row \in Rows /\ task[o].row.state \in Active
         /\ task[o].host \in Hosts \cup {NoHost}
         /\ task[o].index \in Nat /\ task[o].check \in BOOLEAN
         /\ rows[o] \in Rows /\ rows[o].state \notin {"none", "prepared"}
         /\ Len(ran[o]) \in Nat /\ ran[o] \in Seq(Nat) /\ Steps[o] \in Nat \ {0}
         /\ SteadyAt(o) /\ TaskOK(o)
  BY HostAssumption DEF HostInv, HostTypeOK, Residents, OpsOK, TaskOK, UnclaimedAt

\* A save by a task: the invariant holds again if the task is sound for what it
\* goes on with, and that is known when the save was accepted and when not.
LEMMA SaveStep ==
  ASSUME HostInv, NEW o \in Ops, task[o].pc # "off", NEW r \in Rows,
         NEW a \in Residents, NEW b \in Residents, TaskSave(o, r, a, b),
         UNCHANGED <<conn, up, boot, req, rec, ran>>,
         good' \in [Ops -> SUBSET Nat], passed' \in [Ops -> SUBSET Nat],
         r.state \notin {"none", "prepared"},
         rows[o].state \in Active /\ r.state \in Active =>
           Len(ran[o]) <= r.started /\ r.started <= Len(ran[o]) + 1
  PROVE  /\ TaskOK(o)' => HostInv'
         /\ rows'[o].state \in Active => rows[o].state \in Active
         /\ \/ /\ task'[o] = a /\ rows[o].state \in Active
               /\ rows'[o].state = r.state /\ rows'[o].started = r.started
            \/ task'[o] = b
<1>1. PICK told \in BOOLEAN : /\ Save(o, r, told)
                             /\ task' = [task EXCEPT ![o] = IF told THEN a ELSE b]
  BY DEF TaskSave
<1>2. HostTypeOK
  BY DEF HostInv
<1>3. /\ rows' \in [Ops -> Rows] /\ faults' \in 0 .. MaxFaults
      /\ \A p \in Ops \ {o} : rows'[p] = rows[p]
      /\ \/ rows'[o] = rows[o] /\ ~told
         \/ /\ rows[o].state \in Active /\ rows'[o] = Stamped(r) /\ r.rev = rows[o].rev
  BY <1>1, <1>2, SaveFacts
<1>4. /\ task'[o] = IF told THEN a ELSE b
      /\ \A p \in Ops \ {o} : task'[p] = task[p]
      /\ task' \in [Ops -> Residents]
  BY <1>1, <1>2 DEF HostTypeOK
<1>5. HostTypeOK'
  BY <1>2, <1>3, <1>4 DEF HostTypeOK
<1>6. /\ Stamped(r).state = r.state /\ Stamped(r).started = r.started /\ Stamped(r).rev = r.rev
  BY RowFields DEF States
<1>7. /\ rows'[o].state \in Active => rows[o].state \in Active /\ rows'[o].rev = rows[o].rev
      /\ rows'[o].state \notin {"none", "prepared"}
  BY <1>3, <1>6, Resident
<1>8. SteadyAt(o)'
  <2>1. SteadyAt(o) /\ ran'[o] = ran[o]
    BY Resident
  <2>2. rows'[o].state \in Active =>
          Len(ran[o]) <= rows'[o].started /\ rows'[o].started <= Len(ran[o]) + 1
    BY <1>3, <1>6, <2>1 DEF SteadyAt
  <2>. QED
    BY <2>1, <2>2 DEF SteadyAt
<1>9. \A p \in Ops \ {o} : rows'[p] = rows[p] /\ task'[p] = task[p] /\ ran'[p] = ran[p]
  BY <1>3, <1>4
<1>10. conn' = conn /\ req' = req /\ rec' = rec /\ ran' = ran /\ Len(ran'[o]) >= Len(ran[o])
  BY Resident
<1>11. TaskOK(o)' => HostInv'
  BY <1>5, <1>7, <1>8, <1>9, <1>10, OneTask
<1>. QED
  BY <1>3, <1>4, <1>6, <1>7, <1>11

\* A task that keeps its row, whose start the journal knows, may fail.
LEMMA MayFail ==
  ASSUME NEW o \in Ops, NEW h, NEW r \in Rows, r.state \in Active,
         task'[o] = Ending(h, r, "failed"),
         rows'[o].state \in Active => r.started <= Len(ran'[o]) + 1
  PROVE  TaskOK(o)'
<1>1. task'[o].pc = "finish" /\ task'[o].end = "failed" /\ task'[o].row = r
  BY DEF Ending
<1>. QED
  BY <1>1 DEF TaskOK, Finishing, Finals

\* The task writes a step to the journal before it runs it.
LEMMA BeginKeeps == ASSUME HostInv, NEW o \in Ops, TaskBegin(o) PROVE HostInv'
<1>. DEFINE t == task[o]
            r == IF t.check THEN t.row ELSE [t.row EXCEPT !.started = t.index]
            ready == [pc |-> "ready", check |-> t.check, index |-> t.index,
                      end |-> "none", host |-> t.host, row |-> r]
            failed == Ending(t.host, r, "failed")
<1>1. t.pc = "begin" /\ t.pc # "off"
  BY DEF TaskBegin
<1>2. /\ r \in Rows /\ r.state = t.row.state
      /\ t.check => r.started = t.row.started
      /\ ~t.check => r.started = t.index
  <2>1. t.row \in Rows /\ t.index \in Nat
    BY <1>1, Resident
  <2>2. CASE t.check
    BY <2>1, <2>2
  <2>3. CASE ~t.check
    BY <2>1, <2>3, StepFields
  <2>. QED
    BY <2>2, <2>3
<1>3. ready \in Residents /\ failed \in Residents
  BY ZenonT(40), <1>1, <1>2, Resident, TaskFields DEF Residents, States, Finals
<1>4. /\ TaskSave(o, r, ready, failed)
      /\ UNCHANGED <<conn, up, boot, req, rec, ran, good, passed>>
  BY DEF TaskBegin, hostVars, history
<1>. HIDE DEF r, ready, failed
<1>5. LET active == rows[o].state \in Active
      IN  /\ t.row.state \in Active
          /\ active => t.row.started <= Len(ran[o]) + 1
          /\ ~t.check => /\ active /\ t.index \in 1 .. Steps[o] /\ Len(ran[o]) = t.index - 1
          /\ t.check => t.row.started = Steps[o]
          /\ active /\ t.check => Complete(o)
  BY <1>1, Resident DEF TaskOK, Working
<1>6. /\ Len(ran[o]) \in Nat /\ r.started \in Nat
      /\ rows[o].state \in Active => Len(ran[o]) <= r.started /\ r.started <= Len(ran[o]) + 1
  <2>1. Len(ran[o]) <= Steps[o] /\ Len(ran[o]) \in Nat /\ Steps[o] \in Nat
    BY <1>1, Resident DEF SteadyAt
  <2>. QED
    BY <1>2, <1>5, <2>1 DEF Rows
<1>7. good' \in [Ops -> SUBSET Nat] /\ passed' \in [Ops -> SUBSET Nat]
  BY <1>4 DEF HostInv, HostTypeOK
<1>8. /\ TaskOK(o)' => HostInv'
      /\ rows'[o].state \in Active => rows[o].state \in Active
      /\ \/ /\ task'[o] = ready /\ rows[o].state \in Active
            /\ rows'[o].state = r.state /\ rows'[o].started = r.started
         \/ task'[o] = failed
  BY <1>1, <1>2, <1>3, <1>4, <1>5, <1>6, <1>7, SaveStep DEF Active
<1>9. CASE /\ task'[o] = ready /\ rows[o].state \in Active
           /\ rows'[o].state = r.state /\ rows'[o].started = r.started
  <2>1. /\ task'[o].pc = "ready" /\ task'[o].check = t.check /\ task'[o].index = t.index
        /\ task'[o].row = r /\ rows'[o].state \in Active
    BY <1>2, <1>5, <1>9 DEF ready
  <2>2. TaskOK(o)'
    BY <1>2, <1>4, <1>5, <1>6, <1>9, <2>1 DEF TaskOK, Working, Complete
  <2>. QED
    BY <1>8, <2>2
<1>10. CASE task'[o] = failed
  <2>1. TaskOK(o)'
    BY <1>2, <1>4, <1>5, <1>6, <1>8, <1>10, MayFail DEF failed
  <2>. QED
    BY <1>8, <2>1
<1>. QED
  BY <1>8, <1>9, <1>10

\* The command starts on the host, where a step starts once and in order.
LEMMA CommandKeeps == ASSUME HostInv, NEW o \in Ops, TaskCommand(o) PROVE HostInv'
<1>. DEFINE t == task[o]
<1>1. t.pc = "ready" /\ t.pc # "off"
  BY DEF TaskCommand
<1>2. /\ t \in Residents /\ t.row \in Rows /\ t.row.state \in Active /\ rows[o].state \in Active
      /\ t.row.started <= Len(ran[o]) + 1
      /\ ~t.check => /\ t.index \in 1 .. Steps[o] /\ Len(ran[o]) = t.index - 1
                     /\ t.row.started = t.index /\ rows[o].started = t.index
      /\ t.check => t.row.started = Steps[o] /\ Complete(o)
      /\ Len(ran[o]) \in Nat /\ ran[o] \in Seq(Nat) /\ Steps[o] \in Nat \ {0}
      /\ t.host \in Hosts \cup {NoHost} /\ t.row.started \in Nat /\ t.index \in Nat /\ t.check \in BOOLEAN
  BY <1>1, Resident DEF TaskOK, Working, Rows
<1>3. UNCHANGED <<rows, conn, up, boot, req, rec, good, passed, faults>>
  BY DEF TaskCommand, hostVars
<1>4. HostTypeOK /\ ran \in [Ops -> Seq(Nat)] /\ task \in [Ops -> Residents]
  BY DEF HostInv, HostTypeOK
<1>5. CASE up[t.host]
  <2>1. /\ task' = [task EXCEPT ![o].pc = "busy"]
        /\ ran' = IF t.check THEN ran ELSE [ran EXCEPT ![o] = Append(@, t.index)]
    BY <1>5 DEF TaskCommand
  <2>2. /\ task'[o].pc = "busy" /\ task'[o].check = t.check /\ task'[o].index = t.index
        /\ task'[o].row = t.row /\ task'[o] \in Residents
        /\ \A p \in Ops \ {o} : task'[p] = task[p]
        /\ task' \in [Ops -> Residents]
    <3>1. [t EXCEPT !.pc = "busy"] \in Residents
      BY <1>2 DEF Residents
    <3>. QED
      BY <1>2, <1>4, <2>1, <3>1 DEF Residents
  <2>3. /\ ran' \in [Ops -> Seq(Nat)] /\ \A p \in Ops \ {o} : ran'[p] = ran[p]
        /\ t.check => ran'[o] = ran[o]
        /\ ~t.check => ran'[o] = Append(ran[o], t.index)
    BY <1>2, <1>4, <2>1
  <2>4. /\ ~t.check => Len(ran'[o]) = t.index
        /\ t.check => Len(ran'[o]) = Len(ran[o])
    BY <1>2, <2>3
  <2>5. HostTypeOK'
    BY <1>3, <1>4, <2>2, <2>3 DEF HostTypeOK
  <2>6. ran'[o] = [i \in 1 .. Len(ran'[o]) |-> i]
    <3>1. ran[o] = [i \in 1 .. Len(ran[o]) |-> i]
      BY <1>1, Resident DEF SteadyAt
    <3>2. CASE t.check
      BY <2>3, <3>1, <3>2
    <3>3. CASE ~t.check
      <4>1. Append(ran[o], t.index) = [i \in 1 .. t.index |-> i]
        BY <1>2, <3>1, <3>3, NextStep
      <4>. QED
        BY <2>3, <2>4, <3>3, <4>1
    <3>. QED
      BY <3>2, <3>3
  <2>7. SteadyAt(o)'
    <3>1. Len(ran[o]) <= Steps[o] /\ Len(ran[o]) <= rows[o].started /\ rows[o].started <= Len(ran[o]) + 1
      BY <1>1, <1>2, Resident DEF SteadyAt
    <3>. QED
      BY <1>2, <1>3, <2>4, <2>6, <3>1 DEF SteadyAt
  <2>8. TaskOK(o)'
    BY <1>2, <1>3, <2>2, <2>4 DEF TaskOK, Working, Complete
  <2>9. \A p \in Ops \ {o} : rows'[p] = rows[p] /\ task'[p] = task[p] /\ ran'[p] = ran[p]
    BY <1>3, <2>2, <2>3
  <2>10. Len(ran'[o]) >= Len(ran[o])
    BY <1>2, <2>4
  <2>11. rows'[o].state \notin {"none", "prepared"}
    BY <1>1, <1>3, Resident
  <2>12. rows' = rows /\ conn' = conn /\ req' = req /\ rec' = rec
    BY <1>3
  <2>13. rows'[o].state \in Active => rows[o].state \in Active /\ rows'[o].rev = rows[o].rev
    BY <2>12
  <2>. QED
    BY <1>1, <2>5, <2>7, <2>8, <2>9, <2>10, <2>11, <2>12, <2>13, OneTask
<1>6. CASE ~up[t.host]
  <2>1. task' = [task EXCEPT ![o] = Ending(t.host, t.row, "failed")] /\ ran' = ran
    BY <1>6 DEF TaskCommand
  <2>2. Ending(t.host, t.row, "failed") \in Residents
    BY <1>2, TaskFields DEF States, Finals
  <2>3. /\ task'[o] = Ending(t.host, t.row, "failed") /\ task' \in [Ops -> Residents]
        /\ \A p \in Ops \ {o} : task'[p] = task[p]
    BY <1>4, <2>1, <2>2
  <2>4. HostTypeOK' /\ TaskOK(o)'
    BY <1>2, <1>3, <1>4, <2>1, <2>3, MayFail DEF HostTypeOK
  <2>5. SteadyAt(o)'
    BY <1>1, <1>3, <2>1, Resident DEF SteadyAt
  <2>6. \A p \in Ops \ {o} : rows'[p] = rows[p] /\ task'[p] = task[p] /\ ran'[p] = ran[p]
    BY <1>3, <2>1, <2>3
  <2>7. Len(ran'[o]) >= Len(ran[o])
    BY <1>2, <2>1
  <2>8. rows'[o].state \notin {"none", "prepared"}
    BY <1>1, <1>3, Resident
  <2>9. rows' = rows /\ conn' = conn /\ req' = req /\ rec' = rec
    BY <1>3
  <2>10. rows'[o].state \in Active => rows[o].state \in Active /\ rows'[o].rev = rows[o].rev
    BY <2>9
  <2>. QED
    BY <1>1, <2>4, <2>5, <2>6, <2>7, <2>8, <2>9, <2>10, OneTask
<1>. QED
  BY <1>5, <1>6

\* Output is saved as it arrives; the row says what it said.
LEMMA OutputKeeps == ASSUME HostInv, NEW o \in Ops, TaskOutput(o) PROVE HostInv'
<1>. DEFINE t == task[o]
            failed == Ending(t.host, t.row, "failed")
<1>1. t.pc = "busy" /\ t.pc # "off"
  BY DEF TaskOutput
<1>2. /\ t \in Residents /\ t.row \in Rows /\ t.row.state \in Active /\ rows[o].state \in Active
      /\ t.row.started <= Len(ran[o]) + 1
      /\ ~t.check => /\ t.index \in 1 .. Steps[o] /\ Len(ran[o]) = t.index
                     /\ t.row.started = t.index /\ rows[o].started = t.index
      /\ t.check => t.row.started = Steps[o] /\ Complete(o)
      /\ t.host \in Hosts \cup {NoHost} /\ t.row.started \in Nat /\ t.check \in BOOLEAN
      /\ Len(ran[o]) \in Nat /\ Len(ran[o]) <= Steps[o]
  BY <1>1, Resident DEF TaskOK, Working, Rows, SteadyAt
<1>3. /\ TaskSave(o, t.row, t, failed)
      /\ UNCHANGED <<conn, up, boot, req, rec, ran, good, passed>>
  BY DEF TaskOutput, hostVars, history
<1>4. failed \in Residents
  BY <1>2, TaskFields DEF States, Finals
<1>5. good' \in [Ops -> SUBSET Nat] /\ passed' \in [Ops -> SUBSET Nat]
  BY <1>3 DEF HostInv, HostTypeOK
<1>. HIDE DEF failed
<1>6. Len(ran[o]) <= t.row.started
  BY <1>2
<1>7. /\ TaskOK(o)' => HostInv'
      /\ rows'[o].state \in Active => rows[o].state \in Active
      /\ \/ /\ task'[o] = t /\ rows[o].state \in Active
            /\ rows'[o].state = t.row.state /\ rows'[o].started = t.row.started
         \/ task'[o] = failed
  BY <1>1, <1>2, <1>3, <1>4, <1>5, <1>6, SaveStep DEF Active
<1>8. CASE /\ task'[o] = t /\ rows[o].state \in Active
           /\ rows'[o].state = t.row.state /\ rows'[o].started = t.row.started
  <2>1. TaskOK(o)'
    BY <1>1, <1>2, <1>3, <1>8 DEF TaskOK, Working, Complete
  <2>. QED
    BY <1>7, <2>1
<1>9. CASE task'[o] = failed
  <2>1. TaskOK(o)'
    BY <1>2, <1>3, <1>9, MayFail DEF failed
  <2>. QED
    BY <1>7, <2>1
<1>. QED
  BY <1>7, <1>8, <1>9

\* The outcome of a command is saved before the task goes on.
LEMMA OutcomeKeeps == ASSUME HostInv, NEW o \in Ops, TaskOutcome(o) PROVE HostInv'
<1>. DEFINE t == task[o]
            r == [t.row EXCEPT !.outs = @ + 1]
<1>1. t.pc = "busy" /\ t.pc # "off"
  BY DEF TaskOutcome
<1>2. /\ t \in Residents /\ t.row \in Rows /\ t.row.state \in Active /\ rows[o].state \in Active
      /\ t.row.started <= Len(ran[o]) + 1
      /\ ~t.check => /\ t.index \in 1 .. Steps[o] /\ Len(ran[o]) = t.index
                     /\ t.row.started = t.index
      /\ t.check => t.row.started = Steps[o] /\ Complete(o)
      /\ t.row.started \in Nat /\ t.check \in BOOLEAN /\ t.index \in Nat
      /\ Len(ran[o]) \in Nat /\ Len(ran[o]) <= Steps[o] /\ Steps[o] \in Nat
  BY <1>1, Resident DEF TaskOK, Working, Rows, SteadyAt
<1>3. r \in Rows /\ r.state = t.row.state /\ r.started = t.row.started
  BY <1>2, StepFields
<1>. HIDE DEF r
<1>4. PICK how \in {"ok", "bad", "cut"} :
        /\ TaskSave(o, r, After(o, t, r, how), Off)
        /\ good' = IF how = "ok" /\ ~t.check
                   THEN [good EXCEPT ![o] = @ \cup {t.index}] ELSE good
        /\ passed' = IF /\ how = "ok" /\ t.check
                        /\ o \in Reboots => boot[t.host] # t.row.boot
                     THEN [passed EXCEPT ![o] = @ \cup {t.index}] ELSE passed
  BY DEF TaskOutcome, r
<1>5. UNCHANGED <<conn, up, boot, req, rec, ran>>
  BY DEF TaskOutcome, hostVars
<1>6. good' \in [Ops -> SUBSET Nat] /\ passed' \in [Ops -> SUBSET Nat]
  <2>1. good \in [Ops -> SUBSET Nat] /\ passed \in [Ops -> SUBSET Nat]
    BY DEF HostInv, HostTypeOK
  <2>2. good' \in [Ops -> SUBSET Nat]
    BY <1>2, <1>4, <2>1
  <2>3. passed' \in [Ops -> SUBSET Nat]
    BY <1>2, <1>4, <2>1
  <2>. QED
    BY <2>2, <2>3
<1>. DEFINE a == After(o, t, r, how)
<1>7. /\ a \in Residents
      /\ \/ a = Ending(t.host, r, "failed")
         \/ a = Ending(t.host, r, "awaiting") /\ ~t.check /\ t.index = Steps[o]
         \/ a = Work(t.host, r, FALSE, t.index + 1) /\ ~t.check /\ t.index < Steps[o]
         \/ /\ a \in {Work(t.host, r, TRUE, 1), Work(t.host, r, TRUE, t.index + 1),
                      Ending(t.host, r, "succeeded")}
            /\ ~t.check => ~(t.index < Steps[o]) /\ ~(t.index = Steps[o] /\ o \in Reboots)
  BY <1>2, <1>3, AfterFields
<1>8. Off \in Residents
  BY <1>2, <1>3, TaskFields DEF States, Residents
<1>9. Len(ran[o]) <= r.started /\ r.started <= Len(ran[o]) + 1
  BY <1>2, <1>3
<1>10. /\ TaskOK(o)' => HostInv'
       /\ rows'[o].state \in Active => rows[o].state \in Active
       /\ \/ /\ task'[o] = a /\ rows[o].state \in Active
             /\ rows'[o].state = r.state /\ rows'[o].started = r.started
          \/ task'[o] = Off
  BY <1>1, <1>2, <1>3, <1>4, <1>5, <1>6, <1>7, <1>8, <1>9, SaveStep DEF Active
<1>. HIDE DEF a
<1>11. CASE task'[o] = Off
  BY <1>10, <1>11 DEF TaskOK, Off
<1>12. CASE /\ task'[o] = a /\ rows[o].state \in Active
            /\ rows'[o].state = r.state /\ rows'[o].started = r.started
  <2>1. rows'[o].state \in Active /\ ran'[o] = ran[o]
    BY <1>2, <1>3, <1>5, <1>12
  <2>2. CASE a = Ending(t.host, r, "failed")
    BY <1>2, <1>3, <1>9, <1>10, <1>12, <2>1, <2>2, MayFail
  <2>3. CASE a = Ending(t.host, r, "awaiting") /\ ~t.check /\ t.index = Steps[o]
    <3>1. task'[o].pc = "finish" /\ task'[o].end = "awaiting" /\ task'[o].row = r
      BY <1>12, <2>3 DEF Ending
    <3>. QED
      BY <1>2, <1>3, <1>9, <1>10, <2>1, <3>1 DEF TaskOK, Finishing
  <2>4. CASE a = Work(t.host, r, FALSE, t.index + 1) /\ ~t.check /\ t.index < Steps[o]
    <3>1. /\ task'[o].pc = "begin" /\ ~task'[o].check /\ task'[o].index = t.index + 1
          /\ task'[o].row = r
      BY <1>12, <2>4 DEF Work
    <3>. QED
      BY <1>2, <1>3, <1>9, <1>10, <2>1, <2>4, <3>1 DEF TaskOK, Working
  <2>5. CASE /\ a \in {Work(t.host, r, TRUE, 1), Work(t.host, r, TRUE, t.index + 1),
                       Ending(t.host, r, "succeeded")}
             /\ ~t.check => ~(t.index < Steps[o]) /\ ~(t.index = Steps[o] /\ o \in Reboots)
    <3>1. t.check => Complete(o) /\ r.started = Steps[o]
      BY <1>2, <1>3
    <3>2. ~t.check => Complete(o) /\ r.started = Steps[o]
      BY <1>2, <1>3, <2>5 DEF Complete
    <3>3. Complete(o)' /\ r.started = Steps[o]
      BY <1>2, <2>1, <3>1, <3>2 DEF Complete
    <3>4. /\ task'[o].row = r
          /\ \/ task'[o].pc = "begin" /\ task'[o].check
             \/ task'[o].pc = "finish" /\ task'[o].end = "succeeded"
      BY <1>12, <2>5 DEF Work, Ending
    <3>. QED
      BY <1>2, <1>3, <1>9, <1>10, <2>1, <3>3, <3>4 DEF TaskOK, Working, Finishing, Finals
  <2>. QED
    BY <1>7, <2>2, <2>3, <2>4, <2>5
<1>. QED
  BY <1>10, <1>11, <1>12

\* The stream of a command fails.
LEMMA LostKeeps == ASSUME HostInv, NEW o \in Ops, TaskLost(o) PROVE HostInv'
<1>. DEFINE t == task[o]
<1>1. t.pc = "busy" /\ t.pc # "off"
  BY DEF TaskLost
<1>2. /\ t.row \in Rows /\ t.row.state \in Active /\ rows[o].state \in Active
      /\ t.row.started <= Len(ran[o]) + 1 /\ t.host \in Hosts \cup {NoHost}
  BY <1>1, Resident DEF TaskOK, Working
<1>3. UNCHANGED <<rows, conn, up, boot, req, rec, ran, good, passed, faults>>
  BY DEF TaskLost, hostVars, history
<1>4. HostTypeOK
  BY DEF HostInv
<1>5. Ending(t.host, t.row, "failed") \in Residents
  BY <1>2, TaskFields DEF States, Finals
<1>6. /\ task'[o] = Ending(t.host, t.row, "failed") /\ task' \in [Ops -> Residents]
      /\ \A p \in Ops \ {o} : task'[p] = task[p]
  BY <1>4, <1>5 DEF TaskLost, HostTypeOK
<1>7. HostTypeOK' /\ TaskOK(o)'
  BY <1>2, <1>3, <1>4, <1>6, MayFail DEF HostTypeOK
<1>8. SteadyAt(o)'
  BY <1>1, <1>3, Resident DEF SteadyAt
<1>9. \A p \in Ops \ {o} : rows'[p] = rows[p] /\ task'[p] = task[p] /\ ran'[p] = ran[p]
  BY <1>3, <1>6
<1>10. Len(ran'[o]) >= Len(ran[o]) /\ rows'[o].state \notin {"none", "prepared"}
  BY <1>1, <1>3, Resident
<1>11. rows' = rows /\ conn' = conn /\ req' = req /\ rec' = rec
  BY <1>3
<1>12. rows'[o].state \in Active => rows[o].state \in Active /\ rows'[o].rev = rows[o].rev
  BY <1>11
<1>. QED
  BY <1>1, <1>7, <1>8, <1>9, <1>10, <1>11, <1>12, OneTask

\* The task saves its end and is gone.
LEMMA FinishKeeps == ASSUME HostInv, NEW o \in Ops, TaskFinish(o) PROVE HostInv'
<1>. DEFINE t == task[o]
            r == Moved(t.row, t.end)
<1>1. t.pc = "finish" /\ t.pc # "off"
  BY DEF TaskFinish
<1>2. /\ t.row \in Rows /\ t.end \in {"awaiting"} \cup Finals
      /\ rows[o].state \in Active => t.row.started <= Len(ran[o]) + 1
      /\ rows[o].state \in Active /\ t.end = "awaiting" => Len(ran[o]) <= t.row.started
  BY <1>1, Resident DEF TaskOK, Finishing
<1>3. r \in Rows /\ r.state = t.end /\ r.started = t.row.started
  BY ZenonT(40), <1>2, RowFields DEF States, Active
<1>4. TaskSave(o, r, Off, Off) /\ UNCHANGED <<conn, up, boot, req, rec, ran, good, passed>>
  BY DEF TaskFinish, hostVars, history
<1>5. good' \in [Ops -> SUBSET Nat] /\ passed' \in [Ops -> SUBSET Nat]
  BY <1>4 DEF HostInv, HostTypeOK
<1>6. Off \in Residents
  BY <1>2, <1>3, <1>1, Resident, TaskFields DEF States, Finals
<1>. HIDE DEF r
<1>7. (TaskOK(o)' => HostInv') /\ task'[o] = Off
  BY <1>1, <1>2, <1>3, <1>4, <1>5, <1>6, SaveStep DEF Active, Finals
<1>. QED
  BY <1>7 DEF TaskOK, Off

-----------------------------------------------------------------------------
(* Requests.                                                                *)

\* A step that changes the request alone keeps the invariant if its own parts
\* hold again.
LEMMA RequestOnly ==
  ASSUME HostInv, UNCHANGED <<rows, conn, up, boot, rec, task, ran, good, passed>>,
         faults' \in 0 .. MaxFaults, req' \in Requests, Gate', ReqConn', Launching'
  PROVE  HostInv'
<1>1. HostTypeOK'
  BY DEF HostInv, HostTypeOK
<1>2. ConnectionIsStable' /\ OneMaintainer' /\ Todo'
  BY DEF HostInv, ConnectionIsStable, OneMaintainer, Todo
<1>3. OpsOK'
  BY DEF HostInv, OpsOK, UnclaimedAt, SteadyAt, TaskOK, Working, Finishing, Complete
<1>. QED
  BY <1>1, <1>2, <1>3 DEF HostInv

\* The idle request.
LEMMA IdleRequest == HostTypeOK => NoReq \in Requests /\ NoRec \in Passes
  BY HostAssumption DEF HostTypeOK, NoReq, NoRec, Requests, Passes, Conns, Entries

LEMMA StartKeeps == ASSUME HostInv, NEW o \in Ops, ReqStart(o) PROVE HostInv'
<1>1. /\ req' = [pc |-> "identity", op |-> o, conn |-> conn, boot |-> 0]
      /\ UNCHANGED <<rows, conn, up, boot, rec, task, ran, good, passed, faults>>
      /\ rec.pc = "idle" /\ rec.todo = {}
  BY DEF ReqStart, hostVars, history, GateFree, HostInv, Gate
<1>2. conn \in Conns /\ faults' \in 0 .. MaxFaults
  BY <1>1 DEF HostInv, HostTypeOK
<1>3. req' \in Requests
  BY <1>1, <1>2 DEF Requests
<1>4. conn.rev \in Nat
  BY <1>2 DEF Conns
<1>5. Gate' /\ ReqConn' /\ Launching'
  BY <1>1, <1>4 DEF Gate, ReqConn, Launching
<1>. QED
  BY <1>1, <1>2, <1>3, <1>5, RequestOnly

\* A request that ends keeps the invariant.
LEMMA RequestEnds ==
  ASSUME HostInv, req' = NoReq, faults' \in 0 .. MaxFaults,
         UNCHANGED <<rows, conn, up, boot, rec, task, ran, good, passed>>
  PROVE  HostInv'
<1>1. req' \in Requests
  BY IdleRequest DEF HostInv
<1>2. Gate' /\ ReqConn' /\ Launching'
  BY DEF HostInv, Gate, ReqConn, Launching, NoReq
<1>. QED
  BY <1>1, <1>2, RequestOnly

LEMMA IdentityKeeps == ASSUME HostInv, ReqIdentity PROVE HostInv'
<1>1. /\ req.pc = "identity"
      /\ UNCHANGED <<rows, conn, up, boot, rec, task, ran, good, passed, faults>>
  BY DEF ReqIdentity, hostVars, history
<1>2. faults' \in 0 .. MaxFaults /\ boot \in [Hosts -> Nat] /\ req \in Requests
  BY <1>1 DEF HostInv, HostTypeOK
<1>3. CASE req' = NoReq
  BY <1>1, <1>2, <1>3, RequestEnds
<1>4. CASE req' # NoReq
  <2>1. PICK next \in {"prepare", "claim"} :
          /\ req' = [pc |-> next, op |-> req.op, conn |-> req.conn, boot |-> boot[req.conn.host]]
          /\ req.conn.host # NoHost /\ req.conn.host = Target[req.op]
          /\ next = "prepare" => rows[req.op].state = "none"
    BY <1>4 DEF ReqIdentity
  <2>2. req.conn \in Conns /\ req.op \in Ops
    BY <1>1, <1>2 DEF HostInv, ReqConn, Requests
  <2>3. req.conn.host \in Hosts
    BY <2>1, <2>2 DEF Conns
  <2>4. req' \in Requests
    BY <1>2, <2>1, <2>2, <2>3 DEF Requests
  <2>5. Gate' /\ ReqConn' /\ Launching'
    BY <1>1, <2>1, <2>2 DEF HostInv, Gate, ReqConn, Launching
  <2>. QED
    BY <1>1, <1>2, <2>4, <2>5, RequestOnly
<1>. QED
  BY <1>3, <1>4

\* A request that ends or waits for its launch and wrote one row that no task
\* and no recovery pass knows.
LEMMA PrepareKeeps == ASSUME HostInv, ReqPrepare PROVE HostInv'
<1>. DEFINE o == req.op
            row == [state |-> "prepared", started |-> 0, outs |-> 0,
                    boot |-> req.boot, rev |-> req.conn.rev, age |-> 0]
<1>1. /\ req.pc = "prepare" /\ rows' = [rows EXCEPT ![o] = row] /\ req' = NoReq
      /\ UNCHANGED <<conn, up, boot, rec, task, ran, good, passed, faults>>
  BY DEF ReqPrepare, hostVars, history
<1>2. HostTypeOK /\ o \in Ops /\ rows[o].state = "none" /\ rec.pc = "idle" /\ rec.todo = {}
  BY <1>1 DEF HostInv, ReqConn, Launching, Gate
<1>3. row \in Rows
  BY <1>2 DEF HostTypeOK, Requests, Conns, Rows, States
<1>. DEFINE new == row
<1>4. /\ rows' \in [Ops -> Rows] /\ rows'[o] = row /\ \A p \in Ops \ {o} : rows'[p] = rows[p]
      /\ row.state = "prepared" /\ row.started = 0
  BY <1>1, <1>2, <1>3 DEF HostTypeOK
<1>. HIDE DEF row
<1>5. HostTypeOK'
  BY <1>1, <1>2, <1>4, IdleRequest DEF HostTypeOK
<1>6. Gate' /\ ReqConn' /\ Launching' /\ Todo'
  BY <1>1, <1>2 DEF Gate, ReqConn, Launching, Todo, NoReq
<1>7. ConnectionIsStable' /\ OneMaintainer'
  BY <1>1, <1>2, <1>4 DEF HostInv, ConnectionIsStable, OneMaintainer, Active
<1>8. ASSUME NEW p \in Ops PROVE (UnclaimedAt(p) /\ SteadyAt(p) /\ TaskOK(p))'
  <2>1. UnclaimedAt(p) /\ SteadyAt(p) /\ TaskOK(p)
    BY DEF HostInv, OpsOK
  <2>2. CASE p # o
    BY <1>1, <1>4, <2>1, <2>2 DEF UnclaimedAt, SteadyAt, TaskOK, Working, Finishing, Complete
  <2>3. CASE p = o
    BY <1>1, <1>2, <1>4, <2>1, <2>3 DEF UnclaimedAt, SteadyAt, TaskOK, Active
  <2>. QED
    BY <2>2, <2>3
<1>. QED
  BY <1>5, <1>6, <1>7, <1>8 DEF HostInv, OpsOK

\* A claim finds no active row at all: one of another target would belong to the
\* same connection.
LEMMA ClaimKeeps == ASSUME HostInv, ReqClaim PROVE HostInv'
<1>. DEFINE o == req.op
            row == Stamped(Moved(rows[o], "running"))
<1>1. /\ req.pc = "claim" /\ UNCHANGED <<conn, up, boot, rec, task, ran, good, passed>>
  BY DEF ReqClaim, hostVars, history
<1>2. /\ HostTypeOK /\ o \in Ops /\ rec.pc = "idle" /\ rec.todo = {}
      /\ req.conn.rev = conn.rev => req.conn = conn
      /\ req.conn.host = Target[o] /\ req \in Requests
  BY <1>1 DEF HostInv, ReqConn, Gate, HostTypeOK
<1>3. faults' \in 0 .. MaxFaults
  BY <1>2, HostAssumption DEF ReqClaim, Fault, HostTypeOK
<1>4. CASE ~Claimable(o)
  <2>1. req' = NoReq /\ rows' = rows
    BY <1>4 DEF ReqClaim
  <2>. QED
    BY <1>1, <1>3, <2>1, RequestEnds
<1>5. CASE Claimable(o)
  <2>1. /\ rows' = [rows EXCEPT ![o] = row]
        /\ req' \in {[req EXCEPT !.pc = "launch"], NoReq}
    BY <1>5 DEF ReqClaim
  <2>2. /\ row \in Rows /\ row.state = "running" /\ row.started = rows[o].started
        /\ row.rev = rows[o].rev
    <3>1. rows[o] \in Rows /\ "running" \in States
      BY <1>2 DEF HostTypeOK, States, Active
    <3>. QED
      BY <3>1, RowFields
  <2>. HIDE DEF row
  <2>3. /\ rows' \in [Ops -> Rows] /\ rows'[o] = row /\ \A p \in Ops \ {o} : rows'[p] = rows[p]
    BY <1>2, <2>1, <2>2 DEF HostTypeOK
  <2>4. req' \in Requests
    BY <1>2, <2>1, IdleRequest DEF Requests
  <2>5. HostTypeOK'
    BY <1>1, <1>2, <1>3, <2>3, <2>4 DEF HostTypeOK
  <2>6. /\ rows[o].rev = conn.rev /\ Target[o] = conn.host /\ rows[o].state = "prepared"
        /\ \A p \in Ops : rows[p].state \notin Active
    <3>1. /\ rows[o].rev = conn.rev /\ Target[o] = conn.host /\ rows[o].state = "prepared"
          /\ \A p \in Ops : Target[p] = Target[o] => rows[p].state \notin Active
      BY <1>2, <1>5 DEF Claimable
    <3>. QED
      BY <3>1 DEF HostInv, ConnectionIsStable
  <2>7. task[o].pc = "off" /\ ran[o] = <<>> /\ rows[o].started = 0
    BY <1>2, <2>6 DEF HostInv, OpsOK, UnclaimedAt
  <2>8. /\ req'.pc \in {"launch", "idle"}
        /\ req'.pc = "launch" => req'.op = o /\ req'.conn = req.conn
    BY <1>2, <2>1 DEF Requests, NoReq
  <2>9. Gate' /\ ReqConn' /\ Launching' /\ Todo'
    <3>1. Gate' /\ Todo'
      BY <1>1, <1>2, <2>8 DEF Gate, Todo
    <3>2. ReqConn'
      BY <1>1, <1>2, <2>8 DEF HostInv, ReqConn
    <3>3. Launching'
      BY <1>1, <1>2, <2>2, <2>3, <2>7, <2>8 DEF Launching
    <3>. QED
      BY <3>1, <3>2, <3>3
  <2>10. ConnectionIsStable' /\ OneMaintainer'
    BY <1>1, <1>2, <2>2, <2>3, <2>6 DEF ConnectionIsStable, OneMaintainer
  <2>11. ASSUME NEW p \in Ops PROVE (UnclaimedAt(p) /\ SteadyAt(p) /\ TaskOK(p))'
    <3>1. UnclaimedAt(p) /\ SteadyAt(p) /\ TaskOK(p)
      BY DEF HostInv, OpsOK
    <3>2. CASE p # o
      BY <1>1, <2>3, <3>1, <3>2 DEF UnclaimedAt, SteadyAt, TaskOK, Working, Finishing, Complete
    <3>3. CASE p = o
      BY <1>1, <2>2, <2>3, <2>7, <3>1, <3>3 DEF UnclaimedAt, SteadyAt, TaskOK, Active
    <3>. QED
      BY <3>2, <3>3
  <2>. QED
    BY <2>5, <2>9, <2>10, <2>11 DEF HostInv, OpsOK
<1>. QED
  BY <1>4, <1>5

\* The spawned task starts with the first step.
LEMMA LaunchKeeps == ASSUME HostInv, ReqLaunch PROVE HostInv'
<1>. DEFINE o == req.op
            new == Work(req.conn.host, Stamped(rows[o]), FALSE, 1)
<1>1. /\ req.pc = "launch" /\ task' = [task EXCEPT ![o] = new] /\ req' = NoReq
      /\ UNCHANGED <<rows, conn, up, boot, rec, ran, good, passed, faults>>
  BY DEF ReqLaunch, hostVars, history
<1>2. /\ HostTypeOK /\ o \in Ops /\ rec.pc = "idle" /\ rec.todo = {}
      /\ rows[o].state = "running" /\ rows[o].started = 0
      /\ task[o].pc = "off" /\ ran[o] = <<>>
  BY <1>1 DEF HostInv, ReqConn, Gate, Launching
<1>3. /\ rows[o] \in Rows /\ req.conn.host \in Hosts \cup {NoHost} /\ Steps[o] \in Nat \ {0}
  BY <1>2, HostAssumption DEF HostTypeOK, Requests, Conns
<1>4. /\ Stamped(rows[o]) \in Rows /\ Stamped(rows[o]).state = "running"
      /\ Stamped(rows[o]).started = 0
  BY <1>2, <1>3, RowFields DEF States
<1>5. new \in Residents
  BY <1>3, <1>4, TaskFields DEF States, Finals
<1>6. /\ new.pc = "begin" /\ ~new.check /\ new.index = 1 /\ new.row = Stamped(rows[o])
  BY DEF Work
<1>. HIDE DEF new
<1>7. /\ task' \in [Ops -> Residents] /\ task'[o] = new /\ \A p \in Ops \ {o} : task'[p] = task[p]
  BY <1>1, <1>2, <1>5 DEF HostTypeOK
<1>8. HostTypeOK'
  BY <1>1, <1>2, <1>7, IdleRequest DEF HostTypeOK
<1>9. Gate' /\ ReqConn' /\ Launching' /\ Todo'
  BY <1>1, <1>2 DEF Gate, ReqConn, Launching, Todo, NoReq
<1>10. ConnectionIsStable' /\ OneMaintainer'
  BY <1>1 DEF HostInv, ConnectionIsStable, OneMaintainer
<1>11. ASSUME NEW p \in Ops PROVE (UnclaimedAt(p) /\ SteadyAt(p) /\ TaskOK(p))'
  <2>1. UnclaimedAt(p) /\ SteadyAt(p) /\ TaskOK(p)
    BY DEF HostInv, OpsOK
  <2>2. CASE p # o
    BY <1>1, <1>7, <2>1, <2>2 DEF UnclaimedAt, SteadyAt, TaskOK, Working, Finishing, Complete
  <2>3. CASE p = o
    <3>1. UnclaimedAt(p)' /\ SteadyAt(p)'
      BY <1>1, <1>2, <2>1, <2>3 DEF UnclaimedAt, SteadyAt
    <3>2. TaskOK(p)'
      <4>1. Len(ran[p]) = 0
        BY <1>2, <2>3
      <4>2. /\ task'[p] = new /\ rows'[p].state = "running" /\ ran'[p] = ran[p]
            /\ rows[p] = rows[o] /\ 1 \in 1 .. Steps[p]
        BY <1>1, <1>2, <1>3, <1>7, <2>3
      <4>. QED
        BY <1>4, <1>6, <4>1, <4>2 DEF TaskOK, Working, Active
    <3>. QED
      BY <3>1, <3>2
  <2>. QED
    BY <2>2, <2>3
<1>. QED
  BY <1>8, <1>9, <1>10, <1>11 DEF HostInv, OpsOK

LEMMA DropKeeps == ASSUME HostInv, ReqDrop PROVE HostInv'
<1>1. req' = NoReq /\ UNCHANGED <<rows, conn, up, boot, rec, task, ran, good, passed>>
  BY DEF ReqDrop, hostVars, history
<1>2. faults' \in 0 .. MaxFaults
  BY HostAssumption DEF ReqDrop, Fault, HostInv, HostTypeOK
<1>. QED
  BY <1>1, <1>2, RequestEnds

-----------------------------------------------------------------------------
(* The administrator.                                                       *)

\* A change of the connection outdates the one a request holds.
LEMMA ConnectionKeeps ==
  ASSUME HostInv, NEW h \in Hosts \cup {NoHost}, SaveConnection(h) PROVE HostInv'
<1>1. /\ conn' = [rev |-> conn.rev + 1, host |-> h]
      /\ \A o \in Ops : rows[o].state \notin Active
      /\ UNCHANGED <<rows, up, boot, req, rec, task, ran, good, passed, faults>>
  BY DEF SaveConnection, hostVars, history
<1>2. conn.rev \in Nat /\ conn'.rev = conn.rev + 1 /\ conn' \in Conns
  BY <1>1 DEF HostInv, HostTypeOK, Conns
<1>3. HostTypeOK'
  BY <1>1, <1>2 DEF HostInv, HostTypeOK
<1>4. ReqConn'
  <2>1. req.pc # "idle" => req.conn.rev \in Nat
    BY DEF HostInv, HostTypeOK, Requests, Conns
  <2>. QED
    BY <1>1, <1>2, <2>1 DEF HostInv, ReqConn
<1>5. Gate' /\ Launching' /\ Todo'
  BY <1>1 DEF HostInv, Gate, Launching, Todo
<1>6. ConnectionIsStable' /\ OneMaintainer'
  BY <1>1 DEF HostInv, ConnectionIsStable, OneMaintainer
<1>7. OpsOK'
  BY <1>1 DEF HostInv, OpsOK, UnclaimedAt, SteadyAt, TaskOK, Working, Finishing, Complete
<1>. QED
  BY <1>3, <1>4, <1>5, <1>6, <1>7 DEF HostInv

\* A deleted operation is forgotten; a task that still ends finds no row.
LEMMA DeleteKeeps == ASSUME HostInv, NEW o \in Ops, DeleteSession(o) PROVE HostInv'
<1>. DEFINE row == [NoRow EXCEPT !.state = "gone"]
<1>1. /\ rows[o].state \in Finals \cup {"prepared"} /\ rows' = [rows EXCEPT ![o] = row]
      /\ ran' = [ran EXCEPT ![o] = <<>>]
      /\ good' = [good EXCEPT ![o] = {}] /\ passed' = [passed EXCEPT ![o] = {}]
      /\ UNCHANGED <<conn, up, boot, req, rec, task, faults>>
  BY DEF DeleteSession, hostVars
<1>2. HostTypeOK
  BY DEF HostInv
<1>3. row \in Rows /\ row.state = "gone"
  BY DEF NoRow, Rows, States
<1>. HIDE DEF row
<1>4. /\ rows' \in [Ops -> Rows] /\ rows'[o] = row /\ \A p \in Ops \ {o} : rows'[p] = rows[p]
      /\ ran' \in [Ops -> Seq(Nat)] /\ ran'[o] = <<>> /\ \A p \in Ops \ {o} : ran'[p] = ran[p]
  BY <1>1, <1>2, <1>3 DEF HostTypeOK
<1>5. HostTypeOK'
  <2>1. good' \in [Ops -> SUBSET Nat] /\ passed' \in [Ops -> SUBSET Nat]
    BY <1>1, <1>2 DEF HostTypeOK
  <2>. QED
    BY <1>1, <1>2, <1>4, <2>1 DEF HostTypeOK
<1>6. rows[o].state \notin Active \cup {"none"} /\ rows'[o].state \notin Active \cup {"none", "prepared"}
  BY <1>1, <1>3, <1>4 DEF Active, Finals
<1>7. Gate' /\ ReqConn' /\ Launching' /\ Todo'
  <2>1. Gate' /\ ReqConn'
    BY <1>1 DEF HostInv, Gate, ReqConn
  <2>2. Launching'
    BY <1>1, <1>4, <1>6 DEF HostInv, Launching, ReqConn, Active
  <2>3. Todo'
    <3>1. ASSUME NEW e \in rec.todo
          PROVE  /\ e.row.state \in Active
                 /\ rows'[e.op].state \in Active => e.row.started <= Len(ran'[e.op]) + 1
                 /\ rec.pc \in {"expire", "decide"} => task[e.op].pc = "off"
      <4>1. /\ e.row.state \in Active /\ e.op \in Ops
            /\ rows[e.op].state \in Active => e.row.started <= Len(ran[e.op]) + 1
            /\ rec.pc \in {"expire", "decide"} => task[e.op].pc = "off"
        BY <3>1 DEF HostInv, Todo, HostTypeOK, Passes, Entries
      <4>. QED
        BY <1>4, <1>6, <4>1
    <3>2. /\ \A e, f \in rec.todo : e.op = f.op => e = f
          /\ \A e \in rec.todo : rows'[e.op].state \notin {"none", "prepared"}
      BY <1>4, <1>6 DEF HostInv, Todo, HostTypeOK, Passes, Entries
    <3>. QED
      BY <1>1, <3>1, <3>2 DEF Todo
  <2>. QED
    BY <2>1, <2>2, <2>3
<1>8. ConnectionIsStable' /\ OneMaintainer'
  BY <1>1, <1>4, <1>6 DEF HostInv, ConnectionIsStable, OneMaintainer
<1>9. ASSUME NEW p \in Ops PROVE (UnclaimedAt(p) /\ SteadyAt(p) /\ TaskOK(p))'
  <2>1. UnclaimedAt(p) /\ SteadyAt(p) /\ TaskOK(p)
    BY DEF HostInv, OpsOK
  <2>2. CASE p # o
    BY <1>1, <1>4, <2>1, <2>2 DEF UnclaimedAt, SteadyAt, TaskOK, Working, Finishing, Complete
  <2>3. CASE p = o
    <3>1. UnclaimedAt(o)'
      BY <1>6 DEF UnclaimedAt
    <3>2. SteadyAt(o)'
      <4>1. Len(ran'[o]) = 0 /\ Steps[o] \in Nat /\ <<>> = [i \in 1 .. 0 |-> i]
        BY <1>4, HostAssumption
      <4>. QED
        BY <1>4, <1>6, <4>1 DEF SteadyAt
    <3>3. TaskOK(o)'
      BY <1>1, <1>6, <2>1, <2>3 DEF TaskOK, Working, Finishing
    <3>. QED
      BY <2>3, <3>1, <3>2, <3>3
  <2>. QED
    BY <2>2, <2>3
<1>. QED
  BY <1>5, <1>7, <1>8, <1>9 DEF HostInv, OpsOK

-----------------------------------------------------------------------------
(* The recovery loop.                                                       *)

\* A step that changes the pass alone keeps the invariant if its own parts hold
\* again.
LEMMA PassOnly ==
  ASSUME HostInv, UNCHANGED <<rows, conn, up, boot, req, task, ran, good, passed, faults>>,
         rec' \in Passes, Gate', Todo'
  PROVE  HostInv'
<1>1. HostTypeOK'
  BY DEF HostInv, HostTypeOK
<1>2. ConnectionIsStable' /\ OneMaintainer' /\ ReqConn' /\ Launching'
  BY DEF HostInv, ConnectionIsStable, OneMaintainer, ReqConn, Launching
<1>3. OpsOK'
  BY DEF HostInv, OpsOK, UnclaimedAt, SteadyAt, TaskOK, Working, Finishing, Complete
<1>. QED
  BY <1>1, <1>2, <1>3 DEF HostInv

LEMMA PassStartKeeps == ASSUME HostInv, RecStart PROVE HostInv'
<1>1. /\ rec' = [pc |-> "list", conn |-> conn, boot |-> 0, todo |-> {}] /\ req.pc = "idle"
      /\ UNCHANGED <<rows, conn, up, boot, req, task, ran, good, passed, faults>>
  BY DEF RecStart, hostVars, history, GateFree
<1>2. rec' \in Passes /\ conn.host \in Hosts
  BY <1>1 DEF RecStart, HostInv, HostTypeOK, Passes, Entries, Conns
<1>3. Gate' /\ Todo'
  BY <1>1, <1>2 DEF Gate, Todo
<1>. QED
  BY <1>1, <1>2, <1>3, PassOnly

\* The entries are active rows, one for each operation.
LEMMA ListKeeps == ASSUME HostInv, RecList PROVE HostInv'
<1>. DEFINE found == {[op |-> o, row |-> rows[o]] : o \in {p \in Ops : rows[p].state \in Active}}
<1>1. /\ rec.pc = "list" /\ rec' = [rec EXCEPT !.pc = "filter", !.todo = found]
      /\ UNCHANGED <<rows, conn, up, boot, req, task, ran, good, passed, faults>>
  BY DEF RecList, hostVars, history
<1>2. found \in SUBSET Entries
  BY DEF HostInv, HostTypeOK, Entries
<1>3. \A e \in found : /\ e.op \in Ops /\ e.row = rows[e.op] /\ e.row.state \in Active
                       /\ e = [op |-> e.op, row |-> e.row]
  OBVIOUS
<1>. HIDE DEF found
<1>4. rec \in Passes
  BY DEF HostInv, HostTypeOK
<1>5. rec' \in Passes /\ rec'.todo = found /\ rec'.pc = "filter" /\ rec'.conn = rec.conn
  BY <1>1, <1>2, <1>4 DEF Passes
<1>6. Gate'
  BY <1>1, <1>5 DEF HostInv, Gate
<1>7. Todo'
  <2>1. \A e \in found : e.row.state \in Active /\ e.row.started <= Len(ran[e.op]) + 1
    BY <1>3 DEF HostInv, OpsOK, SteadyAt
  <2>2. /\ \A e, f \in found : e.op = f.op => e = f
        /\ \A e \in found : rows[e.op].state \notin {"none", "prepared"}
    BY <1>3 DEF Active
  <2>. QED
    BY <1>1, <1>5, <2>1, <2>2 DEF Todo
<1>. QED
  BY <1>1, <1>5, <1>6, <1>7, PassOnly

\* What is left has no task.
LEMMA FilterKeeps == ASSUME HostInv, RecFilter PROVE HostInv'
<1>. DEFINE left == {e \in rec.todo : ~Live(e.op)}
<1>1. /\ rec.pc = "filter" /\ rec' = [rec EXCEPT !.pc = "expire", !.todo = left]
      /\ UNCHANGED <<rows, conn, up, boot, req, task, ran, good, passed, faults>>
  BY DEF RecFilter, hostVars, history
<1>2. rec \in Passes
  BY DEF HostInv, HostTypeOK
<1>3. rec' \in Passes /\ rec'.todo = left /\ rec'.pc = "expire" /\ rec'.conn = rec.conn
  BY <1>1, <1>2 DEF Passes
<1>4. Gate' /\ Todo'
  BY <1>1, <1>3 DEF HostInv, Gate, Todo, Live
<1>. QED
  BY <1>1, <1>3, <1>4, PassOnly

LEMMA OverviewKeeps == ASSUME HostInv, RecOverview PROVE HostInv'
<1>. DEFINE h == rec.conn.host
<1>1. /\ rec.pc = "expire"
      /\ rec' \in {NoRec, [rec EXCEPT !.pc = "decide", !.boot = boot[h]]}
      /\ rec' # NoRec => up[h] /\ rec.todo # {}
      /\ UNCHANGED <<rows, conn, up, boot, req, task, ran, good, passed, faults>>
  BY DEF RecOverview, hostVars, history
<1>2. CASE rec' = NoRec
  <2>1. rec' \in Passes
    BY <1>2, IdleRequest DEF HostInv
  <2>2. Gate' /\ Todo'
    BY <1>1, <1>2 DEF HostInv, Gate, Todo, NoRec
  <2>. QED
    BY <1>1, <2>1, <2>2, PassOnly
<1>3. CASE rec' = [rec EXCEPT !.pc = "decide", !.boot = boot[h]] /\ h \in Hosts
  <2>1. rec \in Passes /\ boot[h] \in Nat
    BY <1>3 DEF HostInv, HostTypeOK
  <2>2. rec' \in Passes /\ rec'.todo = rec.todo /\ rec'.pc = "decide" /\ rec'.conn = rec.conn
    BY <1>3, <2>1 DEF Passes
  <2>3. Gate' /\ Todo'
    BY <1>1, <2>2 DEF HostInv, Gate, Todo
  <2>. QED
    BY <1>1, <2>2, <2>3, PassOnly
<1>4. h \in Hosts
  BY <1>1 DEF HostInv, Gate
<1>. QED
  BY <1>1, <1>2, <1>3, <1>4

LEMMA PassEndKeeps == ASSUME HostInv, RecEnd PROVE HostInv'
<1>1. /\ rec' = NoRec
      /\ UNCHANGED <<rows, conn, up, boot, req, task, ran, good, passed, faults>>
  BY DEF RecEnd, hostVars, history
<1>2. rec' \in Passes
  BY <1>1, IdleRequest DEF HostInv
<1>3. Gate' /\ Todo'
  BY <1>1 DEF HostInv, Gate, Todo, NoRec
<1>. QED
  BY <1>1, <1>2, <1>3, PassOnly

\* An interruption of an entry, whether or not it is written.
LEMMA InterruptKeeps ==
  ASSUME HostInv, rec.pc \in {"expire", "decide"}, NEW e \in rec.todo, Interrupt(e),
         UNCHANGED <<conn, up, boot, req, task, ran, good, passed>>
  PROVE  HostInv'
<1>. DEFINE r == Moved(e.row, "interrupted")
<1>1. PICK told \in BOOLEAN : /\ Save(e.op, r, told)
                             /\ rec' = IF told THEN [rec EXCEPT !.todo = @ \ {e}] ELSE NoRec
  BY DEF Interrupt
<1>2. HostTypeOK /\ rec \in Passes /\ e.op \in Ops /\ e.row \in Rows
  BY DEF HostInv, HostTypeOK, Passes, Entries
<1>3. r \in Rows /\ r.state = "interrupted"
  BY <1>2, RowFields DEF States, Finals
<1>. HIDE DEF r
<1>4. Stamped(r).state = "interrupted"
  BY <1>3, RowFields DEF States, Finals
<1>5. /\ rows' \in [Ops -> Rows] /\ faults' \in 0 .. MaxFaults
      /\ \A p \in Ops \ {e.op} : rows'[p] = rows[p]
      /\ \/ rows'[e.op] = rows[e.op]
         \/ rows[e.op].state \in Active /\ rows'[e.op].state = "interrupted"
  BY <1>1, <1>2, <1>3, <1>4, SaveFacts
<1>6. rec' \in Passes /\ rec'.todo \subseteq rec.todo
      /\ \/ rec'.pc = rec.pc /\ rec'.conn = rec.conn
         \/ rec'.pc = "idle" /\ rec'.todo = {}
  <2>1. NoRec \in Passes /\ NoRec.pc = "idle" /\ NoRec.todo = {}
    BY <1>2, IdleRequest DEF NoRec
  <2>. QED
    BY <1>1, <1>2, <2>1 DEF Passes
<1>7. HostTypeOK'
  BY <1>2, <1>5, <1>6 DEF HostTypeOK
<1>8. req.pc = "idle"
  BY DEF HostInv, Gate
<1>9. Gate' /\ ReqConn' /\ Launching'
  BY <1>6, <1>8 DEF HostInv, Gate, ReqConn, Launching
<1>10. ConnectionIsStable' /\ OneMaintainer'
  <2>1. \A p \in Ops : rows'[p].state \in Active => rows'[p] = rows[p]
    BY <1>5 DEF Active
  <2>. QED
    BY <2>1 DEF HostInv, ConnectionIsStable, OneMaintainer
<1>11. Todo'
  <2>1. ASSUME NEW f \in rec'.todo
        PROVE  /\ f.row.state \in Active
               /\ rows'[f.op].state \in Active => f.row.started <= Len(ran[f.op]) + 1
               /\ task[f.op].pc = "off"
    <3>1. /\ f.row.state \in Active /\ f.op \in Ops /\ task[f.op].pc = "off"
          /\ rows[f.op].state \in Active => f.row.started <= Len(ran[f.op]) + 1
      BY <1>2, <1>6, <2>1 DEF HostInv, Todo, Passes, Entries
    <3>. QED
      BY <1>5, <3>1 DEF Active
  <2>2. /\ \A f, g \in rec'.todo : f.op = g.op => f = g
        /\ \A f \in rec'.todo : rows'[f.op].state \notin {"none", "prepared"}
    BY <1>2, <1>5, <1>6 DEF HostInv, Todo, Passes, Entries
  <2>. QED
    BY <2>1, <2>2 DEF Todo
<1>12. ASSUME NEW p \in Ops PROVE (UnclaimedAt(p) /\ SteadyAt(p) /\ TaskOK(p))'
  <2>1. UnclaimedAt(p) /\ SteadyAt(p) /\ TaskOK(p)
    BY DEF HostInv, OpsOK
  <2>2. CASE rows'[p] = rows[p]
    BY <2>1, <2>2 DEF UnclaimedAt, SteadyAt, TaskOK, Working, Finishing, Complete
  <2>3. CASE rows'[p] # rows[p]
    <3>1. p = e.op /\ rows'[p].state = "interrupted" /\ task[p].pc = "off"
      BY <1>5, <2>3 DEF HostInv, Todo
    <3>. QED
      BY <2>1, <3>1 DEF UnclaimedAt, SteadyAt, TaskOK, Active
  <2>. QED
    BY <2>2, <2>3
<1>. QED
  BY <1>7, <1>9, <1>10, <1>11, <1>12 DEF HostInv, OpsOK

LEMMA ExpireKeeps == ASSUME HostInv, RecExpire PROVE HostInv'
<1>1. PICK e \in rec.todo : Interrupt(e)
  BY DEF RecExpire
<1>. QED
  BY <1>1, InterruptKeeps DEF RecExpire, hostVars, history

\* A task spawned to verify after a reboot has every step behind it, except that
\* the host may have made the last one itself.
LEMMA DecideKeeps == ASSUME HostInv, RecDecide PROVE HostInv'
<1>1. /\ rec.pc = "decide"
      /\ UNCHANGED <<conn, up, boot, req, ran, good, passed>>
  BY DEF RecDecide, hostVars, history
<1>2. PICK e \in rec.todo :
        \/ /\ Recovery(e) = "wait"
           /\ rec' = [rec EXCEPT !.todo = @ \ {e}]
           /\ UNCHANGED <<rows, task, faults>>
        \/ /\ Recovery(e) = "verify"
           /\ task' = [task EXCEPT ![e.op] = Recovered(e)]
           /\ rec' = [rec EXCEPT !.todo = @ \ {e}]
           /\ UNCHANGED <<rows, faults>>
        \/ Recovery(e) = "interrupt" /\ Interrupt(e) /\ UNCHANGED task
  BY DEF RecDecide
<1>3. HostTypeOK /\ rec \in Passes /\ e.op \in Ops /\ e.row \in Rows /\ rec.conn.host \in Hosts
  BY <1>1 DEF HostInv, HostTypeOK, Passes, Entries, Gate
<1>4. /\ e.row.state \in Active /\ task[e.op].pc = "off"
      /\ rows[e.op].state \in Active => e.row.started <= Len(ran[e.op]) + 1
  BY <1>1 DEF HostInv, Todo
<1>5. CASE Recovery(e) = "interrupt" /\ Interrupt(e) /\ UNCHANGED task
  BY <1>1, <1>5, InterruptKeeps
<1>6. CASE rec' = [rec EXCEPT !.todo = @ \ {e}] /\ UNCHANGED <<rows, faults>>
           /\ \/ UNCHANGED task
              \/ Recovery(e) = "verify" /\ task' = [task EXCEPT ![e.op] = Recovered(e)]
  <2>1. /\ rec' \in Passes /\ rec'.todo = rec.todo \ {e}
        /\ rec'.pc = rec.pc /\ rec'.conn = rec.conn
    BY <1>3, <1>6 DEF Passes
  <2>2. CASE UNCHANGED task
    <3>1. Gate' /\ Todo'
      BY <1>1, <1>6, <2>1, <2>2 DEF HostInv, Gate, Todo
    <3>. QED
      BY <1>1, <1>6, <2>1, <2>2, <3>1, PassOnly
  <2>3. CASE Recovery(e) = "verify" /\ task' = [task EXCEPT ![e.op] = Recovered(e)]
    <3>. DEFINE o == e.op
                row == Stamped(e.row)
                new == Recovered(e)
    <3>1. row \in Rows /\ row.state \in Active /\ row.started = e.row.started
      BY <1>3, <1>4, RowFields DEF States
    <3>2. \/ /\ new = Work(rec.conn.host, row, TRUE, 1) /\ row.started = Steps[o]
          \/ new = Ending(rec.conn.host, row, "interrupted")
      BY <3>1 DEF Recovered
    <3>3. new \in Residents
      BY <1>3, <3>1, <3>2, TaskFields DEF States, Finals
    <3>4. o \in Reboots
      BY <2>3 DEF Recovery
    <3>. HIDE DEF row, new
    <3>5. /\ task' \in [Ops -> Residents] /\ task'[o] = new
          /\ \A p \in Ops \ {o} : task'[p] = task[p]
      BY <1>3, <2>3, <3>3 DEF HostTypeOK, new
    <3>6. HostTypeOK'
      BY <1>1, <1>3, <1>6, <2>1, <3>5 DEF HostTypeOK
    <3>7. Gate' /\ ReqConn' /\ Launching'
      BY <1>1, <1>6, <2>1 DEF HostInv, Gate, ReqConn, Launching
    <3>8. ConnectionIsStable' /\ OneMaintainer'
      BY <1>1, <1>6 DEF HostInv, ConnectionIsStable, OneMaintainer
    <3>9. Todo'
      <4>1. \A f \in rec'.todo : f.op \in Ops \ {o}
        BY <1>3, <2>1 DEF HostInv, Todo, Passes, Entries
      <4>. QED
        BY <1>1, <1>6, <2>1, <3>5, <4>1 DEF HostInv, Todo
    <3>10. ASSUME NEW p \in Ops PROVE (UnclaimedAt(p) /\ SteadyAt(p) /\ TaskOK(p))'
      <4>1. UnclaimedAt(p) /\ SteadyAt(p) /\ TaskOK(p)
        BY DEF HostInv, OpsOK
      <4>2. CASE p # o
        BY <1>1, <1>6, <3>5, <4>1, <4>2 DEF UnclaimedAt, SteadyAt, TaskOK, Working, Finishing, Complete
      <4>3. CASE p = o
        <5>1. rows[p].state \notin {"none", "prepared"}
          BY <4>3 DEF HostInv, Todo
        <5>2. UnclaimedAt(p)' /\ SteadyAt(p)'
          BY <1>1, <1>6, <4>1, <5>1 DEF UnclaimedAt, SteadyAt
        <5>3. /\ task'[p] = new /\ rows'[p] = rows[p] /\ ran'[p] = ran[p]
              /\ rows[p].state \in Active => row.started <= Len(ran[p]) + 1
          BY <1>1, <1>4, <1>6, <3>1, <3>5, <4>3
        <5>4. CASE new = Work(rec.conn.host, row, TRUE, 1) /\ row.started = Steps[o]
          <6>1. new.pc = "begin" /\ new.check /\ new.row = row
            BY <5>4 DEF Work
          <6>2. rows[p].state \in Active => Complete(p)
            <7>1. Len(ran[p]) \in Nat /\ Steps[p] \in Nat /\ Len(ran[p]) <= Steps[p]
              BY <1>3, <4>1, HostAssumption DEF HostTypeOK, SteadyAt
            <7>. QED
              BY <3>4, <4>3, <5>3, <5>4, <7>1 DEF Complete
          <6>. QED
            BY <3>1, <4>3, <5>2, <5>3, <5>4, <6>1, <6>2 DEF TaskOK, Working, Complete
        <5>5. CASE new = Ending(rec.conn.host, row, "interrupted")
          <6>1. new.pc = "finish" /\ new.end = "interrupted" /\ new.row = row
            BY <5>5 DEF Ending
          <6>2. TaskOK(p)'
            BY <3>1, <5>3, <6>1 DEF TaskOK, Finishing, Finals
          <6>. QED
            BY <5>2, <6>2
        <5>6. TaskOK(p)'
          BY <3>2, <5>4, <5>5
        <5>. QED
          BY <5>2, <5>6
      <4>. QED
        BY <4>2, <4>3
    <3>. QED
      BY <3>6, <3>7, <3>8, <3>9, <3>10 DEF HostInv, OpsOK
  <2>. QED
    BY <1>6, <2>2, <2>3
<1>. QED
  BY <1>2, <1>5, <1>6

-----------------------------------------------------------------------------
(* The environment.                                                         *)

LEMMA CrashKeeps == ASSUME HostInv, BridgeCrash PROVE HostInv'
<1>1. /\ task' = [o \in Ops |-> Off] /\ req' = NoReq /\ rec' = NoRec
      /\ UNCHANGED <<rows, conn, up, boot, ran, good, passed>>
  BY DEF BridgeCrash, hostVars, history
<1>2. HostTypeOK /\ faults' \in 0 .. MaxFaults
  BY HostAssumption DEF BridgeCrash, Fault, HostInv, HostTypeOK
<1>3. Off \in Residents /\ Off.pc = "off"
  BY DEF Off, NoRow, Rows, Residents, States, Active, Finals
<1>4. HostTypeOK'
  BY <1>1, <1>2, <1>3, IdleRequest DEF HostTypeOK
<1>5. Gate' /\ ReqConn' /\ Launching' /\ Todo'
  BY <1>1 DEF Gate, ReqConn, Launching, Todo, NoReq, NoRec
<1>6. ConnectionIsStable' /\ OneMaintainer'
  BY <1>1 DEF HostInv, ConnectionIsStable, OneMaintainer
<1>7. OpsOK'
  BY <1>1, <1>3 DEF HostInv, OpsOK, UnclaimedAt, SteadyAt, TaskOK
<1>. QED
  BY <1>4, <1>5, <1>6, <1>7 DEF HostInv

\* Outages and restarts of hosts touch nothing the invariant speaks of.
LEMMA HostKeeps == ASSUME HostInv, NEW h \in Hosts, HostDown(h) \/ HostUp(h) PROVE HostInv'
<1>1. UNCHANGED <<rows, conn, req, rec, task, ran, good, passed>>
  BY DEF HostDown, HostUp, history
<1>2. /\ up' \in [Hosts -> BOOLEAN] /\ boot' \in [Hosts -> Nat] /\ faults' \in 0 .. MaxFaults
  <2>1. HostTypeOK /\ MaxFaults \in Nat
    BY HostAssumption DEF HostInv
  <2>2. up' \in [Hosts -> BOOLEAN]
    BY <2>1 DEF HostDown, HostUp, HostTypeOK
  <2>3. boot' \in [Hosts -> Nat]
    <3>1. boot[h] + 1 \in Nat
      BY <2>1 DEF HostTypeOK
    <3>. QED
      BY <2>1, <3>1 DEF HostDown, HostUp, HostTypeOK
  <2>4. faults' \in 0 .. MaxFaults
    BY <2>1 DEF HostDown, HostUp, Fault, HostTypeOK
  <2>. QED
    BY <2>2, <2>3, <2>4
<1>3. HostTypeOK'
  BY <1>1, <1>2 DEF HostInv, HostTypeOK
<1>4. Gate' /\ ReqConn' /\ Launching' /\ Todo' /\ ConnectionIsStable' /\ OneMaintainer'
  BY <1>1 DEF HostInv, Gate, ReqConn, Launching, Todo, ConnectionIsStable, OneMaintainer
<1>5. OpsOK'
  BY <1>1 DEF HostInv, OpsOK, UnclaimedAt, SteadyAt, TaskOK, Working, Finishing, Complete
<1>. QED
  BY <1>3, <1>4, <1>5 DEF HostInv

\* The clock moves ages only.
LEMMA TickKeeps == ASSUME HostInv, Tick PROVE HostInv'
<1>. DEFINE older == {[op |-> e.op, row |-> Older(e.row)] : e \in rec.todo}
<1>1. /\ rows' = [o \in Ops |-> IF rows[o].state \in Active THEN Older(rows[o]) ELSE rows[o]]
      /\ rec' = [rec EXCEPT !.todo = older]
      /\ UNCHANGED <<conn, up, boot, req, task, ran, good, passed, faults>>
  BY DEF Tick, hostVars, history
<1>2. HostTypeOK /\ rec \in Passes
  BY DEF HostInv, HostTypeOK
<1>3. \A o \in Ops : /\ rows'[o] \in Rows /\ rows'[o].state = rows[o].state
                     /\ rows'[o].started = rows[o].started /\ rows'[o].rev = rows[o].rev
  BY <1>1, <1>2, OlderFields DEF HostTypeOK
<1>4. \A e \in rec.todo : /\ e.op \in Ops /\ Older(e.row) \in Rows
                          /\ Older(e.row).state = e.row.state
                          /\ Older(e.row).started = e.row.started
  BY <1>2, OlderFields DEF Passes, Entries
<1>5. /\ older \in SUBSET Entries
      /\ \A f \in older : \E e \in rec.todo : /\ f = [op |-> e.op, row |-> Older(e.row)]
                                              /\ f.op = e.op /\ f.row.state = e.row.state
                                              /\ f.row.started = e.row.started
  BY <1>4 DEF Entries
<1>. HIDE DEF older
<1>6. rec' \in Passes /\ rec'.todo = older /\ rec'.pc = rec.pc /\ rec'.conn = rec.conn
  BY <1>1, <1>2, <1>5 DEF Passes
<1>7. rows' \in [Ops -> Rows]
  BY <1>1, <1>3
<1>8. HostTypeOK'
  BY <1>1, <1>2, <1>6, <1>7 DEF HostTypeOK
<1>9. ReqConn' /\ Launching'
  BY <1>1, <1>3 DEF HostInv, ReqConn, Launching
<1>10. Gate'
  <2>1. rec.todo = {} => older = {}
    BY DEF older
  <2>. QED
    BY <1>1, <1>6, <2>1 DEF HostInv, Gate
<1>11. ConnectionIsStable' /\ OneMaintainer'
  BY <1>1, <1>3 DEF HostInv, ConnectionIsStable, OneMaintainer
<1>12. Todo'
  <2>1. /\ \A f, g \in older : f.op = g.op => f = g
        /\ \A f \in older : rows'[f.op].state \notin {"none", "prepared"}
    BY <1>3, <1>4, <1>5 DEF HostInv, Todo
  <2>2. ASSUME NEW f \in older
        PROVE  /\ f.row.state \in Active
               /\ rows'[f.op].state \in Active => f.row.started <= Len(ran[f.op]) + 1
               /\ rec.pc \in {"expire", "decide"} => task[f.op].pc = "off"
    <3>1. PICK e \in rec.todo : f.op = e.op /\ f.row.state = e.row.state
                                /\ f.row.started = e.row.started
      BY <1>5, <2>2
    <3>. QED
      BY <1>3, <1>4, <3>1 DEF HostInv, Todo
  <2>. QED
    BY <1>1, <1>6, <2>1, <2>2 DEF Todo
<1>13. OpsOK'
  BY <1>1, <1>3 DEF HostInv, OpsOK, UnclaimedAt, SteadyAt, TaskOK, Working, Finishing, Complete
<1>. QED
  BY <1>8, <1>9, <1>10, <1>11, <1>12, <1>13 DEF HostInv

-----------------------------------------------------------------------------
(* The theorems.                                                            *)

LEMMA InitKeeps == Init => HostInv
<1>. SUFFICES ASSUME Init PROVE HostInv
  OBVIOUS
<1>1. NoRow \in Rows /\ NoRow.state = "none" /\ NoRow.started = 0 /\ Off \in Residents /\ Off.pc = "off"
  BY DEF NoRow, Off, Rows, Residents, States, Active, Finals
<1>2. conn \in Conns
  BY DEF Init, Conns
<1>3. NoReq \in Requests /\ NoRec \in Passes
  BY HostAssumption DEF NoReq, NoRec, Requests, Passes, Conns, Entries
<1>4. HostTypeOK
  BY <1>1, <1>2, <1>3, HostAssumption DEF Init, HostTypeOK
<1>5. Gate /\ ReqConn /\ Launching /\ Todo /\ ConnectionIsStable /\ OneMaintainer
  BY <1>1 DEF Init, Gate, ReqConn, Launching, Todo, ConnectionIsStable, OneMaintainer,
              NoReq, NoRec, Active
<1>6. ASSUME NEW o \in Ops PROVE UnclaimedAt(o) /\ SteadyAt(o) /\ TaskOK(o)
  <2>1. rows[o].state = "none" /\ rows[o].started = 0 /\ task[o].pc = "off" /\ ran[o] = <<>>
    BY <1>1 DEF Init
  <2>2. Len(ran[o]) = 0 /\ <<>> = [i \in 1 .. 0 |-> i] /\ Steps[o] \in Nat
    BY <2>1, HostAssumption
  <2>. QED
    BY <2>1, <2>2 DEF UnclaimedAt, SteadyAt, TaskOK, Active
<1>. QED
  BY <1>4, <1>5, <1>6 DEF HostInv, OpsOK

LEMMA NextKeeps == HostInv /\ [Next]_vars => HostInv'
<1>. SUFFICES ASSUME HostInv, [Next]_vars PROVE HostInv'
  OBVIOUS
<1>1. CASE Request
  BY <1>1, StartKeeps, IdentityKeeps, PrepareKeeps, ClaimKeeps, LaunchKeeps, DropKeeps DEF Request
<1>2. CASE \E o \in Ops : Task(o)
  BY <1>2, BeginKeeps, CommandKeeps, OutputKeeps, OutcomeKeeps, LostKeeps, FinishKeeps DEF Task
<1>3. CASE Recover
  BY <1>3, PassStartKeeps, ListKeeps, FilterKeeps, ExpireKeeps, OverviewKeeps, DecideKeeps,
     PassEndKeeps DEF Recover
<1>4. CASE Environment
  BY <1>4, CrashKeeps, TickKeeps, HostKeeps, ConnectionKeeps, DeleteKeeps DEF Environment
<1>5. CASE UNCHANGED vars
  <2>1. UNCHANGED <<rows, conn, up, boot, req, rec, task, ran, good, passed, faults>>
    BY <1>5 DEF vars
  <2>2. HostTypeOK' /\ Gate' /\ ReqConn' /\ Launching' /\ Todo' /\ ConnectionIsStable' /\ OneMaintainer'
    BY <2>1 DEF HostInv, HostTypeOK, Gate, ReqConn, Launching, Todo, ConnectionIsStable, OneMaintainer
  <2>3. OpsOK'
    BY <2>1 DEF HostInv, OpsOK, UnclaimedAt, SteadyAt, TaskOK, Working, Finishing, Complete
  <2>. QED
    BY <2>2, <2>3 DEF HostInv
<1>. QED
  BY <1>1, <1>2, <1>3, <1>4, <1>5 DEF Next

\* The invariant from which the others follow holds of every reachable state.
THEOREM HostInvariant == Spec => []HostInv
<1>. QED
  BY InitKeeps, NextKeeps, PTL DEF Spec

\* Every variable has its type.
THEOREM HostTypes == Spec => []HostTypeOK
<1>1. HostInv => HostTypeOK
  BY DEF HostInv
<1>. QED
  BY <1>1, HostInvariant, PTL

\* At most one operation is under way, whatever its target (claim_host_operation
\* with save_host_connection).
THEOREM Exclusive == Spec => []OneMaintainer
<1>1. HostInv => OneMaintainer
  BY DEF HostInv
<1>. QED
  BY <1>1, HostInvariant, PTL

\* A command runs on a host only for an operation that is active in the journal.
THEOREM Claimed == Spec => []WorkIsClaimed
<1>1. HostInv => WorkIsClaimed
  BY DEF HostInv, OpsOK, TaskOK, Working, WorkIsClaimed
<1>. QED
  BY <1>1, HostInvariant, PTL

\* An active operation belongs to the saved connection and to its host.
THEOREM StableConnection == Spec => []ConnectionIsStable
<1>1. HostInv => ConnectionIsStable
  BY DEF HostInv
<1>. QED
  BY <1>1, HostInvariant, PTL

\* Mutation steps start in order, at most once, and never unknown to the journal.
THEOREM NoStepTwice == Spec => []StepsOnce
<1>1. HostInv => StepsOnce
  BY DEF HostInv, OpsOK, SteadyAt, StepsOnce
<1>. QED
  BY <1>1, HostInvariant, PTL

-----------------------------------------------------------------------------
(* Host administration implements HostMaintenance.                          *)

Phase(o) == IF rows[o].state \in Active THEN "working" ELSE rows[o].state

\* A step that moves no operation is a stutter of the abstract specification.
LEMMA Stutter ==
  ASSUME ran' = ran, \A o \in Ops : Phase(o)' = Phase(o)
  PROVE  UNCHANGED M!avars
  BY DEF M!avars, Phase

\* A save, by a task or by a recovery pass, leaves an operation under way or
\* ends it, with success only when every step is behind it.
LEMMA SaveMaps ==
  ASSUME HostInv, NEW o \in Ops, NEW r \in Rows, NEW told \in BOOLEAN, Save(o, r, told),
         ran' = ran, r.state \in Active \cup Finals,
         rows[o].state \in Active /\ r.state = "succeeded" => Complete(o)
  PROVE  [M!ANext]_M!avars
<1>1. HostTypeOK /\ Stamped(r).state = r.state
  BY RowFields DEF HostInv, States
<1>2. /\ \A p \in Ops \ {o} : rows'[p] = rows[p]
      /\ \/ rows'[o] = rows[o]
         \/ rows[o].state \in Active /\ rows'[o].state = r.state
  BY <1>1, SaveFacts
<1>3. CASE rows'[o] = rows[o] \/ (rows[o].state \in Active /\ rows'[o].state \in Active)
  <2>1. \A p \in Ops : Phase(p)' = Phase(p)
    BY <1>2, <1>3 DEF Phase
  <2>. QED
    BY <2>1, Stutter
<1>4. CASE rows[o].state \in Active /\ rows'[o].state = r.state /\ r.state \in Finals
  <2>1. r.state = "succeeded" => \/ Len(ran[o]) = Steps[o]
                                 \/ o \in Reboots /\ Len(ran[o]) = Steps[o] - 1
    BY <1>4 DEF Complete
  <2>2. r.state \in M!Ends /\ r.state \notin Active
    BY <1>4 DEF M!Ends, Finals, Active
  <2>3. M!AEnd(o)
    BY <1>2, <1>4, <2>1, <2>2 DEF M!AEnd
  <2>. QED
    BY <2>3 DEF M!ANext
<1>. QED
  BY <1>2, <1>3, <1>4

LEMMA InterruptMaps ==
  ASSUME HostInv, NEW e \in rec.todo, Interrupt(e), ran' = ran
  PROVE  [M!ANext]_M!avars
<1>1. e.op \in Ops /\ e.row \in Rows
  BY DEF HostInv, HostTypeOK, Passes, Entries
<1>. DEFINE r == Moved(e.row, "interrupted")
<1>2. r \in Rows /\ r.state = "interrupted"
  BY <1>1, RowFields DEF States, Finals
<1>3. \E told \in BOOLEAN : Save(e.op, r, told)
  BY DEF Interrupt
<1>. HIDE DEF r
<1>. QED
  BY <1>1, <1>2, <1>3, SaveMaps DEF Finals

LEMMA RequestMaps == ASSUME HostInv, HostInv', Request PROVE [M!ANext]_M!avars
<1>1. CASE (\E o \in Ops : ReqStart(o)) \/ ReqIdentity \/ ReqLaunch \/ ReqDrop
  <2>1. ran' = ran /\ rows' = rows
    BY <1>1 DEF ReqStart, ReqIdentity, ReqLaunch, ReqDrop, history
  <2>. QED
    BY <2>1, Stutter DEF Phase
<1>2. CASE ReqPrepare
  <2>1. PICK o \in Ops : o = req.op /\ rows[o].state = "none" /\ HostTypeOK
    BY <1>2 DEF ReqPrepare, HostInv, ReqConn, Launching
  <2>2. /\ rows'[o].state = "prepared" /\ \A p \in Ops \ {o} : rows'[p] = rows[p]
        /\ ran' = ran
    BY <1>2, <2>1 DEF ReqPrepare, history, HostTypeOK
  <2>3. M!APrepare(o)
    BY <2>1, <2>2 DEF M!APrepare, Active
  <2>. QED
    BY <2>1, <2>3 DEF M!ANext
<1>3. CASE ReqClaim /\ ~Claimable(req.op)
  <2>1. ran' = ran /\ rows' = rows
    BY <1>3 DEF ReqClaim, history
  <2>. QED
    BY <2>1, Stutter DEF Phase
<1>4. CASE ReqClaim /\ Claimable(req.op)
  <2>1. PICK o \in Ops : o = req.op /\ rows[o].state = "prepared" /\ HostTypeOK
    BY <1>4 DEF ReqClaim, Claimable, HostInv, ReqConn
  <2>2. /\ rows' = [rows EXCEPT ![o] = Stamped(Moved(@, "running"))] /\ ran' = ran
    BY <1>4, <2>1 DEF ReqClaim, history
  <2>3. Moved(rows[o], "running") \in Rows /\ Moved(rows[o], "running").state = "running"
    BY <2>1, RowFields DEF HostTypeOK, States, Active
  <2>4. Stamped(Moved(rows[o], "running")).state = "running"
    BY <2>3, RowFields DEF States
  <2>5. rows'[o].state = "running" /\ \A p \in Ops \ {o} : rows'[p] = rows[p]
    BY <2>1, <2>2, <2>4 DEF HostTypeOK
  <2>6. \A p \in Ops : rows[p].state \notin Active
    <3>1. \A p \in Ops \ {o} : rows'[p].state \notin Active
      BY <2>1, <2>5 DEF HostInv, OneMaintainer, Active
    <3>. QED
      BY <2>1, <2>5, <3>1 DEF Active
  <2>7. \A p \in Ops : rows[p].state # "working"
    BY <2>1 DEF HostTypeOK, Rows, States, Active, Finals
  <2>8. M!AClaim(o)
    <3>1. /\ Phase(o) = "prepared" /\ Phase(o)' = "working"
          /\ \A p \in Ops : Phase(p) # "working"
          /\ \A p \in Ops \ {o} : Phase(p)' = Phase(p)
      BY <2>1, <2>5, <2>6, <2>7 DEF Phase, Active
    <3>. QED
      BY <2>2, <3>1 DEF M!AClaim, Phase
  <2>. QED
    BY <2>1, <2>8 DEF M!ANext
<1>. QED
  BY <1>1, <1>2, <1>3, <1>4 DEF Request

LEMMA TaskMaps == ASSUME HostInv, NEW o \in Ops, Task(o) PROVE [M!ANext]_M!avars
<1>. DEFINE t == task[o]
<1>1. t.pc # "off"
  BY DEF Task, TaskBegin, TaskCommand, TaskOutput, TaskOutcome, TaskLost, TaskFinish
<1>2. t.row \in Rows /\ t.row.state \in Active /\ t.index \in Nat /\ t.check \in BOOLEAN
  BY <1>1, Resident
<1>3. CASE TaskBegin(o)
  <2>. DEFINE r == IF t.check THEN t.row ELSE [t.row EXCEPT !.started = t.index]
  <2>1. r \in Rows /\ r.state = t.row.state
    BY <1>2, StepFields
  <2>2. (\E told \in BOOLEAN : Save(o, r, told)) /\ ran' = ran
    BY <1>3 DEF TaskBegin, TaskSave, history
  <2>. HIDE DEF r
  <2>. QED
    BY <1>2, <2>1, <2>2, SaveMaps DEF Active
<1>4. CASE TaskOutput(o)
  <2>2. (\E told \in BOOLEAN : Save(o, t.row, told)) /\ ran' = ran
    BY <1>4 DEF TaskOutput, TaskSave, history
  <2>. QED
    BY <1>2, <2>2, SaveMaps DEF Active
<1>5. CASE TaskOutcome(o)
  <2>. DEFINE r == [t.row EXCEPT !.outs = @ + 1]
  <2>1. r \in Rows /\ r.state = t.row.state
    BY <1>2, StepFields
  <2>2. (\E told \in BOOLEAN : Save(o, r, told)) /\ ran' = ran
    BY <1>5 DEF TaskOutcome, TaskSave
  <2>. HIDE DEF r
  <2>. QED
    BY <1>2, <2>1, <2>2, SaveMaps DEF Active
<1>6. CASE TaskFinish(o)
  <2>. DEFINE r == Moved(t.row, t.end)
  <2>1. t.end \in {"awaiting"} \cup Finals
        /\ (rows[o].state \in Active /\ t.end = "succeeded" => Complete(o))
    BY <1>1, <1>6, Resident DEF TaskFinish, TaskOK, Finishing
  <2>2. r \in Rows /\ r.state = t.end
    BY <1>2, <2>1, RowFields DEF States, Active
  <2>3. (\E told \in BOOLEAN : Save(o, r, told)) /\ ran' = ran
    BY <1>6 DEF TaskFinish, TaskSave, history
  <2>. HIDE DEF r
  <2>. QED
    BY <2>1, <2>2, <2>3, SaveMaps DEF Active
<1>7. CASE TaskLost(o)
  <2>1. ran' = ran /\ rows' = rows
    BY <1>7 DEF TaskLost, history
  <2>. QED
    BY <2>1, Stutter DEF Phase
<1>8. CASE TaskCommand(o) /\ (t.check \/ ~up[t.host])
  <2>1. ran' = ran /\ rows' = rows
    BY <1>8 DEF TaskCommand
  <2>. QED
    BY <2>1, Stutter DEF Phase
<1>9. CASE TaskCommand(o) /\ ~t.check /\ up[t.host]
  <2>1. /\ rows[o].state \in Active /\ Len(ran[o]) = t.index - 1 /\ t.index \in 1 .. Steps[o]
        /\ Len(ran[o]) \in Nat /\ Steps[o] \in Nat
    BY <1>1, <1>9, Resident DEF TaskCommand, TaskOK, Working
  <2>2. Len(ran[o]) < Steps[o] /\ t.index = Len(ran[o]) + 1
    BY <1>2, <2>1
  <2>3. ran' = [ran EXCEPT ![o] = Append(@, Len(@) + 1)] /\ rows' = rows
    BY <1>9, <2>2 DEF TaskCommand
  <2>4. M!AStep(o)
    BY <2>1, <2>2, <2>3 DEF M!AStep
  <2>. QED
    BY <2>4 DEF M!ANext
<1>. QED
  BY <1>3, <1>4, <1>5, <1>6, <1>7, <1>8, <1>9 DEF Task

LEMMA RecoverMaps == ASSUME HostInv, Recover PROVE [M!ANext]_M!avars
<1>1. ran' = ran
  BY DEF Recover, RecStart, RecList, RecFilter, RecExpire, RecOverview, RecDecide, RecEnd, history
<1>2. rows' = rows \/ \E e \in rec.todo : Interrupt(e)
  BY DEF Recover, RecStart, RecList, RecFilter, RecExpire, RecOverview, RecDecide, RecEnd
<1>3. CASE rows' = rows
  BY <1>1, <1>3, Stutter DEF Phase
<1>. QED
  BY <1>1, <1>2, <1>3, InterruptMaps

LEMMA EnvironmentMaps == ASSUME HostInv, Environment PROVE [M!ANext]_M!avars
<1>1. CASE Tick
  <2>1. /\ rows' = [o \in Ops |-> IF rows[o].state \in Active THEN Older(rows[o]) ELSE rows[o]]
        /\ ran' = ran /\ HostTypeOK
    BY <1>1 DEF Tick, history, HostInv
  <2>2. \A o \in Ops : rows'[o].state = rows[o].state
    BY <2>1, OlderFields DEF HostTypeOK
  <2>. QED
    BY <2>1, <2>2, Stutter DEF Phase
<1>2. CASE \E o \in Ops : DeleteSession(o)
  <2>1. PICK o \in Ops : DeleteSession(o)
    BY <1>2
  <2>2. /\ rows[o].state \in Finals \cup {"prepared"} /\ HostTypeOK
        /\ rows'[o].state = "gone" /\ \A p \in Ops \ {o} : rows'[p] = rows[p]
        /\ ran' = [ran EXCEPT ![o] = <<>>]
    BY <2>1 DEF DeleteSession, NoRow, HostInv, HostTypeOK
  <2>3. M!ADelete(o)
    BY <2>2 DEF M!ADelete, M!Ends, Finals, Active
  <2>. QED
    BY <2>3 DEF M!ANext
<1>3. CASE \/ BridgeCrash \/ (\E h \in Hosts : HostDown(h) \/ HostUp(h))
           \/ (\E h \in Hosts \cup {NoHost} : SaveConnection(h))
  <2>1. ran' = ran /\ rows' = rows
    BY <1>3 DEF BridgeCrash, HostDown, HostUp, SaveConnection, history
  <2>. QED
    BY <2>1, Stutter DEF Phase
<1>. QED
  BY <1>1, <1>2, <1>3 DEF Environment

\* Whatever crashes, lost replies, outages and recoveries happen in between,
\* every step is one the abstract specification allows, or leaves it as it is.
THEOREM Implements == Spec => Maintained
<1>1. Init => M!AInit
  BY DEF Init, NoRow, M!AInit, Active
<1>2. HostInv /\ HostInv' /\ [Next]_vars => [M!ANext]_M!avars
  <2>. SUFFICES ASSUME HostInv, HostInv', [Next]_vars PROVE [M!ANext]_M!avars
    OBVIOUS
  <2>1. CASE UNCHANGED vars
    <3>1. ran' = ran /\ rows' = rows
      BY <2>1 DEF vars
    <3>. QED
      BY <3>1, Stutter DEF Phase
  <2>. QED
    BY <2>1, RequestMaps, TaskMaps, RecoverMaps, EnvironmentMaps DEF Next
<1>. QED
  BY <1>1, <1>2, HostInvariant, PTL DEF Spec, Maintained, M!ASpec
=============================================================================
