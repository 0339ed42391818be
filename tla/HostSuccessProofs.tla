------------------------- MODULE HostSuccessProofs -------------------------
(***************************************************************************)
(* Proof that no operation of HostOperations ends with a success it did not *)
(* earn, for any operations, hosts, plans and bounds.                        *)
(***************************************************************************)
EXTENDS HostOperationsProofs

-----------------------------------------------------------------------------
(* The inductive invariant, on top of HostInv.                              *)

\* Boot identities grow: what was observed of a machine is not newer than it is,
\* and a pass asked the machine after the entries were written.
EntryBoots(e) == /\ e.row.boot <= boot[Target[e.op]]
                 /\ rec.pc = "decide" /\ Target[e.op] = rec.conn.host => e.row.boot <= rec.boot

BootsGrow == /\ \A o \in Ops : rows[o].boot <= boot[Target[o]]
             /\ req.pc = "prepare" => req.boot <= boot[Target[req.op]]
             /\ rec.pc = "decide" => rec.boot <= boot[rec.conn.host]
             /\ \A e \in rec.todo : EntryBoots(e)

\* The steps before step n reported success.
Behind(o, n) == 1 .. (n - 1) \subseteq good[o]

\* What the task of an active operation has behind it.
TaskEarned(o) ==
  LET t == task[o]
  IN  /\ Behind(o, t.row.started)
      /\ t.pc # "finish" /\ ~t.check => Behind(o, t.index)
      /\ t.pc # "finish" /\ t.check =>
           /\ o \notin Reboots => Steps[o] \in good[o]
           /\ o \in Reboots => t.row.boot < boot[t.host]
           /\ 1 .. (t.index - 1) \subseteq passed[o]
      /\ t.pc = "finish" /\ t.end = "succeeded" =>
           /\ t.row.started = Steps[o]
           /\ o \notin Reboots => Steps[o] \in good[o]
           /\ 1 .. Checks[o] \subseteq passed[o]

\* A task works on a host, at a verification its plan has.
InPlan(o) == LET t == task[o]
             IN  t.pc # "off" =>
                   /\ t.host \in Hosts
                   /\ t.pc # "finish" /\ t.check => t.index \in 1 .. Checks[o]

\* What an operation that succeeded has behind it.
SuccessAt(o) == rows[o].state = "succeeded" =>
                  /\ Behind(o, Steps[o])
                  /\ o \notin Reboots => Steps[o] \in good[o]
                  /\ passed[o] = 1 .. Checks[o]

EarnedAt(o) == /\ passed[o] \subseteq 1 .. Checks[o]
               /\ InPlan(o)
               /\ rows[o].state \in Active => Behind(o, rows[o].started)
               /\ rows[o].state \in Active /\ task[o].pc # "off" => TaskEarned(o)
               /\ SuccessAt(o)

EntriesEarned == \A e \in rec.todo :
                   rows[e.op].state \in Active => Behind(e.op, e.row.started)

Earned == BootsGrow /\ EntriesEarned /\ \A o \in Ops : EarnedAt(o)

-----------------------------------------------------------------------------
(* Facts used by several steps.                                             *)

\* The boot identity of a row is never rewritten.
LEMMA BootFields ==
  ASSUME NEW r \in Rows, NEW s \in States, NEW n \in Nat
  PROVE  /\ Moved(r, s).boot = r.boot /\ Stamped(r).boot = r.boot /\ Older(r).boot = r.boot
         /\ [r EXCEPT !.started = n].boot = r.boot /\ [r EXCEPT !.outs = @ + 1].boot = r.boot
  BY DEF Rows, Moved, Stamped, Older

LEMMA SaveBoot ==
  ASSUME HostTypeOK, NEW o \in Ops, NEW r \in Rows, NEW told \in BOOLEAN, Save(o, r, told)
  PROVE  rows'[o].boot = rows[o].boot
<1>1. Stamped(r).boot = r.boot
  BY BootFields DEF States
<1>. QED
  BY <1>1 DEF Save, Accepts, HostTypeOK

\* Nothing comes before the first step.
LEMMA Nothing == ASSUME NEW o PROVE Behind(o, 0) /\ Behind(o, 1) /\ 1 .. 0 = {}
  BY DEF Behind

\* The kinds of task.
LEMMA Kinds ==
  ASSUME NEW h, NEW r, NEW c, NEW n, NEW s
  PROVE  /\ Work(h, r, c, n).pc = "begin" /\ Work(h, r, c, n).check = c
         /\ Work(h, r, c, n).index = n /\ Work(h, r, c, n).host = h
         /\ Work(h, r, c, n).row = r
         /\ Ending(h, r, s).pc = "finish" /\ Ending(h, r, s).end = s
         /\ Ending(h, r, s).host = h /\ Ending(h, r, s).row = r
         /\ Off.pc = "off"
  BY DEF Work, Ending, Off

\* An operation whose row was at most moved away from success keeps what it earned.
LEMMA Untouched ==
  ASSUME HostInv, HostTypeOK', NEW o \in Ops, EarnedAt(o),
         task'[o] = task[o], good'[o] = good[o], passed'[o] = passed[o],
         \A h \in Hosts : boot[h] <= boot'[h],
         rows'[o].state \in Active =>
           rows[o].state \in Active /\ rows'[o].started = rows[o].started,
         rows'[o].state = "succeeded" => rows[o].state = "succeeded"
  PROVE  EarnedAt(o)'
<1>1. passed'[o] \subseteq 1 .. Checks[o] /\ InPlan(o)' /\ SuccessAt(o)'
  BY DEF EarnedAt, InPlan, SuccessAt, Behind
<1>2. rows'[o].state \in Active => Behind(o, rows[o].started)'
  BY DEF EarnedAt, Behind
<1>3. ASSUME rows'[o].state \in Active, task'[o].pc # "off" PROVE TaskEarned(o)'
  <2>1. TaskEarned(o) /\ task[o].host \in Hosts
    BY <1>3 DEF EarnedAt, InPlan
  <2>2. task[o].row.boot \in Nat /\ boot[task[o].host] \in Nat /\ boot'[task[o].host] \in Nat
    BY <2>1 DEF HostInv, HostTypeOK, Residents, Rows
  <2>3. task[o].row.boot < boot[task[o].host] => task[o].row.boot < boot'[task[o].host]
    BY <2>1, <2>2
  <2>. QED
    BY <2>1, <2>3 DEF TaskEarned, Behind
<1>. QED
  BY <1>1, <1>2, <1>3 DEF EarnedAt

\* A step of one operation that activates nothing and forgets no success.
LEMMA OneEarned ==
  ASSUME HostInv, HostTypeOK', Earned, NEW o \in Ops, UNCHANGED <<boot, req, rec>>,
         \A p \in Ops \ {o} : /\ rows'[p] = rows[p] /\ task'[p] = task[p]
                              /\ good'[p] = good[p] /\ passed'[p] = passed[p],
         rows'[o].boot = rows[o].boot,
         rows'[o].state \in Active => rows[o].state \in Active,
         good[o] \subseteq good'[o], EarnedAt(o)'
  PROVE  Earned'
<1>1. BootsGrow'
  BY DEF Earned, BootsGrow, EntryBoots
<1>2. EntriesEarned'
  BY DEF Earned, EntriesEarned, Behind, HostInv, HostTypeOK, Passes, Entries
<1>3. ASSUME NEW p \in Ops, p # o PROVE EarnedAt(p)'
  <2>1. \A h \in Hosts : boot[h] <= boot'[h]
    BY DEF HostInv, HostTypeOK
  <2>. QED
    BY <1>3, <2>1, Untouched DEF Earned
<1>. QED
  BY <1>1, <1>2, <1>3 DEF Earned

\* A save by a task.
LEMMA SaveEarned ==
  ASSUME HostInv, HostTypeOK', Earned, NEW o \in Ops, NEW r \in Rows, NEW a, NEW b,
         TaskSave(o, r, a, b), UNCHANGED <<boot, req, rec>>, good[o] \subseteq good'[o],
         \A p \in Ops \ {o} : good'[p] = good[p] /\ passed'[p] = passed[p]
  PROVE  /\ EarnedAt(o)' => Earned'
         /\ \/ rows[o].state \in Active /\ rows'[o] = Stamped(r) /\ task'[o] \in {a, b}
            \/ rows'[o] = rows[o] /\ task'[o] = b
         /\ Stamped(r).state = r.state /\ Stamped(r).started = r.started
<1>1. PICK told \in BOOLEAN : /\ Save(o, r, told)
                             /\ task' = [task EXCEPT ![o] = IF told THEN a ELSE b]
  BY DEF TaskSave
<1>2. HostTypeOK
  BY DEF HostInv
<1>3. /\ \A p \in Ops \ {o} : rows'[p] = rows[p]
      /\ \/ rows'[o] = rows[o] /\ ~told
         \/ rows[o].state \in Active /\ rows'[o] = Stamped(r)
  BY <1>1, <1>2, SaveFacts
<1>4. rows'[o].boot = rows[o].boot
  BY <1>1, <1>2, SaveBoot
<1>5. /\ task'[o] = IF told THEN a ELSE b
      /\ \A p \in Ops \ {o} : task'[p] = task[p]
  BY <1>1, <1>2 DEF HostTypeOK
<1>6. Stamped(r).state = r.state /\ Stamped(r).started = r.started
  BY RowFields DEF States
<1>7. rows'[o].state \in Active => rows[o].state \in Active
  BY <1>3
<1>8. EarnedAt(o)' => Earned'
  BY <1>2, <1>3, <1>4, <1>5, <1>7, OneEarned
<1>. QED
  BY <1>3, <1>5, <1>6, <1>8

\* A task that is to end without success.
LEMMA EndEarned ==
  ASSUME NEW o \in Ops, NEW h \in Hosts, NEW r, NEW s, s # "succeeded",
         task'[o] = Ending(h, r, s)
  PROVE  InPlan(o)' /\ (1 .. (r.started - 1) \subseteq good'[o] => TaskEarned(o)')
  BY DEF InPlan, TaskEarned, Ending, Behind

\* A task that goes on to verification i, or to success after the last one.
LEMMA VerifyEarned ==
  ASSUME NEW o \in Ops, NEW h \in Hosts, NEW r \in Rows, NEW i \in Nat \ {0},
         task'[o] = Verify(o, h, r, i),
         r.started = Steps[o], 1 .. (Steps[o] - 1) \subseteq good'[o],
         o \notin Reboots => Steps[o] \in good'[o],
         o \in Reboots => r.boot < boot'[h],
         1 .. (i - 1) \subseteq passed'[o]
  PROVE  InPlan(o)' /\ TaskEarned(o)'
<1>1. Checks[o] \in Nat
  BY HostAssumption
<1>2. CASE i <= Checks[o]
  <2>1. task'[o] = Work(h, r, TRUE, i)
    BY <1>2 DEF Verify
  <2>2. i \in 1 .. Checks[o]
    BY <1>1, <1>2
  <2>. QED
    BY <2>1, <2>2 DEF InPlan, TaskEarned, Work, Behind
<1>3. CASE ~(i <= Checks[o])
  <2>1. /\ task'[o].pc = "finish" /\ task'[o].end = "succeeded"
        /\ task'[o].host = h /\ task'[o].row = r
    BY <1>3, Kinds DEF Verify
  <2>2. 1 .. Checks[o] \subseteq passed'[o]
    BY <1>1, <1>3
  <2>. QED
    BY <2>1, <2>2 DEF InPlan, TaskEarned, Behind
<1>. QED
  BY <1>2, <1>3
-----------------------------------------------------------------------------
(* The steps of a task.                                                     *)

\* What the invariants say of a task that is not off, in one place.
LEMMA Earning ==
  ASSUME HostInv, Earned, NEW o \in Ops, task[o].pc # "off"
  PROVE  /\ task[o] \in Residents /\ task[o].row \in Rows /\ task[o].row.state \in Active
         /\ task[o].host \in Hosts /\ task[o].index \in Nat /\ task[o].check \in BOOLEAN
         /\ EarnedAt(o) /\ InPlan(o) /\ SuccessAt(o) /\ passed[o] \subseteq 1 .. Checks[o]
         /\ rows[o].state \in Active => TaskEarned(o)
  BY Resident DEF Earned, EarnedAt, InPlan

LEMMA BeginEarned ==
  ASSUME HostInv, HostTypeOK', Earned, NEW o \in Ops, TaskBegin(o) PROVE Earned'
<1>. DEFINE t == task[o]
            r == IF t.check THEN t.row ELSE [t.row EXCEPT !.started = t.index]
            ready == [pc |-> "ready", check |-> t.check, index |-> t.index,
                      end |-> "none", host |-> t.host, row |-> r]
            failed == Ending(t.host, r, "failed")
<1>1. t.pc = "begin" /\ t.pc # "off"
  BY DEF TaskBegin
<1>2. /\ t.row \in Rows /\ t.row.state \in Active /\ t.host \in Hosts /\ t.index \in Nat
      /\ t.check \in BOOLEAN /\ InPlan(o) /\ SuccessAt(o) /\ passed[o] \subseteq 1 .. Checks[o]
      /\ rows[o].state \in Active => TaskEarned(o)
      /\ EarnedAt(o)
  BY <1>1, Earning
<1>3. /\ r \in Rows /\ r.state = t.row.state /\ r.boot = t.row.boot
      /\ t.check => r.started = t.row.started
      /\ ~t.check => r.started = t.index
  <2>1. CASE t.check
    BY <1>2, <2>1
  <2>2. CASE ~t.check
    BY <1>2, <2>2, StepFields, BootFields DEF States
  <2>. QED
    BY <2>1, <2>2
<1>4. /\ TaskSave(o, r, ready, failed)
      /\ UNCHANGED <<boot, req, rec, good, passed>>
  BY DEF TaskBegin, hostVars, history
<1>5. /\ ready.pc = "ready" /\ ready.check = t.check /\ ready.index = t.index
      /\ ready.host = t.host /\ ready.row = r
  OBVIOUS
<1>. HIDE DEF r, ready
<1>6. /\ EarnedAt(o)' => Earned'
      /\ \/ rows[o].state \in Active /\ rows'[o] = Stamped(r) /\ task'[o] \in {ready, failed}
         \/ rows'[o] = rows[o] /\ task'[o] = failed
      /\ Stamped(r).state = r.state /\ Stamped(r).started = r.started
  BY <1>3, <1>4, SaveEarned
<1>7. rows[o].state \in Active => 1 .. (r.started - 1) \subseteq good'[o]
  BY <1>1, <1>2, <1>3, <1>4 DEF TaskEarned, Behind
<1>8. InPlan(o)' /\ (rows[o].state \in Active => TaskEarned(o)')
  <2>1. CASE task'[o] = failed
    BY <1>2, <1>7, <2>1, EndEarned
  <2>2. CASE task'[o] = ready
    BY <1>1, <1>2, <1>3, <1>4, <1>5, <1>7, <2>2 DEF InPlan, TaskEarned, Behind
  <2>. QED
    BY <1>6, <2>1, <2>2
<1>9. SuccessAt(o)' /\ (rows'[o].state \in Active => Behind(o, rows[o].started)')
  <2>1. CASE rows'[o] = rows[o]
    BY <1>2, <1>4, <2>1 DEF SuccessAt, Behind, EarnedAt
  <2>2. CASE rows[o].state \in Active /\ rows'[o] = Stamped(r)
    BY <1>2, <1>3, <1>6, <1>7, <2>2 DEF SuccessAt, Behind, Active
  <2>. QED
    BY <1>6, <2>1, <2>2
<1>10. rows'[o].state \in Active => rows[o].state \in Active
  BY <1>6
<1>. QED
  BY <1>2, <1>4, <1>6, <1>8, <1>9, <1>10 DEF EarnedAt

\* A task whose row and history stay fails, or goes on with the same step.
LEMMA SameEarned ==
  ASSUME HostInv, HostTypeOK', Earned, NEW o \in Ops, task[o].pc \in {"ready", "busy"},
         UNCHANGED <<rows, boot, req, rec, good, passed>>,
         \A p \in Ops \ {o} : task'[p] = task[p],
         task'[o] \in {[task[o] EXCEPT !.pc = "busy"],
                       Ending(task[o].host, task[o].row, "failed")}
  PROVE  Earned'
<1>. DEFINE t == task[o]
<1>1. /\ t \in Residents /\ t.host \in Hosts /\ EarnedAt(o) /\ InPlan(o)
      /\ rows[o].state \in Active => TaskEarned(o)
  BY Earning
<1>2. InPlan(o)' /\ (rows[o].state \in Active => TaskEarned(o)')
  <2>1. CASE task'[o] = Ending(t.host, t.row, "failed")
    <3>1. rows[o].state \in Active => Behind(o, t.row.started)
      BY <1>1 DEF TaskEarned
    <3>2. rows[o].state \in Active => 1 .. (t.row.started - 1) \subseteq good'[o]
      BY <3>1 DEF Behind
    <3>. QED
      BY <1>1, <2>1, <3>2, EndEarned
  <2>2. CASE task'[o] = [t EXCEPT !.pc = "busy"]
    <3>1. /\ task'[o].pc = "busy" /\ task'[o].check = t.check /\ task'[o].index = t.index
          /\ task'[o].host = t.host /\ task'[o].row = t.row
      BY <1>1, <2>2 DEF Residents
    <3>. QED
      BY <1>1, <3>1 DEF InPlan, TaskEarned, Behind
  <2>. QED
    BY <2>1, <2>2
<1>3. EarnedAt(o)'
  BY <1>1, <1>2 DEF EarnedAt, SuccessAt, Behind
<1>. QED
  BY <1>3, OneEarned

LEMMA CommandEarned ==
  ASSUME HostInv, HostTypeOK', Earned, NEW o \in Ops, TaskCommand(o) \/ TaskLost(o) PROVE Earned'
<1>1. task[o].pc \in {"ready", "busy"} /\ task \in [Ops -> Residents]
  BY DEF TaskCommand, TaskLost, HostInv, HostTypeOK
<1>2. UNCHANGED <<rows, boot, req, rec, good, passed>>
  BY DEF TaskCommand, TaskLost, hostVars, history
<1>3. task' \in {[task EXCEPT ![o] = [@ EXCEPT !.pc = "busy"]],
                 [task EXCEPT ![o] = Ending(@.host, @.row, "failed")]}
  BY DEF TaskCommand, TaskLost
<1>4. /\ \A p \in Ops \ {o} : task'[p] = task[p]
      /\ task'[o] \in {[task[o] EXCEPT !.pc = "busy"],
                       Ending(task[o].host, task[o].row, "failed")}
  BY <1>1, <1>3
<1>. QED
  BY <1>1, <1>2, <1>4, SameEarned

LEMMA OutputEarned ==
  ASSUME HostInv, HostTypeOK', Earned, NEW o \in Ops, TaskOutput(o) PROVE Earned'
<1>. DEFINE t == task[o]
            failed == Ending(t.host, t.row, "failed")
<1>1. t.pc = "busy" /\ t.pc # "off"
  BY DEF TaskOutput
<1>2. /\ t.row \in Rows /\ t.row.state \in Active /\ t.host \in Hosts
      /\ EarnedAt(o) /\ InPlan(o) /\ SuccessAt(o)
      /\ rows[o].state \in Active => TaskEarned(o)
  BY <1>1, Earning
<1>3. TaskSave(o, t.row, t, failed) /\ UNCHANGED <<boot, req, rec, good, passed>>
  BY DEF TaskOutput, hostVars, history
<1>4. /\ EarnedAt(o)' => Earned'
      /\ \/ rows[o].state \in Active /\ rows'[o] = Stamped(t.row) /\ task'[o] \in {t, failed}
         \/ rows'[o] = rows[o] /\ task'[o] = failed
      /\ Stamped(t.row).state = t.row.state /\ Stamped(t.row).started = t.row.started
  BY <1>2, <1>3, SaveEarned
<1>5. rows[o].state \in Active => 1 .. (t.row.started - 1) \subseteq good'[o]
  BY <1>2, <1>3 DEF TaskEarned, Behind
<1>6. InPlan(o)' /\ (rows[o].state \in Active => TaskEarned(o)')
  <2>1. CASE task'[o] = failed
    BY <1>2, <1>5, <2>1, EndEarned
  <2>2. CASE task'[o] = t
    BY <1>2, <1>3, <2>2 DEF InPlan, TaskEarned, Behind
  <2>. QED
    BY <1>4, <2>1, <2>2
<1>7. SuccessAt(o)' /\ (rows'[o].state \in Active => Behind(o, rows[o].started)')
  <2>1. CASE rows'[o] = rows[o]
    BY <1>2, <1>3, <2>1 DEF SuccessAt, Behind, EarnedAt
  <2>2. CASE rows[o].state \in Active /\ rows'[o] = Stamped(t.row)
    BY <1>2, <1>4, <1>5, <2>2 DEF SuccessAt, Behind, Active
  <2>. QED
    BY <1>4, <2>1, <2>2
<1>8. rows'[o].state \in Active => rows[o].state \in Active
  BY <1>4
<1>. QED
  BY <1>2, <1>3, <1>4, <1>6, <1>7, <1>8 DEF EarnedAt

\* What a task goes on with, by how its command ended.
LEMMA AfterCases ==
  ASSUME NEW o \in Ops, NEW t \in Residents, NEW r, NEW how
  PROVE  LET a == After(o, t, r, how)
         IN  \/ a = Ending(t.host, r, "failed")
             \/ a = Ending(t.host, r, "awaiting")
             \/ how = "ok" /\ t.check /\ a = Verify(o, t.host, r, t.index + 1)
             \/ /\ how = "ok" /\ ~t.check /\ t.index < Steps[o]
                /\ a = Work(t.host, r, FALSE, t.index + 1)
             \/ /\ how = "ok" /\ ~t.check /\ ~(t.index < Steps[o])
                /\ ~(t.index = Steps[o] /\ o \in Reboots)
                /\ a = Verify(o, t.host, r, 1)
<1>1. CASE how = "ok" /\ t.check
  BY <1>1 DEF After
<1>2. CASE how = "ok" /\ ~t.check
  BY <1>2 DEF After
<1>3. CASE how # "ok"
  BY <1>3 DEF After
<1>. QED
  BY <1>1, <1>2, <1>3

\* An outcome is a success of its step, or a verification that counts: the task of
\* a plan that reboots verifies only after the machine's boot identity has changed.
LEMMA OutcomeEarned ==
  ASSUME HostInv, HostTypeOK', Earned, NEW o \in Ops, TaskOutcome(o) PROVE Earned'
<1>. DEFINE t == task[o]
            r == [t.row EXCEPT !.outs = @ + 1]
<1>1. t.pc = "busy" /\ t.pc # "off"
  BY DEF TaskOutcome
<1>2. /\ t \in Residents /\ t.row \in Rows /\ t.row.state \in Active /\ t.host \in Hosts
      /\ t.index \in Nat /\ t.check \in BOOLEAN /\ rows[o].state \in Active
      /\ EarnedAt(o) /\ InPlan(o) /\ passed[o] \subseteq 1 .. Checks[o]
      /\ TaskEarned(o) /\ Steps[o] \in Nat /\ Checks[o] \in Nat
  BY <1>1, Earning, Resident, HostAssumption DEF TaskOK, Working
<1>3. /\ ~t.check => t.index \in 1 .. Steps[o] /\ t.row.started = t.index
      /\ t.check => t.row.started = Steps[o] /\ t.index \in 1 .. Checks[o]
  BY <1>1, <1>2, Resident DEF TaskOK, Working, InPlan
<1>4. /\ r \in Rows /\ r.state = t.row.state /\ r.started = t.row.started /\ r.boot = t.row.boot
  BY <1>2, StepFields, BootFields DEF States
<1>5. PICK how \in {"ok", "bad", "cut"} :
        /\ TaskSave(o, r, After(o, t, r, how), Off)
        /\ good' = IF how = "ok" /\ ~t.check THEN [good EXCEPT ![o] = @ \cup {t.index}] ELSE good
        /\ passed' = IF /\ how = "ok" /\ t.check
                        /\ o \in Reboots => boot[t.host] # t.row.boot
                     THEN [passed EXCEPT ![o] = @ \cup {t.index}] ELSE passed
  BY DEF TaskOutcome
<1>. DEFINE a == After(o, t, r, how)
<1>6. UNCHANGED <<boot, req, rec>>
  BY DEF TaskOutcome, hostVars
<1>7. good \in [Ops -> SUBSET Nat] /\ passed \in [Ops -> SUBSET Nat]
  BY DEF HostInv, HostTypeOK
<1>8. /\ good'[o] = IF how = "ok" /\ ~t.check THEN good[o] \cup {t.index} ELSE good[o]
      /\ \A p \in Ops \ {o} : good'[p] = good[p]
  BY <1>5, <1>7
<1>9. /\ passed'[o] = IF /\ how = "ok" /\ t.check
                         /\ o \in Reboots => boot[t.host] # t.row.boot
                      THEN passed[o] \cup {t.index} ELSE passed[o]
      /\ \A p \in Ops \ {o} : passed'[p] = passed[p]
  BY <1>5, <1>7
<1>10. TaskSave(o, r, a, Off)
  BY <1>5
<1>11. \/ a = Ending(t.host, r, "failed")
       \/ a = Ending(t.host, r, "awaiting")
       \/ how = "ok" /\ t.check /\ a = Verify(o, t.host, r, t.index + 1)
       \/ /\ how = "ok" /\ ~t.check /\ t.index < Steps[o]
          /\ a = Work(t.host, r, FALSE, t.index + 1)
       \/ /\ how = "ok" /\ ~t.check /\ ~(t.index < Steps[o])
          /\ ~(t.index = Steps[o] /\ o \in Reboots)
          /\ a = Verify(o, t.host, r, 1)
  BY <1>2, AfterCases
<1>. HIDE DEF r, a
<1>12. good[o] \subseteq good'[o]
  BY <1>8
<1>13. /\ EarnedAt(o)' => Earned'
       /\ \/ rows'[o] = Stamped(r) /\ task'[o] \in {a, Off}
          \/ rows'[o] = rows[o] /\ task'[o] = Off
       /\ Stamped(r).state = r.state /\ Stamped(r).started = r.started
  BY <1>4, <1>6, <1>8, <1>9, <1>10, <1>12, SaveEarned
<1>14. 1 .. (r.started - 1) \subseteq good'[o]
  BY <1>2, <1>4, <1>12 DEF TaskEarned, Behind
<1>15. passed'[o] \subseteq 1 .. Checks[o]
  BY <1>2, <1>3, <1>9
<1>16. InPlan(o)' /\ (task'[o].pc # "off" => TaskEarned(o)')
  <2>1. CASE task'[o] = Off
    BY <2>1, Kinds DEF InPlan
  <2>2. CASE task'[o] = a /\ (\/ a = Ending(t.host, r, "failed")
                              \/ a = Ending(t.host, r, "awaiting"))
    BY <1>2, <1>14, <2>2, EndEarned
  <2>3. CASE task'[o] = a /\ how = "ok" /\ t.check /\ a = Verify(o, t.host, r, t.index + 1)
    <3>1. boot[t.host] \in Nat /\ t.row.boot \in Nat
      BY <1>2 DEF HostInv, HostTypeOK, Rows
    <3>2. /\ o \notin Reboots => Steps[o] \in good[o]
          /\ o \in Reboots => t.row.boot < boot[t.host]
          /\ 1 .. (t.index - 1) \subseteq passed[o]
      BY <1>1, <1>2, <2>3 DEF TaskEarned
    <3>3. passed'[o] = passed[o] \cup {t.index}
      BY <1>9, <2>3, <3>1, <3>2
    <3>4. 1 .. ((t.index + 1) - 1) \subseteq passed'[o] /\ t.index + 1 \in Nat \ {0}
      BY <1>2, <3>2, <3>3
    <3>. QED
      BY <1>2, <1>3, <1>4, <1>6, <1>12, <1>14, <2>3, <3>2, <3>4, VerifyEarned
  <2>4. CASE /\ task'[o] = a /\ how = "ok" /\ ~t.check /\ t.index < Steps[o]
             /\ a = Work(t.host, r, FALSE, t.index + 1)
    <3>1. /\ task'[o].pc = "begin" /\ task'[o].check = FALSE /\ task'[o].index = t.index + 1
          /\ task'[o].host = t.host /\ task'[o].row = r
      BY <2>4 DEF Work
    <3>2. 1 .. ((t.index + 1) - 1) \subseteq good'[o]
      BY <1>2, <1>3, <1>4, <1>8, <1>14, <2>4
    <3>. QED
      BY <1>2, <1>14, <3>1, <3>2 DEF InPlan, TaskEarned, Behind
  <2>5. CASE /\ task'[o] = a /\ how = "ok" /\ ~t.check /\ ~(t.index < Steps[o])
             /\ ~(t.index = Steps[o] /\ o \in Reboots)
             /\ a = Verify(o, t.host, r, 1)
    <3>1. t.index = Steps[o] /\ o \notin Reboots /\ Steps[o] \in good'[o]
      BY <1>2, <1>3, <1>8, <2>5
    <3>2. 1 .. (1 - 1) \subseteq passed'[o] /\ r.started = Steps[o]
      BY <1>3, <1>4, <2>5, <3>1
    <3>3. task'[o] = Verify(o, t.host, r, 1) /\ 1 .. (Steps[o] - 1) \subseteq good'[o]
      BY <1>14, <2>5, <3>2
    <3>. QED
      BY <1>2, <1>4, <3>1, <3>2, <3>3, VerifyEarned
  <2>. QED
    BY <1>11, <1>13, <2>1, <2>2, <2>3, <2>4, <2>5
<1>17. SuccessAt(o)' /\ (rows'[o].state \in Active => Behind(o, rows[o].started)')
  <2>1. rows'[o].state # "succeeded"
    BY <1>2, <1>4, <1>13 DEF Active
  <2>2. CASE rows'[o] = rows[o]
    BY <1>2, <1>12, <2>1, <2>2 DEF SuccessAt, Behind, EarnedAt
  <2>3. CASE rows'[o] = Stamped(r)
    BY <1>13, <1>14, <2>1, <2>3 DEF SuccessAt, Behind
  <2>. QED
    BY <1>13, <2>2, <2>3
<1>. QED
  BY <1>13, <1>15, <1>16, <1>17 DEF EarnedAt

\* The end of a task is written, if at all, over a row that is active, so that what
\* the task has earned still counts.
LEMMA FinishEarned ==
  ASSUME HostInv, HostTypeOK', Earned, NEW o \in Ops, TaskFinish(o) PROVE Earned'
<1>. DEFINE t == task[o]
            r == Moved(t.row, t.end)
<1>1. t.pc = "finish" /\ t.pc # "off"
  BY DEF TaskFinish
<1>2. /\ t.row \in Rows /\ EarnedAt(o) /\ SuccessAt(o) /\ passed[o] \subseteq 1 .. Checks[o]
      /\ rows[o].state \in Active => TaskEarned(o)
      /\ t.end \in {"awaiting"} \cup Finals
  BY <1>1, Earning, Resident DEF TaskOK, Finishing
<1>3. r \in Rows /\ r.state = t.end /\ r.started = t.row.started
  BY <1>2, RowFields DEF States, Active
<1>4. TaskSave(o, r, Off, Off) /\ UNCHANGED <<boot, req, rec, good, passed>>
  BY DEF TaskFinish, hostVars, history
<1>. HIDE DEF r
<1>5. /\ EarnedAt(o)' => Earned'
      /\ task'[o] = Off
      /\ \/ rows[o].state \in Active /\ rows'[o] = Stamped(r)
         \/ rows'[o] = rows[o]
      /\ Stamped(r).state = r.state /\ Stamped(r).started = r.started
  BY <1>3, <1>4, SaveEarned
<1>6. InPlan(o)' /\ task'[o].pc = "off"
  BY <1>5, Kinds DEF InPlan
<1>7. SuccessAt(o)' /\ (rows'[o].state \in Active => Behind(o, rows[o].started)')
  <2>1. CASE rows'[o] = rows[o]
    BY <1>2, <1>4, <2>1 DEF SuccessAt, Behind, EarnedAt
  <2>2. CASE rows[o].state \in Active /\ rows'[o] = Stamped(r)
    <3>1. TaskEarned(o) /\ rows'[o].state = t.end /\ rows'[o].started = t.row.started
      BY <1>2, <1>3, <1>5, <2>2
    <3>2. t.end = "succeeded" => passed[o] = 1 .. Checks[o]
      BY <1>1, <1>2, <3>1 DEF TaskEarned
    <3>3. SuccessAt(o)'
      BY <1>1, <1>4, <3>1, <3>2 DEF SuccessAt, TaskEarned, Behind
    <3>4. Behind(o, rows[o].started)'
      BY <1>4, <3>1 DEF TaskEarned, Behind
    <3>. QED
      BY <3>3, <3>4
  <2>. QED
    BY <1>5, <2>1, <2>2
<1>. QED
  BY <1>2, <1>4, <1>5, <1>6, <1>7 DEF EarnedAt

-----------------------------------------------------------------------------
(* The requests and the administrator.                                      *)

\* A step that moves no operation.
LEMMA OpsStay ==
  ASSUME HostInv, HostTypeOK', Earned, UNCHANGED <<rows, boot, task, good, passed>>
  PROVE  \A o \in Ops : EarnedAt(o)'
<1>1. \A h \in Hosts : boot[h] <= boot'[h]
  BY DEF HostInv, HostTypeOK
<1>. QED
  BY <1>1, Untouched DEF Earned

\* While a request holds the gate, no recovery pass has entries.
LEMMA NoPass == ASSUME HostInv, req.pc # "idle" PROVE rec.pc = "idle" /\ rec.todo = {}
  BY DEF HostInv, Gate

\* A request asks the machine before it prepares the operation.
LEMMA AskEarned ==
  ASSUME HostInv, HostTypeOK', Earned, (\E o \in Ops : ReqStart(o)) \/ ReqIdentity \/ ReqDrop
  PROVE  Earned'
<1>1. UNCHANGED <<rows, boot, rec, task, good, passed>>
  BY DEF ReqStart, ReqIdentity, ReqDrop, hostVars, history
<1>2. req'.pc = "prepare" => req'.boot <= boot[Target[req'.op]]
  <2>1. CASE (\E o \in Ops : ReqStart(o)) \/ ReqDrop
    BY <2>1 DEF ReqStart, ReqDrop, NoReq
  <2>2. CASE ReqIdentity
    <3>1. /\ req.pc = "identity" /\ req.op \in Ops /\ HostTypeOK
          /\ \/ req' = NoReq
             \/ req'.op = req.op /\ req'.boot = boot[req.conn.host]
                /\ req.conn.host = Target[req.op]
      BY <2>2 DEF ReqIdentity, HostInv, ReqConn
    <3>2. boot[Target[req.op]] \in Nat
      BY <3>1, HostAssumption DEF HostTypeOK
    <3>. QED
      BY <3>1, <3>2 DEF NoReq
  <2>. QED
    BY <2>1, <2>2
<1>3. BootsGrow' /\ EntriesEarned'
  BY <1>1, <1>2 DEF Earned, BootsGrow, EntryBoots, EntriesEarned, Behind
<1>. QED
  BY <1>1, <1>3, OpsStay DEF Earned

LEMMA PrepareEarned == ASSUME HostInv, HostTypeOK', Earned, ReqPrepare PROVE Earned'
<1>. DEFINE o == req.op
<1>1. /\ req.pc = "prepare" /\ o \in Ops /\ HostTypeOK
      /\ rec.pc = "idle" /\ rec.todo = {}
  BY NoPass DEF ReqPrepare, HostInv, ReqConn
<1>2. /\ rows' = [rows EXCEPT ![o] = [state |-> "prepared", started |-> 0, outs |-> 0,
                                      boot |-> req.boot, rev |-> req.conn.rev, age |-> 0]]
      /\ req' = NoReq /\ UNCHANGED <<boot, rec, task, good, passed>>
  BY DEF ReqPrepare, hostVars, history
<1>3. /\ rows'[o].state = "prepared" /\ rows'[o].boot = req.boot
      /\ \A p \in Ops \ {o} : rows'[p] = rows[p]
  BY <1>1, <1>2 DEF HostTypeOK
<1>. HIDE DEF o
<1>4. BootsGrow'
  BY <1>1, <1>2, <1>3 DEF Earned, BootsGrow, EntryBoots, NoReq, o
<1>5. EntriesEarned'
  BY <1>1, <1>2 DEF EntriesEarned
<1>6. \A h \in Hosts : boot[h] <= boot'[h]
  BY <1>1, <1>2 DEF HostTypeOK
<1>7. ASSUME NEW p \in Ops PROVE EarnedAt(p)'
  <2>1. /\ rows'[p].state \in Active => rows[p].state \in Active /\ rows'[p].started = rows[p].started
        /\ rows'[p].state = "succeeded" => rows[p].state = "succeeded"
    BY <1>3 DEF Active
  <2>2. EarnedAt(p) /\ task'[p] = task[p] /\ good'[p] = good[p] /\ passed'[p] = passed[p]
    BY <1>2 DEF Earned
  <2>. QED
    BY <1>6, <2>1, <2>2, Untouched
<1>. QED
  BY <1>4, <1>5, <1>7 DEF Earned

\* A claimed operation has started nothing.
LEMMA ClaimEarned == ASSUME HostInv, HostTypeOK', Earned, ReqClaim PROVE Earned'
<1>0. PICK o \in Ops : o = req.op
  BY DEF ReqClaim, HostInv, ReqConn
<1>1. /\ req.pc = "claim" /\ HostTypeOK /\ rec.pc = "idle" /\ rec.todo = {}
      /\ UNCHANGED <<boot, rec, task, good, passed>> /\ req'.pc # "prepare"
      /\ req' \in {NoReq, [req EXCEPT !.pc = "launch"]}
  <2>1. req.pc = "claim" /\ req.pc # "idle" /\ req \in Requests
    BY DEF ReqClaim, HostInv, HostTypeOK
  <2>2. req' \in {NoReq, [req EXCEPT !.pc = "launch"]}
    BY DEF ReqClaim
  <2>3. req'.pc # "prepare"
    BY <2>1, <2>2 DEF NoReq, Requests
  <2>. QED
    BY <2>1, <2>2, <2>3, NoPass DEF ReqClaim, HostInv, ReqConn, hostVars, history
<1>2. CASE ~Claimable(o)
  <2>1. rows' = rows
    BY <1>0, <1>2 DEF ReqClaim
  <2>2. BootsGrow' /\ EntriesEarned'
    BY <1>1, <2>1 DEF Earned, BootsGrow, EntriesEarned
  <2>. QED
    BY <1>1, <2>1, <2>2, OpsStay DEF Earned
<1>3. CASE Claimable(o)
  <2>1. rows[o].state = "prepared" /\ rows' = [rows EXCEPT ![o] = Stamped(Moved(@, "running"))]
    BY <1>0, <1>3 DEF ReqClaim, Claimable
  <2>2. task[o].pc = "off" /\ rows[o].started = 0
    BY <1>1, <2>1 DEF HostInv, OpsOK, UnclaimedAt
  <2>3. rows[o] \in Rows /\ "running" \in States
    BY <1>1 DEF HostTypeOK, States, Active
  <2>4. /\ Moved(rows[o], "running") \in Rows /\ Moved(rows[o], "running").started = 0
        /\ Moved(rows[o], "running").boot = rows[o].boot
        /\ Moved(rows[o], "running").state = "running"
    BY <2>2, <2>3, RowFields
  <2>5. /\ rows'[o].started = 0 /\ rows'[o].boot = rows[o].boot /\ rows'[o].state = "running"
        /\ \A p \in Ops \ {o} : rows'[p] = rows[p]
    BY <1>1, <2>1, <2>3, <2>4, RowFields DEF HostTypeOK
  <2>6. BootsGrow'
    BY <1>1, <2>5 DEF Earned, BootsGrow
  <2>7. EntriesEarned'
    BY <1>1 DEF EntriesEarned
  <2>8. EarnedAt(o)'
    <3>1. EarnedAt(o) /\ Behind(o, 0)
      BY <1>1, Nothing DEF Earned
    <3>2. Behind(o, rows[o].started)'
      BY <2>5 DEF Behind
    <3>. QED
      BY <1>1, <2>2, <2>5, <3>1, <3>2 DEF EarnedAt, InPlan, SuccessAt
  <2>9. ASSUME NEW p \in Ops, p # o PROVE EarnedAt(p)'
    <3>1. \A h \in Hosts : boot[h] <= boot'[h]
      BY <1>1 DEF HostTypeOK
    <3>. QED
      BY <1>1, <2>5, <2>9, <3>1, Untouched DEF Earned
  <2>. QED
    BY <2>6, <2>7, <2>8, <2>9 DEF Earned
<1>. QED
  BY <1>2, <1>3

LEMMA LaunchEarned == ASSUME HostInv, HostTypeOK', Earned, ReqLaunch PROVE Earned'
<1>0. PICK o \in Ops : o = req.op
  BY DEF ReqLaunch, HostInv, ReqConn
<1>. DEFINE new == Work(req.conn.host, Stamped(rows[o]), FALSE, 1)
<1>1. /\ HostTypeOK /\ req.conn.host = Target[o] /\ rows[o].started = 0
      /\ rows[o].state = "running" /\ req' = NoReq
      /\ task' = [task EXCEPT ![o] = new] /\ UNCHANGED <<rows, boot, rec, good, passed>>
      /\ rec.pc = "idle" /\ rec.todo = {}
  BY <1>0, NoPass DEF ReqLaunch, HostInv, ReqConn, Launching, hostVars, history
<1>2. Stamped(rows[o]).started = 0
  BY <1>1, RowFields DEF HostTypeOK, States
<1>3. /\ new.pc = "begin" /\ new.check = FALSE /\ new.index = 1 /\ new.host \in Hosts
      /\ new.row.started = 0
  BY <1>1, <1>2, HostAssumption DEF Work
<1>4. task'[o] = new /\ \A p \in Ops \ {o} : task'[p] = task[p]
  BY <1>1 DEF HostTypeOK
<1>. HIDE DEF new
<1>5. EarnedAt(o)'
  <2>1. EarnedAt(o)
    BY <1>1 DEF Earned
  <2>2. TaskEarned(o)' /\ InPlan(o)'
    BY <1>3, <1>4 DEF TaskEarned, InPlan, Behind
  <2>. QED
    BY <1>1, <2>1, <2>2 DEF EarnedAt, SuccessAt, Behind, Active
<1>6. ASSUME NEW p \in Ops, p # o PROVE EarnedAt(p)'
  <2>1. \A h \in Hosts : boot[h] <= boot'[h]
    BY <1>1 DEF HostTypeOK
  <2>. QED
    BY <1>1, <1>4, <1>6, <2>1, Untouched DEF Earned
<1>7. BootsGrow' /\ EntriesEarned'
  BY <1>1 DEF Earned, BootsGrow, EntriesEarned, NoReq
<1>. QED
  BY <1>5, <1>6, <1>7 DEF Earned

\* A deleted operation has earned nothing and claims nothing.
LEMMA DeleteEarned ==
  ASSUME HostInv, HostTypeOK', Earned, NEW o \in Ops, DeleteSession(o) PROVE Earned'
<1>1. /\ HostTypeOK /\ rows' = [rows EXCEPT ![o] = [NoRow EXCEPT !.state = "gone"]]
      /\ good' = [good EXCEPT ![o] = {}] /\ passed' = [passed EXCEPT ![o] = {}]
      /\ UNCHANGED <<boot, req, rec, task>>
  BY DEF DeleteSession, hostVars, HostInv
<1>2. /\ rows'[o].state = "gone" /\ rows'[o].boot = 0
      /\ \A p \in Ops \ {o} : /\ rows'[p] = rows[p] /\ good'[p] = good[p]
                              /\ passed'[p] = passed[p]
      /\ good'[o] = {} /\ passed'[o] = {}
  BY <1>1 DEF HostTypeOK, NoRow
<1>3. boot[Target[o]] \in Nat
  BY <1>1, HostAssumption DEF HostTypeOK
<1>4. BootsGrow'
  BY <1>1, <1>2, <1>3 DEF Earned, BootsGrow, EntryBoots
<1>5. EntriesEarned'
  BY <1>1, <1>2 DEF Earned, EntriesEarned, Behind, Active, HostTypeOK, Passes, Entries
<1>6. EarnedAt(o)'
  <2>1. InPlan(o)
    BY DEF Earned, EarnedAt
  <2>2. InPlan(o)'
    BY <1>1, <2>1 DEF InPlan
  <2>. QED
    BY <1>2, <2>2 DEF EarnedAt, SuccessAt, Active
<1>7. ASSUME NEW p \in Ops, p # o PROVE EarnedAt(p)'
  <2>1. \A h \in Hosts : boot[h] <= boot'[h]
    BY <1>1 DEF HostTypeOK
  <2>. QED
    BY <1>1, <1>2, <1>7, <2>1, Untouched DEF Earned
<1>. QED
  BY <1>4, <1>5, <1>6, <1>7 DEF Earned

-----------------------------------------------------------------------------
(* The recovery loop.                                                       *)

\* The types of an entry, and what the invariants say of it.
LEMMA Entry ==
  ASSUME HostInv, Earned, NEW e \in rec.todo
  PROVE  /\ e.op \in Ops /\ e.row \in Rows /\ Target[e.op] \in Hosts
         /\ e.row.boot \in Nat /\ e.row.started \in Nat /\ EntryBoots(e)
         /\ rows[e.op].state \in Active => Behind(e.op, e.row.started)
         /\ rec.conn.host \in Hosts
         /\ rec.pc = "decide" => task[e.op].pc = "off" /\ rec.boot <= boot[rec.conn.host]
         /\ rec.boot \in Nat
<1>1. e.op \in Ops /\ e.row \in Rows /\ rec.boot \in Nat
  BY DEF HostInv, HostTypeOK, Passes, Entries
<1>2. e.row.boot \in Nat /\ e.row.started \in Nat /\ Target[e.op] \in Hosts
  BY <1>1, HostAssumption DEF Rows
<1>3. rec.conn.host \in Hosts /\ (rec.pc = "decide" => task[e.op].pc = "off")
  BY DEF HostInv, Gate, Todo
<1>. QED
  BY <1>1, <1>2, <1>3 DEF Earned, BootsGrow, EntriesEarned

\* The steps that read for a pass: the journal first, and the machine after it.
LEMMA PassEarned ==
  ASSUME HostInv, HostTypeOK', Earned,
         RecStart \/ RecList \/ RecFilter \/ RecOverview \/ RecEnd
  PROVE  Earned'
<1>1. UNCHANGED <<rows, boot, req, task, good, passed>>
  BY DEF RecStart, RecList, RecFilter, RecOverview, RecEnd, hostVars, history
<1>2. rec \in Passes /\ HostTypeOK
  BY DEF HostInv, HostTypeOK
<1>3. /\ rec'.pc = "decide" => rec'.boot <= boot[rec'.conn.host]
      /\ \A e \in rec'.todo : /\ EntryBoots(e)'
                              /\ rows[e.op].state \in Active => Behind(e.op, e.row.started)
  <2>1. CASE RecStart
    BY <2>1 DEF RecStart
  <2>2. CASE RecList
    <3>. DEFINE found == {[op |-> o, row |-> rows[o]] : o \in {p \in Ops : rows[p].state \in Active}}
    <3>1. rec'.todo = found /\ rec'.pc = "filter"
      BY <1>2, <2>2 DEF RecList, Passes
    <3>2. \A e \in found : e.op \in Ops /\ e.row = rows[e.op]
      OBVIOUS
    <3>. HIDE DEF found
    <3>. QED
      BY <1>1, <3>1, <3>2 DEF Earned, EarnedAt, BootsGrow, EntryBoots
  <2>3. CASE RecFilter
    <3>1. rec'.todo \subseteq rec.todo /\ rec'.pc = "expire"
      BY <1>2, <2>3 DEF RecFilter, Passes
    <3>. QED
      BY <1>1, <3>1, Entry DEF EntryBoots
  <2>4. CASE RecOverview /\ rec' = NoRec
    BY <2>4 DEF NoRec
  <2>5. CASE RecEnd
    BY <2>5 DEF RecEnd, NoRec
  <2>6. CASE RecOverview /\ rec' # NoRec
    <3>1. rec' = [rec EXCEPT !.pc = "decide", !.boot = boot[rec.conn.host]] /\ rec.pc = "expire"
      BY <2>6 DEF RecOverview
    <3>2. /\ rec'.todo = rec.todo /\ rec'.pc = "decide" /\ rec'.conn = rec.conn
          /\ rec'.boot = boot[rec.conn.host]
      BY <1>2, <3>1 DEF Passes
    <3>3. rec.conn.host \in Hosts /\ boot[rec.conn.host] \in Nat
      BY <1>2, <3>1 DEF HostInv, Gate, HostTypeOK
    <3>. QED
      BY <1>1, <3>2, <3>3, Entry DEF EntryBoots
  <2>. QED
    BY <2>1, <2>2, <2>3, <2>4, <2>5, <2>6
<1>4. BootsGrow' /\ EntriesEarned'
  BY <1>1, <1>3 DEF Earned, BootsGrow, EntriesEarned, Behind
<1>. QED
  BY <1>1, <1>4, OpsStay DEF Earned

\* An entry leaves the pass, or the pass ends.
LEMMA FewerEntries ==
  ASSUME HostInv, Earned, NEW e \in rec.todo, UNCHANGED <<boot, req, good>>,
         rec' \in {NoRec, [rec EXCEPT !.todo = @ \ {e}]},
         \A o \in Ops : /\ rows'[o].boot = rows[o].boot
                        /\ rows'[o].state \in Active => rows[o].state \in Active
  PROVE  BootsGrow' /\ EntriesEarned'
<1>1. rec \in Passes
  BY DEF HostInv, HostTypeOK
<1>2. /\ rec'.todo \subseteq rec.todo
      /\ rec'.pc = "decide" => rec.pc = "decide" /\ rec'.conn = rec.conn /\ rec'.boot = rec.boot
  BY <1>1 DEF NoRec, Passes
<1>3. \A f \in rec'.todo : EntryBoots(f)'
  BY <1>2 DEF Earned, BootsGrow, EntryBoots
<1>4. BootsGrow'
  BY <1>2, <1>3 DEF Earned, BootsGrow
<1>5. EntriesEarned'
  BY <1>2, Entry DEF EntriesEarned, Behind
<1>. QED
  BY <1>4, <1>5

LEMMA InterruptEarned ==
  ASSUME HostInv, HostTypeOK', Earned, NEW e \in rec.todo, Interrupt(e),
         UNCHANGED <<boot, req, task, good, passed>>
  PROVE  Earned'
<1>. DEFINE r == Moved(e.row, "interrupted")
<1>1. PICK told \in BOOLEAN : /\ Save(e.op, r, told)
                             /\ rec' = IF told THEN [rec EXCEPT !.todo = @ \ {e}] ELSE NoRec
  BY DEF Interrupt
<1>2. HostTypeOK /\ e.op \in Ops /\ e.row \in Rows
  BY Entry DEF HostInv
<1>3. r \in Rows /\ r.state = "interrupted"
  <2>1. "interrupted" \in States
    BY DEF States, Finals
  <2>. QED
    BY <1>2, <2>1, RowFields
<1>. HIDE DEF r
<1>4. Stamped(r).state = "interrupted"
  BY <1>3, RowFields DEF States, Finals
<1>5. /\ \A p \in Ops \ {e.op} : rows'[p] = rows[p]
      /\ rows'[e.op] = rows[e.op] \/ rows'[e.op] = Stamped(r)
  BY <1>1, <1>2, <1>3, SaveFacts
<1>6. rows'[e.op].boot = rows[e.op].boot
  BY <1>1, <1>2, <1>3, SaveBoot
<1>7. ASSUME NEW o \in Ops
      PROVE  /\ rows'[o].boot = rows[o].boot
             /\ rows'[o].state \in Active =>
                  rows[o].state \in Active /\ rows'[o].started = rows[o].started
             /\ rows'[o].state = "succeeded" => rows[o].state = "succeeded"
  BY <1>4, <1>5, <1>6 DEF Active
<1>8. BootsGrow' /\ EntriesEarned'
  BY <1>1, <1>7, FewerEntries
<1>9. ASSUME NEW o \in Ops PROVE EarnedAt(o)'
  <2>1. EarnedAt(o) /\ \A h \in Hosts : boot[h] <= boot'[h]
    BY <1>2 DEF Earned, HostTypeOK
  <2>2. task'[o] = task[o] /\ good'[o] = good[o] /\ passed'[o] = passed[o]
    OBVIOUS
  <2>. QED
    BY <1>7, <2>1, <2>2, Untouched
<1>. QED
  BY <1>8, <1>9 DEF Earned

\* A recovered task verifies only what a new boot proves, over a row that names
\* no step whose predecessors did not report success.
LEMMA VerifyAgainEarned ==
  ASSUME HostInv, HostTypeOK', Earned, rec.pc = "decide", NEW e \in rec.todo,
         Recovery(e) = "verify", task' = [task EXCEPT ![e.op] = Recovered(e)],
         rec' = [rec EXCEPT !.todo = @ \ {e}],
         UNCHANGED <<rows, boot, req, good, passed>>
  PROVE  Earned'
<1>0. PICK o \in Ops : o = e.op
  BY Entry
<1>. DEFINE h == rec.conn.host
            r == Stamped(e.row)
<1>1. /\ HostTypeOK /\ task[o].pc = "off" /\ h \in Hosts /\ EarnedAt(o)
      /\ rows[o].state \in Active => Behind(o, e.row.started)
  BY <1>0, Entry DEF Earned, HostInv
<1>2. o \in Reboots /\ e.row.boot # rec.boot /\ Target[o] = h
  BY <1>0 DEF Recovery
<1>3. e.row.boot < boot[h]
  <2>1. e.row.boot <= rec.boot /\ rec.boot <= boot[h]
    BY <1>0, <1>2, Entry DEF EntryBoots
  <2>2. e.row.boot \in Nat /\ rec.boot \in Nat /\ boot[h] \in Nat
    BY <1>1, Entry DEF HostTypeOK
  <2>. QED
    BY <1>2, <2>1, <2>2
<1>4. r.started = e.row.started /\ r.boot = e.row.boot
  BY Entry, RowFields DEF States
<1>5. task'[o] = Recovered(e) /\ \A p \in Ops \ {o} : task'[p] = task[p]
  BY <1>0, <1>1 DEF HostTypeOK
<1>. HIDE DEF h, r
<1>6. InPlan(o)' /\ (rows[o].state \in Active => TaskEarned(o)')
  <2>1. CASE e.row.started = Steps[o] /\ Checks[o] > 0
    <3>1. task'[o] = Work(h, r, TRUE, 1)
      BY <1>0, <1>5, <2>1 DEF Recovered, h, r
    <3>2. 1 \in 1 .. Checks[o] /\ 1 .. (1 - 1) = {}
      BY <2>1, HostAssumption
    <3>3. /\ task'[o].pc = "begin" /\ task'[o].check = TRUE /\ task'[o].index = 1
          /\ task'[o].host = h /\ task'[o].row = r
      BY <3>1 DEF Work
    <3>4. InPlan(o)'
      BY <1>1, <3>2, <3>3 DEF InPlan, h
    <3>5. ASSUME rows[o].state \in Active PROVE TaskEarned(o)'
      <4>1. 1 .. (r.started - 1) \subseteq good[o]
        BY <1>1, <1>4, <3>5 DEF Behind
      <4>. QED
        BY <1>2, <1>3, <1>4, <3>2, <3>3, <4>1 DEF TaskEarned, Behind
    <3>. QED
      BY <3>4, <3>5
  <2>2. CASE ~(e.row.started = Steps[o] /\ Checks[o] > 0)
    <3>1. task'[o] = Ending(h, r, "interrupted")
      BY <1>0, <1>5, <2>2 DEF Recovered, h, r
    <3>2. rows[o].state \in Active => 1 .. (r.started - 1) \subseteq good'[o]
      BY <1>1, <1>4 DEF Behind
    <3>3. h \in Hosts
      BY <1>1 DEF h
    <3>. QED
      BY <3>1, <3>2, <3>3, EndEarned
  <2>. QED
    BY <2>1, <2>2
<1>7. EarnedAt(o)'
  BY <1>1, <1>6 DEF EarnedAt, SuccessAt, Behind
<1>8. ASSUME NEW p \in Ops, p # o PROVE EarnedAt(p)'
  <2>1. EarnedAt(p) /\ task'[p] = task[p] /\ \A g \in Hosts : boot[g] <= boot'[g]
    BY <1>1, <1>5, <1>8 DEF Earned, HostTypeOK
  <2>. QED
    BY <2>1, Untouched
<1>9. BootsGrow' /\ EntriesEarned'
  BY FewerEntries
<1>. QED
  BY <1>7, <1>8, <1>9 DEF Earned

LEMMA DecideEarned ==
  ASSUME HostInv, HostTypeOK', Earned, RecDecide \/ RecExpire PROVE Earned'
<1>1. UNCHANGED <<boot, req, good, passed>>
  BY DEF RecDecide, RecExpire, hostVars, history
<1>2. CASE RecExpire
  <2>1. PICK e \in rec.todo : Interrupt(e)
    BY <1>2 DEF RecExpire
  <2>2. task' = task
    BY <1>2 DEF RecExpire
  <2>. QED
    BY <1>1, <2>1, <2>2, InterruptEarned
<1>3. CASE RecDecide
  <2>1. PICK e \in rec.todo :
          \/ /\ rec' = [rec EXCEPT !.todo = @ \ {e}]
             /\ rows' = rows /\ task' = task
          \/ /\ Recovery(e) = "verify"
             /\ task' = [task EXCEPT ![e.op] = Recovered(e)]
             /\ rec' = [rec EXCEPT !.todo = @ \ {e}] /\ rows' = rows
          \/ Interrupt(e) /\ task' = task
    BY <1>3 DEF RecDecide
  <2>2. CASE rec' = [rec EXCEPT !.todo = @ \ {e}] /\ rows' = rows /\ task' = task
    <3>1. BootsGrow' /\ EntriesEarned'
      BY <1>1, <2>2, FewerEntries
    <3>. QED
      BY <1>1, <2>2, <3>1, OpsStay DEF Earned
  <2>3. CASE /\ Recovery(e) = "verify"
             /\ task' = [task EXCEPT ![e.op] = Recovered(e)]
             /\ rec' = [rec EXCEPT !.todo = @ \ {e}] /\ rows' = rows
    <3>1. rec.pc = "decide"
      BY <1>3 DEF RecDecide
    <3>. QED
      BY <1>1, <2>3, <3>1, VerifyAgainEarned
  <2>4. CASE Interrupt(e) /\ task' = task
    BY <1>1, <2>4, InterruptEarned
  <2>. QED
    BY <2>1, <2>2, <2>3, <2>4
<1>. QED
  BY <1>2, <1>3

-----------------------------------------------------------------------------
(* The environment.                                                         *)

\* A boot identity only grows.
LEMMA HostEarned ==
  ASSUME HostInv, HostTypeOK', Earned, NEW h \in Hosts, HostDown(h) \/ HostUp(h) PROVE Earned'
<1>1. UNCHANGED <<rows, req, rec, task, good, passed>> /\ HostTypeOK
  BY DEF HostDown, HostUp, history, HostInv
<1>2. \A g \in Hosts : boot[g] \in Nat /\ boot'[g] \in Nat /\ boot[g] <= boot'[g]
  <2>1. boot' = boot \/ boot' = [boot EXCEPT ![h] = @ + 1]
    BY DEF HostDown, HostUp
  <2>2. boot \in [Hosts -> Nat]
    BY <1>1 DEF HostTypeOK
  <2>. QED
    BY <2>1, <2>2
<1>3. /\ \A o \in Ops : rows[o].boot \in Nat /\ Target[o] \in Hosts
      /\ req.boot \in Nat /\ (req.pc = "prepare" => req.op \in Ops)
      /\ rec.boot \in Nat /\ (rec.pc = "decide" => rec.conn.host \in Hosts)
  BY <1>1, HostAssumption DEF HostInv, HostTypeOK, ReqConn, Gate, Rows, Requests, Passes
<1>4. BootsGrow'
  <2>1. \A o \in Ops : rows[o].boot <= boot'[Target[o]]
    <3>1. \A o \in Ops : rows[o].boot <= boot[Target[o]]
      BY DEF Earned, BootsGrow
    <3>. QED
      BY <1>2, <1>3, <3>1
  <2>2. req.pc = "prepare" => req.boot <= boot'[Target[req.op]]
    <3>1. req.pc = "prepare" => req.boot <= boot[Target[req.op]]
      BY DEF Earned, BootsGrow
    <3>. QED
      BY <1>2, <1>3, <3>1
  <2>3. rec.pc = "decide" => rec.boot <= boot'[rec.conn.host]
    <3>1. rec.pc = "decide" => rec.boot <= boot[rec.conn.host]
      BY DEF Earned, BootsGrow
    <3>. QED
      BY <1>2, <1>3, <3>1
  <2>4. ASSUME NEW e \in rec.todo PROVE EntryBoots(e)'
    <3>1. EntryBoots(e) /\ e.row.boot \in Nat /\ Target[e.op] \in Hosts
      BY Entry
    <3>2. e.row.boot <= boot'[Target[e.op]]
      BY <1>2, <3>1 DEF EntryBoots
    <3>. QED
      BY <1>1, <3>1, <3>2 DEF EntryBoots
  <2>. QED
    BY <1>1, <2>1, <2>2, <2>3, <2>4 DEF BootsGrow
<1>5. EntriesEarned'
  BY <1>1 DEF Earned, EntriesEarned, Behind
<1>6. ASSUME NEW o \in Ops PROVE EarnedAt(o)'
  BY <1>1, <1>2, Untouched DEF Earned
<1>. QED
  BY <1>4, <1>5, <1>6 DEF Earned

LEMMA TickEarned == ASSUME HostInv, HostTypeOK', Earned, Tick PROVE Earned'
<1>. DEFINE older == {[op |-> e.op, row |-> Older(e.row)] : e \in rec.todo}
<1>1. /\ HostTypeOK /\ rec \in Passes
      /\ rows' = [o \in Ops |-> IF rows[o].state \in Active THEN Older(rows[o]) ELSE rows[o]]
      /\ rec' = [rec EXCEPT !.todo = older]
      /\ UNCHANGED <<boot, req, task, good, passed>>
  BY DEF Tick, HostInv, HostTypeOK, hostVars, history
<1>2. ASSUME NEW o \in Ops
      PROVE  rows'[o].state = rows[o].state /\ rows'[o].started = rows[o].started
             /\ rows'[o].boot = rows[o].boot
  BY <1>1, OlderFields, BootFields DEF HostTypeOK, States
<1>3. rec'.todo = older /\ rec'.pc = rec.pc /\ rec'.conn = rec.conn /\ rec'.boot = rec.boot
  BY <1>1 DEF Passes
<1>4. ASSUME NEW f \in older
      PROVE  \E e \in rec.todo : /\ f.op = e.op /\ f.row.started = e.row.started
                                 /\ f.row.boot = e.row.boot
  <2>1. PICK e \in rec.todo : f = [op |-> e.op, row |-> Older(e.row)]
    BY <1>4
  <2>2. Older(e.row).started = e.row.started /\ Older(e.row).boot = e.row.boot
    BY Entry, OlderFields, BootFields DEF States
  <2>. QED
    BY <2>1, <2>2
<1>. HIDE DEF older
<1>5. BootsGrow'
  <2>1. ASSUME NEW f \in older PROVE EntryBoots(f)'
    <3>1. PICK e \in rec.todo : f.op = e.op /\ f.row.boot = e.row.boot
      BY <1>4
    <3>. QED
      BY <1>1, <1>3, <3>1, Entry DEF EntryBoots
  <2>. QED
    BY <1>1, <1>2, <1>3, <2>1 DEF Earned, BootsGrow
<1>6. EntriesEarned'
  <2>1. ASSUME NEW f \in older, rows'[f.op].state \in Active PROVE Behind(f.op, f.row.started)
    <3>1. PICK e \in rec.todo : f.op = e.op /\ f.row.started = e.row.started
      BY <1>4
    <3>. QED
      BY <1>2, <2>1, <3>1, Entry
  <2>. QED
    BY <1>1, <1>3, <2>1 DEF EntriesEarned, Behind
<1>7. ASSUME NEW o \in Ops PROVE EarnedAt(o)'
  <2>1. EarnedAt(o) /\ \A h \in Hosts : boot[h] <= boot'[h]
    BY <1>1 DEF Earned, HostTypeOK
  <2>. QED
    BY <1>1, <1>2, <2>1, Untouched
<1>. QED
  BY <1>5, <1>6, <1>7 DEF Earned

LEMMA CrashEarned == ASSUME HostInv, HostTypeOK', Earned, BridgeCrash PROVE Earned'
<1>1. /\ task' = [o \in Ops |-> Off] /\ req' = NoReq /\ rec' = NoRec
      /\ UNCHANGED <<rows, boot, good, passed>>
  BY DEF BridgeCrash, hostVars, history
<1>2. BootsGrow' /\ EntriesEarned'
  BY <1>1 DEF Earned, BootsGrow, EntriesEarned, NoReq, NoRec
<1>3. ASSUME NEW o \in Ops PROVE EarnedAt(o)'
  <2>1. EarnedAt(o) /\ task'[o].pc = "off"
    BY <1>1, Kinds DEF Earned
  <2>. QED
    BY <1>1, <2>1 DEF EarnedAt, InPlan, SuccessAt, Behind
<1>. QED
  BY <1>2, <1>3 DEF Earned

-----------------------------------------------------------------------------
(* The theorem.                                                             *)

LEMMA InitEarned == Init => Earned
<1>. SUFFICES ASSUME Init PROVE Earned
  OBVIOUS
<1>1. /\ req.pc = "idle" /\ rec.pc = "idle" /\ rec.todo = {}
  BY DEF Init, NoReq, NoRec
<1>2. ASSUME NEW o \in Ops
      PROVE  /\ rows[o].state = "none" /\ rows[o].boot = 0 /\ task[o].pc = "off"
             /\ passed[o] = {} /\ boot[Target[o]] = 0
  BY HostAssumption DEF Init, NoRow, Off
<1>. QED
  BY <1>1, <1>2 DEF Earned, BootsGrow, EntriesEarned, EarnedAt, InPlan, SuccessAt, Active

LEMMA NextEarned == HostInv /\ HostInv' /\ Earned /\ [Next]_vars => Earned'
<1>. SUFFICES ASSUME HostInv, HostTypeOK', Earned, [Next]_vars PROVE Earned'
  BY DEF HostInv
<1>1. CASE Request
  BY <1>1, AskEarned, PrepareEarned, ClaimEarned, LaunchEarned DEF Request
<1>2. CASE \E o \in Ops : Task(o)
  BY <1>2, BeginEarned, CommandEarned, OutputEarned, OutcomeEarned, FinishEarned DEF Task
<1>3. CASE Recover
  BY <1>3, PassEarned, DecideEarned DEF Recover
<1>4. CASE Environment
  <2>1. CASE \E h \in Hosts \cup {NoHost} : SaveConnection(h)
    <3>1. UNCHANGED <<rows, boot, req, rec, task, good, passed>>
      BY <2>1 DEF SaveConnection, hostVars, history
    <3>2. BootsGrow' /\ EntriesEarned'
      BY <3>1 DEF Earned, BootsGrow, EntryBoots, EntriesEarned, Behind
    <3>. QED
      BY <3>1, <3>2, OpsStay DEF Earned
  <2>. QED
    BY <1>4, <2>1, CrashEarned, TickEarned, HostEarned, DeleteEarned DEF Environment
<1>5. CASE UNCHANGED vars
  <2>1. UNCHANGED <<rows, boot, req, rec, task, good, passed>>
    BY <1>5 DEF vars
  <2>2. BootsGrow' /\ EntriesEarned'
    BY <2>1 DEF Earned, BootsGrow, EntryBoots, EntriesEarned, Behind
  <2>. QED
    BY <2>1, <2>2, OpsStay DEF Earned
<1>. QED
  BY <1>1, <1>2, <1>3, <1>4, <1>5 DEF Next

\* An operation succeeds only when its steps reported success and its verifications
\* passed, those of a plan that reboots after the machine did (run_command, finish,
\* host_recovery): no crash, lost reply or stale copy makes a success of anything else.
THEOREM SuccessEarned == Spec => []SuccessIsEarned
<1>1. Earned => SuccessIsEarned
  BY DEF Earned, EarnedAt, SuccessAt, Behind, SuccessIsEarned
<1>2. Spec => []Earned
  BY InitEarned, NextEarned, HostInvariant, PTL DEF Spec
<1>. QED
  BY <1>1, <1>2, PTL

=============================================================================
