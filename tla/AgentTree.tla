------------------------------ MODULE AgentTree ------------------------------
(***************************************************************************)
(* A run's tree of agents (crates/agent): the root's loop, the children its *)
(* task calls start, and theirs. Every agent is a state machine polled by   *)
(* one consumer, which saves an event before it asks for the next. The tree *)
(* shares a cancellation flag, the permits for model I/O, the counts of     *)
(* started tasks and executed tools, and the lock that keeps the two        *)
(* snapshots around a change to the project together.                       *)
(***************************************************************************)
EXTENDS Integers, FiniteSets

CONSTANTS Node,         \* the agents, Root among them
          Root,
          Kids,         \* Kids[n]: the tasks of a task call of n
          Calls,        \* Calls[n]: the kinds of call n's model may make
          Fast,         \* the agents with a fast model to try first
          NoNode,       \* no agent
          Permits,      \* MAX_PARALLEL_TASKS
          MaxTasks,     \* MAX_TASKS_PER_RUN
          MaxRunTools,  \* tool executions of the whole tree
          MaxTools,     \* max_tool_calls of one agent
          MaxTurns,     \* max_turns of one agent
          MaxCalls      \* bound: calls of one reply

Kind == {"write_file", "run_command", "grep_search", "task"}

ASSUME TreeAssumption ==
    /\ IsFiniteSet(Node) /\ Root \in Node /\ NoNode \notin Node
    /\ Kids \in [Node -> SUBSET Node]
    /\ \A n \in Node : Root \notin Kids[n] /\ n \notin Kids[n]
    /\ \A m, n \in Node : m # n => Kids[m] \cap Kids[n] = {}
    /\ Calls \in [Node -> SUBSET Kind]
    /\ Fast \subseteq Node
    /\ {Permits, MaxTasks, MaxRunTools, MaxTools, MaxTurns, MaxCalls} \subseteq Nat

VARIABLES node,       \* the state of every agent's loop
          lock,       \* the agent that holds the mutation lock
          cancelled,  \* the run's cancellation flag
          out,        \* the checkpoint the consumer is saving
          started,    \* tasks the run has reserved
          used,       \* tool executions the run has reserved
          covered,    \* agents whose current call has its first snapshot saved
          changed,    \* agents whose current call has changed the project
          mixed       \* agents whose snapshot pair spans the change of another

vars == <<node, lock, cancelled, out, started, used, covered, changed, mixed>>
budget == <<started, used>>
project == <<covered, changed, mixed>>

Pc == {"idle", "name", "prepare", "launch", "call", "stream", "tool", "approve",
       "await", "checkpoint", "snapshot", "run", "running", "finish", "ended", "over"}
ModelPc == {"name", "stream", "approve"}
Mutating == {"write_file", "run_command"}
Cancellable == {"run_command", "grep_search"}
Snapshot == [node : Node, part : {"before", "after"}]
NoSnapshot == [node |-> NoNode, part |-> "after"]

AgentState == [pc : Pc, turn : 0 .. MaxTurns, tools : 0 .. MaxTools,
               calls : 0 .. MaxCalls, kind : Kind, tries : 0 .. 2,
               permit : BOOLEAN, pair : BOOLEAN, seen : BOOLEAN, ran : BOOLEAN,
               stopped : BOOLEAN]

(* The request stands for what its run starts from: nothing asked yet.     *)
Fresh(pc) == [pc |-> pc, turn |-> 0, tools |-> 0, calls |-> 0, kind |-> "task",
              tries |-> 0, permit |-> FALSE, pair |-> FALSE, seen |-> FALSE,
              ran |-> FALSE, stopped |-> FALSE]

(* The root's loop starts at once; children wait for their task call.      *)
Init == /\ node = [n \in Node |-> Fresh(IF n = Root THEN "call" ELSE "idle")]
        /\ lock = NoNode /\ out = NoSnapshot /\ cancelled = FALSE
        /\ started = 0 /\ used = 0
        /\ covered = {} /\ changed = {} /\ mixed = {}

At(n, pc) == out = NoSnapshot /\ node[n].pc = pc
Goto(n, pc) == node' = [node EXCEPT ![n].pc = pc]
Free == Permits - Cardinality({m \in Node : node[m].permit})

-----------------------------------------------------------------------------
(* The end of an agent: completed, failed or cancelled, nothing else of it  *)
(* matters to the others. Its last event leaves the lock with its executor  *)
(* until the parent polls it once more.                                     *)

Final(kind) == [Fresh("ended") EXCEPT !.kind = kind]
Ended(n) == node' = [node EXCEPT ![n] = Final(node[n].kind)]

(* Mutant: the retry does not ask whether a tool was used.                  *)
FallsBackAlways(n) == n # Root /\ node[n].tries > 0

(* A child that used no tool starts again with its next model.             *)
FallsBack(n) == n # Root /\ ~node[n].seen /\ node[n].tries > 0

Retried(n) ==
    node' = [node EXCEPT ![n] = [Fresh("launch") EXCEPT !.tries = node[n].tries,
                                                        !.ran = node[n].ran]]

Failed(n) == \/ FallsBack(n) /\ Retried(n)
             \/ ~FallsBack(n) /\ Ended(n)

Released(n) == IF lock = n THEN NoNode ELSE lock

Dropped(n) ==
    /\ At(n, "ended")
    /\ node' = [node EXCEPT ![n] = Fresh("over")]
    /\ lock' = Released(n)
    /\ UNCHANGED <<cancelled, out, budget, project>>

-----------------------------------------------------------------------------
(* Permits for model I/O: awaited by a naming, a completion or an automatic *)
(* approval, and given back when it is over.                                *)

Acquire(n) ==
    /\ out = NoSnapshot /\ node[n].pc \in ModelPc
    /\ ~node[n].permit /\ Free > 0
    /\ node' = [node EXCEPT ![n].permit = TRUE]
    /\ UNCHANGED <<lock, cancelled, out, budget, project>>

(* A child: naming, the choice of its models, the start of its loop.       *)
NameTask(n) ==
    /\ At(n, "name")
    /\ node[n].permit \/ cancelled
    /\ node' = [node EXCEPT ![n].pc = "prepare", ![n].permit = FALSE]
    /\ UNCHANGED <<lock, cancelled, out, budget, project>>

Prepare(n) ==
    /\ At(n, "prepare")
    /\ \/ node' = [node EXCEPT ![n].pc = "launch",
                               ![n].tries = IF n \in Fast THEN 2 ELSE 1]
       \/ cancelled /\ Ended(n)
    /\ UNCHANGED <<lock, cancelled, out, budget, project>>

Launch(n) ==
    /\ At(n, "launch")
    /\ \/ cancelled /\ Ended(n)
       \/ /\ ~cancelled /\ node[n].tries > 0
          /\ \/ node' = [node EXCEPT ![n].pc = "call", ![n].tries = @ - 1]
             \/ /\ node[n].tries > 1                  \* run_child fails
                /\ node' = [node EXCEPT ![n].tries = @ - 1]
             \/ node[n].tries = 1 /\ Ended(n)
    /\ UNCHANGED <<lock, cancelled, out, budget, project>>

-----------------------------------------------------------------------------
(* The loop: a turn, its reply, and the calls of the reply one by one.     *)

(* Mutant: one turn too many.                                              *)
CallModelOnceMore(n) ==
    /\ At(n, "call")
    /\ \/ cancelled /\ Ended(n)
       \/ ~cancelled /\ node[n].turn > MaxTurns /\ Failed(n)
       \/ /\ ~cancelled /\ node[n].turn <= MaxTurns
          /\ node' = [node EXCEPT ![n].pc = "stream", ![n].turn = @ + 1]
    /\ UNCHANGED <<lock, cancelled, out, budget, project>>

CallModel(n) ==
    /\ At(n, "call")
    /\ \/ cancelled /\ Ended(n)
       \/ ~cancelled /\ node[n].turn >= MaxTurns /\ Failed(n)
       \/ /\ ~cancelled /\ node[n].turn < MaxTurns
          /\ node' = [node EXCEPT ![n].pc = "stream", ![n].turn = @ + 1]
    /\ UNCHANGED <<lock, cancelled, out, budget, project>>

(* Mutant: the stream, with its permit, is kept while the calls are run.    *)
StreamModelKept(n) ==
    /\ At(n, "stream")
    /\ \/ cancelled /\ Ended(n)
       \/ /\ node[n].permit
          /\ \/ Ended(n)
             \/ Failed(n)
             \/ \E k \in 0 .. MaxCalls :
                   node' = [node EXCEPT ![n].pc = "tool", ![n].calls = k]
    /\ UNCHANGED <<lock, cancelled, out, budget, project>>

(* The reply ends the stream, and with it the stream's permit.             *)
StreamModel(n) ==
    /\ At(n, "stream")
    /\ \/ cancelled /\ Ended(n)
       \/ /\ node[n].permit
          /\ \/ Ended(n)
             \/ Failed(n)
             \/ \E k \in 0 .. MaxCalls :
                   node' = [node EXCEPT ![n].pc = "tool", ![n].calls = k,
                                        ![n].permit = FALSE]
    /\ UNCHANGED <<lock, cancelled, out, budget, project>>

(* A call that is not run: unavailable here, or a write deferred until new  *)
(* directory instructions are read. It counts as a call all the same.       *)
Refuse(n) ==
    /\ At(n, "tool") /\ node[n].calls > 0 /\ node[n].tools < MaxTools
    /\ node' = [node EXCEPT ![n].calls = @ - 1, ![n].tools = @ + 1,
                            ![n].seen = TRUE]
    /\ UNCHANGED <<lock, cancelled, out, budget, project>>

(* The next call: no approval needed, an automatic one, or the user's.     *)
EmitToolCall(n) ==
    /\ At(n, "tool")
    /\ \/ node[n].calls = 0 /\ Goto(n, "call") /\ UNCHANGED project
       \/ /\ node[n].calls > 0 /\ node[n].tools >= MaxTools
          /\ Failed(n) /\ UNCHANGED project
       \/ cancelled /\ node[n].calls > 0 /\ Ended(n) /\ UNCHANGED project
       \/ /\ node[n].calls > 0 /\ node[n].tools < MaxTools
          /\ \E k \in Calls[n], pc \in {"checkpoint", "approve", "await"} :
                /\ k = "task" => pc = "checkpoint"
                /\ node' = [node EXCEPT ![n].pc = pc, ![n].kind = k,
                                        ![n].calls = @ - 1, ![n].pair = FALSE,
                                        ![n].stopped = FALSE,
                                        ![n].seen = @ \/ pc # "approve"]
          /\ covered' = covered \ {n} /\ changed' = changed \ {n}
          /\ UNCHANGED mixed
    /\ UNCHANGED <<lock, cancelled, out, budget>>

(* A model approves the call or leaves it to the user.                     *)
PrepareTool(n) ==
    /\ At(n, "approve")
    /\ \/ cancelled /\ Ended(n)
       \/ /\ node[n].permit
          /\ \E pc \in {"checkpoint", "await"} :
                node' = [node EXCEPT ![n].pc = pc, ![n].permit = FALSE,
                                     ![n].seen = TRUE]
    /\ UNCHANGED <<lock, cancelled, out, budget, project>>

(* The user answers.                                                       *)
Answer(n) ==
    /\ At(n, "await") /\ ~cancelled
    /\ \E pc \in {"checkpoint", "tool"} : Goto(n, pc)
    /\ UNCHANGED <<lock, cancelled, out, budget, project>>

(* Mutant: the gate waits for the user whatever happens to the run.         *)
AwaitForever(n) == /\ At(n, "await") /\ cancelled
                   /\ UNCHANGED vars

(* The gate also returns when the run is cancelled.                        *)
AwaitCancelled(n) ==
    /\ At(n, "await") /\ cancelled
    /\ Ended(n)
    /\ UNCHANGED <<lock, cancelled, out, budget, project>>

-----------------------------------------------------------------------------
(* A call that may change the project: the lock, the file's checkpoint of a *)
(* write, the first snapshot, the tool, the second snapshot, the release.   *)

(* An agent that holds the lock already keeps it.                          *)
Locks(n) == node[n].kind \in Mutating

(* Mutant: every agent has a lock of its own.                               *)
AcquireOwnLock(n) ==
    /\ \/ At(n, "checkpoint") /\ node[n].kind = "write_file" /\ ~cancelled
       \/ At(n, "snapshot") /\ Locks(n)
    /\ lock # n /\ lock' = n
    /\ UNCHANGED <<node, cancelled, out, budget, project>>

AcquireLock(n) ==
    /\ \/ At(n, "checkpoint") /\ node[n].kind = "write_file" /\ ~cancelled
       \/ At(n, "snapshot") /\ Locks(n)
    /\ lock = NoNode
    /\ lock' = n
    /\ UNCHANGED <<node, cancelled, out, budget, project>>

(* Cancelled while the file is being read, the agent ends with the lock.   *)
CheckpointTool(n) ==
    /\ At(n, "checkpoint")
    /\ \/ /\ cancelled /\ lock # n                    \* nothing was run
          /\ node' = [node EXCEPT ![n].pc = "finish", ![n].stopped = TRUE]
          /\ out' = [node |-> n, part |-> "after"]
          /\ UNCHANGED lock
       \/ /\ node[n].kind = "write_file" /\ cancelled
          /\ Ended(n)
          /\ UNCHANGED <<lock, out>>
       \/ /\ node[n].kind = "write_file" /\ lock = n  \* its checkpoint fails
          /\ Ended(n)
          /\ lock' = NoNode
          /\ UNCHANGED out
       \/ /\ IF node[n].kind = "write_file" THEN lock = n ELSE ~cancelled
          /\ Goto(n, "snapshot")
          /\ UNCHANGED <<lock, out>>
    /\ UNCHANGED <<cancelled, budget, project>>

(* Mutant: the tool starts before the consumer has the first snapshot.      *)
SnapshotToolUnsaved(n) ==
    /\ At(n, "snapshot")
    /\ Locks(n) => lock = n
    /\ node' = [node EXCEPT ![n].pc = "run", ![n].pair = Locks(n)]
    /\ UNCHANGED <<lock, cancelled, out, budget, project>>

(* The first snapshot is handed to the consumer before the tool starts. One *)
(* that cannot be taken is replaced by a note and the tool runs all the     *)
(* same, under the lock.                                                    *)
SnapshotTool(n) ==
    /\ At(n, "snapshot")
    /\ Locks(n) => lock = n
    /\ \E taken \in BOOLEAN :
          /\ taken => Locks(n)
          /\ node' = [node EXCEPT ![n].pc = "run", ![n].pair = taken]
    /\ out' = IF Locks(n) THEN [node |-> n, part |-> "before"] ELSE out
    /\ UNCHANGED <<lock, cancelled, budget, project>>

(* A tool starts within the run's budget; a task call starts its children.  *)
CanTask(n) == node[n].kind = "task" /\ started + Cardinality(Kids[n]) <= MaxTasks

Delegated(n) ==
    [m \in Node |->
        IF m \in Kids[n] THEN Fresh("name")
        ELSE IF m = n THEN [node[n] EXCEPT !.pc = "running", !.tools = @ + 1,
                                           !.ran = TRUE]
        ELSE node[m]]

(* The call's result, after the second snapshot when there was a first.    *)
Finished(n, stopped) ==
    /\ node' = [node EXCEPT ![n].pc = "finish", ![n].pair = FALSE,
                            ![n].stopped = stopped,
                            ![n].tools = IF node[n].pc = "run" /\ ~stopped
                                         THEN @ + 1 ELSE @]
    /\ out' = IF Locks(n) THEN [node |-> n, part |-> "after"] ELSE out

Start(n) ==
    /\ At(n, "run")
    /\ \/ cancelled /\ Finished(n, TRUE) /\ UNCHANGED budget
       \/ /\ ~cancelled /\ used >= MaxRunTools
          /\ Finished(n, FALSE) /\ UNCHANGED budget
       \/ /\ ~cancelled /\ used < MaxRunTools       \* refused tasks
          /\ node[n].kind = "task"
          /\ used' = used + 1 /\ UNCHANGED started
          /\ Finished(n, FALSE)
       \/ /\ ~cancelled /\ used < MaxRunTools /\ CanTask(n)
          /\ used' = used + 1 /\ started' = started + Cardinality(Kids[n])
          /\ node' = Delegated(n)
          /\ UNCHANGED out
       \/ /\ ~cancelled /\ used < MaxRunTools /\ node[n].kind # "task"
          /\ used' = used + 1 /\ UNCHANGED started
          /\ node' = [node EXCEPT ![n].pc = "running", ![n].tools = @ + 1,
                                  ![n].ran = TRUE]
          /\ UNCHANGED out
    /\ UNCHANGED <<lock, cancelled, project>>

(* The tool's work goes on whether or not the tree is polled.              *)
Change(n) ==
    /\ node[n].pc = "running" /\ Locks(n)
    /\ changed' = changed \cup {n}
    /\ mixed' = mixed \cup {m \in Node \ {n} : node[m].pair}
    /\ UNCHANGED <<node, lock, cancelled, out, budget, covered>>

(* Mutant: the first child that is over ends the task call.                 *)
AnyChildOver(n) == \E m \in Kids[n] : node[m].pc = "over"

(* A task call is over when every child is; a command or a search ends at   *)
(* a cancel, a write does not.                                              *)
ChildrenOver(n) == \A m \in Kids[n] : node[m].pc = "over"

RunTool(n) ==
    /\ At(n, "running")
    /\ \/ node[n].kind = "task" /\ ChildrenOver(n) /\ Finished(n, FALSE)
       \/ node[n].kind # "task" /\ Finished(n, FALSE)
       \/ cancelled /\ node[n].kind \in Cancellable /\ Finished(n, TRUE)
    /\ UNCHANGED <<lock, cancelled, budget, project>>

(* The consumer has the second snapshot and the result: let others in.     *)
ReleaseTool(n) ==
    /\ At(n, "finish")
    /\ lock' = Released(n)
    /\ \/ node[n].stopped /\ Ended(n)
       \/ ~node[n].stopped /\ Goto(n, "tool")
    /\ UNCHANGED <<cancelled, out, budget, project>>

-----------------------------------------------------------------------------
(* The consumer: the session saves a snapshot, then polls the tree again.   *)

Save ==
    /\ out # NoSnapshot
    /\ covered' = IF out.part = "before" THEN covered \cup {out.node} ELSE covered
    /\ out' = NoSnapshot
    /\ UNCHANGED <<node, lock, cancelled, budget, changed, mixed>>

(* A snapshot that cannot be saved ends the run, as a lost host does: the   *)
(* whole tree is dropped with what it holds.                                *)
Abandon ==
    /\ node[Root].pc # "over"
    /\ node' = [n \in Node |->
                   IF node[n].pc = "idle" THEN node[n]
                   ELSE Fresh("over")]
    /\ lock' = NoNode /\ out' = NoSnapshot
    /\ UNCHANGED <<cancelled, budget, project>>

Cancel ==
    /\ ~cancelled
    /\ cancelled' = TRUE
    /\ UNCHANGED <<node, lock, out, budget, project>>

Step(n) == \/ Acquire(n) \/ NameTask(n) \/ Prepare(n) \/ Launch(n)
           \/ CallModel(n) \/ StreamModel(n) \/ Refuse(n) \/ EmitToolCall(n)
           \/ PrepareTool(n) \/ AwaitCancelled(n)
           \/ AcquireLock(n) \/ CheckpointTool(n) \/ SnapshotTool(n)
           \/ Start(n) \/ RunTool(n) \/ ReleaseTool(n) \/ Dropped(n)

Next == \/ \E n \in Node : Step(n) \/ Answer(n) \/ Change(n)
        \/ Save \/ Abandon \/ Cancel

Spec == Init /\ [][Next]_vars

(* The consumer keeps polling and a provider or a tool answers in the end;  *)
(* the user need not.                                                       *)
FairSpec == Spec /\ WF_vars(Save) /\ \A n \in Node : WF_vars(Step(n))

-----------------------------------------------------------------------------
(* Type correctness.                                                       *)
TreeTypeOK ==
    /\ node \in [Node -> AgentState]
    /\ lock \in Node \cup {NoNode}
    /\ cancelled \in BOOLEAN
    /\ out \in Snapshot \cup {NoSnapshot}
    /\ started \in 0 .. MaxTasks /\ used \in 0 .. MaxRunTools
    /\ covered \subseteq Node /\ changed \subseteq Node /\ mixed \subseteq Node

(* Between the two snapshots of one agent's call no other agent of the tree *)
(* changes the project, so their difference is that call's own change       *)
(* (tasks/mutations.rs).                                                    *)
OwnChanges == mixed = {}

(* Whatever stops the run, a call that has changed the project has its      *)
(* first snapshot (or the note that there is none) saved: the tool starts   *)
(* only when the consumer asks for the event after it.                      *)
ChangesCovered == changed \subseteq covered

(* The fast model's failure is retried with the primary model only when no  *)
(* attempt of the task has run a tool.                                      *)
RetriedClean == \A n \in Node : node[n].pc = "launch" => ~node[n].ran

(* No child is at work outside its parent's task call: the parent neither   *)
(* goes on nor ends before it.                                              *)
ChildrenInside ==
    \A n \in Node : \A m \in Kids[n] :
        node[m].pc \notin {"idle", "over"} =>
            node[n].pc = "running" /\ node[n].kind = "task"

(* A permit is held for model I/O only, and the mutation lock by a call     *)
(* around its tool only: never while the user is asked, while children work *)
(* or by an agent that is over (tasks/model_budget.rs, tasks/mutations.rs). *)
HeldBriefly ==
    /\ \A n \in Node : node[n].permit => node[n].pc \in ModelPc
    /\ lock # NoNode =>
         /\ node[lock].kind \in Mutating
         /\ node[lock].pc \in {"checkpoint", "snapshot", "run", "running",
                               "finish", "ended"}

(* Permits, the lock and delegation never leave everyone waiting: the run   *)
(* ends unless the user owes it an answer, and a cancelled run ends whoever *)
(* waits for a permit, the lock, a child or the user.                       *)
RunEnds == []<>(\/ node[Root].pc = "over"
                \/ ~cancelled /\ \E n \in Node : node[n].pc = "await")
=============================================================================
