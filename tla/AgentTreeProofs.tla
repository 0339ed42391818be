--------------------------- MODULE AgentTreeProofs ---------------------------
(***************************************************************************)
(* Proofs about AgentTree, for every tree of agents and every bound: the    *)
(* inductive invariant TreeInv says of each agent what its place in the     *)
(* loop owes the lock, the consumer and its parent. Nearly every step moves *)
(* one agent, so the lemma OneMoves does the work for all the others.       *)
(***************************************************************************)
EXTENDS AgentTree, FiniteSetTheorems, TLAPS

Asked == {"await", "checkpoint", "snapshot", "run", "running", "finish"}
Ahead == {"approve", "await", "checkpoint", "snapshot", "run"}
Locking == {"checkpoint", "snapshot", "run", "running", "finish", "ended"}
Resting == {"idle", "over"}

(* What agent m in state s owes the lock l, the consumer's o and cov.      *)
GoodAt(m, s, l, o, cov) ==
    /\ s.permit => s.pc \in ModelPc
    /\ s.pair => s.pc \in {"run", "running"} /\ s.kind \in Mutating
    /\ s.kind \in Mutating /\ s.pc \in {"run", "running"} => l = m
    /\ s.kind \in Mutating /\ s.pc = "running" => m \in cov
    /\ s.kind \in Mutating /\ s.pc = "run" =>
          m \in cov \/ o = [node |-> m, part |-> "before"]
    /\ l = m => s.kind \in Mutating /\ s.pc \in Locking
    /\ s.ran => s.seen
    /\ s.pc \in {"name", "prepare", "launch"} => ~s.ran
    /\ s.pc \in Asked => s.seen
    /\ s.pc \in Ahead => s.tools < MaxTools

Delegating(s) == s.pc = "running" /\ s.kind = "task"

TreeInv ==
    /\ TreeTypeOK
    /\ changed \subseteq covered
    /\ mixed = {}
    /\ \A m \in Node : GoodAt(m, node[m], lock, out, covered)
    /\ ChildrenInside

-----------------------------------------------------------------------------
(* A step that moves agent n only, while nothing is being saved, keeps the  *)
(* invariant when n's new state is good, n was and stays in its task call   *)
(* as long as it has children at work, and nobody is woken from rest.       *)
LEMMA OneMoves ==
    ASSUME TreeInv, NEW n \in Node,
           node' = [node EXCEPT ![n] = node'[n]],
           node'[n] \in AgentState,
           \/ lock' = lock
           \/ lock = n /\ lock' = NoNode
           \/ lock = NoNode /\ lock' = n,
           out = NoSnapshot, out' \in Snapshot \cup {NoSnapshot},
           covered' = covered \/ covered' = covered \ {n},
           changed' = changed \/ changed' = changed \ {n},
           covered' # covered => changed' = changed \ {n},
           mixed' = mixed, cancelled' = cancelled,
           started' \in 0 .. MaxTasks, used' \in 0 .. MaxRunTools,
           GoodAt(n, node'[n], lock', out', covered'),
           Delegating(node[n]) => \/ Delegating(node'[n])
                                  \/ \A m \in Kids[n] : node[m].pc \in Resting,
           node[n].pc \in Resting => node'[n].pc \in Resting
    PROVE  TreeInv'
<1> USE TreeAssumption
<1>1. TreeTypeOK'
  BY DEF TreeInv, TreeTypeOK
<1>2. changed' \subseteq covered' /\ mixed' = {}
  BY DEF TreeInv
<1>3. \A m \in Node : GoodAt(m, node'[m], lock', out', covered')
  <2> SUFFICES ASSUME NEW m \in Node, m # n
               PROVE  GoodAt(m, node'[m], lock', out', covered')
    OBVIOUS
  <2>1. node'[m] = node[m] /\ GoodAt(m, node[m], lock, out, covered)
    BY DEF TreeInv, TreeTypeOK
  <2>2. m \in covered => m \in covered'
    OBVIOUS
  <2>3. out # [node |-> m, part |-> "before"]
    BY DEF NoSnapshot
  <2>4. (lock' = m <=> lock = m)
    BY DEF TreeInv, TreeTypeOK
  <2> QED
    BY <2>1, <2>2, <2>3, <2>4 DEF GoodAt
<1>4. ChildrenInside'
  <2> SUFFICES ASSUME NEW p \in Node, NEW m \in Kids[p],
                      node'[m].pc \notin Resting
               PROVE  Delegating(node'[p])
    BY DEF ChildrenInside, Resting, Delegating
  <2>0. m \in Node
    OBVIOUS
  <2>1. \A q \in Node \ {n} : node'[q] = node[q]
    BY DEF TreeInv, TreeTypeOK
  <2>2. node[m].pc \notin Resting
    BY <2>0, <2>1
  <2>3. Delegating(node[p])
    BY <2>2 DEF TreeInv, ChildrenInside, Resting, Delegating
  <2> QED
    BY <2>1, <2>2, <2>3
<1> QED
  BY <1>1, <1>2, <1>3, <1>4 DEF TreeInv

(* What is known of the agent before its step.                             *)
LEMMA Before ==
    ASSUME TreeInv, NEW n \in Node
    PROVE  /\ node \in [Node -> AgentState] /\ node[n] \in AgentState
           /\ GoodAt(n, node[n], lock, out, covered)
           /\ lock \in Node \cup {NoNode} /\ n # NoNode
           /\ out \in Snapshot \cup {NoSnapshot}
           /\ started \in 0 .. MaxTasks /\ used \in 0 .. MaxRunTools
           /\ cancelled \in BOOLEAN
  BY TreeAssumption DEF TreeInv, TreeTypeOK

(* A fresh agent is good wherever it neither asks nor holds anything.      *)
LEMMA FreshGood ==
    ASSUME NEW m, NEW l, NEW o, NEW cov, l # m,
           NEW pc \in {"idle", "name", "launch", "over"}
    PROVE  Fresh(pc) \in AgentState /\ GoodAt(m, Fresh(pc), l, o, cov)
  BY TreeAssumption DEF Fresh, AgentState, GoodAt, Pc, Kind, Asked, Ahead, ModelPc, Mutating

LEMMA EndedIs ==
    ASSUME TreeInv, NEW n \in Node, Ended(n)
    PROVE  node' = [node EXCEPT ![n] = node'[n]] /\ node'[n] = Final(node[n].kind)
  BY Before DEF Ended

LEMMA EndedMoves ==
    ASSUME TreeInv, NEW n \in Node, out = NoSnapshot,
           node' = [node EXCEPT ![n] = node'[n]], node'[n] = Final(node[n].kind),
           node[n].pc \notin Resting, ~Delegating(node[n]),
           cancelled' = cancelled, out' = out, started' = started, used' = used,
           covered' = covered, changed' = changed, mixed' = mixed,
           lock' = lock \/ (lock = n /\ lock' = NoNode)
    PROVE  TreeInv'
<1>1. node[n] \in AgentState /\ node \in [Node -> AgentState]
  BY Before
<1>2. node'[n] = [Fresh("ended") EXCEPT !.kind = node[n].kind]
  BY DEF Final
<1>3. node' = [node EXCEPT ![n] = node'[n]]
  OBVIOUS
<1>4. node'[n] \in AgentState
  <2>1. node[n].kind \in Kind
    BY <1>1 DEF AgentState
  <2>2. Fresh("ended") \in AgentState
    BY TreeAssumption DEF Fresh, AgentState, Pc, Kind
  <2> QED
    BY <1>2, <2>1, <2>2 DEF AgentState
<1>5. GoodAt(n, node'[n], lock', out', covered')
  BY <1>1, <1>2, Before, TreeAssumption
  DEF Fresh, GoodAt, Asked, Ahead, ModelPc, Mutating, Locking, project, AgentState
<1> QED
  BY <1>3, <1>4, <1>5, OneMoves, Before DEF budget, project, Resting, Delegating

(* So does one that fails and starts again with its next model.            *)
LEMMA FailedMoves ==
    ASSUME TreeInv, NEW n \in Node, Failed(n), out = NoSnapshot,
           node[n].pc \in {"call", "stream", "tool"},
           UNCHANGED <<lock, cancelled, out, budget, project>>
    PROVE  TreeInv'
<1>1. node[n] \in AgentState /\ node \in [Node -> AgentState] /\ lock # n
  BY Before DEF GoodAt, Locking
<1>2. CASE Ended(n)
  BY <1>2, <1>1, EndedMoves, EndedIs DEF Resting, Delegating, budget, project
<1>3. CASE FallsBack(n) /\ Retried(n)
  <2>1. ~node[n].ran
    BY <1>3, Before DEF FallsBack, GoodAt
  <2>2. node'[n] = [Fresh("launch") EXCEPT !.tries = node[n].tries, !.ran = FALSE]
    BY <1>1, <1>3, <2>1 DEF Retried, AgentState
  <2>3. node' = [node EXCEPT ![n] = node'[n]]
    BY <1>1, <1>3 DEF Retried
  <2>4. node'[n] \in AgentState
    <3>1. node[n].tries \in 0 .. 2
      BY <1>1 DEF AgentState
    <3> QED
      BY <2>2, <3>1, <1>1, FreshGood DEF AgentState
  <2>5. GoodAt(n, node'[n], lock', out', covered')
    BY <1>1, <2>2, Before
    DEF Fresh, GoodAt, Asked, Ahead, ModelPc, Mutating, Locking, project
  <2> QED
    BY <2>3, <2>4, <2>5, OneMoves, Before DEF budget, project, Resting, Delegating
<1> QED
  BY <1>2, <1>3 DEF Failed

-----------------------------------------------------------------------------
(* One step per action.                                                    *)
LEMMA AcquireKeeps ==
    ASSUME TreeInv, NEW n \in Node, Acquire(n) PROVE TreeInv'
<1>1. node[n] \in AgentState /\ node \in [Node -> AgentState]
  BY Before
<1>2. node' = [node EXCEPT ![n] = node'[n]] /\ node'[n] = [node[n] EXCEPT !.permit = TRUE]
  BY <1>1 DEF Acquire
<1>3. node'[n] \in AgentState
  BY <1>1, <1>2 DEF AgentState
<1>4. GoodAt(n, node'[n], lock', out', covered')
  BY <1>1, <1>2, Before DEF Acquire, GoodAt, project, AgentState
<1> QED
  BY <1>2, <1>3, <1>4, OneMoves, Before DEF Acquire, budget, project, Resting, Delegating, ModelPc, AgentState

LEMMA NameTaskKeeps ==
    ASSUME TreeInv, NEW n \in Node, NameTask(n) PROVE TreeInv'
<1>1. node[n] \in AgentState /\ node \in [Node -> AgentState]
  BY Before
<1>2. node' = [node EXCEPT ![n] = node'[n]]
      /\ node'[n] = [node[n] EXCEPT !.pc = "prepare", !.permit = FALSE]
  BY <1>1 DEF NameTask
<1>3. node'[n] \in AgentState
  BY <1>1, <1>2 DEF AgentState, Pc
<1>4. GoodAt(n, node'[n], lock', out', covered')
  BY <1>1, <1>2, Before
  DEF NameTask, At, GoodAt, project, AgentState, Asked, Ahead, Locking
<1> QED
  BY <1>2, <1>3, <1>4, OneMoves, Before DEF NameTask, At, budget, project, Resting, Delegating

LEMMA PrepareKeeps ==
    ASSUME TreeInv, NEW n \in Node, Prepare(n) PROVE TreeInv'
<1>1. node[n] \in AgentState /\ node \in [Node -> AgentState]
  BY Before
<1>2. CASE Ended(n)
  BY <1>2, EndedMoves, EndedIs DEF Prepare, At, Resting, Delegating, budget, project
<1>3. CASE node' = [node EXCEPT ![n].pc = "launch", ![n].tries = IF n \in Fast THEN 2 ELSE 1]
  <2>0. (IF n \in Fast THEN 2 ELSE 1) \in 0 .. 2
    OBVIOUS
  <2>1. PICK t \in 0 .. 2 : node' = [node EXCEPT ![n].pc = "launch", ![n].tries = t]
    BY <1>3, <2>0, Zenon
  <2>2. node' = [node EXCEPT ![n] = node'[n]]
        /\ node'[n] = [node[n] EXCEPT !.pc = "launch", !.tries = t]
    BY <1>1, <2>1
  <2>3. node'[n] \in AgentState
    BY <1>1, <2>2 DEF AgentState, Pc
  <2>4. GoodAt(n, node'[n], lock', out', covered')
    BY <1>1, <2>2, Before
    DEF Prepare, At, GoodAt, project, AgentState, Asked, Ahead, Locking, ModelPc
  <2> QED
    BY <2>2, <2>3, <2>4, OneMoves, Before DEF Prepare, At, budget, project, Resting, Delegating
<1> QED
  BY <1>2, <1>3 DEF Prepare

LEMMA LaunchKeeps ==
    ASSUME TreeInv, NEW n \in Node, Launch(n) PROVE TreeInv'
<1>1. node[n] \in AgentState /\ node \in [Node -> AgentState]
  BY Before
<1>2. CASE Ended(n)
  BY <1>2, EndedMoves, EndedIs DEF Launch, At, Resting, Delegating, budget, project
<1>3. CASE \E pc \in {"call", "launch"} :
             node[n].tries > 0 /\ node' = [node EXCEPT ![n].pc = pc, ![n].tries = @ - 1]
  <2>1. PICK pc \in {"call", "launch"} :
             node[n].tries > 0 /\ node' = [node EXCEPT ![n].pc = pc, ![n].tries = @ - 1]
    BY <1>3
  <2>2. node' = [node EXCEPT ![n] = node'[n]]
        /\ node'[n] = [node[n] EXCEPT !.pc = pc, !.tries = @ - 1]
    BY <1>1, <2>1
  <2>3. node'[n] \in AgentState
    <3>1. node[n].tries - 1 \in 0 .. 2
      BY <1>1, <2>1 DEF AgentState
    <3> QED
      BY <1>1, <2>2, <3>1 DEF AgentState, Pc
  <2>4. GoodAt(n, node'[n], lock', out', covered')
    BY <1>1, <2>2, Before
    DEF Launch, At, GoodAt, project, AgentState, Asked, Ahead, Locking, ModelPc
  <2> QED
    BY <2>2, <2>3, <2>4, OneMoves, Before DEF Launch, At, budget, project, Resting, Delegating
<1>4. ASSUME node' = [node EXCEPT ![n].tries = @ - 1]
      PROVE  node' = [node EXCEPT ![n].pc = "launch", ![n].tries = @ - 1]
  BY <1>4, <1>1 DEF Launch, At, AgentState
<1> QED
  BY <1>1, <1>2, <1>3, <1>4 DEF Launch, AgentState

LEMMA CallModelKeeps ==
    ASSUME TreeInv, NEW n \in Node, CallModel(n) PROVE TreeInv'
<1>1. node[n] \in AgentState /\ node \in [Node -> AgentState]
  BY Before
<1>2. CASE Ended(n)
  BY <1>2, EndedMoves, EndedIs DEF CallModel, At, Resting, Delegating, budget, project
<1>3. CASE node' = [node EXCEPT ![n].pc = "stream", ![n].turn = @ + 1] /\ node[n].turn < MaxTurns
  <2>2. node' = [node EXCEPT ![n] = node'[n]]
        /\ node'[n] = [node[n] EXCEPT !.pc = "stream", !.turn = @ + 1]
    BY <1>1, <1>3
  <2>3. node'[n] \in AgentState
    <3>1. node[n].turn + 1 \in 0 .. MaxTurns
      BY <1>1, <1>3, TreeAssumption DEF AgentState
    <3> QED
      BY <1>1, <2>2, <3>1 DEF AgentState, Pc
  <2>4. GoodAt(n, node'[n], lock', out', covered')
    BY <1>1, <1>3, <2>2, Before
    DEF CallModel, At, GoodAt, project, AgentState, Asked, Ahead, Locking, ModelPc
  <2> QED
    BY <1>3, <2>2, <2>3, <2>4, OneMoves, Before DEF CallModel, At, budget, project, Resting, Delegating
<1>4. CASE Failed(n)
  BY <1>4, FailedMoves DEF CallModel, At
<1> QED
  BY <1>2, <1>3, <1>4 DEF CallModel

LEMMA StreamModelKeeps ==
    ASSUME TreeInv, NEW n \in Node, StreamModel(n) PROVE TreeInv'
<1>1. node[n] \in AgentState /\ node \in [Node -> AgentState]
  BY Before
<1>2. CASE Ended(n)
  BY <1>2, EndedMoves, EndedIs DEF StreamModel, At, Resting, Delegating, budget, project
<1>3. CASE Failed(n)
  BY <1>3, FailedMoves DEF StreamModel, At
<1>4. ASSUME NEW k \in 0 .. MaxCalls,
             node' = [node EXCEPT ![n].pc = "tool", ![n].calls = k, ![n].permit = FALSE]
      PROVE  TreeInv'
  <2>2. node' = [node EXCEPT ![n] = node'[n]]
        /\ node'[n] = [node[n] EXCEPT !.pc = "tool", !.calls = k, !.permit = FALSE]
    BY <1>1, <1>4
  <2>3. node'[n] \in AgentState
    BY <1>1, <2>2 DEF AgentState, Pc
  <2>4. GoodAt(n, node'[n], lock', out', covered')
    BY <1>1, <2>2, Before
    DEF StreamModel, At, GoodAt, project, AgentState, Asked, Ahead, Locking, ModelPc
  <2> QED
    BY <2>2, <2>3, <2>4, OneMoves, Before DEF StreamModel, At, budget, project, Resting, Delegating
<1> QED
  BY <1>2, <1>3, <1>4 DEF StreamModel

LEMMA RefuseKeeps ==
    ASSUME TreeInv, NEW n \in Node, Refuse(n) PROVE TreeInv'
<1>1. node[n] \in AgentState /\ node \in [Node -> AgentState]
  BY Before
<1>2. node' = [node EXCEPT ![n] = node'[n]]
      /\ node'[n] = [node[n] EXCEPT !.calls = @ - 1, !.tools = @ + 1, !.seen = TRUE]
  BY <1>1 DEF Refuse
<1>3. node'[n] \in AgentState
  <2>1. node[n].calls - 1 \in 0 .. MaxCalls /\ node[n].tools + 1 \in 0 .. MaxTools
    BY <1>1, TreeAssumption DEF Refuse, AgentState
  <2> QED
    BY <1>1, <1>2, <2>1 DEF AgentState
<1>4. GoodAt(n, node'[n], lock', out', covered')
  BY <1>1, <1>2, Before
  DEF Refuse, At, GoodAt, project, AgentState, Asked, Ahead, Locking, ModelPc
<1> QED
  BY <1>2, <1>3, <1>4, OneMoves, Before DEF Refuse, At, budget, project, Resting, Delegating

LEMMA EmitToolCallKeeps ==
    ASSUME TreeInv, NEW n \in Node, EmitToolCall(n) PROVE TreeInv'
<1>1. node[n] \in AgentState /\ node \in [Node -> AgentState]
  BY Before
<1>2. CASE Ended(n) /\ UNCHANGED project
  BY <1>2, EndedMoves, EndedIs DEF EmitToolCall, At, Resting, Delegating, budget, project
<1>3. CASE Failed(n) /\ UNCHANGED project
  BY <1>3, FailedMoves DEF EmitToolCall, At
<1>4. CASE Goto(n, "call") /\ UNCHANGED project
  <2>2. node' = [node EXCEPT ![n] = node'[n]]
        /\ node'[n] = [node[n] EXCEPT !.pc = "call"]
    BY <1>1, <1>4 DEF Goto
  <2>3. node'[n] \in AgentState
    BY <1>1, <2>2 DEF AgentState, Pc
  <2>4. GoodAt(n, node'[n], lock', out', covered')
    BY ZenonT(40), <1>1, <1>4, <2>2, Before
    DEF EmitToolCall, At, GoodAt, project, AgentState, Asked, Ahead, Locking, ModelPc, Goto
  <2> QED
    BY <1>4, <2>2, <2>3, <2>4, OneMoves, Before DEF EmitToolCall, At, budget, project, Resting, Delegating, Goto
<1>5. ASSUME NEW k \in Calls[n], NEW pc \in {"checkpoint", "approve", "await"},
             node[n].calls > 0, node[n].tools < MaxTools,
             node' = [node EXCEPT ![n].pc = pc, ![n].kind = k,
                                  ![n].calls = @ - 1, ![n].pair = FALSE,
                                  ![n].stopped = FALSE,
                                  ![n].seen = @ \/ pc # "approve"],
             covered' = covered \ {n}, changed' = changed \ {n}, UNCHANGED mixed
      PROVE  TreeInv'
  <2>1. node' = [node EXCEPT ![n] = node'[n]]
        /\ node'[n] = [node[n] EXCEPT !.pc = pc, !.kind = k, !.calls = @ - 1,
                                      !.pair = FALSE, !.stopped = FALSE,
                                      !.seen = @ \/ pc # "approve"]
    BY <1>1, <1>5
  <2>2. node[n].calls - 1 \in 0 .. MaxCalls /\ k \in Kind
        /\ (node[n].seen \/ pc # "approve") \in BOOLEAN
    BY <1>1, <1>5, TreeAssumption DEF AgentState
  <2>3. node'[n] \in AgentState
    BY ZenonT(40), <1>1, <2>1, <2>2 DEF AgentState, Pc
  <2>4. /\ node'[n].pc = pc /\ node'[n].kind = k /\ node'[n].pair = FALSE
        /\ node'[n].permit = node[n].permit /\ node'[n].ran = node[n].ran
        /\ node'[n].tools = node[n].tools
        /\ node'[n].seen = (node[n].seen \/ pc # "approve")
    BY <1>1, <2>1 DEF AgentState
  <2>5. GoodAt(n, node'[n], lock', out', covered')
    BY <1>1, <1>5, <2>4, Before
    DEF EmitToolCall, At, GoodAt, AgentState, Asked, Ahead, Locking, ModelPc
  <2>6. /\ UNCHANGED <<lock, cancelled, out, budget>> /\ node[n].pc = "tool"
        /\ out = NoSnapshot
    BY DEF EmitToolCall, At
  <2>7. /\ started' \in 0 .. MaxTasks /\ used' \in 0 .. MaxRunTools
        /\ out' \in Snapshot \cup {NoSnapshot}
    BY <2>6, Before DEF budget
  <2>8. ~Delegating(node[n]) /\ node[n].pc \notin Resting
    BY <2>6 DEF Delegating, Resting
  <2> QED
    BY <1>5, <2>1, <2>3, <2>5, <2>6, <2>7, <2>8, OneMoves
<1> QED
  BY <1>2, <1>3, <1>4, <1>5, ZenonT(120) DEF EmitToolCall

LEMMA PrepareToolKeeps ==
    ASSUME TreeInv, NEW n \in Node, PrepareTool(n) PROVE TreeInv'
<1>1. node[n] \in AgentState /\ node \in [Node -> AgentState]
  BY Before
<1>2. CASE Ended(n)
  BY <1>2, EndedMoves, EndedIs DEF PrepareTool, At, Resting, Delegating, budget, project
<1>3. ASSUME NEW pc \in {"checkpoint", "await"},
             node' = [node EXCEPT ![n].pc = pc, ![n].permit = FALSE, ![n].seen = TRUE]
      PROVE  TreeInv'
  <2>2. node' = [node EXCEPT ![n] = node'[n]]
        /\ node'[n] = [node[n] EXCEPT !.pc = pc, !.permit = FALSE, !.seen = TRUE]
    BY <1>1, <1>3
  <2>3. node'[n] \in AgentState
    BY <1>1, <2>2 DEF AgentState, Pc
  <2>4. GoodAt(n, node'[n], lock', out', covered')
    BY <1>1, <2>2, Before
    DEF PrepareTool, At, GoodAt, project, AgentState, Asked, Ahead, Locking, ModelPc
  <2> QED
    BY <2>2, <2>3, <2>4, OneMoves, Before DEF PrepareTool, At, budget, project, Resting, Delegating
<1> QED
  BY <1>2, <1>3 DEF PrepareTool

LEMMA AnswerKeeps ==
    ASSUME TreeInv, NEW n \in Node, Answer(n) PROVE TreeInv'
<1>1. node[n] \in AgentState /\ node \in [Node -> AgentState]
  BY Before
<1>2. PICK pc \in {"checkpoint", "tool"} : Goto(n, pc)
  BY DEF Answer
<1>3. node' = [node EXCEPT ![n] = node'[n]] /\ node'[n] = [node[n] EXCEPT !.pc = pc]
  BY <1>1, <1>2 DEF Goto
<1>4. node'[n] \in AgentState
  BY <1>1, <1>3 DEF AgentState, Pc
<1>5. GoodAt(n, node'[n], lock', out', covered')
  BY <1>1, <1>3, Before
  DEF Answer, At, GoodAt, project, AgentState, Asked, Ahead, Locking, ModelPc
<1> QED
  BY <1>3, <1>4, <1>5, OneMoves, Before DEF Answer, At, budget, project, Resting, Delegating

LEMMA AwaitCancelledKeeps ==
    ASSUME TreeInv, NEW n \in Node, AwaitCancelled(n) PROVE TreeInv'
  BY EndedMoves, EndedIs DEF AwaitCancelled, At, Resting, Delegating, budget, project

LEMMA AcquireLockKeeps ==
    ASSUME TreeInv, NEW n \in Node, AcquireLock(n) PROVE TreeInv'
<1>1. node[n] \in AgentState /\ node \in [Node -> AgentState]
  BY Before
<1>2. node' = [node EXCEPT ![n] = node'[n]] /\ node'[n] = node[n]
  BY <1>1 DEF AcquireLock
<1>3. GoodAt(n, node'[n], lock', out', covered')
  BY <1>1, <1>2, Before
  DEF AcquireLock, At, Locks, GoodAt, project, Mutating, Asked, Ahead, Locking, ModelPc
<1> QED
  BY <1>1, <1>2, <1>3, OneMoves, Before DEF AcquireLock, At, budget, project, Resting, Delegating

LEMMA CheckpointToolKeeps ==
    ASSUME TreeInv, NEW n \in Node, CheckpointTool(n) PROVE TreeInv'
<1>1. node[n] \in AgentState /\ node \in [Node -> AgentState]
  BY Before
<1>2. CASE /\ lock # n /\ UNCHANGED lock /\ out' = [node |-> n, part |-> "after"]
           /\ node' = [node EXCEPT ![n].pc = "finish", ![n].stopped = TRUE]
  <2>1. node' = [node EXCEPT ![n] = node'[n]]
        /\ node'[n] = [node[n] EXCEPT !.pc = "finish", !.stopped = TRUE]
    BY <1>1, <1>2
  <2>2. node'[n] \in AgentState /\ out' \in Snapshot
    BY <1>1, <1>2, <2>1 DEF AgentState, Pc, Snapshot
  <2>3. GoodAt(n, node'[n], lock', out', covered')
    BY <1>1, <1>2, <2>1, Before
    DEF CheckpointTool, At, GoodAt, project, AgentState, Asked, Ahead, Locking, ModelPc
  <2> QED
    BY <1>2, <2>1, <2>2, <2>3, OneMoves, Before
    DEF CheckpointTool, At, budget, project, Resting, Delegating
<1>3. CASE Ended(n) /\ UNCHANGED out /\ (lock' = lock \/ (lock = n /\ lock' = NoNode))
  BY <1>3, EndedMoves, EndedIs
  DEF CheckpointTool, At, Resting, Delegating, budget, project
<1>4. CASE Goto(n, "snapshot") /\ UNCHANGED <<lock, out>>
  <2>1. node' = [node EXCEPT ![n] = node'[n]] /\ node'[n] = [node[n] EXCEPT !.pc = "snapshot"]
    BY <1>1, <1>4 DEF Goto
  <2>2. node'[n] \in AgentState
    BY <1>1, <2>1 DEF AgentState, Pc
  <2>3. GoodAt(n, node'[n], lock', out', covered')
    BY <1>1, <1>4, <2>1, Before
    DEF CheckpointTool, At, GoodAt, project, AgentState, Asked, Ahead, Locking, ModelPc
  <2> QED
    BY <1>4, <2>1, <2>2, <2>3, OneMoves, Before
    DEF CheckpointTool, At, budget, project, Resting, Delegating
<1> QED
  BY <1>2, <1>3, <1>4, ZenonT(120) DEF CheckpointTool

LEMMA SnapshotToolKeeps ==
    ASSUME TreeInv, NEW n \in Node, SnapshotTool(n) PROVE TreeInv'
<1>1. node[n] \in AgentState /\ node \in [Node -> AgentState]
  BY Before
<1>2. PICK taken \in BOOLEAN :
         /\ node' = [node EXCEPT ![n] = node'[n]]
         /\ node'[n] = [node[n] EXCEPT !.pc = "run", !.pair = taken]
         /\ taken => Locks(n)
         /\ out' = IF Locks(n) THEN [node |-> n, part |-> "before"] ELSE out
         /\ Locks(n) => lock = n
  BY <1>1 DEF SnapshotTool
<1>3. node'[n] \in AgentState /\ out' \in Snapshot \cup {NoSnapshot}
  BY <1>1, <1>2, Before DEF AgentState, Pc, Snapshot
<1>4. GoodAt(n, node'[n], lock', out', covered')
  BY <1>1, <1>2, Before
  DEF SnapshotTool, At, GoodAt, Locks, project, AgentState, Asked, Ahead, Locking, ModelPc
<1> QED
  BY <1>2, <1>3, <1>4, OneMoves, Before
  DEF SnapshotTool, At, budget, project, Resting, Delegating

(* A tool call's end.                                                      *)
LEMMA FinishedMoves ==
    ASSUME TreeInv, NEW n \in Node, NEW stopped \in BOOLEAN, Finished(n, stopped),
           out = NoSnapshot, node[n].pc \in {"run", "running"},
           Delegating(node[n]) => \A m \in Kids[n] : node[m].pc \in Resting,
           lock' = lock, cancelled' = cancelled,
           started' \in 0 .. MaxTasks, used' \in 0 .. MaxRunTools,
           covered' = covered, changed' = changed, mixed' = mixed
    PROVE  TreeInv'
<1>1. node[n] \in AgentState /\ node \in [Node -> AgentState]
  BY Before
<1>2. PICK t \in 0 .. MaxTools :
         /\ node' = [node EXCEPT ![n] = node'[n]]
         /\ node'[n] = [node[n] EXCEPT !.pc = "finish", !.pair = FALSE,
                                       !.stopped = stopped, !.tools = t]
  <2>1. node[n].pc = "run" => node[n].tools + 1 \in 0 .. MaxTools
    BY <1>1, Before, TreeAssumption DEF GoodAt, Ahead, AgentState
  <2>2. (IF node[n].pc = "run" /\ ~stopped THEN node[n].tools + 1 ELSE node[n].tools)
           \in 0 .. MaxTools
    BY <1>1, <2>1 DEF AgentState
  <2> QED
    BY <1>1, <2>2 DEF Finished
<1>3. node'[n] \in AgentState /\ out' \in Snapshot \cup {NoSnapshot}
  BY <1>1, <1>2, Before DEF Finished, AgentState, Pc, Snapshot
<1>4. GoodAt(n, node'[n], lock', out', covered')
  BY <1>1, <1>2, Before
  DEF GoodAt, Mutating, AgentState, Asked, Ahead, Locking, ModelPc
<1> QED
  BY <1>2, <1>3, <1>4, OneMoves, Before DEF Resting, Delegating

LEMMA RunToolKeeps ==
    ASSUME TreeInv, NEW n \in Node, RunTool(n) PROVE TreeInv'
<1>1. PICK stopped \in BOOLEAN : Finished(n, stopped)
  BY DEF RunTool
<1>2. Delegating(node[n]) => \A m \in Kids[n] : node[m].pc \in Resting
  BY DEF RunTool, ChildrenOver, Delegating, Resting, Cancellable
<1> QED
  BY <1>1, <1>2, FinishedMoves, Before DEF RunTool, At, budget, project

LEMMA ReleaseToolKeeps ==
    ASSUME TreeInv, NEW n \in Node, ReleaseTool(n) PROVE TreeInv'
<1>1. node[n] \in AgentState /\ node \in [Node -> AgentState]
  BY Before
<1>2. /\ lock' = lock \/ (lock = n /\ lock' = NoNode)
      /\ lock' # n
  BY Before DEF ReleaseTool, Released
<1>3. CASE Ended(n)
  BY <1>2, <1>3, EndedMoves, EndedIs
  DEF ReleaseTool, At, Resting, Delegating, budget, project
<1>4. CASE Goto(n, "tool")
  <2>1. node' = [node EXCEPT ![n] = node'[n]] /\ node'[n] = [node[n] EXCEPT !.pc = "tool"]
    BY <1>1, <1>4 DEF Goto
  <2>2. node'[n] \in AgentState
    BY <1>1, <2>1 DEF AgentState, Pc
  <2>3. GoodAt(n, node'[n], lock', out', covered')
    BY <1>1, <1>2, <2>1, Before
    DEF ReleaseTool, At, GoodAt, project, AgentState, Asked, Ahead, Locking, ModelPc
  <2> QED
    BY <1>2, <2>1, <2>2, <2>3, OneMoves, Before
    DEF ReleaseTool, At, budget, project, Resting, Delegating
<1> QED
  BY <1>3, <1>4 DEF ReleaseTool

LEMMA DroppedKeeps ==
    ASSUME TreeInv, NEW n \in Node, Dropped(n) PROVE TreeInv'
<1>1. node[n] \in AgentState /\ node \in [Node -> AgentState]
  BY Before
<1>2. /\ lock' = lock \/ (lock = n /\ lock' = NoNode)
      /\ lock' # n
  BY Before DEF Dropped, Released
<1>3. node' = [node EXCEPT ![n] = node'[n]] /\ node'[n] = Fresh("over")
  BY <1>1 DEF Dropped
<1>4. node'[n] \in AgentState /\ GoodAt(n, node'[n], lock', out', covered')
  BY <1>2, <1>3, FreshGood
<1>5. node'[n].pc = "over"
  BY <1>3 DEF Fresh
<1> QED
  BY <1>2, <1>3, <1>4, <1>5, OneMoves, Before
  DEF Dropped, At, budget, project, Resting, Delegating

(* The start of a task call wakes the children, who were all at rest.      *)
LEMMA DelegatedKeeps ==
    ASSUME TreeInv, NEW n \in Node, out = NoSnapshot, node[n].pc = "run",
           node[n].kind = "task", node' = Delegated(n),
           lock' = lock, cancelled' = cancelled, out' = out,
           started' \in 0 .. MaxTasks, used' \in 0 .. MaxRunTools,
           covered' = covered, changed' = changed, mixed' = mixed
    PROVE  TreeInv'
<1> USE TreeAssumption
<1>1. node[n] \in AgentState /\ node \in [Node -> AgentState] /\ Kids[n] \subseteq Node
  BY Before
<1>2. \A m \in Kids[n] : m # n /\ node[m].pc \in Resting /\ lock # m
  <2> SUFFICES ASSUME NEW m \in Kids[n]
               PROVE  m # n /\ node[m].pc \in Resting /\ lock # m
    OBVIOUS
  <2>1. m \in Node /\ m # n
    BY <1>1
  <2>2. node[m].pc \in Resting
    BY DEF TreeInv, ChildrenInside, Resting
  <2>3. lock # m
    BY <2>1, <2>2, Before DEF GoodAt, Locking, Resting
  <2> QED
    BY <2>1, <2>2, <2>3
<1>3. \A m \in Kids[n] : node'[m] = Fresh("name")
  BY <1>1 DEF Delegated
<1>4. node'[n] = [node[n] EXCEPT !.pc = "running", !.tools = @ + 1, !.ran = TRUE]
  BY <1>1, <1>2 DEF Delegated
<1>5. \A m \in Node : m \notin Kids[n] /\ m # n => node'[m] = node[m]
  BY DEF Delegated
<1>6. node'[n] \in AgentState
  <2>1. node[n].tools + 1 \in 0 .. MaxTools
    BY <1>1, Before DEF GoodAt, Ahead, AgentState
  <2> QED
    BY <1>1, <1>4, <2>1 DEF AgentState, Pc
<1>7. \A m \in Node : node'[m] \in AgentState /\ GoodAt(m, node'[m], lock', out', covered')
  <2> SUFFICES ASSUME NEW m \in Node
               PROVE  node'[m] \in AgentState /\ GoodAt(m, node'[m], lock', out', covered')
    OBVIOUS
  <2>1. CASE m \in Kids[n]
    BY <2>1, <1>2, <1>3, FreshGood
  <2>2. CASE m = n
    <3>1. GoodAt(n, node'[n], lock', out', covered')
      BY <1>1, <1>4, Before
      DEF GoodAt, AgentState, Asked, Ahead, Locking, ModelPc, Mutating
    <3> QED
      BY <2>2, <3>1, <1>6
  <2>3. CASE m \notin Kids[n] /\ m # n
    BY <2>3, <1>5, Before
  <2> QED
    BY <2>1, <2>2, <2>3
<1>8. TreeTypeOK'
  <2>1. node' \in [Node -> AgentState]
    BY <1>7 DEF Delegated
  <2> QED
    BY <2>1 DEF TreeInv, TreeTypeOK
<1>9. ChildrenInside'
  <2> SUFFICES ASSUME NEW p \in Node, NEW m \in Kids[p], node'[m].pc \notin Resting
               PROVE  Delegating(node'[p])
    BY DEF ChildrenInside, Resting, Delegating
  <2>1. Delegating(node'[n])
    BY <1>1, <1>4 DEF Delegating, AgentState
  <2>2. CASE p # n
    <3>1. m \in Node /\ m \notin Kids[n]
      BY <2>2, <1>1
    <3>2. node[m].pc \notin Resting
      BY <3>1, <1>5 DEF Resting
    <3>3. Delegating(node[p])
      BY <3>2 DEF TreeInv, ChildrenInside, Resting, Delegating
    <3>4. p \notin Kids[n]
      BY <3>3, <1>2 DEF Delegating, Resting
    <3> QED
      BY <2>2, <3>3, <3>4, <1>5
  <2> QED
    BY <2>1, <2>2
<1> QED
  BY <1>7, <1>8, <1>9 DEF TreeInv

LEMMA StartKeeps ==
    ASSUME TreeInv, NEW n \in Node, Start(n) PROVE TreeInv'
<1> USE TreeAssumption
<1>1. node[n] \in AgentState /\ node \in [Node -> AgentState]
  BY Before
<1>2. Cardinality(Kids[n]) \in Nat
  BY FS_Subset, FS_CardinalityType
<1>3. used' \in 0 .. MaxRunTools /\ started' \in 0 .. MaxTasks
  <2>1. used \in 0 .. MaxRunTools /\ started \in 0 .. MaxTasks
        /\ MaxRunTools \in Nat /\ MaxTasks \in Nat
    BY Before
  <2>2. used' = used \/ (used < MaxRunTools /\ used' = used + 1)
    BY ZenonT(120) DEF Start, budget
  <2>3. (started' = started)
        \/ (/\ started + Cardinality(Kids[n]) <= MaxTasks
            /\ started' = started + Cardinality(Kids[n]))
    BY ZenonT(120) DEF Start, budget, CanTask
  <2>4. used' \in 0 .. MaxRunTools
    BY <2>1, <2>2
  <2>5. started' \in 0 .. MaxTasks
    BY <1>2, <2>1, <2>3
  <2> QED
    BY <2>4, <2>5
<1>4. ASSUME NEW stopped \in BOOLEAN, Finished(n, stopped) PROVE TreeInv'
  BY <1>3, <1>4, FinishedMoves DEF Start, At, Delegating, project
<1>5. CASE node' = Delegated(n) /\ UNCHANGED out /\ CanTask(n)
  BY <1>3, <1>5, DelegatedKeeps DEF Start, At, CanTask, project
<1>6. CASE /\ node[n].kind # "task" /\ UNCHANGED out
           /\ node' = [node EXCEPT ![n].pc = "running", ![n].tools = @ + 1, ![n].ran = TRUE]
  <2>1. node' = [node EXCEPT ![n] = node'[n]]
        /\ node'[n] = [node[n] EXCEPT !.pc = "running", !.tools = @ + 1, !.ran = TRUE]
    BY <1>1, <1>6
  <2>2. node'[n] \in AgentState
    <3>1. node[n].tools + 1 \in 0 .. MaxTools
      BY <1>1, Before DEF Start, At, GoodAt, Ahead, AgentState
    <3> QED
      BY <1>1, <2>1, <3>1 DEF AgentState, Pc
  <2>3. GoodAt(n, node'[n], lock', out', covered')
    BY <1>1, <1>6, <2>1, Before
    DEF Start, At, GoodAt, NoSnapshot, project, AgentState, Asked, Ahead, Locking, ModelPc
  <2> QED
    BY <1>3, <1>6, <2>1, <2>2, <2>3, OneMoves, Before
    DEF Start, At, project, Resting, Delegating
<1> QED
  BY <1>4, <1>5, <1>6, ZenonT(120) DEF Start

(* The lock's holder alone is between its snapshots, and only the holder    *)
(* changes the project.                                                     *)
LEMMA ChangeKeeps ==
    ASSUME TreeInv, NEW n \in Node, Change(n) PROVE TreeInv'
<1>1. lock = n /\ n \in covered
  BY Before DEF Change, Locks, GoodAt
<1>2. \A m \in Node \ {n} : ~node[m].pair
  BY <1>1, Before DEF GoodAt
<1>3. mixed' = {} /\ changed' \subseteq covered'
  BY <1>1, <1>2 DEF Change, TreeInv
<1>4. TreeTypeOK'
  BY <1>3 DEF Change, budget, TreeInv, TreeTypeOK
<1>5. \A m \in Node : GoodAt(m, node'[m], lock', out', covered')
  BY DEF Change, TreeInv
<1>6. ChildrenInside'
  BY DEF Change, TreeInv, ChildrenInside
<1> QED
  BY <1>3, <1>4, <1>5, <1>6 DEF TreeInv

LEMMA SaveKeeps == ASSUME TreeInv, Save PROVE TreeInv'
<1>1. TreeTypeOK' /\ changed' \subseteq covered' /\ mixed' = {}
  BY TreeAssumption DEF Save, budget, TreeInv, TreeTypeOK, Snapshot, NoSnapshot
<1>2. ASSUME NEW m \in Node PROVE GoodAt(m, node'[m], lock', out', covered')
  BY Before DEF Save, GoodAt
<1>3. ChildrenInside'
  BY DEF Save, TreeInv, ChildrenInside
<1> QED
  BY <1>1, <1>2, <1>3 DEF TreeInv

LEMMA AbandonKeeps == ASSUME TreeInv, Abandon PROVE TreeInv'
<1>1. ASSUME NEW m \in Node
      PROVE  /\ node'[m] \in AgentState /\ node'[m].pc \in Resting
             /\ GoodAt(m, node'[m], lock', out', covered')
  <2>1. m # NoNode
    BY TreeAssumption
  <2>2. CASE node[m].pc = "idle"
    <3>1. node'[m] = node[m]
      BY <2>2 DEF Abandon
    <3> QED
      BY <2>1, <2>2, <3>1, Before
      DEF Abandon, GoodAt, project, Asked, Ahead, Locking, ModelPc, Resting
  <2>3. CASE node[m].pc # "idle"
    <3>1. node'[m] = Fresh("over") /\ lock' # m
      BY <2>1, <2>3 DEF Abandon
    <3>2. node'[m].pc = "over"
      BY <3>1 DEF Fresh
    <3> QED
      BY <3>1, <3>2, FreshGood DEF Resting
  <2> QED
    BY <2>2, <2>3
<1>2. TreeTypeOK'
  <2>1. node' \in [Node -> AgentState]
    BY <1>1 DEF Abandon
  <2> QED
    BY <2>1 DEF Abandon, budget, project, TreeInv, TreeTypeOK
<1>3. ChildrenInside'
  BY <1>1, TreeAssumption DEF ChildrenInside, Resting
<1> QED
  BY <1>1, <1>2, <1>3 DEF TreeInv, Abandon, project

LEMMA CancelKeeps == ASSUME TreeInv, Cancel PROVE TreeInv'
<1>1. TreeTypeOK'
  BY DEF Cancel, budget, project, TreeInv, TreeTypeOK
<1>2. \A m \in Node : GoodAt(m, node'[m], lock', out', covered')
  BY DEF Cancel, project, TreeInv
<1>3. ChildrenInside'
  BY DEF Cancel, TreeInv, ChildrenInside
<1> QED
  BY <1>1, <1>2, <1>3 DEF Cancel, project, TreeInv

-----------------------------------------------------------------------------
LEMMA InitTreeInv == ASSUME Init PROVE TreeInv
<1> USE TreeAssumption
<1>1. ASSUME NEW m \in Node
      PROVE  node[m] \in AgentState /\ GoodAt(m, node[m], lock, out, covered)
  BY DEF Init, Fresh, AgentState, GoodAt, Pc, Kind, Asked, Ahead, Locking, ModelPc, Mutating
<1>2. TreeTypeOK
  <2>1. node = [m \in Node |-> node[m]]
    BY DEF Init
  <2>2. node \in [Node -> AgentState]
    BY <1>1, <2>1
  <2>3. started \in 0 .. MaxTasks /\ used \in 0 .. MaxRunTools
    BY DEF Init
  <2>4. lock \in Node \cup {NoNode} /\ cancelled \in BOOLEAN
        /\ out \in Snapshot \cup {NoSnapshot}
    BY DEF Init
  <2>5. covered \subseteq Node /\ changed \subseteq Node /\ mixed \subseteq Node
    BY DEF Init
  <2> QED
    BY <2>2, <2>3, <2>4, <2>5 DEF TreeTypeOK
<1>3. ChildrenInside
  <2> SUFFICES ASSUME NEW p \in Node, NEW m \in Kids[p] PROVE node[m].pc = "idle"
    BY DEF ChildrenInside
  <2> QED
    BY DEF Init, Fresh
<1> QED
  BY <1>1, <1>2, <1>3 DEF Init, TreeInv

LEMMA NextTreeInv == ASSUME TreeInv, [Next]_vars PROVE TreeInv'
<1>1. CASE UNCHANGED vars
  BY <1>1 DEF vars, TreeInv, TreeTypeOK, ChildrenInside
<1>2. ASSUME NEW n \in Node, Step(n) PROVE TreeInv'
  BY <1>2, AcquireKeeps, NameTaskKeeps, PrepareKeeps, LaunchKeeps, CallModelKeeps,
     StreamModelKeeps, RefuseKeeps, EmitToolCallKeeps, PrepareToolKeeps,
     AwaitCancelledKeeps, AcquireLockKeeps, CheckpointToolKeeps, SnapshotToolKeeps,
     StartKeeps, RunToolKeeps, ReleaseToolKeeps, DroppedKeeps, Zenon DEF Step
<1> QED
  BY <1>1, <1>2, AnswerKeeps, ChangeKeeps, SaveKeeps, AbandonKeeps, CancelKeeps, Zenon
  DEF Next

(* The inductive invariant holds of every run.                             *)
THEOREM TreeInvariance == Spec => []TreeInv
<1>1. Init => TreeInv
  BY InitTreeInv
<1>2. TreeInv /\ [Next]_vars => TreeInv'
  BY NextTreeInv
<1> QED
  BY <1>1, <1>2, PTL DEF Spec

(* Every agent, the lock, the budgets and the snapshots keep their shape.  *)
THEOREM TreeTypes == Spec => []TreeTypeOK
<1>1. TreeInv => TreeTypeOK
  BY DEF TreeInv
<1> QED
  BY <1>1, TreeInvariance, PTL

(* No agent changes the project between the snapshots of another's call     *)
(* (tasks/mutations.rs), for any tree of agents.                            *)
THEOREM ChangesAreOwn == Spec => []OwnChanges
<1>1. TreeInv => OwnChanges
  BY DEF TreeInv, OwnChanges
<1> QED
  BY <1>1, TreeInvariance, PTL

(* Wherever the run stops, a call that changed the project has its first    *)
(* snapshot saved.                                                          *)
THEOREM ChangesAreCovered == Spec => []ChangesCovered
<1>1. TreeInv => ChangesCovered
  BY DEF TreeInv, ChangesCovered
<1> QED
  BY <1>1, TreeInvariance, PTL

(* A task is retried with another model only while no tool of it has run.  *)
THEOREM RetriesAreClean == Spec => []RetriedClean
<1>1. TreeInv => RetriedClean
  BY DEF TreeInv, GoodAt, RetriedClean
<1> QED
  BY <1>1, TreeInvariance, PTL

(* Children work inside their parent's task call, at every depth.          *)
THEOREM ChildrenAreInside == Spec => []ChildrenInside
<1>1. TreeInv => ChildrenInside
  BY DEF TreeInv
<1> QED
  BY <1>1, TreeInvariance, PTL

(* Permits and the lock are held around model I/O and around tools only.   *)
THEOREM HeldOnlyBriefly == Spec => []HeldBriefly
<1>1. ASSUME TreeInv PROVE HeldBriefly
  <2>1. \A n \in Node : node[n].permit => node[n].pc \in ModelPc
    BY <1>1 DEF TreeInv, GoodAt
  <2>2. lock # NoNode => /\ node[lock].kind \in Mutating /\ node[lock].pc \in Locking
    BY <1>1 DEF TreeInv, TreeTypeOK, GoodAt
  <2> QED
    BY <2>1, <2>2 DEF HeldBriefly, Locking
<1> QED
  BY <1>1, TreeInvariance, PTL
=============================================================================
