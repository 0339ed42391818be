-------------------------- MODULE RunDeliveryProofs --------------------------
(***************************************************************************)
(* Proofs about RunDelivery, for every ring, queue and bound: the types,   *)
(* the exact view, that an end is shown only over the whole run and is     *)
(* final, and what a window shows again after it was disturbed.            *)
(***************************************************************************)
EXTENDS RunDelivery, TLAPS

-----------------------------------------------------------------------------
(* The inductive invariant. *)

Live(m) == m.kind \in {"event", "snapshot"}

\* Once the first k messages of q have arrived, the window has seen event n.
Reaches(q, k, n, seen) == n <= seen \/ \E j \in 1..k : Live(q[j]) /\ q[j].seq >= n

\* Every event on its way comes after one that leads up to it.
Chain(q, seen) ==
  \A i \in 1..Len(q) : q[i].kind = "event" => Reaches(q, i - 1, q[i].seq - 1, seen)

\* What is under way for a window that shows a run goes on from what it has seen.
Follows ==
  win.tracked /\ win.clean =>
    /\ Chain(wire, win.seen)
    /\ \A k \in {"live", "stray"} :
         task[k].at # "none" => Reaches(wire, Len(wire), task[k].cursor, win.seen)
    /\ \A i \in 1..Len(asks) : asks[i].kind = "attach" => asks[i].last <= win.seen

\* An end that was read, sent or shown is that of the whole run.
Closed == run.phase \in {"ended", "reaped", "lost"}
EndsRight ==
  /\ \A i \in 1..Len(wire) : Live(wire[i]) /\ wire[i].end => Ended /\ wire[i].seq = run.seq
  /\ \A k \in {"live", "stray"} :
       task[k].at = "send" /\ task[k].last => Ended /\ task[k].next = run.seq
  /\ win.outcome = "ended" => Closed /\ win.seen = run.seq /\ ~win.tracked

IInv == TypeOK /\ ViewExact /\ Follows /\ EndsRight

-----------------------------------------------------------------------------
(* Sequences of messages. *)

LEMMA ReachesAppend ==
  ASSUME NEW q \in Seq(Messages), NEW m \in Messages, NEW n \in Int, NEW seen \in Nat,
         Reaches(q, Len(q), n, seen)
  PROVE  Reaches(Append(q, m), Len(Append(q, m)), n, seen)
  BY DEF Reaches

LEMMA ReachesTail ==
  ASSUME NEW q \in Seq(Messages), q # <<>>, NEW k \in 1..Len(q), NEW n \in Int,
         NEW seen \in Nat, NEW seen2 \in Nat, seen <= seen2,
         Live(Head(q)) => Head(q).seq <= seen2,
         Reaches(q, k, n, seen)
  PROVE  Reaches(Tail(q), k - 1, n, seen2)
<1>1. CASE n <= seen
  BY <1>1 DEF Reaches
<1>2. CASE \E j \in 1..k : Live(q[j]) /\ q[j].seq >= n
  <2>1. PICK j \in 1..k : Live(q[j]) /\ q[j].seq >= n
    BY <1>2
  <2>2. CASE j = 1
    <3>1. q[1] = Head(q) /\ q[1] \in Messages
      OBVIOUS
    <3>2. q[1].seq \in Nat
      BY <3>1 DEF Messages
    <3> QED
      BY <2>1, <2>2, <3>1, <3>2 DEF Reaches
  <2>3. CASE j # 1
    <3>1. j - 1 \in 1..(k - 1) /\ Tail(q)[j - 1] = q[j]
      BY <2>3
    <3> QED
      BY <2>1, <3>1 DEF Reaches
  <2> QED
    BY <2>2, <2>3
<1> QED
  BY <1>1, <1>2 DEF Reaches

LEMMA ChainAppend ==
  ASSUME NEW q \in Seq(Messages), NEW m \in Messages, NEW seen \in Nat, Chain(q, seen),
         m.kind = "event" => Reaches(q, Len(q), m.seq - 1, seen)
  PROVE  Chain(Append(q, m), seen)
<1> SUFFICES ASSUME NEW i \in 1..Len(Append(q, m)), Append(q, m)[i].kind = "event"
             PROVE  Reaches(Append(q, m), i - 1, Append(q, m)[i].seq - 1, seen)
  BY DEF Chain
<1>1. \A j \in 1..(i - 1) : Append(q, m)[j] = q[j]
  OBVIOUS
<1>2. CASE i \in 1..Len(q)
  <2>1. Append(q, m)[i] = q[i]
    BY <1>2
  <2>2. Reaches(q, i - 1, q[i].seq - 1, seen)
    BY <1>2, <2>1 DEF Chain
  <2> QED
    BY <1>1, <2>1, <2>2 DEF Reaches
<1>3. CASE i = Len(q) + 1
  <2>1. Append(q, m)[i] = m
    BY <1>3
  <2> QED
    BY <1>1, <1>3, <2>1 DEF Reaches
<1> QED
  BY <1>2, <1>3

LEMMA ChainTail ==
  ASSUME NEW q \in Seq(Messages), q # <<>>, NEW seen \in Nat, NEW seen2 \in Nat,
         seen <= seen2, Live(Head(q)) => Head(q).seq <= seen2, Chain(q, seen)
  PROVE  Chain(Tail(q), seen2)
<1> SUFFICES ASSUME NEW i \in 1..Len(Tail(q)), Tail(q)[i].kind = "event"
             PROVE  Reaches(Tail(q), i - 1, Tail(q)[i].seq - 1, seen2)
  BY DEF Chain
<1>1. i + 1 \in 1..Len(q) /\ Tail(q)[i] = q[i + 1]
  OBVIOUS
<1>2. q[i + 1].seq - 1 \in Int
  <2>1. q[i + 1] \in Messages
    BY <1>1
  <2> QED
    BY <2>1 DEF Messages
<1>3. Reaches(q, i, q[i + 1].seq - 1, seen)
  BY <1>1 DEF Chain
<1>4. i \in 1..Len(q)
  BY <1>1
<1> QED
  BY <1>1, <1>2, <1>3, <1>4, ReachesTail

LEMMA UptoSeq ==
  /\ Upto(0) = <<>>
  /\ \A n \in Nat : Upto(n) \in Seq(Nat) /\ Append(Upto(n), n + 1) = Upto(n + 1)
<1>1. Upto(0) = <<>>
  BY DEF Upto
<1>2. ASSUME NEW n \in Nat
      PROVE  Upto(n) \in Seq(Nat) /\ Append(Upto(n), n + 1) = Upto(n + 1)
  <2>1. Upto(n) \in Seq(Nat) /\ Len(Upto(n)) = n
    BY DEF Upto
  <2>2. \A i \in 1..(n + 1) : Append(Upto(n), n + 1)[i] = Upto(n + 1)[i]
    BY <2>1 DEF Upto
  <2>3. Append(Upto(n), n + 1) \in Seq(Nat) /\ Upto(n + 1) \in Seq(Nat)
        /\ Len(Append(Upto(n), n + 1)) = n + 1 /\ Len(Upto(n + 1)) = n + 1
    BY <2>1 DEF Upto
  <2> QED
    BY <2>1, <2>2, <2>3
<1> QED
  BY <1>1, <1>2

-----------------------------------------------------------------------------
(* The types. *)

LEMMA Typed ==
  /\ NoTask \in Tasks /\ NewWindow \in Windows
  /\ Start \in Asks /\ List \in Asks
  /\ \A fresh \in BOOLEAN, last \in Nat : Attach(fresh, last) \in Asks
  /\ \A seq \in Nat, end \in BOOLEAN :
       \A kind \in {"event", "snapshot", "rejected", "missing", "runs", "noruns"} :
         Message(kind, seq, end) \in Messages
<1>1. NoTask \in Tasks
  BY DEF NoTask, Tasks
<1>2. NewWindow \in Windows
  BY DEF NewWindow, Windows
<1>3. Start \in Asks /\ List \in Asks
      /\ \A fresh \in BOOLEAN, last \in Nat : Attach(fresh, last) \in Asks
  BY DEF Start, List, Attach, Asks
<1>4. \A seq \in Nat, end \in BOOLEAN :
        \A kind \in {"event", "snapshot", "rejected", "missing", "runs", "noruns"} :
          Message(kind, seq, end) \in Messages
  BY DEF Message, Messages
<1> QED
  BY <1>1, <1>2, <1>3, <1>4

\* The Effect changes nothing of the window that the properties speak of, and
\* asks for what comes after the last event seen.
LEMMA EffectKeeps ==
  ASSUME NEW w \in Windows, asks \in Seq(Asks), Effect(w)
  PROVE  /\ win' \in Windows /\ asks' \in Seq(Asks)
         /\ win'.tracked = w.tracked /\ win'.seen = w.seen /\ win'.view = w.view
         /\ win'.whole = w.whole /\ win'.clean = w.clean /\ win'.outcome = w.outcome
         /\ \/ asks' = asks
            \/ asks' = Append(asks, List)
            \/ asks' = Append(asks, Attach(w.stale, w.seen))
<1>0. w.stale \in BOOLEAN /\ w.seen \in Nat
  BY DEF Windows
<1>1. CASE ~w.conn
  BY <1>1 DEF Effect
<1>2. CASE w.conn /\ w.tracked
  <2>1. win' = [w EXCEPT !.stale = FALSE] /\ asks' = Append(asks, Attach(w.stale, w.seen))
    BY <1>2 DEF Effect
  <2>2. asks' \in Seq(Asks)
    BY <1>0, <2>1, Typed
  <2> QED
    BY <2>1, <2>2 DEF Windows
<1>3. CASE w.conn /\ ~w.tracked /\ w.loaded /\ ~w.away
  <2>1. win' = [w EXCEPT !.stale = FALSE, !.listening = TRUE] /\ asks' = Append(asks, List)
    BY <1>3 DEF Effect
  <2>2. asks' \in Seq(Asks)
    BY <2>1, Typed
  <2> QED
    BY <2>1, <2>2 DEF Windows
<1>4. CASE w.conn /\ ~w.tracked /\ ~(w.loaded /\ ~w.away)
  <2>1. win' = [w EXCEPT !.stale = FALSE] /\ asks' = asks
    BY <1>4 DEF Effect
  <2> QED
    BY <2>1 DEF Windows
<1> QED
  BY <1>1, <1>2, <1>3, <1>4

\* Finish ends the run in the window and leaves its view.
LEMMA FinishKeeps ==
  ASSUME NEW w \in Windows, NEW outcome \in {"ended", "unknown", "rejected"},
         asks \in Seq(Asks), Finish(w, outcome)
  PROVE  /\ win' \in Windows /\ asks' \in Seq(Asks)
         /\ ~win'.tracked /\ win'.seen = w.seen /\ win'.view = w.view
         /\ win'.whole = w.whole /\ win'.clean = w.clean /\ win'.outcome = outcome
<1> DEFINE v == [w EXCEPT !.tracked = FALSE, !.observed = {w.seen}, !.outcome = outcome]
<1>1. v \in Windows /\ ~v.tracked /\ v.seen = w.seen /\ v.view = w.view
      /\ v.whole = w.whole /\ v.clean = w.clean /\ v.outcome = outcome
  BY DEF Windows
<1>2. Effect(v)
  BY DEF Finish
<1> HIDE DEF v
<1> QED
  BY <1>1, <1>2, EffectKeeps

\* Taking up the run starts from an empty view.
LEMMA TrackKeeps ==
  ASSUME win \in Windows, Track
  PROVE  /\ win' \in Windows /\ win'.tracked /\ win'.seen = 0 /\ win'.view = <<>>
         /\ win'.clean = ~Busy /\ win'.outcome = "none"
<1> DEFINE free == ~Busy
<1>1. free \in BOOLEAN
  BY DEF Busy
<1>2. win' = [win EXCEPT !.tracked = TRUE, !.seen = 0, !.view = <<>>, !.whole = TRUE,
                        !.clean = free, !.stale = FALSE, !.listening = FALSE, !.outcome = "none"]
  BY DEF Track
<1>3. win'.clean = free
  BY <1>2 DEF Windows
<1> HIDE DEF free
<1>4. <<>> \in Seq(Nat)
  OBVIOUS
<1>5. win'.tracked /\ win'.seen = 0 /\ win'.view = <<>> /\ win'.outcome = "none"
  BY <1>2 DEF Windows
<1>6. win' \in Windows
  <2> DEFINE v == [win EXCEPT !.tracked = TRUE, !.seen = 0, !.view = <<>>, !.whole = TRUE]
  <2>1. v \in Windows
    BY <1>4 DEF Windows
  <2> DEFINE u == [v EXCEPT !.clean = free, !.stale = FALSE]
  <2>2. win' = [u EXCEPT !.listening = FALSE, !.outcome = "none"]
    BY <1>2 DEF Windows
  <2> HIDE DEF v
  <2>3. u \in Windows
    BY <1>1, <2>1 DEF Windows
  <2> HIDE DEF u
  <2> QED
    BY <2>2, <2>3 DEF Windows
<1> QED
  BY <1>3, <1>5, <1>6 DEF free

LEMMA SettleTyped ==
  ASSUME NEW t \in Tasks
  PROVE  /\ Settle(t) \in Tasks
         /\ Settle(t).at # "none" => Settle(t).cursor = t.cursor
         /\ Settle(t).at = "send" => Settle(t).last = t.last /\ Settle(t).next = t.next
  BY Typed DEF Settle, Tasks, NoTask

\* A read takes what the run has up to now and leaves the cursor where it was.
LEMMA ReadKeeps ==
  ASSUME TypeOK, NEW k \in {"live", "stray"}, Read(k)
  PROVE  \E u \in Tasks :
           /\ task' = [task EXCEPT ![k] = Settle(u)]
           /\ u.cursor = task[k].cursor /\ u.last = Ended /\ u.next = run.seq
           /\ task[k].at # "none" /\ UNCHANGED <<run, asks, wire, win, left>>
<1> DEFINE t == task[k]
           u == [t EXCEPT !.whole = Lag(t), !.fresh = FALSE, !.next = run.seq, !.last = Ended,
                  !.cursor = IF ~Lag(t) /\ @ + 1 < FirstSeq THEN FirstSeq - 1 ELSE @,
                  !.mark = IF t.at = "wait" THEN run.seq ELSE @]
<1>1. task' = [task EXCEPT ![k] = Settle(u)] /\ UNCHANGED <<run, asks, wire, win, left>>
      /\ t.at # "none"
  BY DEF Read
<1>2. t \in Tasks
  BY DEF TypeOK
<1>3. FirstSeq \in Nat \ {0} /\ run.seq \in Nat
  BY RunDeliveryAssumption DEF FirstSeq, TypeOK
<1>4. t.cursor \in Nat /\ t.mark \in Nat /\ t.fresh \in BOOLEAN
  BY <1>2 DEF Tasks
<1>5. ~(~Lag(t) /\ t.cursor + 1 < FirstSeq)
  BY DEF Lag
<1>6. Lag(t) \in BOOLEAN /\ Ended \in BOOLEAN
  BY <1>4 DEF Lag, Ended
<1>7. (IF t.at = "wait" THEN run.seq ELSE t.mark) \in Nat
  BY <1>3, <1>4
<1>8. u \in Tasks /\ u.cursor = t.cursor /\ u.last = Ended /\ u.next = run.seq
  BY <1>2, <1>3, <1>4, <1>5, <1>6, <1>7 DEF Tasks
<1> HIDE DEF u
<1> QED
  BY <1>1, <1>8

\* Replace starts a forwarder and perhaps leaves the old one running.
LEMMA ReplaceTyped ==
  ASSUME TypeOK, NEW t \in Tasks, Replace(t)
  PROVE  /\ task' \in [{"live", "stray"} -> Tasks]
         /\ task'["live"] = t
         /\ task'["stray"] = NoTask \/ task'["stray"] = task["live"]
<1>1. PICK stray \in {NoTask} \cup (IF LateAbort /\ task.live.at # "wait" THEN {task.live} ELSE {}) :
        task' = [task EXCEPT !.live = t, !.stray = stray]
  BY DEF Replace
<1>2. task["live"] \in Tasks
  BY DEF TypeOK
<1>3. stray = NoTask \/ stray = task["live"]
  BY <1>1
<1> QED
  BY <1>1, <1>2, <1>3, Typed DEF TypeOK

LEMMA ForwardTyped ==
  ASSUME TypeOK, NEW fresh \in BOOLEAN, NEW last \in Nat
  PROVE  /\ Forward(fresh, last) \in Tasks
         /\ Forward(fresh, last).at = "read"
         /\ Forward(fresh, last).cursor = IF fresh THEN 0 ELSE last
  BY DEF Forward, NoTask, Tasks, TypeOK

LEMMA TwoAsks ==
  ASSUME NEW q \in Seq(Asks), NEW a \in Asks, NEW b \in Asks
  PROVE  /\ q \o <<a, b>> \in Seq(Asks)
         /\ \A i \in 1..Len(q \o <<a, b>>) :
              (i \in 1..Len(q) /\ (q \o <<a, b>>)[i] = q[i]) \/ (q \o <<a, b>>)[i] \in {a, b}
<1>1. <<a, b>> \in Seq(Asks) /\ Len(<<a, b>>) = 2
  OBVIOUS
<1> QED
  BY <1>1

\* The five things a message does to the window.
Shows(m) ==                                \* an event or a snapshot moves it on
  /\ Live(m) /\ win.tracked /\ Advances(m)
  /\ win'.seen = m.seq /\ win'.clean = win.clean
  /\ \/ /\ m.kind = "event" /\ ~win.away
        /\ win'.view = Append(win.view, m.seq) /\ (win'.whole => win.whole)
     \/ m.kind = "event" /\ win.away /\ ~win'.whole
     \/ m.kind = "snapshot" /\ ~win.away /\ win'.view = Upto(m.seq)
     \/ /\ m.kind = "snapshot" /\ win.away /\ win'.view = win.view
        /\ (win'.whole => win.whole /\ m.seq = win.seen)
  /\ \/ m.end /\ ~win'.tracked /\ win'.outcome = "ended"
     \/ ~m.end /\ win'.tracked /\ win'.outcome = win.outcome /\ asks' = asks
Closes(m) ==                               \* the run is refused or unknown
  /\ ~Live(m) /\ ~win'.tracked /\ win'.outcome \in {"unknown", "rejected"}
  /\ win'.seen = win.seen /\ win'.view = win.view
  /\ win'.whole = win.whole /\ win'.clean = win.clean
TakesUp(m) ==                              \* the run is found
  /\ m.kind = "runs" /\ Track
  /\ asks' = asks \o <<Attach(TRUE, 0), Attach(win.stale, 0)>>
Ignores(m) ==
  /\ win'.tracked = win.tracked /\ win'.seen = win.seen /\ win'.view = win.view
  /\ win'.whole = win.whole /\ win'.clean = win.clean /\ win'.outcome = win.outcome
  /\ asks' = asks /\ (Live(m) => ~win.tracked \/ m.seq <= win.seen)

LEMMA ReceiveKeeps ==
  ASSUME TypeOK, Receive
  PROVE  /\ win' \in Windows /\ asks' \in Seq(Asks)
         /\ wire # <<>> /\ wire' = Tail(wire) /\ UNCHANGED <<run, task, left>>
         /\ Head(wire) \in Messages
         /\ \/ Shows(Head(wire)) \/ Closes(Head(wire)) \/ TakesUp(Head(wire))
            \/ Ignores(Head(wire))
<1> DEFINE m == Head(wire)
<1>1. wire # <<>> /\ wire' = Tail(wire) /\ UNCHANGED <<run, task, left>>
  BY DEF Receive
<1>2. m \in Messages /\ win \in Windows /\ asks \in Seq(Asks)
  BY <1>1 DEF TypeOK
<1>3. m.seq \in Nat /\ m.end \in BOOLEAN /\ win.seen \in Nat /\ win.view \in Seq(Nat)
      /\ win.stale \in BOOLEAN
  BY <1>2 DEF Messages, Windows
<1> HIDE DEF m
<1>4. CASE m.kind = "event" /\ win.tracked /\ Advances(m)
  <2> DEFINE w == [win EXCEPT !.seen = m.seq,
                              !.view = IF win.away THEN @ ELSE Append(@, m.seq),
                              !.whole = @ /\ ~win.away]
  <2>1. w \in Windows
    <3>1. (IF win.away THEN win.view ELSE Append(win.view, m.seq)) \in Seq(Nat)
      BY <1>3
    <3>2. (win.whole /\ ~win.away) \in BOOLEAN
      OBVIOUS
    <3> QED
      BY <1>2, <1>3, <3>1, <3>2 DEF Windows
  <2>2. /\ w.seen = m.seq /\ w.clean = win.clean /\ w.tracked = win.tracked
        /\ w.outcome = win.outcome
        /\ w.view = IF win.away THEN win.view ELSE Append(win.view, m.seq)
        /\ w.whole = (win.whole /\ ~win.away)
    BY <1>2 DEF Windows
  <2>3. IF m.end THEN Finish(w, "ended") ELSE win' = w /\ UNCHANGED asks
    BY <1>4 DEF Receive, m
  <2> HIDE DEF w
  <2>4. CASE m.end
    <3>1. Finish(w, "ended")
      BY <2>3, <2>4
    <3> QED
      BY <1>1, <1>2, <1>4, <2>1, <2>2, <2>4, <3>1, FinishKeeps DEF Shows, Live, m
  <2>5. CASE ~m.end
    <3>1. win' = w /\ asks' = asks
      BY <2>3, <2>5
    <3> QED
      BY <1>1, <1>2, <1>4, <2>1, <2>2, <2>5, <3>1 DEF Shows, Live, m
  <2> QED
    BY <2>4, <2>5
<1>5. CASE m.kind = "snapshot" /\ win.tracked /\ Advances(m)
  <2> DEFINE w == [win EXCEPT !.seen = m.seq,
                              !.view = IF win.away THEN @ ELSE Upto(m.seq),
                              !.whole = ~win.away \/ (@ /\ m.seq = win.seen)]
  <2>1. w \in Windows
    <3>1. Upto(m.seq) \in Seq(Nat)
      BY <1>3, UptoSeq
    <3> QED
      BY <1>2, <1>3, <3>1 DEF Windows
  <2>2. /\ w.seen = m.seq /\ w.clean = win.clean /\ w.tracked = win.tracked
        /\ w.outcome = win.outcome
        /\ w.view = IF win.away THEN win.view ELSE Upto(m.seq)
        /\ w.whole = (~win.away \/ (win.whole /\ m.seq = win.seen))
    BY <1>2 DEF Windows
  <2>3. IF m.end THEN Finish(w, "ended") ELSE win' = w /\ UNCHANGED asks
    BY <1>5 DEF Receive, m
  <2> HIDE DEF w
  <2>4. CASE m.end
    <3>1. Finish(w, "ended")
      BY <2>3, <2>4
    <3> QED
      BY <1>1, <1>2, <1>5, <2>1, <2>2, <2>4, <3>1, FinishKeeps DEF Shows, Live, m
  <2>5. CASE ~m.end
    <3>1. win' = w /\ asks' = asks
      BY <2>3, <2>5
    <3> QED
      BY <1>1, <1>2, <1>5, <2>1, <2>2, <2>5, <3>1 DEF Shows, Live, m
  <2> QED
    BY <2>4, <2>5
<1>6. CASE m.kind = "rejected" /\ win.tracked
  <2>1. Finish(win, "rejected")
    BY <1>6 DEF Receive, m
  <2> QED
    BY <1>1, <1>2, <1>6, <2>1, FinishKeeps DEF Closes, Live, m
<1>7. CASE m.kind = "missing" /\ win.tracked
  <2>1. Finish(win, "unknown")
    BY <1>7 DEF Receive, m
  <2> QED
    BY <1>1, <1>2, <1>7, <2>1, FinishKeeps DEF Closes, Live, m
<1>8. CASE m.kind = "runs" /\ win.listening /\ ~win.tracked /\ m.seq \notin win.observed
  <2>1. Track /\ asks' = asks \o <<Attach(TRUE, 0), Attach(win.stale, 0)>>
    BY <1>8 DEF Receive, m
  <2>2. asks' \in Seq(Asks)
    BY <1>2, <1>3, <2>1, TwoAsks, Typed
  <2> QED
    BY <1>1, <1>2, <1>8, <2>1, <2>2, TrackKeeps DEF TakesUp, m
<1>9. CASE /\ m.kind \in {"runs", "noruns"}
           /\ m.kind = "noruns" \/ ~win.listening \/ win.tracked \/ m.seq \in win.observed
  <2>1. win' = [win EXCEPT !.listening = FALSE] /\ asks' = asks
    BY <1>9 DEF Receive, m
  <2> QED
    BY <1>1, <1>2, <1>9, <2>1 DEF Ignores, Live, m, Windows
<1>10. CASE \/ m.kind \in {"event", "snapshot", "rejected", "missing"} /\ ~win.tracked
            \/ m.kind \in {"event", "snapshot"} /\ ~Advances(m)
  <2>1. win' = win /\ asks' = asks
    BY <1>10 DEF Receive, m, Advances
  <2> QED
    BY <1>1, <1>2, <1>3, <1>10, <2>1 DEF Ignores, Live, Advances, m
<1> QED
  BY <1>2, <1>4, <1>5, <1>6, <1>7, <1>8, <1>9, <1>10 DEF Messages

\* What a reconnect, a history load or a visit does to the window before its Effect.
LEMMA LoadKeeps ==
  ASSUME TypeOK, LoadHistory
  PROVE  /\ win' \in Windows /\ asks' \in Seq(Asks)
         /\ win'.tracked = win.tracked /\ win'.clean = win.clean /\ win'.view = <<>>
         /\ win'.seen = IF win.tracked THEN win.seen ELSE 0
         /\ win'.whole = (~win.tracked \/ win.seen = 0)
         /\ win'.outcome = IF win.tracked THEN win.outcome ELSE "none"
         /\ \/ asks' = asks
            \/ asks' = Append(asks, List)
            \/ \E fresh \in BOOLEAN : asks' = Append(asks, Attach(fresh, win'.seen))
         /\ UNCHANGED <<run, task, wire, left>>
<1> DEFINE u == [win EXCEPT !.loaded = TRUE, !.away = FALSE, !.view = <<>>, !.stale = TRUE]
           v == [u EXCEPT !.seen = IF win.tracked THEN @ ELSE 0,
                          !.whole = ~win.tracked \/ win.seen = 0]
           w == [v EXCEPT !.listening = FALSE, !.observed = {},
                          !.outcome = IF win.tracked THEN @ ELSE "none"]
<1>1. win \in Windows /\ asks \in Seq(Asks) /\ <<>> \in Seq(Nat)
  BY DEF TypeOK
<1>2. u \in Windows /\ u.tracked = win.tracked /\ u.seen = win.seen /\ u.view = <<>>
      /\ u.clean = win.clean /\ u.outcome = win.outcome
  BY <1>1 DEF Windows
<1>3. (~win.tracked \/ win.seen = 0) \in BOOLEAN
  OBVIOUS
<1>4. /\ [win EXCEPT !.loaded = TRUE, !.away = FALSE, !.view = <<>>, !.stale = TRUE,
                     !.seen = IF win.tracked THEN @ ELSE 0,
                     !.whole = ~win.tracked \/ win.seen = 0,
                     !.listening = FALSE, !.observed = {},
                     !.outcome = IF win.tracked THEN @ ELSE "none"] = w
  BY <1>1 DEF Windows
<1> HIDE DEF u
<1>5. v \in Windows /\ v.tracked = win.tracked /\ v.view = <<>>
      /\ v.seen = (IF win.tracked THEN win.seen ELSE 0)
      /\ v.whole = (~win.tracked \/ win.seen = 0)
      /\ v.clean = win.clean /\ v.outcome = win.outcome
  BY <1>2, <1>3 DEF Windows
<1> HIDE DEF v
<1>6. w \in Windows /\ w.tracked = win.tracked /\ w.view = <<>>
      /\ w.seen = (IF win.tracked THEN win.seen ELSE 0)
      /\ w.whole = (~win.tracked \/ win.seen = 0)
      /\ w.clean = win.clean /\ w.outcome = (IF win.tracked THEN win.outcome ELSE "none")
  BY <1>5 DEF Windows
<1>7. Effect(w) /\ UNCHANGED <<run, task, wire, left>>
  BY <1>4 DEF LoadHistory
<1>8. w.stale \in BOOLEAN
  BY <1>6 DEF Windows
<1> HIDE DEF w
<1> QED
  BY <1>1, <1>6, <1>7, <1>8, EffectKeeps

\* The steps of the window that leave the view alone.
Stays == Connect \/ Leave \/ GoalNews
LEMMA StaysKeeps ==
  ASSUME TypeOK, Stays
  PROVE  /\ win' \in Windows /\ asks' \in Seq(Asks)
         /\ left' \in [breaks : Nat, visits : Nat, goals : Nat]
         /\ win'.tracked = win.tracked /\ win'.seen = win.seen /\ win'.view = win.view
         /\ win'.whole = win.whole /\ win'.clean = win.clean /\ win'.outcome = win.outcome
         /\ \/ asks' = asks
            \/ asks' = Append(asks, List)
            \/ \E fresh \in BOOLEAN : asks' = Append(asks, Attach(fresh, win.seen))
         /\ UNCHANGED <<run, task, wire>>
<1>1. win \in Windows /\ asks \in Seq(Asks) /\ win.stale \in BOOLEAN
  BY DEF TypeOK, Windows
<1>2. CASE Connect
  <2> DEFINE w == [win EXCEPT !.conn = TRUE]
  <2>1. w \in Windows /\ w.tracked = win.tracked /\ w.seen = win.seen /\ w.view = win.view
        /\ w.whole = win.whole /\ w.clean = win.clean /\ w.outcome = win.outcome
        /\ w.stale \in BOOLEAN
    BY <1>1 DEF Windows
  <2>2. Effect(w) /\ UNCHANGED <<run, task, wire, left>>
    BY <1>2 DEF Connect
  <2> HIDE DEF w
  <2> QED
    BY <1>1, <2>1, <2>2, EffectKeeps DEF TypeOK
<1>3. CASE Leave
  <2> DEFINE w == [win EXCEPT !.away = TRUE, !.stale = FALSE, !.listening = FALSE,
                              !.observed = {}]
  <2>1. w \in Windows /\ w.tracked = win.tracked /\ w.seen = win.seen /\ w.view = win.view
        /\ w.whole = win.whole /\ w.clean = win.clean /\ w.outcome = win.outcome
        /\ w.stale \in BOOLEAN
    BY <1>1 DEF Windows
  <2>2. Effect(w) /\ UNCHANGED <<run, task, wire>>
    BY <1>3 DEF Leave
  <2>3. left' \in [breaks : Nat, visits : Nat, goals : Nat]
    BY <1>3 DEF Leave, TypeOK
  <2> HIDE DEF w
  <2> QED
    BY <1>1, <2>1, <2>2, <2>3, EffectKeeps
<1>4. CASE GoalNews
  <2>1. Effect(win) /\ UNCHANGED <<run, task, wire>>
    BY <1>4 DEF GoalNews
  <2>2. left' \in [breaks : Nat, visits : Nat, goals : Nat]
    BY <1>4 DEF GoalNews, TypeOK
  <2> QED
    BY <1>1, <2>1, <2>2, EffectKeeps
<1> QED
  BY <1>2, <1>3, <1>4 DEF Stays

\* What breaks leaves nothing under way.
LEMMA BreaksKeep ==
  ASSUME TypeOK, Disconnect \/ ReloadPage \/ Restart
  PROVE  /\ asks' = <<>> /\ wire' = <<>>
         /\ task' \in [{"live", "stray"} -> Tasks]
         /\ \A k \in {"live", "stray"} : task'[k] = NoTask
         /\ left' \in [breaks : Nat, visits : Nat, goals : Nat]
         /\ win' \in Windows
         /\ \/ win' = NewWindow
            \/ win'.tracked = win.tracked /\ win'.seen = win.seen /\ win'.view = win.view
               /\ win'.whole = win.whole /\ win'.clean = win.clean /\ win'.outcome = win.outcome
<1>1. PICK w \in {NewWindow, [win EXCEPT !.conn = FALSE]} : Broken(w)
  BY DEF Disconnect, ReloadPage, Restart
<1>2. left' \in [breaks : Nat, visits : Nat, goals : Nat]
  <2>1. left.breaks > 0 /\ left' = [left EXCEPT !.breaks = @ - 1]
    BY <1>1 DEF Broken
  <2> QED
    BY <2>1 DEF TypeOK
<1>3. [win EXCEPT !.conn = FALSE] \in Windows
  BY DEF TypeOK, Windows
<1>4. task' = [t \in {"live", "stray"} |-> NoTask] /\ asks' = <<>> /\ wire' = <<>> /\ win' = w
  BY <1>1 DEF Broken
<1>5. \/ win' = NewWindow
      \/ win'.tracked = win.tracked /\ win'.seen = win.seen /\ win'.view = win.view
         /\ win'.whole = win.whole /\ win'.clean = win.clean /\ win'.outcome = win.outcome
  BY <1>1, <1>4 DEF TypeOK, Windows
<1> QED
  BY <1>1, <1>2, <1>3, <1>4, <1>5, Typed

LEMMA TypeInit == Init => TypeOK
  BY Typed, RunDeliveryAssumption DEF Init, TypeOK, Phases

\* Every step keeps the types.
LEMMA TypeStep ==
  ASSUME TypeOK, [Next]_vars
  PROVE  TypeOK'
<1> USE DEF Phases
<1>0. /\ run \in [phase : Phases, seq : Nat, here : BOOLEAN]
      /\ \A k \in {"live", "stray"} : task[k] \in Tasks
  BY DEF TypeOK
<1>1. CASE Prepare
  <2>1. run' \in [phase : Phases, seq : Nat, here : BOOLEAN]
    <3>1. PICK phase \in {"running", "ended"} : run' = [run EXCEPT !.phase = phase, !.seq = 1]
      BY <1>1 DEF Prepare
    <3> QED
      BY <1>0, <3>1
  <2> QED
    BY <1>1, <2>1 DEF Prepare, TypeOK
<1>2. CASE PrepareFails
  BY <1>2 DEF PrepareFails, TypeOK
<1>3. CASE Refuse
  <2>1. wire' \in Seq(Messages)
    <3>1. wire' = Append(wire, Message("rejected", 0, TRUE))
      BY <1>3 DEF Refuse
    <3>2. Message("rejected", 0, TRUE) \in Messages
      BY Typed
    <3>3. PICK m \in Messages : wire' = Append(wire, m)
      BY <3>1, <3>2, Zenon
    <3> QED
      BY <3>3 DEF TypeOK
  <2> QED
    BY <1>3, <2>1 DEF Refuse, TypeOK
<1>4. CASE Accept
  <2>1. Replace(Forward(FALSE, 0))
    BY <1>4 DEF Accept
  <2>2. task' \in [{"live", "stray"} -> Tasks]
    BY <2>1, ForwardTyped, ReplaceTyped
  <2> QED
    BY <1>4, <2>2 DEF Accept, TypeOK
<1>5. CASE Emit
  <2>1. run' \in [phase : Phases, seq : Nat, here : BOOLEAN]
    <3>1. PICK phase \in {"running", "ended"} :
            run' = [run EXCEPT !.phase = phase, !.seq = @ + 1]
      BY <1>5 DEF Emit
    <3>2. run.seq + 1 \in Nat
      BY <1>0
    <3> QED
      BY <1>0, <3>1, <3>2
  <2> QED
    BY <1>5, <2>1 DEF Emit, TypeOK
<1>6. CASE Reap
  BY <1>6 DEF Reap, TypeOK
<1>7. CASE HostStart
  BY <1>7 DEF HostStart, Reserve, TypeOK
<1>8. CASE ServeLate
  BY <1>8 DEF ServeLate, Reserve, TypeOK
<1>9. CASE Serve
  <2> DEFINE ask == Head(asks)
  <2>1. asks # <<>> /\ asks' = Tail(asks) /\ UNCHANGED <<win, left>>
    BY <1>9 DEF Serve
  <2>2. asks' \in Seq(Asks) /\ ask \in Asks
    BY <2>1 DEF TypeOK
  <2>3. ask.fresh \in BOOLEAN /\ ask.last \in Nat
    BY <2>2 DEF Asks
  <2>4. run' \in [phase : Phases, seq : Nat, here : BOOLEAN]
    BY <1>9 DEF Serve, Reserve, TypeOK
  <2>5. task' \in [{"live", "stray"} -> Tasks]
    <3>1. CASE Replace(Forward(ask.fresh, ask.last))
      BY <2>3, <3>1, ForwardTyped, ReplaceTyped
    <3>2. CASE UNCHANGED task
      BY <3>2 DEF TypeOK
    <3> QED
      BY <1>9, <3>1, <3>2 DEF Serve
  <2>6. wire' \in Seq(Messages)
    <3>1. wire \in Seq(Messages) /\ run.seq \in Nat
      BY DEF TypeOK
    <3>2. (~Going) \in BOOLEAN
      OBVIOUS
    <3>3. /\ Message("missing", 0, FALSE) \in Messages
          /\ Message("runs", run.seq, ~Going) \in Messages
          /\ Message("noruns", 0, FALSE) \in Messages
      BY <3>1, <3>2, Typed
    <3>4. UNCHANGED wire \/ \E m \in Messages : wire' = Append(wire, m)
      BY <1>9, <3>3 DEF Serve, Answer
    <3> QED
      BY <3>1, <3>4
  <2> QED
    BY <2>1, <2>2, <2>4, <2>5, <2>6 DEF TypeOK
<1>10. ASSUME NEW k \in {"live", "stray"}, Read(k)
       PROVE  TypeOK'
  <2>1. PICK u \in Tasks :
          /\ task' = [task EXCEPT ![k] = Settle(u)]
          /\ u.cursor = task[k].cursor /\ u.last = Ended /\ u.next = run.seq
          /\ task[k].at # "none" /\ UNCHANGED <<run, asks, wire, win, left>>
    BY <1>10, ReadKeeps
  <2> QED
    BY <2>1, SettleTyped DEF TypeOK
<1>11. ASSUME NEW k \in {"live", "stray"}, Send(k)
       PROVE  TypeOK'
  <2> DEFINE t == task[k]
             seq == IF t.whole THEN t.next ELSE t.cursor + 1
             u == [t EXCEPT !.cursor = seq, !.whole = FALSE]
  <2>1. /\ wire' = Append(wire, IF t.whole THEN Message("snapshot", seq, t.last)
                                ELSE Message("event", seq, Ended /\ seq = run.seq))
        /\ task' = [task EXCEPT ![k] = Settle(u)] /\ UNCHANGED <<run, asks, win, left>>
    BY <1>11 DEF Send
  <2>2. t \in Tasks /\ seq \in Nat /\ t.last \in BOOLEAN
    BY <1>0 DEF Tasks
  <2>3. u \in Tasks
    BY <2>2 DEF Tasks
  <2>4. (Ended /\ seq = run.seq) \in BOOLEAN
    BY DEF Ended
  <2> HIDE DEF u, seq
  <2>5. wire' \in Seq(Messages)
    <3>1. (IF t.whole THEN Message("snapshot", seq, t.last)
                      ELSE Message("event", seq, Ended /\ seq = run.seq)) \in Messages
      BY <2>2, <2>4, Typed
    <3>2. wire \in Seq(Messages)
      BY DEF TypeOK
    <3> QED
      BY <2>1, <3>1, <3>2
  <2> QED
    BY <2>1, <2>3, <2>5, SettleTyped DEF TypeOK
<1>12. CASE Vanish
  BY <1>12, Typed DEF Vanish, TypeOK
<1>13. CASE Stays
  BY <1>13, StaysKeeps DEF TypeOK
<1>14. CASE LoadHistory
  BY <1>14, LoadKeeps DEF TypeOK
<1>15. CASE Poll
  <2>1. asks' \in Seq(Asks)
    BY <1>15, Typed DEF Poll, TypeOK
  <2>2. win' \in Windows
    BY <1>15 DEF Poll, TypeOK, Windows
  <2> QED
    BY <1>15, <2>1, <2>2 DEF Poll, TypeOK
<1>16. CASE StartRun
  <2>1. win.stale \in BOOLEAN
    BY DEF TypeOK, Windows
  <2>2. asks' \in Seq(Asks)
    BY <1>16, <2>1, Typed, TwoAsks DEF StartRun, TypeOK
  <2>3. win' \in Windows
    BY <1>16, TrackKeeps DEF StartRun, TypeOK
  <2> QED
    BY <1>16, <2>2, <2>3 DEF StartRun, TypeOK
<1>17. CASE Receive
  <2>1. wire' \in Seq(Messages)
    <3>1. wire # <<>> /\ wire' = Tail(wire) /\ wire \in Seq(Messages)
      BY <1>17, ReceiveKeeps DEF TypeOK
    <3> QED
      BY <3>1
  <2> QED
    BY <1>17, <2>1, ReceiveKeeps DEF TypeOK
<1>18. CASE Disconnect \/ ReloadPage \/ Restart
  <2>1. run' \in [phase : Phases, seq : Nat, here : BOOLEAN]
    BY <1>18 DEF Disconnect, ReloadPage, Restart, Outlive, TypeOK
  <2>2. <<>> \in Seq(Asks) /\ <<>> \in Seq(Messages)
    OBVIOUS
  <2> QED
    BY <1>18, <2>1, <2>2, BreaksKeep DEF TypeOK
<1>19. CASE UNCHANGED vars
  BY <1>19 DEF vars, TypeOK
<1> QED
  BY <1>1, <1>2, <1>3, <1>4, <1>5, <1>6, <1>7, <1>8, <1>9, <1>10, <1>11, <1>12, <1>13, <1>14,
     <1>15, <1>16, <1>17, <1>18, <1>19 DEF Next, Stays

-----------------------------------------------------------------------------
(* The view. *)

LEMMA AskLast ==
  /\ \A fresh \in BOOLEAN, n \in Nat : Attach(fresh, n).last <= n
  /\ Start.kind # "attach" /\ Start.last = 0 /\ List.kind # "attach"
  BY DEF Attach, Start, List

\* One more request keeps Follows if it asks for nothing beyond what was seen.
LEMMA AsksGrow ==
  ASSUME NEW q \in Seq(Asks), NEW a \in Asks, NEW n \in Nat,
         \A i \in 1..Len(q) : q[i].kind = "attach" => q[i].last <= n,
         a.kind = "attach" => a.last <= n
  PROVE  \A i \in 1..Len(Append(q, a)) :
           Append(q, a)[i].kind = "attach" => Append(q, a)[i].last <= n
<1> TAKE i \in 1..Len(Append(q, a))
<1>1. (i \in 1..Len(q) /\ Append(q, a)[i] = q[i]) \/ Append(q, a)[i] = a
  OBVIOUS
<1> QED
  BY <1>1

\* A step of the window that leaves the view alone keeps what follows it.
LEMMA StaysFollows ==
  ASSUME TypeOK, Follows, win' \in Windows,
         win'.tracked = win.tracked, win'.clean = win.clean,
         win.tracked => win'.seen = win.seen,
         UNCHANGED <<task, wire>>,
         \/ asks' = asks
         \/ asks' = Append(asks, List)
         \/ \E fresh \in BOOLEAN : asks' = Append(asks, Attach(fresh, win'.seen))
  PROVE  Follows'
<1> SUFFICES ASSUME win.tracked, win.clean
             PROVE  \A i \in 1..Len(asks') : asks'[i].kind = "attach" => asks'[i].last <= win'.seen
  BY DEF Follows
<1>1. asks \in Seq(Asks) /\ win'.seen \in Nat
  BY DEF TypeOK, Windows
<1>2. \A i \in 1..Len(asks) : asks[i].kind = "attach" => asks[i].last <= win'.seen
  BY DEF Follows
<1>3. CASE asks' = asks
  BY <1>2, <1>3
<1>4. CASE asks' = Append(asks, List)
  BY <1>1, <1>2, <1>4, AsksGrow, AskLast, Typed
<1>5. ASSUME NEW fresh \in BOOLEAN, asks' = Append(asks, Attach(fresh, win'.seen))
      PROVE  \A i \in 1..Len(asks') : asks'[i].kind = "attach" => asks'[i].last <= win'.seen
  <2>1. Attach(fresh, win'.seen) \in Asks /\ Attach(fresh, win'.seen).last <= win'.seen
    BY <1>1, AskLast, Typed
  <2> HIDE DEF Attach
  <2> QED
    BY <1>1, <1>2, <1>5, <2>1, AsksGrow
<1> QED
  BY <1>3, <1>4, <1>5

\* A message that is sent keeps Follows if it goes on from what is under way.
LEMMA WireGrows ==
  ASSUME TypeOK, Follows, UNCHANGED win, NEW m \in Messages, wire' = Append(wire, m),
         task' \in [{"live", "stray"} -> Tasks],
         \A i \in 1..Len(asks') : \E j \in 1..Len(asks) : asks'[i] = asks[j],
         win.tracked /\ win.clean /\ m.kind = "event"
           => Reaches(wire, Len(wire), m.seq - 1, win.seen),
         \A k \in {"live", "stray"} :
           \/ task'[k].at # "none" => task[k].at # "none" /\ task'[k].cursor = task[k].cursor
           \/ Live(m) /\ task'[k].cursor = m.seq
  PROVE  Follows'
<1> SUFFICES ASSUME win.tracked, win.clean
             PROVE  /\ Chain(wire', win.seen)
                    /\ \A k \in {"live", "stray"} : task'[k].at # "none" =>
                         Reaches(wire', Len(wire'), task'[k].cursor, win.seen)
                    /\ \A i \in 1..Len(asks') :
                         asks'[i].kind = "attach" => asks'[i].last <= win.seen
  BY DEF Follows
<1>1. wire \in Seq(Messages) /\ win.seen \in Nat /\ m.seq \in Nat
      /\ \A k \in {"live", "stray"} : task[k].cursor \in Nat
  BY DEF TypeOK, Windows, Messages, Tasks
<1>2. Chain(wire', win.seen)
  BY <1>1, ChainAppend DEF Follows
<1>3. ASSUME NEW k \in {"live", "stray"}, task'[k].at # "none"
      PROVE  Reaches(wire', Len(wire'), task'[k].cursor, win.seen)
  <2>1. CASE task[k].at # "none" /\ task'[k].cursor = task[k].cursor
    <3>1. Reaches(wire, Len(wire), task[k].cursor, win.seen)
      BY <2>1 DEF Follows
    <3> QED
      BY <1>1, <2>1, <3>1, ReachesAppend
  <2>2. CASE Live(m) /\ task'[k].cursor = m.seq
    <3>1. wire'[Len(wire')] = m /\ Len(wire') \in 1..Len(wire')
      BY <1>1
    <3>2. Live(wire'[Len(wire')]) /\ wire'[Len(wire')].seq >= task'[k].cursor
      BY <1>1, <2>2, <3>1
    <3> QED
      BY <3>1, <3>2 DEF Reaches
  <2> QED
    BY <1>3, <2>1, <2>2
<1>4. \A i \in 1..Len(asks') : asks'[i].kind = "attach" => asks'[i].last <= win.seen
  BY DEF Follows
<1> QED
  BY <1>2, <1>3, <1>4

\* A new forwarder goes on from what the window has seen.
LEMMA ReplaceFollows ==
  ASSUME TypeOK, Follows, UNCHANGED <<win, wire>>,
         NEW fresh \in BOOLEAN, NEW last \in Nat, Replace(Forward(fresh, last)),
         win.tracked /\ win.clean => last <= win.seen,
         \A i \in 1..Len(asks') : \E j \in 1..Len(asks) : asks'[i] = asks[j]
  PROVE  Follows'
<1> SUFFICES ASSUME win.tracked, win.clean
             PROVE  \A k \in {"live", "stray"} : task'[k].at # "none" =>
                      Reaches(wire, Len(wire), task'[k].cursor, win.seen)
  BY DEF Follows
<1>1. win.seen \in Nat /\ last <= win.seen
  BY DEF TypeOK, Windows
<1>2. task'["live"].cursor \in Nat /\ task'["live"].cursor <= win.seen
  BY <1>1, ForwardTyped, ReplaceTyped
<1>3. Reaches(wire, Len(wire), task'["live"].cursor, win.seen)
  BY <1>2 DEF Reaches
<1>4. task'["stray"].at # "none" => Reaches(wire, Len(wire), task'["stray"].cursor, win.seen)
  <2>1. task'["stray"] = NoTask \/ task'["stray"] = task["live"]
    BY ForwardTyped, ReplaceTyped
  <2> QED
    BY <2>1 DEF Follows, NoTask
<1> QED
  BY <1>3, <1>4

\* A window that takes the run up starts with an empty view, and is clean only if
\* nothing of the run is under way.
LEMMA TrackFollows ==
  ASSUME TypeOK, Track, UNCHANGED task, wire' = wire \/ (wire # <<>> /\ wire' = Tail(wire)),
         NEW a \in Asks, NEW b \in Asks, a.last = 0, b.last = 0, asks' = asks \o <<a, b>>
  PROVE  ViewExact' /\ Follows'
<1>1. win'.seen = 0 /\ win'.view = <<>> /\ win'.clean = ~Busy
  BY TrackKeeps DEF TypeOK
<1>2. ViewExact'
  BY <1>1, UptoSeq DEF ViewExact
<1>3. ASSUME win'.clean
      PROVE  Follows'
  <2>1. ~Busy
    BY <1>1, <1>3
  <2>2. \A i \in 1..Len(wire') : wire'[i].kind # "event"
    <3>1. \A i \in 1..Len(wire) : wire[i].kind # "event"
      BY <2>1 DEF Busy
    <3>2. CASE wire # <<>> /\ wire' = Tail(wire)
      <4>1. \A i \in 1..Len(Tail(wire)) : i + 1 \in 1..Len(wire) /\ Tail(wire)[i] = wire[i + 1]
        BY <3>2 DEF TypeOK
      <4> QED
        BY <3>1, <3>2, <4>1
    <3> QED
      BY <3>1, <3>2
  <2>3. Chain(wire', win'.seen)
    BY <2>2 DEF Chain
  <2>4. \A k \in {"live", "stray"} : task'[k].at = "none"
    BY <2>1 DEF Busy
  <2>5. \A i \in 1..Len(asks') : asks'[i].kind = "attach" => asks'[i].last <= win'.seen
    <3>1. \A i \in 1..Len(asks) : asks[i].kind # "attach"
      BY <2>1 DEF Busy
    <3>2. \A i \in 1..Len(asks') :
            (i \in 1..Len(asks) /\ asks'[i] = asks[i]) \/ asks'[i] \in {a, b}
      BY TwoAsks DEF TypeOK
    <3> QED
      BY <1>1, <3>1, <3>2
  <2> QED
    BY <2>3, <2>4, <2>5 DEF Follows
<1> QED
  BY <1>2, <1>3 DEF Follows

\* Every step keeps the view exact and what is under way in order.
LEMMA ViewStep ==
  ASSUME TypeOK, ViewExact, Follows, Next
  PROVE  ViewExact' /\ Follows'
<1>1. CASE Prepare \/ PrepareFails \/ Emit \/ Reap \/ HostStart \/ ServeLate
  <2>1. UNCHANGED <<task, asks, wire, win>>
    BY <1>1 DEF Prepare, PrepareFails, Emit, Reap, HostStart, ServeLate
  <2> QED
    BY <2>1 DEF ViewExact, Follows
<1>2. CASE Refuse
  <2> DEFINE m == Message("rejected", 0, TRUE)
  <2>1. m \in Messages /\ m.kind = "rejected"
    BY Typed DEF Message
  <2>2. UNCHANGED <<task, asks, win>> /\ wire' = Append(wire, m)
    BY <1>2 DEF Refuse
  <2> HIDE DEF m
  <2>3. Follows'
    BY <2>1, <2>2, WireGrows DEF TypeOK
  <2> QED
    BY <2>2, <2>3 DEF ViewExact
<1>3. CASE Accept
  <2>1. UNCHANGED <<asks, win, wire>> /\ Replace(Forward(FALSE, 0))
    BY <1>3 DEF Accept
  <2>2. 0 <= win.seen
    BY DEF TypeOK, Windows
  <2>3. Follows'
    BY <2>1, <2>2, ReplaceFollows
  <2> QED
    BY <2>1, <2>3 DEF ViewExact
<1>4. CASE Serve
  <2> DEFINE ask == Head(asks)
  <2>1. asks # <<>> /\ asks' = Tail(asks) /\ UNCHANGED <<win, left>>
    BY <1>4 DEF Serve
  <2>2. ask \in Asks /\ ask = asks[1] /\ 1 \in 1..Len(asks)
    BY <2>1 DEF TypeOK
  <2>3. \A i \in 1..Len(asks') : \E j \in 1..Len(asks) : asks'[i] = asks[j]
    <3>1. \A i \in 1..Len(Tail(asks)) : i + 1 \in 1..Len(asks) /\ Tail(asks)[i] = asks[i + 1]
      BY <2>1 DEF TypeOK
    <3> QED
      BY <2>1, <3>1
  <2> HIDE DEF ask
  <2>4. CASE ask.kind = "attach" /\ Replace(Forward(ask.fresh, ask.last)) /\ UNCHANGED wire
    <3>1. ask.fresh \in BOOLEAN /\ ask.last \in Nat
      BY <2>2 DEF Asks
    <3>2. win.tracked /\ win.clean => ask.last <= win.seen
      BY <2>2, <2>4 DEF Follows
    <3>3. Follows'
      BY <2>1, <2>3, <2>4, <3>1, <3>2, ReplaceFollows
    <3> QED
      BY <2>1, <3>3 DEF ViewExact
  <2>5. ASSUME NEW m \in Messages, m.kind # "event", wire' = Append(wire, m), UNCHANGED task
        PROVE  ViewExact' /\ Follows'
    <3>1. Follows'
      BY <2>1, <2>3, <2>5, WireGrows DEF TypeOK
    <3> QED
      BY <2>1, <3>1 DEF ViewExact
  <2>6. CASE UNCHANGED <<task, wire>>
    BY <2>1, <2>3, <2>6 DEF ViewExact, Follows
  <2>7. \/ UNCHANGED <<task, wire>>
        \/ ask.kind = "attach" /\ Replace(Forward(ask.fresh, ask.last)) /\ UNCHANGED wire
        \/ \E m \in Messages : m.kind # "event" /\ wire' = Append(wire, m) /\ UNCHANGED task
    <3>1. run.seq \in Nat /\ (~Going) \in BOOLEAN
      BY DEF TypeOK
    <3>2. /\ Message("missing", 0, FALSE) \in Messages
          /\ Message("runs", run.seq, ~Going) \in Messages
          /\ Message("noruns", 0, FALSE) \in Messages
      BY <3>1, Typed
    <3>3. /\ Message("missing", 0, FALSE).kind # "event"
          /\ Message("runs", run.seq, ~Going).kind # "event"
          /\ Message("noruns", 0, FALSE).kind # "event"
      BY DEF Message
    <3> QED
      BY <1>4, <3>2, <3>3 DEF Serve, Answer, ask
  <2> QED
    BY <2>4, <2>5, <2>6, <2>7
<1>5. ASSUME NEW k \in {"live", "stray"}, Read(k)
      PROVE  ViewExact' /\ Follows'
  <2>1. PICK u \in Tasks :
          /\ task' = [task EXCEPT ![k] = Settle(u)]
          /\ u.cursor = task[k].cursor /\ u.last = Ended /\ u.next = run.seq
          /\ task[k].at # "none" /\ UNCHANGED <<run, asks, wire, win, left>>
    BY <1>5, ReadKeeps
  <2>2. \A j \in {"live", "stray"} : task'[j].at # "none" =>
          task[j].at # "none" /\ task'[j].cursor = task[j].cursor
    BY <2>1, SettleTyped DEF TypeOK
  <2> QED
    BY <2>1, <2>2 DEF ViewExact, Follows
<1>6. ASSUME NEW k \in {"live", "stray"}, Send(k)
      PROVE  ViewExact' /\ Follows'
  <2> DEFINE t == task[k]
             seq == IF t.whole THEN t.next ELSE t.cursor + 1
             u == [t EXCEPT !.cursor = seq, !.whole = FALSE]
             m == IF t.whole THEN Message("snapshot", seq, t.last)
                  ELSE Message("event", seq, Ended /\ seq = run.seq)
  <2>1. /\ wire' = Append(wire, m) /\ t.at = "send"
        /\ task' = [task EXCEPT ![k] = Settle(u)] /\ UNCHANGED <<asks, win>>
    BY <1>6 DEF Send
  <2>2. t \in Tasks
    BY DEF TypeOK
  <2>3. seq \in Nat /\ t.last \in BOOLEAN /\ t.cursor \in Nat /\ (Ended /\ seq = run.seq) \in BOOLEAN
    BY <2>2 DEF Tasks, Ended
  <2>4. u \in Tasks /\ u.cursor = seq
    BY <2>2, <2>3 DEF Tasks
  <2>5. m \in Messages
    <3> HIDE DEF seq
    <3> QED
      BY <2>3, Typed
  <2>6. Live(m) /\ m.seq = seq /\ (m.kind = "event" => m.seq - 1 = t.cursor)
    <3>1. m.seq = seq /\ Live(m) /\ (m.kind = "event" => ~t.whole)
      BY DEF Live, Message
    <3> QED
      BY <2>3, <3>1
  <2> HIDE DEF u, m, seq
  <2>7. win.tracked /\ win.clean /\ m.kind = "event"
          => Reaches(wire, Len(wire), m.seq - 1, win.seen)
    BY <2>1, <2>6 DEF Follows
  <2>8. Settle(u) \in Tasks /\ (Settle(u).at # "none" => Settle(u).cursor = seq)
    BY <2>4, SettleTyped
  <2>9. task' \in [{"live", "stray"} -> Tasks]
    BY <2>1, <2>8 DEF TypeOK
  <2>10. \A j \in {"live", "stray"} :
           \/ task'[j].at # "none" => task[j].at # "none" /\ task'[j].cursor = task[j].cursor
           \/ Live(m) /\ task'[j].cursor = m.seq
    BY <2>1, <2>6, <2>8 DEF TypeOK
  <2>11. Follows'
    BY <2>1, <2>5, <2>7, <2>9, <2>10, WireGrows
  <2> QED
    BY <2>1, <2>11 DEF ViewExact
<1>7. CASE Vanish
  <2>1. task' = [task EXCEPT !.stray = NoTask] /\ UNCHANGED <<asks, wire, win>>
    BY <1>7 DEF Vanish
  <2> QED
    BY <2>1 DEF ViewExact, Follows, NoTask, TypeOK
<1>8. CASE Stays
  <2>1. Follows'
    BY <1>8, StaysKeeps, StaysFollows
  <2> QED
    BY <1>8, <2>1, StaysKeeps DEF ViewExact
<1>9. CASE LoadHistory
  <2>1. Follows'
    BY <1>9, LoadKeeps, StaysFollows
  <2> QED
    BY <1>9, <2>1, LoadKeeps, UptoSeq DEF ViewExact
<1>10. CASE Poll
  <2>1. /\ win'.tracked = win.tracked /\ win'.clean = win.clean /\ win'.seen = win.seen
        /\ win'.view = win.view /\ win'.whole = win.whole /\ win' \in Windows
    BY <1>10 DEF Poll, TypeOK, Windows
  <2>2. Follows'
    BY <1>10, <2>1, StaysFollows DEF Poll
  <2> QED
    BY <2>1, <2>2 DEF ViewExact
<1>11. CASE StartRun
  <2>1. win.stale \in BOOLEAN
    BY DEF TypeOK, Windows
  <2>2. Start \in Asks /\ Attach(win.stale, 0) \in Asks /\ Start.last = 0
        /\ Attach(win.stale, 0).last = 0
    BY <2>1, Typed DEF Start, Attach
  <2> HIDE DEF Start, Attach
  <2> QED
    BY <1>11, <2>2, TrackFollows DEF StartRun
<1>12. CASE Receive
  <2> DEFINE m == Head(wire)
  <2>1. /\ win' \in Windows /\ asks' \in Seq(Asks) /\ m \in Messages
        /\ wire # <<>> /\ wire' = Tail(wire) /\ UNCHANGED task
        /\ Shows(m) \/ Closes(m) \/ TakesUp(m) \/ Ignores(m)
    BY <1>12, ReceiveKeeps
  <2>2. /\ wire \in Seq(Messages) /\ 1 \in 1..Len(wire) /\ m = wire[1]
        /\ Len(Tail(wire)) = Len(wire) - 1 /\ Len(wire) \in 1..Len(wire)
        /\ win.seen \in Nat /\ m.seq \in Nat /\ win'.seen \in Nat
        /\ \A k \in {"live", "stray"} : task[k].cursor \in Nat
    <3>1. wire \in Seq(Messages) /\ win \in Windows
      BY DEF TypeOK
    <3>2. /\ 1 \in 1..Len(wire) /\ m = wire[1]
          /\ Len(Tail(wire)) = Len(wire) - 1 /\ Len(wire) \in 1..Len(wire)
      BY <2>1, <3>1
    <3>3. win.seen \in Nat /\ m.seq \in Nat /\ win'.seen \in Nat
      BY <2>1, <3>1 DEF Windows, Messages
    <3>4. \A k \in {"live", "stray"} : task[k].cursor \in Nat
      BY DEF TypeOK, Tasks
    <3> QED
      BY <3>1, <3>2, <3>3, <3>4
  <2> HIDE DEF m
  <2>3. ASSUME win.tracked, win'.clean = win.clean, asks' = asks,
               win.seen <= win'.seen, Live(m) => m.seq <= win'.seen
        PROVE  Follows'
    <3> SUFFICES ASSUME win.clean
                 PROVE  /\ Chain(wire', win'.seen)
                        /\ \A k \in {"live", "stray"} : task[k].at # "none" =>
                             Reaches(wire', Len(wire'), task[k].cursor, win'.seen)
                        /\ \A i \in 1..Len(asks) :
                             asks[i].kind = "attach" => asks[i].last <= win'.seen
      BY <2>1, <2>3 DEF Follows
    <3>1. Chain(wire', win'.seen)
      BY <2>1, <2>2, <2>3, ChainTail DEF Follows, m
    <3>2. ASSUME NEW k \in {"live", "stray"}, task[k].at # "none"
          PROVE  Reaches(wire', Len(wire'), task[k].cursor, win'.seen)
      <4>1. Reaches(wire, Len(wire), task[k].cursor, win.seen)
        BY <2>3, <3>2 DEF Follows
      <4>0. /\ Len(wire) \in 1..Len(wire) /\ task[k].cursor \in Int
            /\ Live(Head(wire)) => Head(wire).seq <= win'.seen
        BY <2>1, <2>2, <2>3, <3>2 DEF m
      <4>2. Reaches(Tail(wire), Len(wire) - 1, task[k].cursor, win'.seen)
        BY <2>1, <2>2, <2>3, <4>0, <4>1, ReachesTail
      <4> QED
        BY <2>1, <2>2, <4>2
    <3>3. ASSUME NEW i \in 1..Len(asks), asks[i].kind = "attach"
          PROVE  asks[i].last <= win'.seen
      <4>1. asks[i].last <= win.seen
        BY <2>3, <3>3 DEF Follows
      <4>2. asks[i].last \in Nat
        <5>1. asks[i] \in Asks
          BY DEF TypeOK
        <5> QED
          BY <5>1 DEF Asks
      <4> QED
        BY <2>2, <2>3, <4>1, <4>2
    <3> QED
      BY <3>1, <3>2, <3>3
  <2>4. CASE Shows(m)
    <3>1. win.tracked /\ win'.clean = win.clean /\ win'.seen = m.seq /\ win.seen <= m.seq
          /\ (win'.tracked => asks' = asks)
      BY <2>2, <2>4 DEF Shows, Advances
    <3>2. Follows'
      <4>1. CASE win'.tracked
        BY <2>2, <2>3, <3>1, <4>1
      <4>2. CASE ~win'.tracked
        BY <4>2 DEF Follows
      <4> QED
        BY <4>1, <4>2
    <3>3. ASSUME win'.clean, win'.whole
          PROVE  win'.view = Upto(win'.seen)
      <4>1. CASE m.kind = "event"
        <5>1. m.seq > win.seen /\ win.whole /\ win'.view = Append(win.view, m.seq)
          BY <2>4, <3>3, <4>1 DEF Shows, Advances
        <5>2. Reaches(wire, 0, m.seq - 1, win.seen)
          BY <2>2, <3>1, <3>3, <4>1 DEF Follows, Chain
        <5>3. m.seq = win.seen + 1
          BY <2>2, <5>1, <5>2 DEF Reaches
        <5>4. win.view = Upto(win.seen)
          BY <3>1, <3>3, <5>1 DEF ViewExact
        <5> QED
          BY <2>2, <3>1, <5>1, <5>3, <5>4, UptoSeq
      <4>2. CASE m.kind = "snapshot" /\ ~win.away
        BY <2>4, <3>1, <4>2 DEF Shows
      <4>3. CASE m.kind = "snapshot" /\ win.away
        BY <2>4, <3>1, <3>3, <4>3 DEF Shows, ViewExact
      <4> QED
        BY <2>4, <4>1, <4>2, <4>3 DEF Shows, Live
    <3> QED
      BY <3>2, <3>3 DEF ViewExact
  <2>5. CASE Closes(m)
    BY <2>5 DEF Closes, ViewExact, Follows
  <2>6. CASE TakesUp(m)
    <3>1. win.stale \in BOOLEAN
      BY DEF TypeOK, Windows
    <3>2. Attach(TRUE, 0) \in Asks /\ Attach(win.stale, 0) \in Asks
          /\ Attach(TRUE, 0).last = 0 /\ Attach(win.stale, 0).last = 0
      BY <3>1, Typed DEF Attach
    <3> HIDE DEF Attach
    <3> QED
      BY <2>1, <2>6, <3>2, TrackFollows DEF TakesUp
  <2>7. CASE Ignores(m)
    <3>1. Follows'
      <4>1. CASE win.tracked
        BY <2>2, <2>3, <2>7, <4>1 DEF Ignores
      <4>2. CASE ~win.tracked
        BY <2>7, <4>2 DEF Ignores, Follows
      <4> QED
        BY <4>1, <4>2
    <3> QED
      BY <2>7, <3>1 DEF Ignores, ViewExact
  <2> QED
    BY <2>1, <2>4, <2>5, <2>6, <2>7
<1>13. CASE Disconnect \/ ReloadPage \/ Restart
  <2>1. \/ win' = NewWindow
        \/ /\ win'.tracked = win.tracked /\ win'.seen = win.seen /\ win'.view = win.view
           /\ win'.whole = win.whole /\ win'.clean = win.clean
    BY <1>13, BreaksKeep
  <2>2. ViewExact'
    <3>1. CASE win' = NewWindow
      BY <3>1, UptoSeq DEF ViewExact, NewWindow
    <3>2. CASE win' # NewWindow
      BY <2>1, <3>2 DEF ViewExact
    <3> QED
      BY <3>1, <3>2
  <2>3. Follows'
    <3>1. asks' = <<>> /\ wire' = <<>> /\ \A k \in {"live", "stray"} : task'[k] = NoTask
      BY <1>13, BreaksKeep
    <3> QED
      BY <3>1 DEF Follows, Chain, NoTask
  <2> QED
    BY <2>2, <2>3
<1> QED
  BY <1>1, <1>2, <1>3, <1>4, <1>5, <1>6, <1>7, <1>8, <1>9, <1>10, <1>11, <1>12, <1>13
  DEF Next, Stays

-----------------------------------------------------------------------------
(* The end. *)

\* Every step keeps the ends right.
LEMMA EndStep ==
  ASSUME TypeOK, EndsRight, Next
  PROVE  EndsRight'
<1> USE DEF Closed, Ended
<1>1. CASE Prepare \/ PrepareFails \/ Emit \/ HostStart \/ ServeLate
  <2>1. run.phase \in {"reserved", "running", "none", "late"} /\ UNCHANGED <<task, wire, win>>
    BY <1>1 DEF Prepare, PrepareFails, Emit, HostStart, ServeLate
  <2> QED
    BY <2>1 DEF EndsRight
<1>2. CASE Reap
  <2>1. run.phase = "ended" /\ run'.phase = "reaped" /\ run'.seq = run.seq
        /\ UNCHANGED <<task, wire, win>>
    BY <1>2 DEF Reap, TypeOK
  <2> QED
    BY <2>1 DEF EndsRight
<1>3. CASE Vanish \/ Stays \/ Poll
  <2>1. run' = run /\ wire' = wire /\ win'.outcome = win.outcome /\ win'.seen = win.seen
        /\ win'.tracked = win.tracked
    BY <1>3, StaysKeeps DEF Vanish, Poll, TypeOK, Windows
  <2>2. \A k \in {"live", "stray"} : task'[k] = task[k] \/ task'[k].at # "send"
    BY <1>3, StaysKeeps DEF Vanish, Poll, TypeOK, NoTask
  <2> QED
    BY <2>1, <2>2 DEF EndsRight
<1>4. CASE LoadHistory
  BY <1>4, LoadKeeps DEF EndsRight
<1>5. CASE StartRun
  <2>1. win'.outcome = "none" /\ UNCHANGED <<run, task, wire>>
    BY <1>5, TrackKeeps DEF StartRun, TypeOK
  <2> QED
    BY <2>1 DEF EndsRight
<1>6. CASE Disconnect \/ ReloadPage \/ Restart
  <2>1. wire' = <<>> /\ \A k \in {"live", "stray"} : task'[k] = NoTask
    BY <1>6, BreaksKeep
  <2>2. run'.seq = run.seq /\ (Closed => Closed')
    BY <1>6 DEF Disconnect, ReloadPage, Restart, Outlive, Known, TypeOK
  <2>3. win'.outcome = "ended" =>
          win.outcome = "ended" /\ win'.seen = win.seen /\ win'.tracked = win.tracked
    BY <1>6, BreaksKeep DEF NewWindow
  <2> QED
    BY <2>1, <2>2, <2>3 DEF EndsRight, NoTask
<1>7. ASSUME NEW m \in Messages, wire' = Append(wire, m), Live(m) /\ m.end => Ended /\ m.seq = run.seq,
             run'.seq = run.seq, run'.phase = run.phase, UNCHANGED win,
             \A k \in {"live", "stray"} :
               \/ task'[k].at = "send" => task[k].at = "send" /\ task'[k].last = task[k].last
                                                              /\ task'[k].next = task[k].next
      PROVE  EndsRight'
  <2>1. \A i \in 1..Len(wire') : (i \in 1..Len(wire) /\ wire'[i] = wire[i]) \/ wire'[i] = m
    BY <1>7 DEF TypeOK
  <2> QED
    BY <1>7, <2>1 DEF EndsRight
<1>8. CASE Refuse
  <2> DEFINE m == Message("rejected", 0, TRUE)
  <2>1. m \in Messages /\ ~Live(m)
    BY Typed DEF Message, Live
  <2>2. wire' = Append(wire, m) /\ UNCHANGED <<task, win>> /\ run' = [run EXCEPT !.here = FALSE]
    BY <1>8 DEF Refuse
  <2>3. run'.seq = run.seq /\ run'.phase = run.phase
    BY <2>2 DEF TypeOK
  <2> HIDE DEF m
  <2> QED
    BY <1>7, <2>1, <2>2, <2>3
<1>9. ASSUME NEW fresh \in BOOLEAN, NEW last \in Nat, Replace(Forward(fresh, last)),
             run'.seq = run.seq, run'.phase = run.phase, UNCHANGED <<win, wire>>
      PROVE  EndsRight'
  <2>1. \A k \in {"live", "stray"} : task'[k].at = "send" => task'[k] = task["live"]
    BY <1>9, ForwardTyped, ReplaceTyped DEF NoTask
  <2> QED
    BY <1>9, <2>1 DEF EndsRight
<1>10. CASE Accept
  <2>1. Replace(Forward(FALSE, 0)) /\ UNCHANGED <<win, wire>> /\ run' = [run EXCEPT !.here = FALSE]
    BY <1>10 DEF Accept
  <2>2. run'.seq = run.seq /\ run'.phase = run.phase
    BY <2>1 DEF TypeOK
  <2> QED
    BY <1>9, <2>1, <2>2
<1>11. CASE Serve
  <2> DEFINE ask == Head(asks)
  <2>1. asks # <<>> /\ UNCHANGED win
    BY <1>11 DEF Serve
  <2>2. ask.fresh \in BOOLEAN /\ ask.last \in Nat
    <3>1. ask \in Asks
      BY <2>1 DEF TypeOK
    <3> QED
      BY <3>1 DEF Asks
  <2> HIDE DEF ask
  <2>3. CASE Replace(Forward(ask.fresh, ask.last)) /\ UNCHANGED <<run, wire>>
    BY <1>9, <2>1, <2>2, <2>3
  <2>4. CASE run.phase = "none" /\ UNCHANGED <<task, wire>>
    BY <2>1, <2>4 DEF EndsRight
  <2>5. ASSUME NEW m \in Messages, ~Live(m), wire' = Append(wire, m), UNCHANGED <<run, task>>
        PROVE  EndsRight'
    BY <1>7, <2>1, <2>5
  <2>6. \/ Replace(Forward(ask.fresh, ask.last)) /\ UNCHANGED <<run, wire>>
        \/ run.phase = "none" /\ UNCHANGED <<task, wire>>
        \/ \E m \in Messages : ~Live(m) /\ wire' = Append(wire, m) /\ UNCHANGED <<run, task>>
    <3>1. run.seq \in Nat /\ (~Going) \in BOOLEAN
      BY DEF TypeOK
    <3>2. /\ Message("missing", 0, FALSE) \in Messages
          /\ Message("runs", run.seq, ~Going) \in Messages
          /\ Message("noruns", 0, FALSE) \in Messages
      BY <3>1, Typed
    <3>3. /\ ~Live(Message("missing", 0, FALSE))
          /\ ~Live(Message("runs", run.seq, ~Going))
          /\ ~Live(Message("noruns", 0, FALSE))
      BY DEF Message, Live
    <3> QED
      BY <1>11, <3>2, <3>3 DEF Serve, Answer, ask
  <2> QED
    BY <2>3, <2>4, <2>5, <2>6
<1>12. ASSUME NEW k \in {"live", "stray"}, Read(k)
       PROVE  EndsRight'
  <2>1. PICK u \in Tasks :
          /\ task' = [task EXCEPT ![k] = Settle(u)]
          /\ u.cursor = task[k].cursor /\ u.last = Ended /\ u.next = run.seq
          /\ task[k].at # "none" /\ UNCHANGED <<run, asks, wire, win, left>>
    BY <1>12, ReadKeeps
  <2>2. Settle(u).at = "send" => Settle(u).last = u.last /\ Settle(u).next = u.next
    BY SettleTyped
  <2> QED
    BY <2>1, <2>2 DEF EndsRight, TypeOK
<1>13. ASSUME NEW k \in {"live", "stray"}, Send(k)
       PROVE  EndsRight'
  <2> DEFINE t == task[k]
             seq == IF t.whole THEN t.next ELSE t.cursor + 1
             u == [t EXCEPT !.cursor = seq, !.whole = FALSE]
             m == IF t.whole THEN Message("snapshot", seq, t.last)
                  ELSE Message("event", seq, Ended /\ seq = run.seq)
  <2>1. /\ wire' = Append(wire, m) /\ t.at = "send"
        /\ task' = [task EXCEPT ![k] = Settle(u)] /\ UNCHANGED <<run, win>>
    BY <1>13 DEF Send
  <2>2. t \in Tasks
    BY DEF TypeOK
  <2>3. seq \in Nat /\ t.last \in BOOLEAN /\ (Ended /\ seq = run.seq) \in BOOLEAN
    BY <2>2 DEF Tasks
  <2>4. u \in Tasks /\ u.last = t.last /\ u.next = t.next
    BY <2>2, <2>3 DEF Tasks
  <2>5. m \in Messages
    <3> HIDE DEF seq
    <3> QED
      BY <2>3, Typed
  <2>6. m.end => Ended /\ m.seq = run.seq
    BY <2>1 DEF Message, EndsRight
  <2> HIDE DEF u, m, seq
  <2>7. Settle(u).at = "send" => Settle(u).last = t.last /\ Settle(u).next = t.next
    BY <2>4, SettleTyped
  <2>8. \A j \in {"live", "stray"} : task'[j].at = "send" =>
          task[j].at = "send" /\ task'[j].last = task[j].last /\ task'[j].next = task[j].next
    BY <2>1, <2>7 DEF TypeOK
  <2> QED
    BY <1>7, <2>1, <2>5, <2>6, <2>8
<1>14. CASE Receive
  <2> DEFINE m == Head(wire)
  <2>1. /\ m \in Messages /\ wire # <<>> /\ wire' = Tail(wire) /\ UNCHANGED <<run, task>>
        /\ Shows(m) \/ Closes(m) \/ TakesUp(m) \/ Ignores(m)
    BY <1>14, ReceiveKeeps
  <2>2. \A i \in 1..Len(wire') : i + 1 \in 1..Len(wire) /\ wire'[i] = wire[i + 1]
    BY <2>1 DEF TypeOK
  <2>3. Live(m) /\ m.end => Ended /\ m.seq = run.seq
    <3>1. m = wire[1] /\ 1 \in 1..Len(wire)
      BY <2>1 DEF TypeOK
    <3> QED
      BY <3>1 DEF EndsRight
  <2> HIDE DEF m
  <2>4. win'.outcome = "ended" => Closed /\ win'.seen = run.seq /\ ~win'.tracked
    <3>1. CASE Shows(m)
      BY <2>3, <3>1 DEF Shows, EndsRight
    <3>2. CASE Closes(m)
      BY <3>2 DEF Closes
    <3>3. CASE TakesUp(m)
      BY <3>3, TrackKeeps DEF TakesUp, TypeOK
    <3>4. CASE Ignores(m)
      BY <3>4 DEF Ignores, EndsRight
    <3> QED
      BY <2>1, <3>1, <3>2, <3>3, <3>4
  <2> QED
    BY <2>1, <2>2, <2>4 DEF EndsRight
<1> QED
  BY <1>1, <1>2, <1>3, <1>4, <1>5, <1>6, <1>8, <1>10, <1>11, <1>12, <1>13, <1>14
  DEF Next, Stays

-----------------------------------------------------------------------------
(* The theorems about the view and the end. *)

\* The invariant holds in every reachable state: what is under way for a window
\* that follows a run goes on from what it has seen, and ends are those of whole runs.
THEOREM RunInvariance == Spec => []IInv
<1>1. Init => IInv
  <2> SUFFICES ASSUME Init
               PROVE  IInv
    OBVIOUS
  <2>1. TypeOK
    BY TypeInit
  <2>2. ViewExact /\ Follows
    BY UptoSeq DEF Init, NewWindow, ViewExact, Follows
  <2>3. EndsRight
    BY DEF Init, NewWindow, NoTask, EndsRight
  <2> QED
    BY <2>1, <2>2, <2>3 DEF IInv
<1>2. IInv /\ [Next]_vars => IInv'
  <2> SUFFICES ASSUME IInv, [Next]_vars
               PROVE  IInv'
    OBVIOUS
  <2>1. TypeOK'
    BY TypeStep DEF IInv
  <2>2. CASE Next
    BY <2>1, <2>2, ViewStep, EndStep DEF IInv
  <2>3. CASE UNCHANGED vars
    BY <2>1, <2>3 DEF IInv, ViewExact, Follows, EndsRight, Ended, Closed, vars
  <2> QED
    BY <2>2, <2>3
<1> QED
  BY <1>1, <1>2, PTL DEF Spec

\* Run, forwarders, queue and window keep their declared shape.
THEOREM RunTypeCorrect == Spec => []TypeOK
  BY RunInvariance, PTL DEF IInv

\* A window that holds everything it was sent shows each event of the run once, in
\* order and without a gap.
THEOREM ViewIsExact == Spec => []ViewExact
  BY RunInvariance, PTL DEF IInv

\* A window that shows the end of the run has seen all of it.
THEOREM EndIsSeenWhole == Spec => []EndSeenWhole
<1>1. IInv => EndSeenWhole
  BY DEF IInv, EndsRight, EndSeenWhole
<1> QED
  BY <1>1, RunInvariance, PTL

-----------------------------------------------------------------------------
(* What a window that was disturbed shows: sequences of requests and messages. *)

\* Something of the kind is on its way; one at most is; the last attach on its way.
Has(q, kind) == \E i \in 1..Len(q) : q[i].kind = kind
Single(q, kind) == \A i, j \in 1..Len(q) : q[i].kind = kind /\ q[j].kind = kind => i = j
Latest(q, i) == q[i].kind = "attach" /\ \A j \in (i + 1)..Len(q) : q[j].kind # "attach"

LEMMA HasAppend ==
  ASSUME NEW S, NEW q \in Seq(S), NEW m \in S, NEW kind
  PROVE  Has(Append(q, m), kind) <=> Has(q, kind) \/ m.kind = kind
<1>1. /\ Len(Append(q, m)) = Len(q) + 1
      /\ \A i \in 1..Len(q) : Append(q, m)[i] = q[i]
      /\ Append(q, m)[Len(q) + 1] = m
  OBVIOUS
<1>2. ASSUME Has(Append(q, m), kind)
      PROVE  Has(q, kind) \/ m.kind = kind
  <2>1. PICK i \in 1..Len(Append(q, m)) : Append(q, m)[i].kind = kind
    BY <1>2 DEF Has
  <2>. QED
    BY <1>1, <2>1 DEF Has
<1>3. ASSUME Has(q, kind) \/ m.kind = kind
      PROVE  Has(Append(q, m), kind)
  BY <1>1, <1>3 DEF Has
<1>. QED
  BY <1>2, <1>3

LEMMA HasTail ==
  ASSUME NEW S, NEW q \in Seq(S), q # <<>>, NEW kind
  PROVE  Has(q, kind) <=> Has(Tail(q), kind) \/ Head(q).kind = kind
<1>1. /\ Len(q) \in Nat /\ Len(q) > 0 /\ Len(Tail(q)) = Len(q) - 1
      /\ \A i \in 1..Len(Tail(q)) : Tail(q)[i] = q[i + 1]
      /\ Head(q) = q[1]
  OBVIOUS
<1>2. ASSUME Has(q, kind)
      PROVE  Has(Tail(q), kind) \/ Head(q).kind = kind
  <2>1. PICK i \in 1..Len(q) : q[i].kind = kind
    BY <1>2 DEF Has
  <2>2. CASE i = 1
    BY <1>1, <2>1, <2>2
  <2>3. CASE i # 1
    <3>1. i - 1 \in 1..Len(Tail(q)) /\ Tail(q)[i - 1] = q[i]
      BY <1>1, <2>3
    <3>. QED
      BY <2>1, <3>1 DEF Has
  <2>. QED
    BY <2>2, <2>3
<1>3. ASSUME Has(Tail(q), kind) \/ Head(q).kind = kind
      PROVE  Has(q, kind)
  <2>1. CASE Has(Tail(q), kind)
    <3>1. PICK i \in 1..Len(Tail(q)) : Tail(q)[i].kind = kind
      BY <2>1 DEF Has
    <3>2. i + 1 \in 1..Len(q) /\ q[i + 1].kind = kind
      BY <1>1, <3>1
    <3>. QED
      BY <3>2 DEF Has
  <2>2. CASE Head(q).kind = kind
    BY <1>1, <2>2 DEF Has
  <2>. QED
    BY <1>3, <2>1, <2>2
<1>. QED
  BY <1>2, <1>3

LEMMA HasTwo ==
  ASSUME NEW q \in Seq(Asks), NEW a \in Asks, NEW b \in Asks, NEW kind
  PROVE  Has(q \o <<a, b>>, kind) <=> Has(q, kind) \/ a.kind = kind \/ b.kind = kind
<1>1. q \o <<a, b>> = Append(Append(q, a), b) /\ Append(q, a) \in Seq(Asks)
  OBVIOUS
<1>2. Has(Append(q, a), kind) <=> Has(q, kind) \/ a.kind = kind
  BY HasAppend
<1>. DEFINE r == Append(q, a)
<1>3. r \in Seq(Asks) /\ q \o <<a, b>> = Append(r, b)
  BY <1>1
<1>. HIDE DEF r
<1>4. Has(Append(r, b), kind) <=> Has(r, kind) \/ b.kind = kind
  BY <1>3, HasAppend
<1>. QED
  BY <1>2, <1>3, <1>4 DEF r

LEMMA SingleAppend ==
  ASSUME NEW S, NEW q \in Seq(S), NEW m \in S, NEW kind,
         m.kind = kind => ~Has(q, kind), Single(q, kind)
  PROVE  Single(Append(q, m), kind)
<1>1. /\ Len(Append(q, m)) = Len(q) + 1
      /\ \A i \in 1..Len(q) : Append(q, m)[i] = q[i]
      /\ Append(q, m)[Len(q) + 1] = m
  OBVIOUS
<1>. QED
  BY <1>1 DEF Single, Has

LEMMA SingleTail ==
  ASSUME NEW S, NEW q \in Seq(S), q # <<>>, NEW kind, Single(q, kind)
  PROVE  Single(Tail(q), kind) /\ (Head(q).kind = kind => ~Has(Tail(q), kind))
<1>1. /\ Len(q) \in Nat /\ Len(q) > 0 /\ Len(Tail(q)) = Len(q) - 1
      /\ \A i \in 1..Len(Tail(q)) : Tail(q)[i] = q[i + 1] /\ i + 1 \in 1..Len(q)
      /\ Head(q) = q[1]
  OBVIOUS
<1>2. ASSUME NEW i \in 1..Len(Tail(q)), NEW j \in 1..Len(Tail(q)),
             Tail(q)[i].kind = kind, Tail(q)[j].kind = kind
      PROVE  i = j
  <2>1. i + 1 = j + 1
    BY <1>1, <1>2 DEF Single
  <2>. QED
    BY <2>1
<1>3. ASSUME Head(q).kind = kind, NEW i \in 1..Len(Tail(q)), Tail(q)[i].kind = kind
      PROVE  FALSE
  <2>1. 1 = i + 1
    BY <1>1, <1>3 DEF Single
  <2>. QED
    BY <2>1
<1>. QED
  BY <1>2, <1>3 DEF Single, Has

\* The latest attach is the one that was just asked for, if there is one.
LEMMA LatestAppend ==
  ASSUME NEW q \in Seq(Asks), NEW a \in Asks, NEW i \in 1..Len(Append(q, a)),
         Latest(Append(q, a), i)
  PROVE  \/ i = Len(q) + 1 /\ Append(q, a)[i] = a /\ a.kind = "attach"
         \/ i \in 1..Len(q) /\ Append(q, a)[i] = q[i] /\ a.kind # "attach" /\ Latest(q, i)
<1>1. /\ Len(Append(q, a)) = Len(q) + 1
      /\ \A j \in 1..Len(q) : Append(q, a)[j] = q[j]
      /\ Append(q, a)[Len(q) + 1] = a
  OBVIOUS
<1>2. CASE i = Len(q) + 1
  BY <1>1, <1>2 DEF Latest
<1>3. CASE i \in 1..Len(q)
  <2>1. Append(q, a)[Len(q) + 1].kind # "attach"
    BY <1>1, <1>3 DEF Latest
  <2>2. \A j \in (i + 1)..Len(q) : q[j].kind # "attach"
    BY <1>1, <1>3 DEF Latest
  <2>. QED
    BY <1>1, <1>3, <2>1, <2>2 DEF Latest
<1>. QED
  BY <1>1, <1>2, <1>3

LEMMA LatestTail ==
  ASSUME NEW q \in Seq(Asks), q # <<>>, NEW i \in 1..Len(Tail(q)), Latest(Tail(q), i)
  PROVE  i + 1 \in 1..Len(q) /\ Tail(q)[i] = q[i + 1] /\ Latest(q, i + 1)
<1>1. /\ Len(q) \in Nat /\ Len(Tail(q)) = Len(q) - 1
      /\ \A j \in 1..Len(Tail(q)) : Tail(q)[j] = q[j + 1]
  OBVIOUS
<1>2. ASSUME NEW j \in (i + 2)..Len(q)
      PROVE  q[j].kind # "attach"
  <2>1. j - 1 \in (i + 1)..Len(Tail(q)) /\ j - 1 \in 1..Len(Tail(q)) /\ (j - 1) + 1 = j
    BY <1>1
  <2>. QED
    BY <1>1, <2>1 DEF Latest
<1>. QED
  BY <1>1, <1>2 DEF Latest

\* The first attach is the latest if there is no other behind it.
LEMMA LatestHead ==
  ASSUME NEW q \in Seq(Asks), q # <<>>, Head(q).kind = "attach", ~Has(Tail(q), "attach")
  PROVE  1 \in 1..Len(q) /\ Head(q) = q[1] /\ Latest(q, 1)
<1>1. /\ Len(q) \in Nat /\ Len(q) > 0 /\ Len(Tail(q)) = Len(q) - 1
      /\ \A j \in 1..Len(Tail(q)) : Tail(q)[j] = q[j + 1]
      /\ Head(q) = q[1]
  OBVIOUS
<1>2. ASSUME NEW j \in 2..Len(q)
      PROVE  q[j].kind # "attach"
  <2>1. j - 1 \in 1..Len(Tail(q)) /\ (j - 1) + 1 = j
    BY <1>1
  <2>. QED
    BY <1>1, <2>1 DEF Has
<1>. QED
  BY <1>1, <1>2 DEF Latest

-----------------------------------------------------------------------------
(* What the steps of the window do. *)

\* What an Effect on the window w does to the window and its requests.
EffectDoes(w) ==
  /\ win' \in Windows /\ asks' \in Seq(Asks)
  /\ \A f \in {"conn", "loaded", "away", "tracked", "seen", "view", "whole", "clean",
               "observed", "outcome"} : win'[f] = w[f]
  /\ w.conn => ~win'.stale
  /\ \/ ~w.conn /\ win' = w /\ asks' = asks
     \/ /\ w.conn /\ w.tracked /\ win'.listening = w.listening
        /\ asks' = Append(asks, Attach(w.stale, w.seen))
     \/ /\ w.conn /\ ~w.tracked /\ w.loaded /\ ~w.away /\ win'.listening
        /\ asks' = Append(asks, List)
     \/ /\ w.conn /\ ~w.tracked /\ (~w.loaded \/ w.away) /\ win'.listening = w.listening
        /\ asks' = asks

LEMMA EffectShape ==
  ASSUME NEW w \in Windows, asks \in Seq(Asks), Effect(w)
  PROVE  EffectDoes(w)
<1>1. win' \in Windows /\ asks' \in Seq(Asks)
  BY EffectKeeps
<1>2. CASE ~w.conn
  BY <1>1, <1>2 DEF Effect, EffectDoes
<1>3. CASE w.conn /\ w.tracked
  <2>1. win' = [w EXCEPT !.stale = FALSE] /\ asks' = Append(asks, Attach(w.stale, w.seen))
    BY <1>3 DEF Effect
  <2>2. /\ win'.listening = w.listening /\ ~win'.stale
        /\ \A f \in {"conn", "loaded", "away", "tracked", "seen", "view", "whole", "clean",
                     "observed", "outcome"} : win'[f] = w[f]
    BY <2>1 DEF Windows
  <2>. QED
    BY <1>1, <1>3, <2>1, <2>2 DEF EffectDoes
<1>4. CASE w.conn /\ ~w.tracked /\ w.loaded /\ ~w.away
  <2>1. win' = [w EXCEPT !.stale = FALSE, !.listening = TRUE] /\ asks' = Append(asks, List)
    BY <1>4 DEF Effect
  <2>2. /\ win'.listening /\ ~win'.stale
        /\ \A f \in {"conn", "loaded", "away", "tracked", "seen", "view", "whole", "clean",
                     "observed", "outcome"} : win'[f] = w[f]
    BY <2>1 DEF Windows
  <2>. QED
    BY <1>1, <1>4, <2>1, <2>2 DEF EffectDoes
<1>5. CASE w.conn /\ ~w.tracked /\ ~(w.loaded /\ ~w.away)
  <2>1. win' = [w EXCEPT !.stale = FALSE] /\ asks' = asks
    BY <1>5 DEF Effect
  <2>2. /\ win'.listening = w.listening /\ ~win'.stale
        /\ \A f \in {"conn", "loaded", "away", "tracked", "seen", "view", "whole", "clean",
                     "observed", "outcome"} : win'[f] = w[f]
    BY <2>1 DEF Windows
  <2>. QED
    BY <1>1, <1>5, <2>1, <2>2 DEF EffectDoes
<1>. QED
  BY <1>2, <1>3, <1>4, <1>5

\* The fields of the window that a connection, a visit or news leave alone.
Same(w, fields) == w \in Windows /\ \A f \in fields : w[f] = win[f]

LEMMA ConnectShape ==
  ASSUME TypeOK, Connect
  PROVE  \E w : /\ Same(w, {"loaded", "away", "tracked", "seen", "view", "whole", "clean", "stale",
                            "listening", "observed", "outcome"})
                /\ w.conn /\ EffectDoes(w) /\ ~win.conn /\ UNCHANGED <<run, task, wire, left>>
<1>. DEFINE w == [win EXCEPT !.conn = TRUE]
<1>1. /\ w.conn /\ Same(w, {"loaded", "away", "tracked", "seen", "view", "whole", "clean", "stale",
                            "listening", "observed", "outcome"})
  BY DEF TypeOK, Windows, Same
<1>2. Effect(w) /\ ~win.conn /\ UNCHANGED <<run, task, wire, left>> /\ asks \in Seq(Asks)
  BY DEF Connect, TypeOK
<1>. HIDE DEF w
<1>3. EffectDoes(w)
  BY <1>1, <1>2, EffectShape DEF Same
<1>. QED
  BY <1>1, <1>2, <1>3

LEMMA LeaveShape ==
  ASSUME TypeOK, Leave
  PROVE  \E w : /\ Same(w, {"conn", "loaded", "tracked", "seen", "view", "whole", "clean", "outcome"})
                /\ w.away /\ ~w.stale /\ ~w.listening /\ w.observed = {}
                /\ EffectDoes(w) /\ win.loaded /\ ~win.away /\ UNCHANGED <<run, task, wire>>
                /\ left.visits > 0 /\ left' = [left EXCEPT !.visits = @ - 1]
<1>. DEFINE w == [win EXCEPT !.away = TRUE, !.stale = FALSE, !.listening = FALSE, !.observed = {}]
<1>1. /\ w.away /\ ~w.stale /\ ~w.listening /\ w.observed = {}
      /\ Same(w, {"conn", "loaded", "tracked", "seen", "view", "whole", "clean", "outcome"})
  BY DEF TypeOK, Windows, Same
<1>2. /\ Effect(w) /\ win.loaded /\ ~win.away /\ UNCHANGED <<run, task, wire>> /\ asks \in Seq(Asks)
      /\ left.visits > 0 /\ left' = [left EXCEPT !.visits = @ - 1]
  BY DEF Leave, TypeOK
<1>. HIDE DEF w
<1>3. EffectDoes(w)
  BY <1>1, <1>2, EffectShape DEF Same
<1>. QED
  BY <1>1, <1>2, <1>3

LEMMA NewsShape ==
  ASSUME TypeOK, GoalNews
  PROVE  /\ EffectDoes(win) /\ win.loaded /\ UNCHANGED <<run, task, wire>>
         /\ left.goals > 0 /\ left' = [left EXCEPT !.goals = @ - 1]
  BY EffectShape DEF GoalNews, TypeOK

LEMMA LoadShape ==
  ASSUME TypeOK, LoadHistory
  PROVE  \E w : /\ Same(w, {"conn", "tracked", "clean"})
                /\ w.loaded /\ ~w.away /\ w.view = <<>> /\ w.stale /\ ~w.listening
                /\ w.observed = {} /\ w.seen = (IF win.tracked THEN win.seen ELSE 0)
                /\ w.whole = (~win.tracked \/ win.seen = 0)
                /\ w.outcome = (IF win.tracked THEN win.outcome ELSE "none")
                /\ EffectDoes(w) /\ (~win.loaded \/ win.away)
                /\ UNCHANGED <<run, task, wire, left>>
<1>. DEFINE u == [win EXCEPT !.loaded = TRUE, !.away = FALSE, !.view = <<>>, !.stale = TRUE]
            v == [u EXCEPT !.seen = IF win.tracked THEN @ ELSE 0,
                           !.whole = ~win.tracked \/ win.seen = 0]
            w == [v EXCEPT !.listening = FALSE, !.observed = {},
                           !.outcome = IF win.tracked THEN @ ELSE "none"]
<1>1. win \in Windows /\ asks \in Seq(Asks) /\ <<>> \in Seq(Nat)
  BY DEF TypeOK
<1>2. /\ u \in Windows /\ u.conn = win.conn /\ u.tracked = win.tracked /\ u.seen = win.seen
      /\ u.view = <<>> /\ u.clean = win.clean /\ u.outcome = win.outcome
      /\ u.loaded /\ ~u.away /\ u.stale
  BY <1>1 DEF Windows
<1>3. (~win.tracked \/ win.seen = 0) \in BOOLEAN
  OBVIOUS
<1>4. /\ [win EXCEPT !.loaded = TRUE, !.away = FALSE, !.view = <<>>, !.stale = TRUE,
                     !.seen = IF win.tracked THEN @ ELSE 0,
                     !.whole = ~win.tracked \/ win.seen = 0,
                     !.listening = FALSE, !.observed = {},
                     !.outcome = IF win.tracked THEN @ ELSE "none"] = w
  BY <1>1 DEF Windows
<1>. HIDE DEF u
<1>5. /\ v \in Windows /\ v.conn = win.conn /\ v.tracked = win.tracked /\ v.view = <<>>
      /\ v.seen = (IF win.tracked THEN win.seen ELSE 0)
      /\ v.whole = (~win.tracked \/ win.seen = 0)
      /\ v.clean = win.clean /\ v.outcome = win.outcome /\ v.loaded /\ ~v.away /\ v.stale
  BY <1>2, <1>3 DEF Windows
<1>. HIDE DEF v
<1>6. /\ w \in Windows /\ w.conn = win.conn /\ w.tracked = win.tracked /\ w.view = <<>>
      /\ w.seen = (IF win.tracked THEN win.seen ELSE 0)
      /\ w.whole = (~win.tracked \/ win.seen = 0)
      /\ w.clean = win.clean /\ w.outcome = (IF win.tracked THEN win.outcome ELSE "none")
      /\ w.loaded /\ ~w.away /\ w.stale /\ ~w.listening /\ w.observed = {}
  BY <1>5 DEF Windows
<1>7. Effect(w) /\ UNCHANGED <<run, task, wire, left>> /\ (~win.loaded \/ win.away)
  BY <1>4 DEF LoadHistory
<1>8. Same(w, {"conn", "tracked", "clean"})
  BY <1>6 DEF Same
<1>. HIDE DEF w
<1>9. EffectDoes(w)
  BY <1>1, <1>6, <1>7, EffectShape
<1>. QED
  BY <1>6, <1>7, <1>8, <1>9

\* The end of a run in the window w.
FinishDoes(w, outcome) ==
  \E v \in Windows :
    /\ \A f \in {"conn", "loaded", "away", "seen", "view", "whole", "clean", "stale",
                 "listening"} : v[f] = w[f]
    /\ ~v.tracked /\ v.observed = {w.seen} /\ v.outcome = outcome
    /\ EffectDoes(v)

LEMMA FinishShape ==
  ASSUME NEW w \in Windows, NEW outcome \in {"ended", "unknown", "rejected"},
         asks \in Seq(Asks), Finish(w, outcome)
  PROVE  FinishDoes(w, outcome)
<1>. DEFINE v == [w EXCEPT !.tracked = FALSE, !.observed = {w.seen}, !.outcome = outcome]
<1>1. /\ v \in Windows /\ ~v.tracked /\ v.observed = {w.seen} /\ v.outcome = outcome
      /\ \A f \in {"conn", "loaded", "away", "seen", "view", "whole", "clean", "stale",
                   "listening"} : v[f] = w[f]
  BY DEF Windows
<1>2. Effect(v)
  BY DEF Finish
<1>. HIDE DEF v
<1>3. EffectDoes(v)
  BY <1>1, <1>2, EffectShape
<1>. QED
  BY <1>1, <1>3 DEF FinishDoes

\* The window takes the run up.
TrackDoes ==
  /\ win' \in Windows /\ win'.tracked /\ win'.seen = 0 /\ win'.view = <<>> /\ win'.whole
  /\ win'.clean = ~Busy /\ ~win'.stale /\ ~win'.listening /\ win'.outcome = "none"
  /\ \A f \in {"conn", "loaded", "away", "observed"} : win'[f] = win[f]

LEMMA TrackShape ==
  ASSUME win \in Windows, Track
  PROVE  TrackDoes
<1>1. /\ win' \in Windows /\ win'.tracked /\ win'.seen = 0 /\ win'.view = <<>>
      /\ win'.clean = ~Busy /\ win'.outcome = "none"
  BY TrackKeeps
<1>. DEFINE free == ~Busy
<1>2. win' = [win EXCEPT !.tracked = TRUE, !.seen = 0, !.view = <<>>, !.whole = TRUE,
                         !.clean = free, !.stale = FALSE, !.listening = FALSE, !.outcome = "none"]
  BY DEF Track
<1>. HIDE DEF free
<1>3. /\ win'.whole /\ ~win'.stale /\ ~win'.listening
      /\ \A f \in {"conn", "loaded", "away", "observed"} : win'[f] = win[f]
  BY <1>2 DEF Windows
<1>. QED
  BY <1>1, <1>3 DEF TrackDoes

\* What the message m does to the window.
Moves(m) ==
  \E w : /\ Same(w, {"conn", "loaded", "away", "tracked", "clean", "stale", "listening",
                     "observed", "outcome"})
         /\ Live(m) /\ win.tracked /\ Advances(m) /\ w.seen = m.seq
         /\ \/ m.kind = "event" /\ w.whole = (win.whole /\ ~win.away)
            \/ m.kind = "snapshot" /\ w.whole = (~win.away \/ (win.whole /\ m.seq = win.seen))
         /\ w.view = (IF win.away THEN win.view
                      ELSE IF m.kind = "event" THEN Append(win.view, m.seq) ELSE Upto(m.seq))
         /\ \/ ~m.end /\ win' = w /\ asks' = asks
            \/ m.end /\ FinishDoes(w, "ended")
Refuses(m) ==
  /\ m.kind \in {"rejected", "missing"} /\ win.tracked
  /\ \E outcome \in {"unknown", "rejected"} : FinishDoes(win, outcome)
Finds(m) ==
  /\ m.kind = "runs" /\ win.listening /\ ~win.tracked /\ m.seq \notin win.observed /\ TrackDoes
  /\ asks' = asks \o <<Attach(TRUE, 0), Attach(win.stale, 0)>>
Quiets(m) ==
  /\ m.kind \in {"runs", "noruns"} /\ asks' = asks
  /\ win' \in Windows /\ ~win'.listening
  /\ \A f \in {"conn", "loaded", "away", "tracked", "seen", "view", "whole", "clean", "stale",
               "observed", "outcome"} : win'[f] = win[f]
Drops(m) ==
  /\ win' = win /\ asks' = asks /\ m.kind \in {"event", "snapshot", "rejected", "missing"}
  /\ ~win.tracked \/ (Live(m) /\ ~Advances(m))

LEMMA ReceiveShape ==
  ASSUME TypeOK, Receive
  PROVE  /\ wire # <<>> /\ wire' = Tail(wire) /\ UNCHANGED <<run, task, left>>
         /\ Head(wire) \in Messages
         /\ \/ Moves(Head(wire)) \/ Refuses(Head(wire)) \/ Finds(Head(wire))
            \/ Quiets(Head(wire)) \/ Drops(Head(wire))
<1>. DEFINE m == Head(wire)
<1>1. wire # <<>> /\ wire' = Tail(wire) /\ UNCHANGED <<run, task, left>>
  BY DEF Receive
<1>2. m \in Messages /\ win \in Windows /\ asks \in Seq(Asks)
  BY <1>1 DEF TypeOK
<1>3. m.seq \in Nat /\ m.end \in BOOLEAN /\ win.seen \in Nat /\ win.view \in Seq(Nat)
  BY <1>2 DEF Messages, Windows
<1>. HIDE DEF m
<1>4. CASE m.kind = "event" /\ win.tracked /\ Advances(m)
  <2>. DEFINE w == [win EXCEPT !.seen = m.seq,
                               !.view = IF win.away THEN @ ELSE Append(@, m.seq),
                               !.whole = @ /\ ~win.away]
  <2>1. w \in Windows
    <3>1. (IF win.away THEN win.view ELSE Append(win.view, m.seq)) \in Seq(Nat)
      BY <1>3
    <3>2. (win.whole /\ ~win.away) \in BOOLEAN
      OBVIOUS
    <3>. QED
      BY <1>2, <1>3, <3>1, <3>2 DEF Windows
  <2>2. /\ Same(w, {"conn", "loaded", "away", "tracked", "clean", "stale", "listening",
                    "observed", "outcome"})
        /\ w.seen = m.seq /\ w.whole = (win.whole /\ ~win.away)
        /\ w.view = (IF win.away THEN win.view ELSE Append(win.view, m.seq))
    BY <1>2, <2>1 DEF Windows, Same
  <2>3. IF m.end THEN Finish(w, "ended") ELSE win' = w /\ UNCHANGED asks
    BY <1>4 DEF Receive, m
  <2>. HIDE DEF w
  <2>4. m.end => FinishDoes(w, "ended")
    BY <1>2, <2>1, <2>3, FinishShape
  <2>5. \/ ~m.end /\ win' = w /\ asks' = asks
        \/ m.end /\ FinishDoes(w, "ended")
    BY <2>3, <2>4
  <2>6. Moves(m)
    BY <1>4, <2>2, <2>5 DEF Moves, Live
  <2>. QED
    BY <1>1, <1>2, <2>6 DEF m
<1>5. CASE m.kind = "snapshot" /\ win.tracked /\ Advances(m)
  <2>. DEFINE w == [win EXCEPT !.seen = m.seq,
                               !.view = IF win.away THEN @ ELSE Upto(m.seq),
                               !.whole = ~win.away \/ (@ /\ m.seq = win.seen)]
  <2>1. w \in Windows
    <3>1. Upto(m.seq) \in Seq(Nat)
      BY <1>3, UptoSeq
    <3>. QED
      BY <1>2, <1>3, <3>1 DEF Windows
  <2>2. /\ Same(w, {"conn", "loaded", "away", "tracked", "clean", "stale", "listening",
                    "observed", "outcome"})
        /\ w.seen = m.seq /\ w.whole = (~win.away \/ (win.whole /\ m.seq = win.seen))
        /\ w.view = (IF win.away THEN win.view ELSE Upto(m.seq))
    BY <1>2, <2>1 DEF Windows, Same
  <2>3. IF m.end THEN Finish(w, "ended") ELSE win' = w /\ UNCHANGED asks
    BY <1>5 DEF Receive, m
  <2>. HIDE DEF w
  <2>4. m.end => FinishDoes(w, "ended")
    BY <1>2, <2>1, <2>3, FinishShape
  <2>5. \/ ~m.end /\ win' = w /\ asks' = asks
        \/ m.end /\ FinishDoes(w, "ended")
    BY <2>3, <2>4
  <2>6. Moves(m)
    BY <1>5, <2>2, <2>5 DEF Moves, Live
  <2>. QED
    BY <1>1, <1>2, <2>6 DEF m
<1>6. CASE m.kind \in {"rejected", "missing"} /\ win.tracked
  <2>1. \E outcome \in {"unknown", "rejected"} : Finish(win, outcome)
    BY <1>6 DEF Receive, m
  <2>2. Refuses(m)
    BY <1>2, <1>6, <2>1, FinishShape DEF Refuses
  <2>. QED
    BY <1>1, <1>2, <2>2 DEF m
<1>7. CASE m.kind = "runs" /\ win.listening /\ ~win.tracked /\ m.seq \notin win.observed
  <2>1. Track /\ asks' = asks \o <<Attach(TRUE, 0), Attach(win.stale, 0)>>
    BY <1>7 DEF Receive, m
  <2>2. Finds(m)
    BY <1>2, <1>7, <2>1, TrackShape DEF Finds
  <2>. QED
    BY <1>1, <1>2, <2>2 DEF m
<1>8. CASE /\ m.kind \in {"runs", "noruns"}
           /\ m.kind = "noruns" \/ ~win.listening \/ win.tracked \/ m.seq \in win.observed
  <2>1. win' = [win EXCEPT !.listening = FALSE] /\ asks' = asks
    BY <1>8 DEF Receive, m
  <2>2. Quiets(m)
    BY <1>2, <1>8, <2>1 DEF Quiets, Windows
  <2>. QED
    BY <1>1, <1>2, <2>2 DEF m
<1>9. CASE \/ m.kind \in {"event", "snapshot", "rejected", "missing"} /\ ~win.tracked
           \/ m.kind \in {"event", "snapshot"} /\ ~Advances(m)
  <2>1. win' = win /\ asks' = asks
    BY <1>9 DEF Receive, m, Advances
  <2>2. Drops(m)
    BY <1>9, <2>1 DEF Drops, Live
  <2>. QED
    BY <1>1, <1>2, <2>2 DEF m
<1>. QED
  BY <1>2, <1>4, <1>5, <1>6, <1>7, <1>8, <1>9 DEF Messages

\* What a break leaves of the window and the run.
LEMMA BreakShape ==
  ASSUME TypeOK, Disconnect \/ ReloadPage \/ Restart
  PROVE  /\ asks' = <<>> /\ wire' = <<>> /\ win' \in Windows
         /\ \A k \in {"live", "stray"} : task'[k] = NoTask
         /\ left.breaks > 0 /\ left' = [left EXCEPT !.breaks = @ - 1]
         /\ \/ win' = NewWindow
            \/ ~win'.conn /\ \A f \in {"loaded", "away", "tracked", "seen", "view", "whole", "clean",
                                      "stale", "listening", "observed", "outcome"} : win'[f] = win[f]
         /\ run'.seq = run.seq
         /\ \/ run'.phase = run.phase /\ ~run'.here
            \/ run'.phase = "late" /\ run.phase = "none" /\ run'.here = run.here /\ Has(asks, "start")
            \/ run'.phase = "lost" /\ Known /\ ~run'.here
            \/ run'.phase = "none" /\ run.phase = "late" /\ ~run'.here
<1>1. PICK w \in {NewWindow, [win EXCEPT !.conn = FALSE]} : Broken(w)
  BY DEF Disconnect, ReloadPage, Restart
<1>2. /\ left.breaks > 0 /\ left' = [left EXCEPT !.breaks = @ - 1]
      /\ asks' = <<>> /\ wire' = <<>> /\ win' = w
  BY <1>1 DEF Broken
<1>3. \A k \in {"live", "stray"} : task'[k] = NoTask
  BY <1>1 DEF Broken
<1>4. [win EXCEPT !.conn = FALSE] \in Windows /\ win \in Windows
  BY DEF TypeOK, Windows
<1>5. \/ win' = NewWindow
      \/ ~win'.conn /\ \A f \in {"loaded", "away", "tracked", "seen", "view", "whole", "clean",
                                 "stale", "listening", "observed", "outcome"} : win'[f] = win[f]
  BY <1>1, <1>2, <1>4 DEF Windows
<1>6. run \in [phase : Phases, seq : Nat, here : BOOLEAN]
  BY DEF TypeOK
<1>7. /\ run'.seq = run.seq
      /\ \/ run'.phase = run.phase /\ ~run'.here
         \/ run'.phase = "late" /\ run.phase = "none" /\ run'.here = run.here /\ Has(asks, "start")
         \/ run'.phase = "lost" /\ Known /\ ~run'.here
         \/ run'.phase = "none" /\ run.phase = "late" /\ ~run'.here
  <2>1. CASE Outlive
    BY <1>6, <2>1 DEF Outlive, Has
  <2>2. CASE Restart
    BY <1>6, <2>2 DEF Restart, Known
  <2>. QED
    BY <2>1, <2>2 DEF Disconnect, ReloadPage
<1>. QED
  BY <1>1, <1>2, <1>3, <1>4, <1>5, <1>7, Typed

-----------------------------------------------------------------------------
(* What the steps of the bridge do. *)

LEMMA SettleShape ==
  ASSUME NEW u \in Tasks
  PROVE  /\ Settle(u) \in Tasks
         /\ \/ /\ u.whole \/ u.cursor < u.next
               /\ Settle(u).at = "send"
            \/ /\ ~u.whole /\ u.cursor >= u.next /\ u.last
               /\ Settle(u) = NoTask
            \/ /\ ~u.whole /\ u.cursor >= u.next /\ ~u.last
               /\ Settle(u).at = "wait"
         /\ Settle(u).at # "none" =>
              \A f \in {"cursor", "fresh", "next", "whole", "last"} : Settle(u)[f] = u[f]
<1>1. Settle(u) \in Tasks
  BY SettleTyped
<1>2. CASE u.whole \/ u.cursor < u.next
  <2>1. Settle(u) = [u EXCEPT !.at = "send"]
    BY <1>2 DEF Settle
  <2>. QED
    BY <1>1, <1>2, <2>1 DEF Tasks
<1>3. CASE ~u.whole /\ ~(u.cursor < u.next) /\ u.last
  <2>1. Settle(u) = NoTask /\ u.cursor >= u.next
    BY <1>3 DEF Settle, Tasks
  <2>. QED
    BY <1>1, <1>3, <2>1 DEF NoTask
<1>4. CASE ~u.whole /\ ~(u.cursor < u.next) /\ ~u.last
  <2>1. Settle(u) = [u EXCEPT !.at = "wait"] /\ u.cursor >= u.next
    BY <1>4 DEF Settle, Tasks
  <2>. QED
    BY <1>1, <1>4, <2>1 DEF Tasks
<1>. QED
  BY <1>2, <1>3, <1>4

\* A read takes what the ring has up to now, a send takes one message further.
ReadDoes(k) ==
  \E u \in Tasks :
    /\ task' = [task EXCEPT ![k] = Settle(u)]
    /\ u.cursor = task[k].cursor /\ u.last = Ended /\ u.next = run.seq /\ ~u.fresh
    /\ u.whole = Lag(task[k]) /\ (task[k].fresh => u.whole)
    /\ task[k].at \in {"read", "wait"} /\ UNCHANGED <<run, asks, wire, win, left>>

LEMMA ReadShape ==
  ASSUME TypeOK, NEW k \in {"live", "stray"}, Read(k)
  PROVE  ReadDoes(k)
<1>. DEFINE t == task[k]
            u == [t EXCEPT !.whole = Lag(t), !.fresh = FALSE, !.next = run.seq, !.last = Ended,
                   !.cursor = IF ~Lag(t) /\ @ + 1 < FirstSeq THEN FirstSeq - 1 ELSE @,
                   !.mark = IF t.at = "wait" THEN run.seq ELSE @]
<1>1. task' = [task EXCEPT ![k] = Settle(u)] /\ UNCHANGED <<run, asks, wire, win, left>>
      /\ t.at \in {"read", "wait"}
  BY DEF Read
<1>2. t \in Tasks
  BY DEF TypeOK
<1>3. FirstSeq \in Nat \ {0} /\ run.seq \in Nat
  BY RunDeliveryAssumption DEF FirstSeq, TypeOK
<1>4. t.cursor \in Nat /\ t.mark \in Nat /\ t.fresh \in BOOLEAN
  BY <1>2 DEF Tasks
<1>5. ~(~Lag(t) /\ t.cursor + 1 < FirstSeq) /\ (t.fresh => Lag(t))
  BY DEF Lag
<1>6. Lag(t) \in BOOLEAN /\ Ended \in BOOLEAN
  BY <1>4 DEF Lag, Ended
<1>7. (IF t.at = "wait" THEN run.seq ELSE t.mark) \in Nat
  BY <1>3, <1>4
<1>8. /\ u \in Tasks /\ u.cursor = t.cursor /\ u.last = Ended /\ u.next = run.seq /\ ~u.fresh
      /\ u.whole = Lag(t)
  BY <1>2, <1>3, <1>4, <1>5, <1>6, <1>7 DEF Tasks
<1>. HIDE DEF u
<1>. QED
  BY <1>1, <1>5, <1>8 DEF ReadDoes

SendDoes(k) ==
  \E m \in Messages, u \in Tasks :
    /\ task[k].at = "send" /\ UNCHANGED <<run, asks, win, left>>
    /\ wire' = Append(wire, m) /\ task' = [task EXCEPT ![k] = Settle(u)]
    /\ Live(m) /\ u.cursor = m.seq /\ ~u.whole
    /\ \A f \in {"fresh", "next", "last"} : u[f] = task[k][f]
    /\ \/ task[k].whole /\ m.kind = "snapshot" /\ m.seq = task[k].next /\ m.end = task[k].last
       \/ /\ ~task[k].whole /\ m.kind = "event" /\ m.seq = task[k].cursor + 1
          /\ m.end = (Ended /\ m.seq = run.seq)

LEMMA SendShape ==
  ASSUME TypeOK, NEW k \in {"live", "stray"}, Send(k)
  PROVE  SendDoes(k)
<1>. DEFINE t == task[k]
            seq == IF t.whole THEN t.next ELSE t.cursor + 1
            u == [t EXCEPT !.cursor = seq, !.whole = FALSE]
            m == IF t.whole THEN Message("snapshot", seq, t.last)
                 ELSE Message("event", seq, Ended /\ seq = run.seq)
<1>1. /\ wire' = Append(wire, m) /\ t.at = "send"
      /\ task' = [task EXCEPT ![k] = Settle(u)] /\ UNCHANGED <<run, asks, win, left>>
  BY DEF Send
<1>2. t \in Tasks
  BY DEF TypeOK
<1>3. seq \in Nat /\ t.last \in BOOLEAN /\ (Ended /\ seq = run.seq) \in BOOLEAN
  BY <1>2 DEF Tasks
<1>4. /\ u \in Tasks /\ u.cursor = seq /\ ~u.whole
      /\ \A f \in {"fresh", "next", "last"} : u[f] = t[f]
  BY <1>2, <1>3 DEF Tasks
<1>5. m \in Messages
  <2>. HIDE DEF seq
  <2>. QED
    BY <1>3, Typed
<1>6. /\ Live(m) /\ m.seq = seq
      /\ \/ t.whole /\ m.kind = "snapshot" /\ m.seq = t.next /\ m.end = t.last
         \/ /\ ~t.whole /\ m.kind = "event" /\ m.seq = t.cursor + 1
            /\ m.end = (Ended /\ m.seq = run.seq)
  <2>1. CASE t.whole
    BY <2>1 DEF Message, Live
  <2>2. CASE ~t.whole
    BY <2>2 DEF Message, Live
  <2>. QED
    BY <2>1, <2>2
<1>. HIDE DEF u, m, seq
<1>7. u.cursor = m.seq
  BY <1>4, <1>6
<1>. QED
  BY <1>1, <1>4, <1>5, <1>6, <1>7 DEF SendDoes

\* A forwarder that starts, and the one that it replaces.
StartsAt(fresh, last) ==
  /\ task' \in [{"live", "stray"} -> Tasks]
  /\ task'["live"].at = "read" /\ task'["live"].fresh = fresh
  /\ task'["live"].cursor = (IF fresh THEN 0 ELSE last) /\ task'["live"].next = 0
  /\ ~task'["live"].whole
  /\ task'["stray"] = NoTask \/ (LateAbort /\ task'["stray"] = task["live"])

LEMMA ReplaceShape ==
  ASSUME TypeOK, NEW fresh \in BOOLEAN, NEW last \in Nat, Replace(Forward(fresh, last))
  PROVE  StartsAt(fresh, last)
<1>. DEFINE t == Forward(fresh, last)
<1>1. /\ t \in Tasks /\ t.at = "read" /\ t.fresh = fresh /\ t.cursor = (IF fresh THEN 0 ELSE last)
      /\ t.next = 0 /\ ~t.whole
  BY ForwardTyped DEF Forward, NoTask
<1>2. Replace(t)
  OBVIOUS
<1>. HIDE DEF t
<1>3. /\ task' \in [{"live", "stray"} -> Tasks] /\ task'["live"] = t
  BY <1>1, <1>2, ReplaceTyped
<1>4. task'["stray"] = NoTask \/ (LateAbort /\ task'["stray"] = task["live"])
  BY <1>2 DEF Replace, TypeOK
<1>. QED
  BY <1>1, <1>3, <1>4 DEF StartsAt

\* What the socket's loop does with the next request.
ServesStart ==
  /\ run.phase = "none" /\ Head(asks).kind = "start" /\ UNCHANGED <<task, wire>>
  /\ run'.phase = "reserved" /\ run'.here /\ run'.seq = run.seq
ServesAttach ==
  /\ Known /\ Head(asks).kind = "attach" /\ UNCHANGED <<run, wire>>
  /\ StartsAt(Head(asks).fresh, Head(asks).last)
ServesMissing ==
  /\ ~Known /\ Head(asks).kind = "attach" /\ UNCHANGED <<run, task>>
  /\ \E m \in Messages : m.kind = "missing" /\ wire' = Append(wire, m)
ServesList ==
  /\ Head(asks).kind = "list" /\ UNCHANGED <<run, task>>
  /\ \E m \in Messages :
       /\ wire' = Append(wire, m)
       /\ m.kind = "noruns" \/ (m.kind = "runs" /\ m.seq = run.seq /\ Known)

LEMMA ServeShape ==
  ASSUME TypeOK, Serve
  PROVE  /\ asks # <<>> /\ asks' = Tail(asks) /\ Head(asks) \in Asks /\ UNCHANGED <<win, left>>
         /\ ServesStart \/ ServesAttach \/ ServesMissing \/ ServesList
<1>. DEFINE ask == Head(asks)
<1>1. asks # <<>> /\ asks' = Tail(asks) /\ UNCHANGED <<win, left>>
  BY DEF Serve
<1>2. ask \in Asks /\ ask.fresh \in BOOLEAN /\ ask.last \in Nat
  <2>1. ask \in Asks
    BY <1>1 DEF TypeOK
  <2>. HIDE DEF ask
  <2>. QED
    BY <2>1 DEF Asks
<1>3. CASE ask.kind = "start" /\ run.phase = "none" /\ Reserve(TRUE) /\ UNCHANGED <<task, wire>>
  <2>1. run'.phase = "reserved" /\ run'.here /\ run'.seq = run.seq
    BY <1>3 DEF Reserve, TypeOK
  <2>. QED
    BY <1>1, <1>2, <1>3, <2>1 DEF ServesStart
<1>4. CASE /\ ask.kind = "attach" /\ Known /\ Replace(Forward(ask.fresh, ask.last))
           /\ UNCHANGED <<run, wire>>
  <2>1. StartsAt(ask.fresh, ask.last)
    BY <1>2, <1>4, ReplaceShape
  <2>. QED
    BY <1>1, <1>2, <1>4, <2>1 DEF ServesAttach
<1>5. CASE ask.kind = "attach" /\ ~Known /\ Answer(Message("missing", 0, FALSE)) /\ UNCHANGED <<run, task>>
  <2>1. Message("missing", 0, FALSE) \in Messages /\ Message("missing", 0, FALSE).kind = "missing"
    BY Typed DEF Message
  <2>. QED
    BY <1>1, <1>2, <1>5, <2>1 DEF ServesMissing, Answer
<1>6. CASE /\ ask.kind = "list" /\ UNCHANGED <<run, task>>
           /\ Answer(IF Going \/ (Known /\ HostGoal) THEN Message("runs", run.seq, ~Going)
                     ELSE Message("noruns", 0, FALSE))
  <2>. DEFINE m == IF Going \/ (Known /\ HostGoal) THEN Message("runs", run.seq, ~Going)
                   ELSE Message("noruns", 0, FALSE)
  <2>1. run.seq \in Nat /\ (~Going) \in BOOLEAN
    BY DEF TypeOK
  <2>2. m \in Messages
    BY <2>1, Typed
  <2>3. m.kind = "noruns" \/ (m.kind = "runs" /\ m.seq = run.seq /\ Known)
    BY DEF Message, Going, Known
  <2>4. wire' = Append(wire, m)
    BY <1>6 DEF Answer
  <2>. HIDE DEF m
  <2>. QED
    BY <1>1, <1>2, <1>6, <2>2, <2>3, <2>4 DEF ServesList
<1>. QED
  BY <1>3, <1>4, <1>5, <1>6 DEF Serve

\* The steps that the run takes by itself.
RunMoves ==
  /\ UNCHANGED <<task, asks, wire, win, left>>
  /\ \/ /\ run.phase \in {"reserved", "running"} /\ run'.phase \in {"running", "ended"}
        /\ run'.seq = run.seq + 1 /\ run'.here = run.here
     \/ /\ run'.seq = run.seq /\ run'.here = run.here
        /\ \/ run.phase = "reserved" /\ run'.phase = "failed"
           \/ run.phase = "ended" /\ run'.phase = "reaped"
     \/ /\ run'.seq = run.seq /\ ~run'.here /\ run'.phase = "reserved"
        /\ run.phase = "late" \/ (HostGoal /\ run.phase = "none")
RunSteps == Prepare \/ PrepareFails \/ Emit \/ Reap \/ HostStart \/ ServeLate

LEMMA RunShape ==
  ASSUME TypeOK, run.phase = "reserved" => run.seq = 0, RunSteps
  PROVE  RunMoves
<1>1. run \in [phase : Phases, seq : Nat, here : BOOLEAN]
  BY DEF TypeOK
<1>2. CASE Prepare
  BY <1>1, <1>2 DEF Prepare, RunMoves
<1>3. CASE PrepareFails
  BY <1>1, <1>3 DEF PrepareFails, RunMoves
<1>4. CASE Emit
  BY <1>1, <1>4 DEF Emit, RunMoves
<1>5. CASE Reap
  BY <1>1, <1>5 DEF Reap, RunMoves
<1>6. CASE HostStart
  BY <1>1, <1>6 DEF HostStart, Reserve, RunMoves
<1>7. CASE ServeLate
  BY <1>1, <1>7 DEF ServeLate, Reserve, RunMoves
<1>. QED
  BY <1>2, <1>3, <1>4, <1>5, <1>6, <1>7 DEF RunSteps

LEMMA AcceptShape ==
  ASSUME TypeOK, Accept
  PROVE  /\ run.here /\ run.phase \in {"running", "ended", "reaped"}
         /\ run'.phase = run.phase /\ run'.seq = run.seq /\ ~run'.here
         /\ StartsAt(FALSE, 0) /\ UNCHANGED <<asks, wire, win, left>>
<1>1. run.here /\ run.phase \in {"running", "ended", "reaped"} /\ UNCHANGED <<asks, wire, win, left>>
  BY DEF Accept
<1>2. run'.phase = run.phase /\ run'.seq = run.seq /\ ~run'.here
  BY DEF Accept, TypeOK
<1>3. Replace(Forward(FALSE, 0))
  BY DEF Accept
<1>. QED
  BY <1>1, <1>2, <1>3, ReplaceShape

LEMMA RefuseShape ==
  ASSUME TypeOK, Refuse
  PROVE  /\ run.here /\ run.phase = "failed" /\ UNCHANGED <<task, asks, win, left>>
         /\ run'.phase = run.phase /\ run'.seq = run.seq /\ ~run'.here
         /\ \E m \in Messages : m.kind = "rejected" /\ wire' = Append(wire, m)
<1>1. Message("rejected", 0, TRUE) \in Messages /\ Message("rejected", 0, TRUE).kind = "rejected"
  BY Typed DEF Message
<1>2. run'.phase = run.phase /\ run'.seq = run.seq /\ ~run'.here
  BY DEF Refuse, TypeOK
<1>. QED
  BY <1>1, <1>2 DEF Refuse

LEMMA PollShape ==
  ASSUME TypeOK, Poll
  PROVE  /\ win.conn /\ win.loaded /\ ~win.away /\ ~win.tracked
         /\ asks' = Append(asks, List) /\ UNCHANGED <<run, task, wire, left>>
         /\ win' \in Windows /\ win'.listening
         /\ \A f \in {"conn", "loaded", "away", "tracked", "seen", "view", "whole", "clean", "stale",
                      "observed", "outcome"} : win'[f] = win[f]
  BY DEF Poll, TypeOK, Windows

LEMMA StartShape ==
  ASSUME TypeOK, StartRun
  PROVE  /\ ~HostGoal /\ run.phase = "none" /\ win.conn /\ win.loaded /\ ~win.away /\ ~win.tracked
         /\ ~Has(asks, "start") /\ asks' = asks \o <<Start, Attach(win.stale, 0)>>
         /\ TrackDoes /\ UNCHANGED <<run, task, wire, left>>
  BY TrackShape DEF StartRun, Has, TypeOK

LEMMA VanishShape ==
  ASSUME TypeOK, Vanish
  PROVE  /\ task' \in [{"live", "stray"} -> Tasks]
         /\ task'["stray"] = NoTask /\ task'["live"] = task["live"]
         /\ UNCHANGED <<run, asks, wire, win, left>>
  BY Typed DEF Vanish, TypeOK

\* Each kind of request, as far as the proofs tell them apart.
LEMMA AskKinds ==
  /\ Start \in Asks /\ Start.kind = "start" /\ Start.last = 0
  /\ List \in Asks /\ List.kind = "list" /\ List.last = 0
  /\ \A fresh \in BOOLEAN, n \in Nat :
       /\ Attach(fresh, n) \in Asks /\ Attach(fresh, n).kind = "attach"
       /\ Attach(fresh, n).fresh = fresh /\ Attach(fresh, n).last <= n
  BY Typed DEF Start, List, Attach

\* The steps, those of the run and the breaks together.
Breaks == Disconnect \/ ReloadPage \/ Restart
LEMMA Steps ==
  ASSUME Next
  PROVE  \/ RunSteps \/ Refuse \/ Accept \/ Serve \/ Vanish
         \/ \E k \in {"live", "stray"} : Read(k) \/ Send(k)
         \/ Connect \/ LoadHistory \/ Leave \/ GoalNews \/ Poll \/ StartRun \/ Receive
         \/ Breaks
  BY DEF Next, RunSteps, Breaks

LEMMA InAppend ==
  ASSUME NEW S, NEW q \in Seq(S), NEW m \in S, NEW i \in 1..Len(Append(q, m))
  PROVE  \/ i \in 1..Len(q) /\ Append(q, m)[i] = q[i]
         \/ i = Len(q) + 1 /\ Append(q, m)[i] = m
  OBVIOUS

LEMMA InTail ==
  ASSUME NEW S, NEW q \in Seq(S), q # <<>>
  PROVE  /\ 1 \in 1..Len(q) /\ Head(q) = q[1] /\ Head(q) \in S
         /\ \A i \in 1..Len(Tail(q)) : i + 1 \in 1..Len(q) /\ Tail(q)[i] = q[i + 1]
  OBVIOUS

-----------------------------------------------------------------------------
(* Nothing is numbered beyond the run. *)

\* Messages, forwarders, requests and window name events that the run has.
MessageInRange(m, n) == Live(m) => m.seq <= n /\ (m.kind = "event" => m.seq > 0)
TaskInRange(t, n) ==
  t.cursor <= n /\ t.next <= n /\ (t.at = "send" => t.whole \/ t.cursor < t.next)
RunInRange ==
  /\ run.phase \in {"none", "late", "reserved", "failed"} => run.seq = 0
  /\ run.phase \in {"running", "ended", "reaped"} => run.seq > 0
InRange ==
  /\ RunInRange
  /\ win.seen <= run.seq
  /\ run.seq = 0 => win.view = <<>>
  /\ \A i \in 1..Len(wire) : MessageInRange(wire[i], run.seq)
  /\ \A k \in {"live", "stray"} : TaskInRange(task[k], run.seq)
  /\ \A i \in 1..Len(asks) : asks[i].last <= run.seq

LEMMA RunStep ==
  ASSUME TypeOK, RunInRange, Next
  PROVE  RunInRange' /\ run'.seq \in Nat /\ run.seq <= run'.seq
<1>. SUFFICES ASSUME NEW r, r = run'
              PROVE  /\ r.phase \in {"none", "late", "reserved", "failed"} => r.seq = 0
                     /\ r.phase \in {"running", "ended", "reaped"} => r.seq > 0
                     /\ r.seq \in Nat /\ run.seq <= r.seq
  BY DEF RunInRange
<1>1. run.seq \in Nat
  BY DEF TypeOK
<1>2. CASE RunSteps
  <2>1. RunMoves
    BY <1>2, RunShape DEF RunInRange
  <2>. QED
    BY <1>1, <2>1 DEF RunMoves, RunInRange
<1>3. CASE Refuse
  BY <1>1, <1>3, RefuseShape DEF RunInRange
<1>4. CASE Accept
  BY <1>1, <1>4, AcceptShape DEF RunInRange
<1>5. CASE Serve
  <2>1. run' = run \/ (run.phase = "none" /\ run'.phase = "reserved" /\ run'.seq = run.seq)
    BY <1>5, ServeShape DEF ServesStart, ServesAttach, ServesMissing, ServesList
  <2>. QED
    BY <1>1, <2>1 DEF RunInRange
<1>6. CASE Breaks
  <2>1. /\ run'.seq = run.seq
        /\ \/ run'.phase = run.phase
           \/ run'.phase = "late" /\ run.phase = "none"
           \/ run'.phase = "lost"
           \/ run'.phase = "none" /\ run.phase = "late"
    BY <1>6, BreakShape DEF Breaks
  <2>. QED
    BY <1>1, <2>1 DEF RunInRange
<1>7. ASSUME \/ Vanish \/ Connect \/ LoadHistory \/ Leave \/ GoalNews \/ Poll \/ StartRun \/ Receive
             \/ \E k \in {"live", "stray"} : Read(k) \/ Send(k)
      PROVE  run' = run
  BY <1>7 DEF Vanish, Connect, LoadHistory, Leave, GoalNews, Poll, StartRun, Receive, Read, Send
<1>. QED
  BY <1>1, <1>2, <1>3, <1>4, <1>5, <1>6, <1>7, Steps DEF RunInRange

\* What an Effect asks for.
AsksFor(n) ==
  /\ asks' \in Seq(Asks)
  /\ \/ asks' = asks
     \/ asks' = Append(asks, List)
     \/ \E fresh \in BOOLEAN : asks' = Append(asks, Attach(fresh, n))

LEMMA EffectAsks ==
  ASSUME NEW w \in Windows, EffectDoes(w)
  PROVE  AsksFor(win'.seen) /\ win'.seen = w.seen /\ win'.view = w.view
  BY DEF EffectDoes, AsksFor, Windows

LEMMA AskedInRange ==
  ASSUME TypeOK, NEW n \in Nat, NEW m \in Nat, AsksFor(n), n <= m,
         \A i \in 1..Len(asks) : asks[i].last <= m
  PROVE  \A i \in 1..Len(asks') : asks'[i].last <= m
<1>. TAKE i \in 1..Len(asks')
<1>1. asks \in Seq(Asks)
  BY DEF TypeOK
<1>2. CASE asks' = asks
  BY <1>2
<1>3. CASE asks' = Append(asks, List)
  <2>1. List \in Asks /\ List.last = 0
    BY AskKinds
  <2>. QED
    BY <1>1, <1>3, <2>1, InAppend
<1>4. CASE \E fresh \in BOOLEAN : asks' = Append(asks, Attach(fresh, n))
  <2>1. PICK fresh \in BOOLEAN : asks' = Append(asks, Attach(fresh, n))
    BY <1>4
  <2>. DEFINE a == Attach(fresh, n)
  <2>2. a \in Asks /\ a.last <= n /\ a.last \in Nat
    BY AskKinds DEF Asks
  <2>. HIDE DEF a
  <2>3. asks'[i] = a \/ (i \in 1..Len(asks) /\ asks'[i] = asks[i])
    BY <1>1, <2>1, <2>2, InAppend DEF a
  <2>. QED
    BY <2>2, <2>3
<1>. QED
  BY <1>2, <1>3, <1>4 DEF AsksFor

LEMMA TwoInRange ==
  ASSUME TypeOK, NEW a \in Asks, NEW b \in Asks, NEW n \in Nat, a.last = 0, b.last = 0,
         asks' = asks \o <<a, b>>, \A i \in 1..Len(asks) : asks[i].last <= n
  PROVE  \A i \in 1..Len(asks') : asks'[i].last <= n
<1>1. asks \in Seq(Asks)
  BY DEF TypeOK
<1>. QED
  BY <1>1, TwoAsks

LEMMA WindowStep ==
  ASSUME TypeOK, TypeOK', InRange, Next
  PROVE  /\ win'.seen <= run.seq /\ (run.seq = 0 => win'.view = <<>>)
         /\ \A i \in 1..Len(asks') : asks'[i].last <= run.seq
<1>1. /\ run.seq \in Nat /\ win.seen \in Nat /\ win'.seen \in Nat /\ win.stale \in BOOLEAN
      /\ asks \in Seq(Asks) /\ win \in Windows
  BY DEF TypeOK, Windows
<1>2. /\ win.seen <= run.seq /\ (run.seq = 0 => win.view = <<>>)
      /\ \A i \in 1..Len(asks) : asks[i].last <= run.seq
  BY DEF InRange
<1>3. ASSUME NEW w \in Windows, EffectDoes(w), w.seen <= run.seq,
             run.seq = 0 => w.view = <<>>
      PROVE  /\ win'.seen <= run.seq /\ (run.seq = 0 => win'.view = <<>>)
             /\ \A i \in 1..Len(asks') : asks'[i].last <= run.seq
  <2>1. AsksFor(win'.seen) /\ win'.seen = w.seen /\ win'.view = w.view
    BY <1>3, EffectAsks
  <2>2. win'.seen <= run.seq
    BY <1>3, <2>1
  <2>3. \A i \in 1..Len(asks') : asks'[i].last <= run.seq
    <3>. HIDE DEF TypeOK
    <3>. QED
      BY <1>1, <1>2, <2>1, <2>2, AskedInRange
  <2>. QED
    BY <1>3, <2>1, <2>2, <2>3
<1>4. CASE RunSteps \/ Refuse \/ Accept \/ Vanish \/ \E k \in {"live", "stray"} : Read(k) \/ Send(k)
  <2>1. win' = win /\ asks' = asks
    BY <1>4 DEF RunSteps, Prepare, PrepareFails, Emit, Reap, HostStart, ServeLate, Refuse, Accept,
                Vanish, Read, Send
  <2>. QED
    BY <1>2, <2>1
<1>5. CASE Serve
  <2>1. asks # <<>> /\ asks' = Tail(asks) /\ win' = win
    BY <1>5, ServeShape
  <2>. QED
    BY <1>1, <1>2, <2>1, InTail
<1>6. CASE Connect
  <2>1. PICK w : Same(w, {"loaded", "away", "tracked", "seen", "view", "whole", "clean", "stale",
                          "listening", "observed", "outcome"}) /\ EffectDoes(w)
    BY <1>6, ConnectShape
  <2>2. w \in Windows /\ w.seen = win.seen /\ w.view = win.view
    BY <2>1 DEF Same
  <2>. QED
    BY <1>2, <1>3, <2>1, <2>2
<1>7. CASE Leave
  <2>1. PICK w : /\ Same(w, {"conn", "loaded", "tracked", "seen", "view", "whole", "clean", "outcome"})
                 /\ EffectDoes(w)
    BY <1>7, LeaveShape
  <2>2. w \in Windows /\ w.seen = win.seen /\ w.view = win.view
    BY <2>1 DEF Same
  <2>. QED
    BY <1>2, <1>3, <2>1, <2>2
<1>8. CASE GoalNews
  BY <1>1, <1>2, <1>3, <1>8, NewsShape
<1>9. CASE LoadHistory
  <2>1. PICK w : /\ Same(w, {"conn", "tracked", "clean"}) /\ w.view = <<>>
                 /\ w.seen = (IF win.tracked THEN win.seen ELSE 0) /\ EffectDoes(w)
    BY <1>9, LoadShape
  <2>2. w \in Windows /\ w.seen <= run.seq
    BY <1>1, <1>2, <2>1 DEF Same
  <2>. QED
    BY <1>3, <2>1, <2>2
<1>10. CASE Poll
  <2>1. win'.seen = win.seen /\ win'.view = win.view /\ asks' = Append(asks, List)
    BY <1>10, PollShape
  <2>2. List \in Asks /\ List.last = 0
    BY AskKinds
  <2>3. \A i \in 1..Len(asks') : asks'[i].last <= run.seq
    BY <1>1, <1>2, <2>1, <2>2, InAppend
  <2>. QED
    BY <1>2, <2>1, <2>3
<1>11. ASSUME TrackDoes, NEW a \in Asks, NEW b \in Asks, a.last = 0, b.last = 0,
              asks' = asks \o <<a, b>>
       PROVE  /\ win'.seen <= run.seq /\ (run.seq = 0 => win'.view = <<>>)
              /\ \A i \in 1..Len(asks') : asks'[i].last <= run.seq
  <2>1. \A i \in 1..Len(asks') : asks'[i].last <= run.seq
    BY <1>1, <1>2, <1>11, TwoInRange
  <2>. QED
    BY <1>1, <1>11, <2>1 DEF TrackDoes
<1>12. \A fresh \in BOOLEAN : Attach(fresh, 0) \in Asks /\ Attach(fresh, 0).last = 0
  BY AskKinds DEF Attach
<1>13. CASE StartRun
  <2>1. asks' = asks \o <<Start, Attach(win.stale, 0)>> /\ TrackDoes
    BY <1>13, StartShape
  <2>2. Start \in Asks /\ Start.last = 0
    BY AskKinds
  <2>. QED
    BY <1>1, <1>11, <1>12, <2>1, <2>2
<1>14. CASE Receive
  <2>. DEFINE m == Head(wire)
  <2>1. /\ wire # <<>> /\ m \in Messages
        /\ Moves(m) \/ Refuses(m) \/ Finds(m) \/ Quiets(m) \/ Drops(m)
    BY <1>14, ReceiveShape
  <2>2. MessageInRange(m, run.seq) /\ m.seq \in Nat
    BY <2>1, InTail DEF InRange, TypeOK, Messages
  <2>. HIDE DEF m
  <2>3. ASSUME NEW w \in Windows, NEW outcome, FinishDoes(w, outcome), w.seen <= run.seq,
               run.seq = 0 => w.view = <<>>
        PROVE  /\ win'.seen <= run.seq /\ (run.seq = 0 => win'.view = <<>>)
               /\ \A i \in 1..Len(asks') : asks'[i].last <= run.seq
    <3>1. PICK v \in Windows : /\ \A f \in {"conn", "loaded", "away", "seen", "view", "whole", "clean",
                                            "stale", "listening"} : v[f] = w[f]
                               /\ EffectDoes(v)
      BY <2>3 DEF FinishDoes
    <3>2. v.seen = w.seen /\ v.view = w.view
      BY <3>1
    <3>. QED
      BY <1>3, <2>3, <3>1, <3>2
  <2>4. CASE Moves(m)
    <3>1. PICK w : /\ Same(w, {"conn", "loaded", "away", "tracked", "clean", "stale", "listening",
                               "observed", "outcome"})
                   /\ Live(m) /\ win.tracked /\ Advances(m) /\ w.seen = m.seq
                   /\ w.view = (IF win.away THEN win.view
                                ELSE IF m.kind = "event" THEN Append(win.view, m.seq) ELSE Upto(m.seq))
                   /\ \/ ~m.end /\ win' = w /\ asks' = asks
                      \/ m.end /\ FinishDoes(w, "ended")
      BY <2>4 DEF Moves
    <3>2. w \in Windows /\ w.seen <= run.seq
      BY <2>2, <3>1 DEF Same, MessageInRange
    <3>3. ASSUME run.seq = 0
          PROVE  w.view = <<>>
      <4>1. m.seq = 0 /\ m.kind # "event"
        BY <2>2, <3>1, <3>3 DEF MessageInRange
      <4>2. win.view = <<>>
        BY <1>2, <3>3
      <4>. QED
        BY <3>1, <4>1, <4>2, UptoSeq
    <3>. QED
      BY <1>2, <2>3, <3>1, <3>2, <3>3
  <2>5. CASE Refuses(m)
    BY <1>1, <1>2, <2>3, <2>5 DEF Refuses
  <2>6. CASE Finds(m)
    <3>1. asks' = asks \o <<Attach(TRUE, 0), Attach(win.stale, 0)>> /\ TrackDoes
      BY <2>6 DEF Finds
    <3>. QED
      BY <1>1, <1>11, <1>12, <3>1
  <2>7. CASE Quiets(m)
    BY <1>2, <2>7 DEF Quiets
  <2>8. CASE Drops(m)
    BY <1>2, <2>8 DEF Drops
  <2>. QED
    BY <2>1, <2>4, <2>5, <2>6, <2>7, <2>8
<1>15. CASE Breaks
  <2>1. asks' = <<>> /\ (win' = NewWindow \/ (win'.seen = win.seen /\ win'.view = win.view))
    BY <1>15, BreakShape DEF Breaks
  <2>. QED
    BY <1>1, <1>2, <2>1 DEF NewWindow
<1>. QED
  BY <1>4, <1>5, <1>6, <1>7, <1>8, <1>9, <1>10, <1>13, <1>14, <1>15, Steps

\* The forwarder of the socket and one that was aborted.
Both == {"live", "stray"}

-----------------------------------------------------------------------------
(* What a step adds to the wire and does to a forwarder. *)

\* The forwarder k sends the message m.
Sends(k, m) ==
  /\ task[k].at = "send" /\ Live(m)
  /\ \/ task[k].whole /\ m.kind = "snapshot" /\ m.seq = task[k].next /\ m.end = task[k].last
     \/ /\ ~task[k].whole /\ m.kind = "event" /\ m.seq = task[k].cursor + 1
        /\ m.end = (Ended /\ m.seq = run.seq)
\* The message m is put on the wire.
Comes(m) ==
  \/ m.kind = "rejected" /\ run.phase = "failed"
  \/ m.kind = "missing" /\ Serve /\ ServesMissing
  \/ m.kind = "noruns"
  \/ m.kind = "runs" /\ m.seq = run.seq /\ Known
  \/ \E k \in Both : Sends(k, m)
WireMoves ==
  \/ wire' = wire
  \/ wire # <<>> /\ wire' = Tail(wire)
  \/ wire' = <<>>
  \/ \E m \in Messages : wire' = Append(wire, m) /\ Comes(m) /\ run'.phase = run.phase /\ run'.seq = run.seq

LEMMA WireStep ==
  ASSUME TypeOK, Next
  PROVE  WireMoves
<1>1. CASE RunSteps \/ Accept \/ Vanish \/ Connect \/ LoadHistory \/ Leave \/ GoalNews \/ Poll \/ StartRun
  BY <1>1 DEF RunSteps, Prepare, PrepareFails, Emit, Reap, HostStart, ServeLate, Accept, Vanish,
              Connect, LoadHistory, Leave, GoalNews, Poll, StartRun, WireMoves
<1>2. CASE Refuse
  BY <1>2, RefuseShape DEF WireMoves, Comes
<1>3. CASE Serve
  <2>1. ServesStart \/ ServesAttach \/ ServesMissing \/ ServesList
    BY <1>3, ServeShape
  <2>2. CASE ServesStart \/ ServesAttach
    BY <2>2 DEF ServesStart, ServesAttach, WireMoves
  <2>3. CASE ServesMissing
    BY <1>3, <2>3 DEF ServesMissing, WireMoves, Comes
  <2>4. CASE ServesList
    BY <2>4 DEF ServesList, WireMoves, Comes
  <2>. QED
    BY <2>1, <2>2, <2>3, <2>4
<1>4. ASSUME NEW k \in Both, Read(k)
      PROVE  WireMoves
  BY <1>4 DEF Read, WireMoves
<1>5. ASSUME NEW k \in Both, Send(k)
      PROVE  WireMoves
  <2>1. SendDoes(k)
    BY <1>5, SendShape DEF Both
  <2>2. PICK m \in Messages : wire' = Append(wire, m) /\ Sends(k, m) /\ run' = run
    BY <2>1 DEF SendDoes, Sends
  <2>. QED
    BY <2>2 DEF WireMoves, Comes
<1>6. CASE Receive
  BY <1>6 DEF Receive, WireMoves
<1>7. CASE Breaks
  BY <1>7, BreakShape DEF Breaks, WireMoves
<1>. QED
  BY <1>1, <1>2, <1>3, <1>4, <1>5, <1>6, <1>7, Steps DEF Both

\* What holds of all messages and of each new one holds of all messages after the step.
LEMMA WireHas ==
  ASSUME TypeOK, WireMoves, NEW i \in 1..Len(wire')
  PROVE  \/ \E j \in 1..Len(wire) : wire'[i] = wire[j]
         \/ wire'[i] \in Messages /\ Comes(wire'[i]) /\ run'.phase = run.phase /\ run'.seq = run.seq
<1>1. wire \in Seq(Messages)
  BY DEF TypeOK
<1>2. CASE wire' = wire
  BY <1>2
<1>3. CASE wire # <<>> /\ wire' = Tail(wire)
  BY <1>1, <1>3, InTail
<1>4. CASE wire' = <<>>
  BY <1>4
<1>5. CASE \E m \in Messages : /\ wire' = Append(wire, m) /\ Comes(m)
                               /\ run'.phase = run.phase /\ run'.seq = run.seq
  <2>1. PICK m \in Messages : /\ wire' = Append(wire, m) /\ Comes(m)
                              /\ run'.phase = run.phase /\ run'.seq = run.seq
    BY <1>5
  <2>2. wire'[i] = m \/ (i \in 1..Len(wire) /\ wire'[i] = wire[i])
    BY <1>1, <2>1, InAppend
  <2>. QED
    BY <2>1, <2>2
<1>. QED
  BY <1>2, <1>3, <1>4, <1>5 DEF WireMoves

\* What a read and a send leave of the forwarder k.
ReadLeaves(k, v) ==
  /\ task[k].at \in {"read", "wait"}
  /\ \/ v = NoTask /\ Ended /\ task[k].cursor >= run.seq /\ ~task[k].fresh
     \/ /\ v.cursor = task[k].cursor /\ v.next = run.seq /\ v.last = Ended /\ ~v.fresh
        /\ v.whole = Lag(task[k]) /\ (task[k].fresh => v.whole)
        /\ \/ v.at = "send" /\ (v.whole \/ v.cursor < v.next)
           \/ v.at = "wait" /\ ~v.whole /\ v.cursor >= v.next
SendLeaves(k, v) ==
  /\ task[k].at = "send"
  /\ \E m \in Messages :
       /\ Sends(k, m) /\ wire' = Append(wire, m)
       /\ \/ v = NoTask /\ task[k].last /\ m.seq >= task[k].next
          \/ /\ v.cursor = m.seq /\ v.next = task[k].next /\ v.last = task[k].last /\ ~v.whole
             /\ \/ v.at = "send" /\ v.cursor < v.next
                \/ v.at = "wait" /\ v.cursor >= v.next
\* The forwarder k becomes v.
TaskMoves(k, v) ==
  \/ v = task[k]
  \/ v = NoTask /\ (k = "stray" \/ Breaks)
  \/ ReadLeaves(k, v) /\ UNCHANGED <<run, asks, wire, win, left>>
  \/ SendLeaves(k, v) /\ UNCHANGED <<run, asks, win, left>>
  \/ /\ k = "live" /\ UNCHANGED <<wire, win, left>> /\ run'.phase = run.phase /\ run'.seq = run.seq
     /\ run.phase \in {"reserved", "running", "ended", "reaped"}
     /\ v.at = "read" /\ v.next = 0 /\ ~v.whole
     /\ \/ Accept /\ v.cursor = 0 /\ ~v.fresh
        \/ /\ Serve /\ asks # <<>> /\ Head(asks).kind = "attach" /\ v.fresh = Head(asks).fresh
           /\ v.cursor = (IF v.fresh THEN 0 ELSE Head(asks).last)
  \/ k = "stray" /\ LateAbort /\ v = task["live"] /\ run'.phase = run.phase /\ run'.seq = run.seq

LEMMA ReadLeft ==
  ASSUME TypeOK, NEW k \in Both, ReadDoes(k)
  PROVE  ReadLeaves(k, task'[k]) /\ (\A j \in Both \ {k} : task'[j] = task[j])
<1>1. PICK u \in Tasks :
        /\ task' = [task EXCEPT ![k] = Settle(u)]
        /\ u.cursor = task[k].cursor /\ u.last = Ended /\ u.next = run.seq /\ ~u.fresh
        /\ u.whole = Lag(task[k]) /\ (task[k].fresh => u.whole)
        /\ task[k].at \in {"read", "wait"} /\ UNCHANGED <<run, asks, wire, win, left>>
  BY DEF ReadDoes
<1>2. task'[k] = Settle(u) /\ (\A j \in Both \ {k} : task'[j] = task[j])
  BY <1>1 DEF TypeOK, Both
<1>3. /\ \/ (u.whole \/ u.cursor < u.next) /\ Settle(u).at = "send"
         \/ ~u.whole /\ u.cursor >= u.next /\ u.last /\ Settle(u) = NoTask
         \/ ~u.whole /\ u.cursor >= u.next /\ ~u.last /\ Settle(u).at = "wait"
      /\ Settle(u).at # "none" =>
           \A f \in {"cursor", "fresh", "next", "whole", "last"} : Settle(u)[f] = u[f]
  BY SettleShape
<1>. QED
  BY <1>1, <1>2, <1>3 DEF ReadLeaves

LEMMA SendLeft ==
  ASSUME TypeOK, NEW k \in Both, SendDoes(k)
  PROVE  SendLeaves(k, task'[k]) /\ (\A j \in Both \ {k} : task'[j] = task[j])
<1>1. PICK m \in Messages, u \in Tasks :
        /\ task[k].at = "send" /\ UNCHANGED <<run, asks, win, left>>
        /\ wire' = Append(wire, m) /\ task' = [task EXCEPT ![k] = Settle(u)]
        /\ u.cursor = m.seq /\ ~u.whole /\ Sends(k, m)
        /\ u.next = task[k].next /\ u.last = task[k].last
  BY DEF SendDoes, Sends
<1>2. task'[k] = Settle(u) /\ (\A j \in Both \ {k} : task'[j] = task[j])
  BY <1>1 DEF TypeOK, Both
<1>3. /\ \/ (u.whole \/ u.cursor < u.next) /\ Settle(u).at = "send"
         \/ ~u.whole /\ u.cursor >= u.next /\ u.last /\ Settle(u) = NoTask
         \/ ~u.whole /\ u.cursor >= u.next /\ ~u.last /\ Settle(u).at = "wait"
      /\ Settle(u).at # "none" =>
           \A f \in {"cursor", "fresh", "next", "whole", "last"} : Settle(u)[f] = u[f]
  BY SettleShape
<1>4. \/ Settle(u) = NoTask /\ task[k].last /\ m.seq >= task[k].next
      \/ /\ Settle(u).cursor = m.seq /\ Settle(u).next = task[k].next /\ Settle(u).last = task[k].last
         /\ ~Settle(u).whole
         /\ \/ Settle(u).at = "send" /\ Settle(u).cursor < Settle(u).next
            \/ Settle(u).at = "wait" /\ Settle(u).cursor >= Settle(u).next
  BY <1>1, <1>3
<1>. QED
  BY <1>1, <1>2, <1>4 DEF SendLeaves

LEMMA TaskStep ==
  ASSUME TypeOK, Next, NEW k \in Both
  PROVE  TaskMoves(k, task'[k])
<1>1. CASE \/ RunSteps \/ Refuse \/ Connect \/ LoadHistory \/ Leave \/ GoalNews \/ Poll \/ StartRun \/ Receive
  <2>1. task' = task
    BY <1>1 DEF RunSteps, Prepare, PrepareFails, Emit, Reap, HostStart, ServeLate, Refuse,
                Connect, LoadHistory, Leave, GoalNews, Poll, StartRun, Receive
  <2>. QED
    BY <2>1 DEF TaskMoves
<1>2. CASE Accept
  <2>1. /\ run.phase \in {"running", "ended", "reaped"} /\ run'.phase = run.phase /\ run'.seq = run.seq
        /\ StartsAt(FALSE, 0) /\ UNCHANGED <<asks, wire, win, left>>
    BY <1>2, AcceptShape
  <2>. QED
    BY <1>2, <2>1 DEF StartsAt, TaskMoves, Both
<1>3. CASE Serve
  <2>1. /\ asks # <<>> /\ asks' = Tail(asks) /\ Head(asks) \in Asks /\ UNCHANGED <<win, left>>
        /\ ServesStart \/ ServesAttach \/ ServesMissing \/ ServesList
    BY <1>3, ServeShape
  <2>2. CASE ServesAttach
    <3>1. /\ Head(asks).kind = "attach" /\ UNCHANGED <<run, wire>>
          /\ StartsAt(Head(asks).fresh, Head(asks).last)
          /\ run.phase \in {"reserved", "running", "ended", "reaped"}
      BY <2>2 DEF ServesAttach, Known
    <3>. QED
      BY <1>3, <2>1, <3>1 DEF StartsAt, TaskMoves, Both
  <2>3. CASE ServesStart \/ ServesMissing \/ ServesList
    BY <2>3 DEF ServesStart, ServesMissing, ServesList, TaskMoves
  <2>. QED
    BY <2>1, <2>2, <2>3
<1>4. CASE Vanish
  BY <1>4, VanishShape DEF TaskMoves, Both
<1>5. ASSUME NEW j \in Both, Read(j)
      PROVE  TaskMoves(k, task'[k])
  <2>1. ReadDoes(j) /\ UNCHANGED <<run, asks, wire, win, left>>
    BY <1>5, ReadShape DEF Both, Read
  <2>2. ReadLeaves(j, task'[j]) /\ (j # k => task'[k] = task[k])
    BY <2>1, ReadLeft
  <2>. QED
    BY <2>1, <2>2 DEF TaskMoves
<1>6. ASSUME NEW j \in Both, Send(j)
      PROVE  TaskMoves(k, task'[k])
  <2>1. SendDoes(j) /\ UNCHANGED <<run, asks, win, left>>
    BY <1>6, SendShape DEF Both, Send
  <2>2. SendLeaves(j, task'[j]) /\ (j # k => task'[k] = task[k])
    BY <2>1, SendLeft
  <2>. QED
    BY <2>1, <2>2 DEF TaskMoves
<1>7. CASE Breaks
  BY <1>7, BreakShape DEF Breaks, TaskMoves, Both
<1>. QED
  BY <1>1, <1>2, <1>3, <1>4, <1>5, <1>6, <1>7, Steps DEF Both

LEMMA WireInRange ==
  ASSUME TypeOK, InRange, Next
  PROVE  \A i \in 1..Len(wire') : MessageInRange(wire'[i], run'.seq)
<1>. SUFFICES ASSUME NEW i \in 1..Len(wire'), NEW m, m = wire'[i]
              PROVE  MessageInRange(m, run'.seq)
  OBVIOUS
<1>1. /\ run.seq \in Nat /\ run'.seq \in Nat /\ run.seq <= run'.seq
      /\ \A k \in Both : task[k].cursor \in Nat /\ task[k].next \in Nat
    BY RunStep DEF InRange, TypeOK, Tasks, Both
<1>2. (\E j \in 1..Len(wire) : m = wire[j]) \/ (m \in Messages /\ Comes(m))
  BY WireStep, WireHas
<1>3. CASE \E j \in 1..Len(wire) : m = wire[j]
  <2>1. MessageInRange(m, run.seq)
    BY <1>3 DEF InRange
  <2>2. Live(m) => m.seq \in Nat
    <3>1. m \in Messages
      BY <1>3 DEF TypeOK
    <3>. QED
      BY <3>1 DEF Messages
  <2>. QED
    BY <1>1, <2>1, <2>2 DEF MessageInRange
<1>4. CASE m \in Messages /\ Comes(m)
  <2>1. CASE \E k \in Both : Sends(k, m)
    <3>1. PICK k \in Both : Sends(k, m)
      BY <2>1
    <3>2. TaskInRange(task[k], run.seq)
      BY DEF InRange, Both
    <3>. QED
      BY <1>1, <3>1, <3>2 DEF Sends, TaskInRange, MessageInRange
  <2>2. CASE ~\E k \in Both : Sends(k, m)
    BY <1>4, <2>2 DEF Comes, MessageInRange, Live
  <2>. QED
    BY <2>1, <2>2
<1>. QED
  BY <1>2, <1>3, <1>4

LEMMA TasksInRange ==
  ASSUME TypeOK, InRange, Next, NEW k \in Both
  PROVE  TaskInRange(task'[k], run'.seq)
<1>. SUFFICES ASSUME NEW v, v = task'[k]
              PROVE  TaskInRange(v, run'.seq)
  OBVIOUS
<1>1. /\ run.seq \in Nat /\ run'.seq \in Nat /\ run.seq <= run'.seq
      /\ \A j \in Both : task[j].cursor \in Nat /\ task[j].next \in Nat
  BY RunStep DEF InRange, TypeOK, Tasks, Both
<1>2. \A j \in Both : TaskInRange(task[j], run.seq)
  BY DEF InRange, Both
<1>3. TaskMoves(k, v)
  BY TaskStep
<1>4. CASE v = task[k]
  BY <1>1, <1>2, <1>4 DEF TaskInRange
<1>5. CASE v = NoTask
  BY <1>1, <1>5 DEF TaskInRange, NoTask
<1>6. CASE ReadLeaves(k, v) /\ run' = run
  BY <1>1, <1>2, <1>5, <1>6 DEF TaskInRange, ReadLeaves
<1>7. CASE SendLeaves(k, v) /\ run' = run
  BY <1>1, <1>2, <1>5, <1>7 DEF TaskInRange, SendLeaves, Sends
<1>8. CASE /\ v.at = "read" /\ v.next = 0 /\ run'.seq = run.seq
           /\ v.cursor = 0 \/ (asks # <<>> /\ v.cursor = Head(asks).last)
  <2>1. v.cursor <= run.seq
    <3>1. asks # <<>> => Head(asks).last <= run.seq
      BY InTail DEF InRange, TypeOK
    <3>. QED
      BY <1>1, <1>8, <3>1
  <2>. QED
    BY <1>1, <1>8, <2>1 DEF TaskInRange
<1>9. CASE v = task["live"]
  BY <1>1, <1>2, <1>9 DEF TaskInRange, Both
<1>. QED
  BY <1>3, <1>4, <1>5, <1>6, <1>7, <1>8, <1>9 DEF TaskMoves

LEMMA InRangeStep ==
  ASSUME TypeOK, TypeOK', InRange, Next
  PROVE  InRange'
<1>1. RunInRange' /\ run.seq \in Nat /\ run'.seq \in Nat /\ run.seq <= run'.seq
  BY RunStep DEF InRange, TypeOK
<1>2. /\ win'.seen <= run.seq /\ (run.seq = 0 => win'.view = <<>>)
      /\ \A i \in 1..Len(asks') : asks'[i].last <= run.seq
      /\ win'.seen \in Nat /\ asks' \in Seq(Asks)
  BY WindowStep DEF TypeOK, Windows
<1>3. \A i \in 1..Len(asks') : asks'[i].last \in Nat
  <2>. TAKE i \in 1..Len(asks')
  <2>1. asks'[i] \in Asks
    BY <1>2
  <2>. QED
    BY <2>1 DEF Asks
<1>4. win'.seen <= run'.seq /\ (run'.seq = 0 => win'.view = <<>>)
  BY <1>1, <1>2
<1>5. \A i \in 1..Len(asks') : asks'[i].last <= run'.seq
  BY <1>1, <1>2, <1>3
<1>6. \A i \in 1..Len(wire') : MessageInRange(wire'[i], run'.seq)
  BY WireInRange
<1>7. \A k \in Both : TaskInRange(task'[k], run'.seq)
  BY TasksInRange
<1>. QED
  BY <1>1, <1>4, <1>5, <1>6, <1>7 DEF InRange, Both, MessageInRange, TaskInRange, Live

-----------------------------------------------------------------------------
(* A window that shows a run after a step either goes on with what it has   *)
(* seen, or a message moved it on, or it has just taken the run up.         *)

\* It keeps what it has seen: it asks again, drops a message or loses its socket.
KeepsOn ==
  /\ win.tracked /\ win'.tracked /\ win'.seen = win.seen /\ win'.clean = win.clean
  /\ \/ asks' = asks /\ win'.conn = win.conn
     \/ Serve /\ asks # <<>> /\ asks' = Tail(asks) /\ win'.conn = win.conn
     \/ /\ \E fresh \in BOOLEAN : asks' = Append(asks, Attach(fresh, win.seen))
        /\ win'.conn /\ (Connect \/ LoadHistory \/ Leave \/ GoalNews)
     \/ asks' = <<>> /\ ~win'.conn
  /\ \/ wire' = wire \/ \E m \in Messages : wire' = Append(wire, m)
     \/ /\ wire # <<>> /\ wire' = Tail(wire) /\ Head(wire).kind \notin {"missing", "rejected"}
        /\ Live(Head(wire)) => Head(wire).seq <= win.seen /\ ~Advances(Head(wire))
     \/ ~win'.conn
\* A message that does not end the run moves it on.
MovesOn ==
  /\ win.tracked /\ win'.tracked /\ asks' = asks /\ win'.conn = win.conn /\ win'.clean = win.clean
  /\ UNCHANGED <<run, task, left>>
  /\ wire # <<>> /\ wire' = Tail(wire) /\ Moves(Head(wire)) /\ ~Head(wire).end
  /\ win'.seen = Head(wire).seq /\ win.seen <= win'.seen
\* It takes the run up, found in a list or started here.
TakesOn ==
  /\ TrackDoes /\ ~win.tracked /\ UNCHANGED <<run, task, left>>
  /\ \/ wire # <<>> /\ wire' = Tail(wire) /\ Finds(Head(wire))
     \/ StartRun /\ asks' = asks \o <<Start, Attach(win.stale, 0)>>

LEMMA EffectKeepsOn ==
  ASSUME NEW w \in Windows, EffectDoes(w), w.tracked
  PROVE  /\ win'.tracked /\ win'.seen = w.seen /\ win'.conn = w.conn /\ win'.clean = w.clean
         /\ IF w.conn THEN \E fresh \in BOOLEAN : asks' = Append(asks, Attach(fresh, w.seen))
            ELSE asks' = asks
<1>1. w.stale \in BOOLEAN
  BY DEF Windows
<1>. QED
  BY <1>1 DEF EffectDoes

LEMMA WindowKeepsOn ==
  ASSUME TypeOK, Next, win'.tracked
  PROVE  KeepsOn \/ MovesOn \/ TakesOn
<1>1. win.seen \in Nat /\ wire \in Seq(Messages) /\ win \in Windows
  BY DEF TypeOK, Windows
<1>2. CASE RunSteps \/ Refuse \/ Accept \/ Vanish \/ \E k \in {"live", "stray"} : Read(k) \/ Send(k)
  <2>1. win' = win /\ asks' = asks
    BY <1>2 DEF RunSteps, Prepare, PrepareFails, Emit, Reap, HostStart, ServeLate, Refuse, Accept,
                Vanish, Read, Send
  <2>2. wire' = wire \/ \E m \in Messages : wire' = Append(wire, m)
    <3>1. CASE Refuse
      BY <3>1, RefuseShape
    <3>2. ASSUME NEW k \in {"live", "stray"}, Send(k)
          PROVE  \E m \in Messages : wire' = Append(wire, m)
      BY <3>2, SendShape DEF SendDoes
    <3>3. CASE RunSteps \/ Accept \/ Vanish \/ \E k \in {"live", "stray"} : Read(k)
      BY <3>3 DEF RunSteps, Prepare, PrepareFails, Emit, Reap, HostStart, ServeLate, Accept, Vanish, Read
    <3>. QED
      BY <1>2, <3>1, <3>2, <3>3
  <2>. QED
    BY <2>1, <2>2 DEF KeepsOn
<1>3. CASE Serve
  <2>1. /\ asks # <<>> /\ asks' = Tail(asks) /\ win' = win
        /\ ServesStart \/ ServesAttach \/ ServesMissing \/ ServesList
    BY <1>3, ServeShape
  <2>2. wire' = wire \/ \E m \in Messages : wire' = Append(wire, m)
    BY <2>1 DEF ServesStart, ServesAttach, ServesMissing, ServesList
  <2>. QED
    BY <1>3, <2>1, <2>2 DEF KeepsOn
<1>4. ASSUME NEW w \in Windows, EffectDoes(w), w.tracked = win.tracked, win.tracked => w.seen = win.seen,
             wire' = wire, w.conn = win.conn \/ w.conn, w.clean = win.clean,
             Connect \/ LoadHistory \/ Leave \/ GoalNews
      PROVE  KeepsOn
  <2>1. w.tracked
    BY <1>4 DEF EffectDoes
  <2>2. /\ win'.seen = w.seen /\ win'.conn = w.conn /\ win'.clean = w.clean
        /\ IF w.conn THEN \E fresh \in BOOLEAN : asks' = Append(asks, Attach(fresh, w.seen))
           ELSE asks' = asks
    BY <1>4, <2>1, EffectKeepsOn
  <2>. QED
    BY <1>4, <2>1, <2>2 DEF KeepsOn
<1>5. CASE Connect
  <2>1. PICK w : /\ Same(w, {"loaded", "away", "tracked", "seen", "view", "whole", "clean", "stale",
                             "listening", "observed", "outcome"})
                 /\ w.conn /\ EffectDoes(w) /\ UNCHANGED wire
    BY <1>5, ConnectShape
  <2>. QED
    BY <1>4, <1>5, <2>1 DEF Same
<1>6. CASE Leave
  <2>1. PICK w : /\ Same(w, {"conn", "loaded", "tracked", "seen", "view", "whole", "clean", "outcome"})
                 /\ EffectDoes(w) /\ UNCHANGED wire
    BY <1>6, LeaveShape
  <2>. QED
    BY <1>4, <1>6, <2>1 DEF Same
<1>7. CASE GoalNews
  <2>1. EffectDoes(win) /\ wire' = wire
    BY <1>7, NewsShape
  <2>. QED
    BY <1>1, <1>4, <1>7, <2>1
<1>8. CASE LoadHistory
  <2>1. PICK w : /\ Same(w, {"conn", "tracked", "clean"}) /\ EffectDoes(w) /\ UNCHANGED wire
                 /\ w.seen = (IF win.tracked THEN win.seen ELSE 0)
    BY <1>8, LoadShape
  <2>. QED
    BY <1>4, <1>8, <2>1 DEF Same
<1>9. CASE Poll
  <2>1. ~win.tracked /\ win'.tracked = win.tracked
    BY <1>9, PollShape
  <2>. QED
    BY <2>1
<1>10. CASE StartRun
  BY <1>10, StartShape DEF TakesOn
<1>11. CASE Receive
  <2>. DEFINE m == Head(wire)
  <2>1. /\ wire # <<>> /\ wire' = Tail(wire) /\ UNCHANGED <<run, task, left>> /\ m \in Messages
        /\ Moves(m) \/ Refuses(m) \/ Finds(m) \/ Quiets(m) \/ Drops(m)
    BY <1>11, ReceiveShape
  <2>2. m.seq \in Nat
    <3>. HIDE DEF m
    <3>. QED
      BY <2>1 DEF Messages
  <2>3. CASE Moves(m)
    <3>1. PICK w : /\ Same(w, {"conn", "loaded", "away", "tracked", "clean", "stale", "listening",
                               "observed", "outcome"})
                   /\ Live(m) /\ win.tracked /\ Advances(m) /\ w.seen = m.seq
                   /\ \/ ~m.end /\ win' = w /\ asks' = asks
                      \/ m.end /\ FinishDoes(w, "ended")
      BY <2>3 DEF Moves
    <3>2. ~m.end /\ win' = w /\ asks' = asks
      BY <3>1 DEF FinishDoes, EffectDoes
    <3>3. win.seen <= m.seq
      BY <1>1, <2>2, <3>1 DEF Advances
    <3>4. win'.tracked /\ win'.conn = win.conn /\ win'.seen = m.seq /\ win'.clean = win.clean
      BY <3>1, <3>2 DEF Same
    <3>. QED
      BY <2>1, <2>3, <3>1, <3>2, <3>3, <3>4 DEF MovesOn
  <2>4. CASE Refuses(m)
    BY <2>4 DEF Refuses, FinishDoes, EffectDoes
  <2>5. CASE Finds(m)
    <3>1. TrackDoes /\ ~win.tracked
      BY <2>5 DEF Finds
    <3>. QED
      BY <2>1, <2>5, <3>1 DEF TakesOn
  <2>6. CASE Quiets(m)
    BY <2>1, <2>6 DEF Quiets, KeepsOn, Live
  <2>7. CASE Drops(m)
    <3>1. Live(m) /\ ~Advances(m) /\ win' = win /\ asks' = asks
      BY <2>7 DEF Drops
    <3>2. m.seq <= win.seen
      BY <1>1, <2>2, <3>1 DEF Live, Advances
    <3>. QED
      BY <2>1, <3>1, <3>2 DEF KeepsOn, Live
  <2>. QED
    BY <2>1, <2>3, <2>4, <2>5, <2>6, <2>7
<1>12. CASE Breaks
  <2>1. /\ asks' = <<>>
        /\ \/ win' = NewWindow
           \/ ~win'.conn /\ win'.tracked = win.tracked /\ win'.seen = win.seen /\ win'.clean = win.clean
    BY <1>12, BreakShape DEF Breaks
  <2>2. ~NewWindow.tracked
    BY DEF NewWindow
  <2>3. ~win'.conn /\ win'.tracked = win.tracked /\ win'.seen = win.seen /\ win'.clean = win.clean
    BY <2>1, <2>2
  <2>. QED
    BY <2>1, <2>3 DEF KeepsOn
<1>. QED
  BY <1>2, <1>3, <1>5, <1>6, <1>7, <1>8, <1>9, <1>10, <1>11, <1>12, Steps

-----------------------------------------------------------------------------
(* A window that has seen the last event of a run knows that the run ended. *)

\* A forwarder that read up to the end of an ended run tells that it ended.
TaskKnows(t) == t.at = "send" /\ Ended /\ t.next = run.seq => t.last
\* The last event of an ended run carries the end, so a window that has seen it is done.
EndsKnown ==
  /\ Ended /\ win.tracked => win.seen # run.seq
  /\ \A i \in 1..Len(wire) : Ended /\ Live(wire[i]) /\ wire[i].seq = run.seq => wire[i].end
  /\ \A k \in Both : TaskKnows(task[k])

LEMMA EndOnce ==
  ASSUME TypeOK, RunInRange, Next
  PROVE  /\ Ended => (Ended' /\ run'.seq = run.seq) \/ Breaks
         /\ Ended' => (Ended /\ run'.seq = run.seq) \/ (~Ended /\ run'.seq = run.seq + 1)
<1>. SUFFICES ASSUME NEW r, r = run'
              PROVE  /\ Ended => (r.phase \in {"ended", "reaped"} /\ r.seq = run.seq) \/ Breaks
                     /\ r.phase \in {"ended", "reaped"} =>
                          (Ended /\ r.seq = run.seq) \/ (~Ended /\ r.seq = run.seq + 1)
  BY DEF Ended
<1>1. CASE RunSteps
  <2>1. RunMoves
    BY <1>1, RunShape DEF RunInRange
  <2>. QED
    BY <2>1 DEF RunMoves, Ended
<1>2. CASE Refuse
  BY <1>2, RefuseShape DEF Ended
<1>3. CASE Accept
  BY <1>3, AcceptShape DEF Ended
<1>4. CASE Serve
  <2>1. run' = run \/ (run.phase = "none" /\ run'.phase = "reserved" /\ run'.seq = run.seq)
    BY <1>4, ServeShape DEF ServesStart, ServesAttach, ServesMissing, ServesList
  <2>. QED
    BY <2>1 DEF Ended
<1>5. CASE Breaks
  <2>1. /\ run'.seq = run.seq
        /\ \/ run'.phase = run.phase
           \/ run'.phase = "late" /\ run.phase = "none"
           \/ run'.phase = "lost"
           \/ run'.phase = "none" /\ run.phase = "late"
    BY <1>5, BreakShape DEF Breaks
  <2>. QED
    BY <1>5, <2>1 DEF Ended
<1>6. ASSUME \/ Vanish \/ Connect \/ LoadHistory \/ Leave \/ GoalNews \/ Poll \/ StartRun \/ Receive
             \/ \E k \in {"live", "stray"} : Read(k) \/ Send(k)
      PROVE  run' = run
  BY <1>6 DEF Vanish, Connect, LoadHistory, Leave, GoalNews, Poll, StartRun, Receive, Read, Send
<1>. QED
  BY <1>1, <1>2, <1>3, <1>4, <1>5, <1>6, Steps DEF Ended

LEMMA WireKnows ==
  ASSUME TypeOK, InRange, EndsKnown, Next, NEW i \in 1..Len(wire')
  PROVE  Ended' /\ Live(wire'[i]) /\ wire'[i].seq = run'.seq => wire'[i].end
<1>. SUFFICES ASSUME Ended', NEW m, m = wire'[i], Live(m), m.seq = run'.seq
              PROVE  m.end
  BY DEF Live
<1>1. (Ended /\ run'.seq = run.seq) \/ (~Ended /\ run'.seq = run.seq + 1)
  BY EndOnce DEF InRange
<1>2. run.seq \in Nat
  BY DEF TypeOK
<1>3. \/ \E j \in 1..Len(wire) : m = wire[j]
      \/ m \in Messages /\ Comes(m) /\ run'.phase = run.phase /\ run'.seq = run.seq
  BY WireStep, WireHas
<1>4. CASE \E j \in 1..Len(wire) : m = wire[j]
  <2>1. m.seq <= run.seq
    BY <1>4 DEF InRange, MessageInRange
  <2>2. Ended /\ run'.seq = run.seq
    BY <1>1, <1>2, <2>1
  <2>. QED
    BY <1>4, <2>2 DEF EndsKnown
<1>5. CASE m \in Messages /\ Comes(m) /\ run'.phase = run.phase /\ run'.seq = run.seq
  <2>1. Ended /\ m.seq = run.seq
    BY <1>1, <1>2, <1>5
  <2>2. PICK k \in Both : Sends(k, m)
    BY <1>5 DEF Comes, Live
  <2>3. TaskKnows(task[k])
    BY DEF EndsKnown
  <2>. QED
    BY <2>1, <2>2, <2>3 DEF Sends, TaskKnows
<1>. QED
  BY <1>3, <1>4, <1>5

LEMMA TasksKnow ==
  ASSUME TypeOK, InRange, EndsKnown, Next, NEW k \in Both
  PROVE  TaskKnows(task[k])'
<1>. SUFFICES ASSUME Ended', NEW v, v = task'[k], v.at = "send", v.next = run'.seq
              PROVE  v.last
  BY DEF TaskKnows
<1>1. (Ended /\ run'.seq = run.seq) \/ (~Ended /\ run'.seq = run.seq + 1)
  BY EndOnce DEF InRange
<1>2. run.seq \in Nat /\ \A j \in Both : TaskInRange(task[j], run.seq) /\ TaskKnows(task[j])
  BY DEF TypeOK, InRange, EndsKnown, Both
<1>3. TaskMoves(k, v)
  BY TaskStep
<1>4. ASSUME NEW j \in Both, v.next = task[j].next, v.last = task[j].last, task[j].at = "send"
      PROVE  v.last
  BY <1>1, <1>2, <1>4 DEF TaskInRange, TaskKnows
<1>5. CASE v = task[k]
  BY <1>4, <1>5
<1>6. CASE v = NoTask
  BY <1>6 DEF NoTask
<1>7. CASE ReadLeaves(k, v) /\ run' = run
  BY <1>1, <1>2, <1>6, <1>7 DEF ReadLeaves
<1>8. CASE SendLeaves(k, v)
  BY <1>4, <1>6, <1>8 DEF SendLeaves
<1>9. CASE v = task["live"]
  BY <1>4, <1>9 DEF Both
<1>. QED
  BY <1>3, <1>5, <1>6, <1>7, <1>8, <1>9 DEF TaskMoves

LEMMA EndsKnownStep ==
  ASSUME TypeOK, TypeOK', InRange, EndsKnown, Next
  PROVE  EndsKnown'
<1>1. ASSUME Ended', win'.tracked
      PROVE  win'.seen # run'.seq
  <2>1. /\ run.seq \in Nat /\ win.seen \in Nat /\ win'.seen \in Nat
        /\ (Ended /\ run'.seq = run.seq) \/ (~Ended /\ run'.seq = run.seq + 1)
    BY <1>1, EndOnce DEF InRange, TypeOK, Windows
  <2>2. win'.seen <= run.seq
    BY WindowStep
  <2>3. CASE Ended /\ run'.seq = run.seq
    <3>1. KeepsOn \/ MovesOn \/ TakesOn
      BY <1>1, WindowKeepsOn
    <3>2. CASE KeepsOn
      BY <2>3, <3>2 DEF KeepsOn, EndsKnown
    <3>3. CASE MovesOn
      <4>1. Live(Head(wire)) /\ ~Head(wire).end /\ win'.seen = Head(wire).seq /\ wire # <<>>
        BY <3>3 DEF MovesOn, Moves
      <4>2. 1 \in 1..Len(wire) /\ Head(wire) = wire[1]
        BY <4>1, InTail DEF TypeOK
      <4>. QED
        BY <2>3, <4>1, <4>2 DEF EndsKnown
    <3>4. CASE TakesOn
      BY <2>3, <3>4 DEF TakesOn, TrackDoes, InRange, RunInRange, Ended
    <3>. QED
      BY <3>1, <3>2, <3>3, <3>4
  <2>. QED
    BY <2>1, <2>2, <2>3
<1>2. \A i \in 1..Len(wire') : Ended' /\ Live(wire'[i]) /\ wire'[i].seq = run'.seq => wire'[i].end
  BY WireKnows
<1>3. \A k \in Both : TaskKnows(task[k])'
  BY TasksKnow
<1>. QED
  BY <1>1, <1>2, <1>3 DEF EndsKnown, Live

-----------------------------------------------------------------------------
(* The latest attach asks for nothing that the window has not seen. *)

Asked == win.tracked => \A i \in 1..Len(asks) : Latest(asks, i) => asks[i].last <= win.seen

LEMMA LatestOfTwo ==
  ASSUME NEW q \in Seq(Asks), NEW a \in Asks, NEW b \in Asks, b.kind = "attach",
         NEW i \in 1..Len(q \o <<a, b>>), Latest(q \o <<a, b>>, i)
  PROVE  (q \o <<a, b>>)[i] = b
<1>1. q \o <<a, b>> = Append(Append(q, a), b) /\ Append(q, a) \in Seq(Asks)
  OBVIOUS
<1>. DEFINE r == Append(q, a)
<1>2. r \in Seq(Asks) /\ q \o <<a, b>> = Append(r, b)
  BY <1>1
<1>. HIDE DEF r
<1>3. i \in 1..Len(Append(r, b)) /\ Latest(Append(r, b), i)
  BY <1>2
<1>4. Append(r, b)[i] = b
  BY <1>2, <1>3, LatestAppend
<1>. QED
  BY <1>2, <1>4

LEMMA AskedStep ==
  ASSUME TypeOK, TypeOK', Asked, Next
  PROVE  Asked'
<1>. SUFFICES ASSUME win'.tracked, NEW q, q = asks', NEW i \in 1..Len(q), Latest(q, i)
              PROVE  q[i].last <= win'.seen
  BY DEF Asked, Latest
<1>1. /\ asks \in Seq(Asks) /\ win.seen \in Nat /\ win'.seen \in Nat /\ q \in Seq(Asks)
      /\ win.stale \in BOOLEAN
  BY DEF TypeOK, Windows
<1>2. q[i].last \in Nat
  <2>1. q[i] \in Asks
    BY <1>1
  <2>. QED
    BY <2>1 DEF Asks
<1>3. KeepsOn \/ MovesOn \/ TakesOn
  BY WindowKeepsOn
<1>4. CASE KeepsOn
  <2>1. win.tracked /\ win'.seen = win.seen
    BY <1>4 DEF KeepsOn
  <2>2. CASE q = asks
    BY <2>1, <2>2 DEF Asked
  <2>3. CASE asks # <<>> /\ q = Tail(asks)
    <3>1. i + 1 \in 1..Len(asks) /\ q[i] = asks[i + 1] /\ Latest(asks, i + 1)
      BY <1>1, <2>3, LatestTail
    <3>. QED
      BY <2>1, <3>1 DEF Asked
  <2>4. CASE \E fresh \in BOOLEAN : q = Append(asks, Attach(fresh, win.seen))
    <3>1. PICK fresh \in BOOLEAN : q = Append(asks, Attach(fresh, win.seen))
      BY <2>4
    <3>. DEFINE a == Attach(fresh, win.seen)
    <3>2. a \in Asks /\ a.kind = "attach" /\ a.last <= win.seen
      BY <1>1, AskKinds
    <3>3. q = Append(asks, a)
      BY <3>1
    <3>. HIDE DEF a
    <3>4. q[i] = a
      BY <1>1, <3>2, <3>3, LatestAppend
    <3>. QED
      BY <2>1, <3>2, <3>4
  <2>5. CASE q = <<>>
    BY <2>5
  <2>. QED
    BY <1>4, <2>2, <2>3, <2>4, <2>5 DEF KeepsOn
<1>5. CASE MovesOn
  <2>1. q[i].last <= win.seen /\ win.seen <= win'.seen
    BY <1>5 DEF MovesOn, Asked
  <2>. QED
    BY <1>1, <1>2, <2>1
<1>6. CASE TakesOn
  <2>1. PICK a \in Asks : q = asks \o <<a, Attach(win.stale, 0)>>
    BY <1>1, <1>6, AskKinds DEF TakesOn, Finds
  <2>. DEFINE b == Attach(win.stale, 0)
  <2>2. b \in Asks /\ b.kind = "attach" /\ b.last <= 0
    BY <1>1, AskKinds
  <2>3. q = asks \o <<a, b>>
    BY <2>1
  <2>. HIDE DEF b
  <2>4. i \in 1..Len(asks \o <<a, b>>) /\ Latest(asks \o <<a, b>>, i)
    BY <2>3
  <2>6. (asks \o <<a, b>>)[i] = b
    BY <1>1, <2>2, <2>4, LatestOfTwo
  <2>5. q[i].last <= 0
    BY <2>2, <2>3, <2>6
  <2>. QED
    BY <1>1, <1>2, <2>5
<1>. QED
  BY <1>3, <1>4, <1>5, <1>6

-----------------------------------------------------------------------------
(* A window that shows a run on a socket is served: an attach, an answer to *)
(* one or a forwarder is under way, or all of an ended run is.              *)

\* The forwarder that is to serve the window starts at what it has seen or earlier.
Served ==
  win.tracked /\ win.conn =>
    \/ Has(asks, "attach")
    \/ Has(wire, "missing") \/ Has(wire, "rejected")
    \/ task["live"].at # "none" /\ Reaches(wire, Len(wire), task["live"].cursor, win.seen)
    \/ Ended /\ Reaches(wire, Len(wire), run.seq, win.seen)

LEMMA ReachesLess ==
  ASSUME NEW q \in Seq(Messages), NEW n \in Nat, NEW m \in Nat, NEW seen \in Nat, m <= n,
         Reaches(q, Len(q), n, seen)
  PROVE  Reaches(q, Len(q), m, seen)
<1>1. CASE n <= seen
  BY <1>1 DEF Reaches
<1>2. CASE \E j \in 1..Len(q) : Live(q[j]) /\ q[j].seq >= n
  <2>1. PICK j \in 1..Len(q) : Live(q[j]) /\ q[j].seq >= n
    BY <1>2
  <2>2. q[j].seq \in Nat
    <3>1. q[j] \in Messages
      OBVIOUS
    <3>. QED
      BY <3>1 DEF Messages
  <2>3. q[j].seq >= m
    BY <2>1, <2>2
  <2>. QED
    BY <2>1, <2>3 DEF Reaches
<1>. QED
  BY <1>1, <1>2 DEF Reaches

\* A message that was received is counted as seen.
Consumes(q, q2, seen, seen2) ==
  \/ q2 = q /\ seen2 = seen
  \/ (\E m \in Messages : q2 = Append(q, m)) /\ seen2 = seen
  \/ q # <<>> /\ q2 = Tail(q) /\ seen <= seen2 /\ (Live(Head(q)) => Head(q).seq <= seen2)

LEMMA ReachesStill ==
  ASSUME NEW q \in Seq(Messages), NEW q2, NEW seen \in Nat, NEW seen2 \in Nat, NEW n \in Nat,
         Consumes(q, q2, seen, seen2), Reaches(q, Len(q), n, seen)
  PROVE  Reaches(q2, Len(q2), n, seen2)
<1>1. CASE q2 = q /\ seen2 = seen
  BY <1>1
<1>2. CASE (\E m \in Messages : q2 = Append(q, m)) /\ seen2 = seen
  BY <1>2, ReachesAppend
<1>3. CASE q # <<>> /\ q2 = Tail(q) /\ seen <= seen2 /\ (Live(Head(q)) => Head(q).seq <= seen2)
  <2>1. Len(q) \in 1..Len(q) /\ Len(q2) = Len(q) - 1
    BY <1>3
  <2>2. Reaches(Tail(q), Len(q) - 1, n, seen2)
    BY <1>3, <2>1, ReachesTail
  <2>. QED
    BY <1>3, <2>1, <2>2
<1>. QED
  BY <1>1, <1>2, <1>3 DEF Consumes

\* A refusal stays on the wire until the window reads it.
LEMMA RefusedStill ==
  ASSUME NEW q \in Seq(Messages), NEW q2, NEW seen \in Nat, NEW seen2 \in Nat, NEW kind,
         Consumes(q, q2, seen, seen2), q2 = Tail(q) => q = <<>> \/ Head(q).kind # kind, Has(q, kind)
  PROVE  Has(q2, kind)
<1>1. CASE \E m \in Messages : q2 = Append(q, m)
  BY <1>1, HasAppend
<1>2. CASE q # <<>> /\ q2 = Tail(q)
  BY <1>2, HasTail
<1>. QED
  BY <1>1, <1>2 DEF Consumes

\* The window has seen what a served attach asks to go on from.
LEMMA ServedFromSeen ==
  ASSUME TypeOK, Asked, win.tracked, asks # <<>>, Head(asks).kind = "attach",
         ~Has(Tail(asks), "attach")
  PROVE  Head(asks).last <= win.seen
  BY LatestHead DEF Asked, TypeOK

\* A step after which no attach is on its way has asked for none.
LEMMA NothingAsked ==
  ASSUME TypeOK, Next, win'.tracked, win'.conn, NEW a, a = asks', ~Has(a, "attach")
  PROVE  /\ win.tracked /\ win.conn /\ (KeepsOn \/ MovesOn)
         /\ a = asks \/ (Serve /\ asks # <<>> /\ a = Tail(asks))
<1>1. asks \in Seq(Asks) /\ win.seen \in Nat /\ win.stale \in BOOLEAN
  BY DEF TypeOK, Windows
<1>2. ASSUME TakesOn
      PROVE  FALSE
  <2>1. PICK c \in Asks : a = asks \o <<c, Attach(win.stale, 0)>>
    BY <1>1, <1>2, AskKinds DEF TakesOn, Finds
  <2>. DEFINE d == Attach(win.stale, 0)
  <2>2. d \in Asks /\ d.kind = "attach" /\ a = asks \o <<c, d>>
    BY <1>1, <2>1, AskKinds
  <2>. HIDE DEF d
  <2>. QED
    BY <1>1, <2>2, HasTwo
<1>3. ASSUME NEW fresh \in BOOLEAN, a = Append(asks, Attach(fresh, win.seen))
      PROVE  FALSE
  <2>. DEFINE d == Attach(fresh, win.seen)
  <2>1. d \in Asks /\ d.kind = "attach" /\ a = Append(asks, d)
    BY <1>1, <1>3, AskKinds
  <2>. HIDE DEF d
  <2>. QED
    BY <1>1, <2>1, HasAppend
<1>4. CASE KeepsOn
  BY <1>3, <1>4 DEF KeepsOn
<1>5. CASE MovesOn
  BY <1>5 DEF MovesOn
<1>. QED
  BY <1>2, <1>4, <1>5, WindowKeepsOn

\* The window consumes what it keeps on with, and loses no refusal.
LEMMA WireConsumed ==
  ASSUME TypeOK, win'.conn, NEW q, q = wire', KeepsOn \/ MovesOn
  PROVE  /\ Consumes(wire, q, win.seen, win'.seen)
         /\ q = Tail(wire) => wire = <<>> \/ Head(wire).kind \notin {"missing", "rejected"}
<1>1. wire \in Seq(Messages) /\ win.seen \in Nat
  BY DEF TypeOK, Windows
<1>2. wire # <<>> => Tail(wire) # wire /\ \A m \in Messages : Append(wire, m) # Tail(wire)
  <2>1. wire # <<>> => Len(Tail(wire)) < Len(wire)
    BY <1>1
  <2>2. \A m \in Messages : Len(Append(wire, m)) = Len(wire) + 1 /\ Len(wire) \in Nat
    BY <1>1
  <2>. QED
    BY <2>1, <2>2
<1>3. CASE KeepsOn
  <2>1. win'.seen = win.seen
    BY <1>3 DEF KeepsOn
  <2>2. CASE q = wire
    BY <1>1, <1>2, <2>1, <2>2 DEF Consumes
  <2>3. CASE \E m \in Messages : q = Append(wire, m)
    BY <1>1, <1>2, <2>1, <2>3 DEF Consumes
  <2>4. CASE /\ wire # <<>> /\ q = Tail(wire) /\ Head(wire).kind \notin {"missing", "rejected"}
             /\ Live(Head(wire)) => Head(wire).seq <= win.seen
    BY <1>1, <2>1, <2>4 DEF Consumes
  <2>. QED
    BY <1>3, <2>2, <2>3, <2>4 DEF KeepsOn
<1>4. CASE MovesOn
  <2>1. /\ wire # <<>> /\ q = Tail(wire) /\ Live(Head(wire)) /\ win'.seen = Head(wire).seq
        /\ win.seen <= win'.seen
    BY <1>4 DEF MovesOn, Moves
  <2>2. Head(wire).seq \in Nat
    <3>1. Head(wire) \in Messages
      BY <1>1, <2>1
    <3>. QED
      BY <3>1 DEF Messages
  <2>3. Head(wire).kind \notin {"missing", "rejected"}
    BY <2>1 DEF Live
  <2>. QED
    BY <2>1, <2>2, <2>3 DEF Consumes
<1>. QED
  BY <1>3, <1>4

LEMMA ServedStep ==
  ASSUME TypeOK, TypeOK', InRange, EndsRight, Asked, Served, Next
  PROVE  Served'
<1>. SUFFICES ASSUME win'.tracked, win'.conn, NEW a, a = asks', NEW q, q = wire', NEW v, v = task'["live"],
                     NEW seen, seen = win'.seen, ~Has(a, "attach"), ~Has(q, "missing"), ~Has(q, "rejected")
              PROVE  \/ v.at # "none" /\ Reaches(q, Len(q), v.cursor, seen)
                     \/ Ended' /\ Reaches(q, Len(q), run'.seq, seen)
  BY DEF Served, Has, Reaches, Live
<1>1. /\ wire \in Seq(Messages) /\ q \in Seq(Messages) /\ asks \in Seq(Asks)
      /\ win.seen \in Nat /\ seen \in Nat
      /\ run.seq \in Nat /\ v.cursor \in Nat
      /\ task["live"].cursor \in Nat /\ task["live"].next \in Nat
  BY DEF TypeOK, Windows, Tasks
<1>2. /\ win.tracked /\ win.conn /\ (KeepsOn \/ MovesOn)
      /\ a = asks \/ (Serve /\ asks # <<>> /\ a = Tail(asks))
  BY NothingAsked
<1>3. /\ Consumes(wire, q, win.seen, seen)
      /\ q = Tail(wire) => wire = <<>> \/ Head(wire).kind \notin {"missing", "rejected"}
  BY <1>2, WireConsumed
<1>4. \A n \in Nat : Reaches(wire, Len(wire), n, win.seen) => Reaches(q, Len(q), n, seen)
  BY <1>1, <1>3, ReachesStill
<1>5. ~Breaks
  BY BreakShape DEF Breaks, NewWindow
<1>6. ASSUME Serve, asks # <<>>, Head(asks).kind = "attach"
      PROVE  Head(asks).last <= win.seen /\ seen = win.seen
  <2>1. asks' = Tail(asks) /\ win' = win
    BY <1>6, ServeShape
  <2>2. ~Has(Tail(asks), "attach")
    BY <2>1
  <2>. QED
    BY <1>2, <1>6, <2>1, <2>2, ServedFromSeen
<1>7. CASE Has(asks, "attach")
  <2>1. Serve /\ asks # <<>> /\ a = Tail(asks)
    BY <1>2, <1>7
  <2>2. Head(asks).kind = "attach"
    BY <1>1, <1>7, <2>1, HasTail
  <2>3. ServesAttach \/ ServesMissing
    BY <2>1, <2>2, ServeShape DEF ServesStart, ServesList
  <2>4. CASE ServesMissing
    <3>1. PICK m \in Messages : m.kind = "missing" /\ q = Append(wire, m)
      BY <2>4 DEF ServesMissing
    <3>. QED
      BY <1>1, <3>1, HasAppend
  <2>5. CASE ServesAttach
    <3>1. v.at = "read" /\ v.cursor = (IF Head(asks).fresh THEN 0 ELSE Head(asks).last)
      BY <2>5 DEF ServesAttach, StartsAt
    <3>2. v.cursor <= seen
      BY <1>1, <1>6, <2>1, <2>2, <3>1
    <3>. QED
      BY <3>1, <3>2 DEF Reaches
  <2>. QED
    BY <2>3, <2>4, <2>5
<1>8. CASE Has(wire, "missing") \/ Has(wire, "rejected")
  <2>1. PICK kind \in {"missing", "rejected"} : Has(wire, kind)
    BY <1>8
  <2>2. q = Tail(wire) => wire = <<>> \/ Head(wire).kind # kind
    BY <1>3, <2>1
  <2>3. Has(q, kind)
    BY <1>1, <1>3, <2>1, <2>2, RefusedStill
  <2>. QED
    BY <2>1, <2>3
<1>9. CASE task["live"].at # "none" /\ Reaches(wire, Len(wire), task["live"].cursor, win.seen)
  <2>1. Reaches(q, Len(q), task["live"].cursor, seen)
    BY <1>1, <1>4, <1>9
  <2>2. TaskMoves("live", v)
    BY TaskStep DEF Both
  <2>3. CASE v = task["live"]
    BY <1>9, <2>1, <2>3
  <2>4. CASE ReadLeaves("live", v) /\ run' = run
    <3>1. CASE v = NoTask /\ Ended /\ task["live"].cursor >= run.seq
      <4>1. Reaches(q, Len(q), run.seq, seen)
        BY <1>1, <2>1, <3>1, ReachesLess
      <4>. QED
        BY <2>4, <3>1, <4>1 DEF Ended
    <3>2. CASE v.cursor = task["live"].cursor /\ v.at # "none"
      BY <2>1, <3>2
    <3>. QED
      BY <2>4, <3>1, <3>2 DEF ReadLeaves
  <2>5. CASE SendLeaves("live", v) /\ run' = run
    <3>1. PICK m \in Messages :
            /\ Sends("live", m) /\ q = Append(wire, m)
            /\ \/ v = NoTask /\ task["live"].last /\ m.seq >= task["live"].next
               \/ v.cursor = m.seq /\ v.at # "none"
      BY <2>5 DEF SendLeaves
    <3>2. \A n \in Nat : m.seq >= n => Reaches(q, Len(q), n, seen)
      <4>1. Len(q) \in 1..Len(q) /\ q[Len(q)] = m /\ Live(m)
        BY <1>1, <3>1 DEF Sends
      <4>. QED
        BY <4>1 DEF Reaches
    <3>3. m.seq \in Nat
      BY DEF Messages
    <3>4. CASE v = NoTask /\ task["live"].last /\ m.seq >= task["live"].next
      <4>1. Ended /\ task["live"].next = run.seq
        BY <2>5, <3>4 DEF EndsRight, SendLeaves
      <4>2. Reaches(q, Len(q), run.seq, seen)
        BY <1>1, <3>2, <3>4, <4>1
      <4>. QED
        BY <2>5, <4>1, <4>2 DEF Ended
    <3>5. CASE v.cursor = m.seq /\ v.at # "none"
      BY <3>2, <3>3, <3>5
    <3>. QED
      BY <3>1, <3>4, <3>5
  <2>6. CASE /\ v.at = "read"
             /\ \/ v.cursor = 0
                \/ /\ Serve /\ asks # <<>> /\ Head(asks).kind = "attach"
                   /\ v.cursor = (IF v.fresh THEN 0 ELSE Head(asks).last)
    <3>1. v.cursor <= seen
      BY <1>1, <1>6, <2>6
    <3>. QED
      BY <2>6, <3>1 DEF Reaches
  <2>. QED
    BY <1>5, <2>2, <2>3, <2>4, <2>5, <2>6 DEF TaskMoves
<1>10. CASE Ended /\ Reaches(wire, Len(wire), run.seq, win.seen)
  <2>1. Ended' /\ run'.seq = run.seq
    BY <1>5, <1>10, EndOnce DEF InRange
  <2>. QED
    BY <1>1, <1>4, <1>10, <2>1
<1>. QED
  BY <1>2, <1>7, <1>8, <1>9, <1>10 DEF Served

-----------------------------------------------------------------------------
(* Where window, run and forwarders can be together. *)

\* Nothing is shown before the history is loaded; a window on a socket has asked.
WindowPlaced ==
  /\ win.tracked \/ win.listening \/ win.away => win.loaded
  /\ win.conn => ~win.stale
\* Nothing is under way for a window without a socket.
Unplugged ==
  ~win.conn => /\ asks = <<>> /\ wire = <<>> /\ ~run.here
               /\ \A k \in Both : task[k].at = "none"
\* Nothing is under way from a run that has not begun or is forgotten.
Unheard ==
  run.phase \in {"none", "late", "lost"} =>
    /\ ~run.here
    /\ \A k \in Both : task[k].at = "none"
    /\ \A i \in 1..Len(wire) : ~Live(wire[i])
\* A rejection tells of a run that failed.
Rejected == Has(wire, "rejected") => run.phase = "failed"
\* The bounds only shrink.
Bounded == left.breaks <= MaxBreaks /\ left.visits <= MaxVisits /\ left.goals <= MaxGoalNews
\* A window that was never left holds all that it was sent.
Unvisited == left.visits = MaxVisits => ~win.away /\ win.whole
\* Where aborts take effect at once, no aborted forwarder goes on.
Aborted == ~LateAbort => task["stray"] = NoTask
Placed == WindowPlaced /\ Unplugged /\ Unheard /\ Rejected /\ Bounded /\ Unvisited /\ Aborted

\* The steps that leave the window alone.
BridgeSteps ==
  \/ RunSteps \/ Refuse \/ Accept \/ Serve \/ Vanish
  \/ \E k \in {"live", "stray"} : Read(k) \/ Send(k)
LEMMA BridgeShape ==
  ASSUME BridgeSteps
  PROVE  win' = win /\ left' = left /\ (asks' = asks \/ Serve)
  BY DEF BridgeSteps, RunSteps, Prepare, PrepareFails, Emit, Reap, HostStart, ServeLate, Refuse, Accept,
         Serve, Vanish, Read, Send

LEMMA WindowPlacedStep ==
  ASSUME TypeOK, WindowPlaced, Next
  PROVE  WindowPlaced'
<1>1. win \in Windows
  BY DEF TypeOK
<1>2. ASSUME NEW w \in Windows, EffectDoes(w), w.tracked \/ w.listening \/ w.away => w.loaded
      PROVE  WindowPlaced'
  BY <1>2 DEF EffectDoes, WindowPlaced
<1>3. CASE BridgeSteps
  BY <1>3, BridgeShape DEF WindowPlaced
<1>4. CASE Connect
  <2>1. PICK w : /\ Same(w, {"loaded", "away", "tracked", "seen", "view", "whole", "clean", "stale",
                            "listening", "observed", "outcome"})
                 /\ EffectDoes(w)
    BY <1>4, ConnectShape
  <2>. QED
    BY <1>2, <2>1 DEF Same, WindowPlaced
<1>5. CASE Leave
  <2>1. PICK w : /\ Same(w, {"conn", "loaded", "tracked", "seen", "view", "whole", "clean", "outcome"})
                 /\ EffectDoes(w) /\ win.loaded
    BY <1>5, LeaveShape
  <2>. QED
    BY <1>2, <2>1 DEF Same
<1>6. CASE GoalNews
  BY <1>1, <1>2, <1>6, NewsShape
<1>7. CASE LoadHistory
  <2>1. PICK w : Same(w, {"conn", "tracked", "clean"}) /\ EffectDoes(w) /\ w.loaded
    BY <1>7, LoadShape
  <2>. QED
    BY <1>2, <2>1 DEF Same
<1>8. CASE Poll
  BY <1>8, PollShape DEF WindowPlaced
<1>9. ASSUME TrackDoes, win.loaded
      PROVE  WindowPlaced'
  BY <1>9 DEF TrackDoes, WindowPlaced
<1>10. CASE StartRun
  BY <1>9, <1>10, StartShape
<1>11. CASE Receive
  <2>. DEFINE m == Head(wire)
  <2>1. Moves(m) \/ Refuses(m) \/ Finds(m) \/ Quiets(m) \/ Drops(m)
    BY <1>11, ReceiveShape
  <2>2. ASSUME NEW w, NEW outcome, Same(w, {"loaded", "away", "listening"}), FinishDoes(w, outcome)
        PROVE  WindowPlaced'
    <3>1. PICK v \in Windows :
            /\ \A f \in {"conn", "loaded", "away", "seen", "view", "whole", "clean", "stale",
                         "listening"} : v[f] = w[f]
            /\ ~v.tracked /\ EffectDoes(v)
      BY <2>2 DEF FinishDoes
    <3>2. v.tracked \/ v.listening \/ v.away => v.loaded
      BY <2>2, <3>1 DEF Same, WindowPlaced
    <3>. QED
      BY <1>2, <3>1, <3>2
  <2>3. CASE Moves(m)
    <3>1. PICK w : /\ Same(w, {"conn", "loaded", "away", "tracked", "clean", "stale", "listening",
                               "observed", "outcome"})
                   /\ win' = w \/ FinishDoes(w, "ended")
      BY <2>3 DEF Moves
    <3>2. Same(w, {"loaded", "away", "listening"})
      BY <3>1 DEF Same
    <3>3. CASE win' = w
      BY <3>1, <3>3 DEF Same, WindowPlaced
    <3>. QED
      BY <2>2, <3>1, <3>2, <3>3
  <2>4. CASE Refuses(m)
    <3>1. Same(win, {"loaded", "away", "listening"})
      BY <1>1 DEF Same
    <3>. QED
      BY <2>2, <2>4, <3>1 DEF Refuses
  <2>5. CASE Finds(m)
    BY <1>9, <2>5 DEF Finds, WindowPlaced
  <2>6. CASE Quiets(m)
    BY <2>6 DEF Quiets, WindowPlaced
  <2>7. CASE Drops(m)
    BY <2>7 DEF Drops, WindowPlaced
  <2>. QED
    BY <2>1, <2>3, <2>4, <2>5, <2>6, <2>7
<1>12. CASE Breaks
  <2>1. CASE win' = NewWindow
    BY <2>1 DEF NewWindow, WindowPlaced
  <2>. QED
    BY <1>12, <2>1, BreakShape DEF Breaks, WindowPlaced
<1>. QED
  BY <1>3, <1>4, <1>5, <1>6, <1>7, <1>8, <1>10, <1>11, <1>12, Steps DEF BridgeSteps

\* A socket is lost in a break only, and found in Connect only.
LEMMA Plugged ==
  ASSUME TypeOK, Next
  PROVE  win'.conn = win.conn \/ Connect \/ (Breaks /\ ~win'.conn)
<1>1. win \in Windows
  BY DEF TypeOK
<1>2. ASSUME NEW w, EffectDoes(w)
      PROVE  win'.conn = w.conn
  BY <1>2 DEF EffectDoes
<1>3. CASE BridgeSteps
  BY <1>3, BridgeShape
<1>4. CASE Leave
  BY <1>2, <1>4, LeaveShape DEF Same
<1>5. CASE GoalNews
  BY <1>2, <1>5, NewsShape
<1>6. CASE LoadHistory
  BY <1>2, <1>6, LoadShape DEF Same
<1>7. CASE Poll
  BY <1>7, PollShape
<1>8. CASE StartRun
  BY <1>8, StartShape DEF TrackDoes
<1>9. CASE Receive
  <2>. DEFINE m == Head(wire)
  <2>1. Moves(m) \/ Refuses(m) \/ Finds(m) \/ Quiets(m) \/ Drops(m)
    BY <1>9, ReceiveShape
  <2>2. ASSUME NEW w, NEW outcome, FinishDoes(w, outcome)
        PROVE  win'.conn = w.conn
    BY <1>2, <2>2 DEF FinishDoes
  <2>3. CASE Moves(m)
    BY <2>2, <2>3 DEF Moves, Same
  <2>4. CASE Refuses(m)
    BY <2>2, <2>4 DEF Refuses
  <2>5. CASE Finds(m) \/ Quiets(m) \/ Drops(m)
    BY <2>5 DEF Finds, TrackDoes, Quiets, Drops
  <2>. QED
    BY <2>1, <2>3, <2>4, <2>5
<1>10. CASE Breaks
  BY <1>10, BreakShape DEF Breaks, NewWindow
<1>. QED
  BY <1>3, <1>4, <1>5, <1>6, <1>7, <1>8, <1>9, <1>10, Steps DEF BridgeSteps

\* What a step may do to the run's phase, and when its start waits for it.
LEMMA PhaseStep ==
  ASSUME TypeOK, RunInRange, Next
  PROVE  \/ run'.phase = run.phase /\ (run'.here = run.here \/ ~run'.here)
         \/ run'.phase \in {"reserved", "running", "ended", "failed", "reaped"} /\ run.phase # "failed"
            /\ (run'.here = run.here \/ ~run'.here \/ (Serve /\ asks # <<>> /\ Head(asks).kind = "start"))
         \/ Breaks /\ (run'.here = run.here \/ ~run'.here)
            /\ (run'.here => run.phase = "none")
<1>. SUFFICES ASSUME NEW r, r = run'
              PROVE  \/ r.phase = run.phase /\ (r.here = run.here \/ ~r.here)
                     \/ r.phase \in {"reserved", "running", "ended", "failed", "reaped"} /\ run.phase # "failed"
                        /\ (r.here = run.here \/ ~r.here \/ (Serve /\ asks # <<>> /\ Head(asks).kind = "start"))
                     \/ Breaks /\ (r.here = run.here \/ ~r.here) /\ (r.here => run.phase = "none")
  OBVIOUS
<1>1. CASE RunSteps
  <2>1. RunMoves
    BY <1>1, RunShape DEF RunInRange
  <2>. QED
    BY <2>1 DEF RunMoves
<1>2. CASE Refuse
  BY <1>2, RefuseShape
<1>3. CASE Accept
  BY <1>3, AcceptShape
<1>4. CASE Serve
  <2>1. \/ run' = run
        \/ /\ run.phase = "none" /\ run'.phase = "reserved"
           /\ asks # <<>> /\ Head(asks).kind = "start"
    BY <1>4, ServeShape DEF ServesStart, ServesAttach, ServesMissing, ServesList
  <2>. QED
    BY <1>4, <2>1
<1>5. CASE Breaks
  <2>1. \/ run'.phase = run.phase /\ ~run'.here
        \/ run'.phase = "late" /\ run.phase = "none" /\ run'.here = run.here
        \/ ~run'.here
    BY <1>5, BreakShape DEF Breaks
  <2>. QED
    BY <1>5, <2>1
<1>6. ASSUME \/ Vanish \/ Connect \/ LoadHistory \/ Leave \/ GoalNews \/ Poll \/ StartRun \/ Receive
             \/ \E k \in {"live", "stray"} : Read(k) \/ Send(k)
      PROVE  run' = run
  BY <1>6 DEF Vanish, Connect, LoadHistory, Leave, GoalNews, Poll, StartRun, Receive, Read, Send
<1>. QED
  BY <1>1, <1>2, <1>3, <1>4, <1>5, <1>6, Steps

LEMMA UnpluggedStep ==
  ASSUME TypeOK, RunInRange, Unplugged, Unheard, Next
  PROVE  Unplugged'
<1>. SUFFICES ASSUME ~win'.conn, NEW t, t = task'
              PROVE  asks' = <<>> /\ wire' = <<>> /\ ~run'.here /\ \A k \in Both : t[k].at = "none"
  BY DEF Unplugged
<1>1. CASE Breaks
  <2>1. asks' = <<>> /\ wire' = <<>> /\ \A k \in Both : t[k] = NoTask
    BY <1>1, BreakShape DEF Breaks, Both
  <2>2. ~run'.here
    BY <1>1, BreakShape DEF Breaks, Unheard
  <2>. QED
    BY <2>1, <2>2 DEF NoTask
<1>2. CASE ~win.conn /\ ~Connect /\ ~Breaks
  <2>1. asks = <<>> /\ wire = <<>> /\ ~run.here /\ \A k \in Both : task[k].at = "none"
    BY <1>2 DEF Unplugged
  <2>2. ~Serve /\ ~Refuse /\ ~Accept /\ ~Receive /\ ~Poll /\ ~StartRun /\ ~\E k \in Both : Read(k) \/ Send(k)
    BY <1>2, <2>1 DEF Serve, Refuse, Accept, Receive, Poll, StartRun, Read, Send
  <2>3. RunSteps \/ Vanish \/ LoadHistory \/ Leave \/ GoalNews
    BY <1>2, <2>2, Steps DEF Both
  <2>4. ASSUME NEW w, EffectDoes(w), ~w.conn
        PROVE  asks' = <<>>
    BY <2>1, <2>4 DEF EffectDoes
  <2>5. asks' = <<>>
    <3>1. CASE RunSteps \/ Vanish
      BY <2>1, <3>1 DEF RunSteps, Prepare, PrepareFails, Emit, Reap, HostStart, ServeLate, Vanish
    <3>2. CASE LoadHistory
      BY <1>2, <2>4, <3>2, LoadShape DEF Same
    <3>3. CASE Leave
      BY <1>2, <2>4, <3>3, LeaveShape DEF Same
    <3>4. CASE GoalNews
      BY <1>2, <2>4, <3>4, NewsShape
    <3>. QED
      BY <2>3, <3>1, <3>2, <3>3, <3>4
  <2>6. wire' = <<>>
    BY <2>1, <2>3 DEF RunSteps, Prepare, PrepareFails, Emit, Reap, HostStart, ServeLate, Vanish,
                      LoadHistory, Leave, GoalNews
  <2>7. ~run'.here
    BY <1>2, <2>1, PhaseStep
  <2>8. ASSUME NEW k \in Both
        PROVE  t[k].at = "none"
    <3>1. TaskMoves(k, t[k])
      BY TaskStep
    <3>. QED
      BY <2>1, <2>2, <3>1 DEF TaskMoves, ReadLeaves, SendLeaves, NoTask, Both
  <2>. QED
    BY <2>5, <2>6, <2>7, <2>8
<1>3. ~Connect
  BY ConnectShape DEF EffectDoes
<1>. QED
  BY <1>1, <1>2, <1>3, Plugged

LEMMA UnheardStep ==
  ASSUME TypeOK, RunInRange, Unheard, Next
  PROVE  Unheard'
<1>. SUFFICES ASSUME run'.phase \in {"none", "late", "lost"}, NEW t, t = task', NEW q, q = wire'
              PROVE  /\ ~run'.here /\ \A k \in Both : t[k].at = "none"
                     /\ \A i \in 1..Len(q) : ~Live(q[i])
  BY DEF Unheard, Live
<1>1. CASE Breaks
  <2>1. q = <<>> /\ \A k \in Both : t[k] = NoTask
    BY <1>1, BreakShape DEF Breaks, Both
  <2>2. ~run'.here
    BY <1>1, BreakShape DEF Breaks, Unheard
  <2>. QED
    BY <2>1, <2>2 DEF NoTask
<1>2. CASE ~Breaks
  <2>1. run'.phase = run.phase /\ (run'.here = run.here \/ ~run'.here)
    BY <1>2, PhaseStep
  <2>2. ~run.here /\ (\A k \in Both : task[k].at = "none") /\ \A i \in 1..Len(wire) : ~Live(wire[i])
    BY <2>1 DEF Unheard
  <2>3. ASSUME NEW k \in Both
        PROVE  t[k].at = "none"
    <3>1. TaskMoves(k, t[k])
      BY TaskStep
    <3>. QED
      BY <2>1, <2>2, <3>1 DEF TaskMoves, ReadLeaves, SendLeaves, NoTask, Both
  <2>4. ASSUME NEW i \in 1..Len(q)
        PROVE  ~Live(q[i])
    <3>1. (\E j \in 1..Len(wire) : q[i] = wire[j]) \/ Comes(q[i])
      BY WireStep, WireHas
    <3>. QED
      BY <2>2, <3>1 DEF Comes, Sends, Live
  <2>. QED
    BY <2>1, <2>2, <2>3, <2>4
<1>. QED
  BY <1>1, <1>2

LEMMA RejectedStep ==
  ASSUME TypeOK, RunInRange, Rejected, Next
  PROVE  Rejected'
<1>. SUFFICES ASSUME NEW q, q = wire', Has(q, "rejected")
              PROVE  run'.phase = "failed"
  BY DEF Rejected, Has
<1>1. PICK i \in 1..Len(q) : q[i].kind = "rejected"
  BY DEF Has
<1>2. ~Breaks
  BY <1>1, BreakShape DEF Breaks
<1>3. \/ \E j \in 1..Len(wire) : q[i] = wire[j]
      \/ Comes(q[i]) /\ run'.phase = run.phase
  BY <1>1, WireStep, WireHas
<1>4. run.phase = "failed"
  BY <1>1, <1>3 DEF Rejected, Has, Comes, Sends, Live
<1>. QED
  BY <1>2, <1>4, PhaseStep

\* What a step takes from the bounds.
LEMMA LeftStep ==
  ASSUME TypeOK, Next
  PROVE  /\ left'.breaks <= left.breaks /\ left'.visits <= left.visits /\ left'.goals <= left.goals
         /\ Breaks => left'.breaks < left.breaks
         /\ Leave => left'.visits < left.visits
         /\ GoalNews => left'.goals < left.goals
<1>1. left.breaks \in Nat /\ left.visits \in Nat /\ left.goals \in Nat
  BY DEF TypeOK
<1>2. CASE \/ BridgeSteps \/ Connect \/ LoadHistory \/ Poll \/ StartRun \/ Receive
  <2>1. left' = left
    BY <1>2, BridgeShape DEF Connect, LoadHistory, Poll, StartRun, Receive
  <2>2. ~Breaks
    BY <1>1, <2>1, BreakShape DEF Breaks, TypeOK
  <2>3. ~Leave /\ ~GoalNews
    BY <1>1, <2>1, LeaveShape, NewsShape DEF TypeOK
  <2>. QED
    BY <1>1, <2>1, <2>2, <2>3
<1>3. CASE Leave
  BY <1>1, <1>3, LeaveShape, NewsShape, BreakShape DEF TypeOK, Breaks
<1>4. CASE GoalNews
  BY <1>1, <1>4, LeaveShape, NewsShape, BreakShape DEF TypeOK, Breaks
<1>5. CASE Breaks
  BY <1>1, <1>5, LeaveShape, NewsShape, BreakShape DEF TypeOK, Breaks
<1>. QED
  BY <1>2, <1>3, <1>4, <1>5, Steps DEF BridgeSteps

LEMMA BoundedStep ==
  ASSUME TypeOK, TypeOK', Bounded, Next
  PROVE  /\ Bounded'
         /\ left'.visits = MaxVisits => left.visits = MaxVisits /\ ~Leave
         /\ left'.goals = MaxGoalNews => left.goals = MaxGoalNews /\ ~GoalNews
         /\ left'.breaks = MaxBreaks => left.breaks = MaxBreaks /\ ~Breaks
<1>1. left.breaks \in Nat /\ left.visits \in Nat /\ left.goals \in Nat
      /\ left'.breaks \in Nat /\ left'.visits \in Nat /\ left'.goals \in Nat
      /\ MaxBreaks \in Nat /\ MaxVisits \in Nat /\ MaxGoalNews \in Nat
  BY RunDeliveryAssumption DEF TypeOK
<1>. QED
  BY <1>1, LeftStep DEF Bounded

LEMMA AbortedStep ==
  ASSUME TypeOK, Aborted, Next
  PROVE  Aborted'
<1>. SUFFICES ASSUME ~LateAbort, NEW v, v = task'["stray"]
              PROVE  v = NoTask
  BY DEF Aborted
<1>1. TaskMoves("stray", v)
  BY TaskStep DEF Both
<1>2. task["stray"] = NoTask /\ NoTask.at = "none"
  BY DEF Aborted, NoTask
<1>. QED
  BY <1>1, <1>2 DEF TaskMoves, ReadLeaves, SendLeaves

LEMMA UnvisitedStep ==
  ASSUME TypeOK, TypeOK', WindowPlaced, Bounded, Unvisited, Next
  PROVE  Unvisited'
<1>. SUFFICES ASSUME left'.visits = MaxVisits
              PROVE  ~win'.away /\ win'.whole
  BY DEF Unvisited
<1>1. win \in Windows /\ ~win.away /\ win.whole /\ ~Leave
  BY BoundedStep DEF TypeOK, Unvisited
<1>2. ASSUME NEW w, EffectDoes(w), ~w.away, w.whole
      PROVE  ~win'.away /\ win'.whole
  BY <1>2 DEF EffectDoes
<1>3. CASE BridgeSteps
  BY <1>1, <1>3, BridgeShape
<1>4. CASE Connect
  <2>1. PICK w : /\ Same(w, {"loaded", "away", "tracked", "seen", "view", "whole", "clean", "stale",
                            "listening", "observed", "outcome"})
                 /\ EffectDoes(w)
    BY <1>4, ConnectShape
  <2>2. ~w.away /\ w.whole
    BY <1>1, <2>1 DEF Same
  <2>. QED
    BY <1>2, <2>1, <2>2
<1>5. CASE GoalNews
  BY <1>1, <1>2, <1>5, NewsShape
<1>6. CASE LoadHistory
  <2>1. PICK w : EffectDoes(w) /\ ~w.away /\ w.whole = (~win.tracked \/ win.seen = 0) /\ (~win.loaded \/ win.away)
    BY <1>6, LoadShape
  <2>2. ~win.tracked
    BY <1>1, <2>1 DEF WindowPlaced
  <2>. QED
    BY <1>2, <2>1, <2>2
<1>7. CASE Poll
  BY <1>1, <1>7, PollShape
<1>8. CASE StartRun
  BY <1>1, <1>8, StartShape DEF TrackDoes
<1>9. CASE Receive
  <2>. DEFINE m == Head(wire)
  <2>1. Moves(m) \/ Refuses(m) \/ Finds(m) \/ Quiets(m) \/ Drops(m)
    BY <1>9, ReceiveShape
  <2>2. ASSUME NEW w, NEW outcome, ~w.away, w.whole, FinishDoes(w, outcome)
        PROVE  ~win'.away /\ win'.whole
    BY <1>2, <2>2 DEF FinishDoes
  <2>3. CASE Moves(m)
    <3>1. PICK w : /\ Same(w, {"conn", "loaded", "away", "tracked", "clean", "stale", "listening",
                               "observed", "outcome"})
                   /\ win' = w \/ FinishDoes(w, "ended")
                   /\ \/ w.whole = (win.whole /\ ~win.away)
                      \/ w.whole = (~win.away \/ (win.whole /\ m.seq = win.seen))
      BY <2>3 DEF Moves
    <3>2. ~w.away /\ w.whole
      BY <1>1, <3>1 DEF Same
    <3>. QED
      BY <2>2, <3>1, <3>2
  <2>4. CASE Refuses(m)
    BY <1>1, <2>2, <2>4 DEF Refuses
  <2>5. CASE Finds(m) \/ Quiets(m) \/ Drops(m)
    BY <1>1, <2>5 DEF Finds, TrackDoes, Quiets, Drops
  <2>. QED
    BY <2>1, <2>3, <2>4, <2>5
<1>10. CASE Breaks
  <2>1. CASE win' = NewWindow
    BY <2>1 DEF NewWindow
  <2>. QED
    BY <1>1, <1>10, <2>1, BreakShape DEF Breaks
<1>. QED
  BY <1>1, <1>3, <1>4, <1>5, <1>6, <1>7, <1>8, <1>9, <1>10, Steps DEF BridgeSteps

LEMMA PlacedStep ==
  ASSUME TypeOK, TypeOK', RunInRange, Placed, Next
  PROVE  Placed'
<1>1. WindowPlaced /\ Unplugged /\ Unheard /\ Rejected /\ Bounded /\ Unvisited /\ Aborted
  BY DEF Placed
<1>2. WindowPlaced'
  BY <1>1, WindowPlacedStep
<1>3. Unplugged'
  BY <1>1, UnpluggedStep
<1>4. Unheard'
  BY <1>1, UnheardStep
<1>5. Rejected'
  BY <1>1, RejectedStep
<1>6. Bounded'
  BY <1>1, BoundedStep
<1>7. Unvisited'
  BY <1>1, UnvisitedStep
<1>8. Aborted'
  BY <1>1, AbortedStep
<1>. QED
  BY <1>2, <1>3, <1>4, <1>5, <1>6, <1>7, <1>8 DEF Placed

-----------------------------------------------------------------------------
(* A run whose end is shown is not taken up again.                          *)

\* The run has not begun, and no list names it; a list that follows the end, on the
\* wire or in the window, names it with its last number, which the window has noted.
Early == run.phase \in {"none", "late"}
ListsRight ==
  \A j \in 1..Len(wire) : wire[j].kind = "runs" =>
    /\ ~Early
    /\ (\E i \in 1..(j - 1) : Live(wire[i]) /\ wire[i].end) => wire[j].seq = run.seq
    /\ win.outcome = "ended" => wire[j].seq = run.seq
Noted ==
  /\ win.outcome = "ended" /\ ~win.away => run.seq \in win.observed
  /\ win.away => ~win.listening
Listed == ListsRight /\ Noted

LEMMA ClosedOnce ==
  ASSUME TypeOK, RunInRange, Next, Closed \/ Ended
  PROVE  run'.seq = run.seq
<1>1. CASE RunSteps
  <2>1. RunMoves
    BY <1>1, RunShape DEF RunInRange
  <2>. QED
    BY <2>1 DEF RunMoves, Closed, Ended
<1>2. CASE Refuse
  BY <1>2, RefuseShape
<1>3. CASE Accept
  BY <1>3, AcceptShape
<1>4. CASE Serve
  BY <1>4, ServeShape DEF ServesStart, ServesAttach, ServesMissing, ServesList
<1>5. CASE Breaks
  BY <1>5, BreakShape DEF Breaks
<1>6. ASSUME \/ Vanish \/ Connect \/ LoadHistory \/ Leave \/ GoalNews \/ Poll \/ StartRun \/ Receive
             \/ \E k \in {"live", "stray"} : Read(k) \/ Send(k)
      PROVE  run' = run
  BY <1>6 DEF Vanish, Connect, LoadHistory, Leave, GoalNews, Poll, StartRun, Receive, Read, Send
<1>. QED
  BY <1>1, <1>2, <1>3, <1>4, <1>5, <1>6, Steps

\* The end that a message showed is noted with the number of the event.
EndArrives ==
  /\ wire # <<>> /\ wire' = Tail(wire) /\ Live(Head(wire)) /\ Head(wire).end
  /\ win'.observed = {Head(wire).seq} /\ UNCHANGED <<run, task, left>>

LEMMA OutcomeStep ==
  ASSUME TypeOK, EndsRight, Next, win'.outcome = "ended"
  PROVE  \/ win.outcome = "ended" /\ (win'.away \/ (win'.away = win.away /\ win'.observed = win.observed))
         \/ EndArrives
<1>1. ASSUME NEW w, EffectDoes(w)
      PROVE  win'.outcome = w.outcome /\ win'.away = w.away /\ win'.observed = w.observed
  BY <1>1 DEF EffectDoes
<1>2. CASE BridgeSteps
  BY <1>2, BridgeShape
<1>3. CASE Connect
  BY <1>1, <1>3, ConnectShape DEF Same
<1>4. CASE Leave
  <2>1. PICK w : /\ Same(w, {"conn", "loaded", "tracked", "seen", "view", "whole", "clean", "outcome"})
                 /\ w.away /\ EffectDoes(w)
    BY <1>4, LeaveShape
  <2>2. w.outcome = win.outcome
    BY <2>1 DEF Same
  <2>. QED
    BY <1>1, <2>1, <2>2
<1>5. CASE GoalNews
  BY <1>1, <1>5, NewsShape
<1>6. CASE LoadHistory
  <2>1. PICK w : w.outcome = (IF win.tracked THEN win.outcome ELSE "none") /\ EffectDoes(w)
    BY <1>6, LoadShape
  <2>2. win'.outcome = w.outcome
    BY <1>1, <2>1
  <2>. QED
    BY <2>1, <2>2 DEF EndsRight
<1>7. CASE Poll
  BY <1>7, PollShape
<1>8. CASE StartRun
  BY <1>8, StartShape DEF TrackDoes
<1>9. CASE Receive
  <2>. DEFINE m == Head(wire)
  <2>1. /\ wire # <<>> /\ wire' = Tail(wire) /\ UNCHANGED <<run, task, left>>
        /\ Moves(m) \/ Refuses(m) \/ Finds(m) \/ Quiets(m) \/ Drops(m)
    BY <1>9, ReceiveShape
  <2>2. ASSUME NEW w, NEW outcome, FinishDoes(w, outcome)
        PROVE  win'.outcome = outcome /\ win'.observed = {w.seen}
    BY <1>1, <2>2 DEF FinishDoes
  <2>3. CASE Moves(m)
    <3>1. PICK w : /\ Same(w, {"conn", "loaded", "away", "tracked", "clean", "stale", "listening",
                               "observed", "outcome"})
                   /\ Live(m) /\ w.seen = m.seq
                   /\ win' = w \/ (m.end /\ FinishDoes(w, "ended"))
      BY <2>3 DEF Moves
    <3>2. CASE win' = w
      BY <3>1, <3>2 DEF Same
    <3>3. CASE m.end /\ FinishDoes(w, "ended")
      BY <2>1, <2>2, <3>1, <3>3 DEF EndArrives
    <3>. QED
      BY <3>1, <3>2, <3>3
  <2>4. CASE Refuses(m)
    BY <2>2, <2>4 DEF Refuses
  <2>5. CASE Finds(m) \/ Quiets(m) \/ Drops(m)
    BY <2>5 DEF Finds, TrackDoes, Quiets, Drops
  <2>. QED
    BY <2>1, <2>3, <2>4, <2>5
<1>10. CASE Breaks
  <2>1. CASE win' = NewWindow
    BY <2>1 DEF NewWindow
  <2>. QED
    BY <1>10, <2>1, BreakShape DEF Breaks
<1>. QED
  BY <1>2, <1>3, <1>4, <1>5, <1>6, <1>7, <1>8, <1>9, <1>10, Steps DEF BridgeSteps

LEMMA ListsRightStep ==
  ASSUME TypeOK, RunInRange, EndsRight, ListsRight, Next
  PROVE  ListsRight'
<1>. SUFFICES ASSUME NEW q, q = wire', NEW j \in 1..Len(q), q[j].kind = "runs"
              PROVE  /\ ~Early'
                     /\ (\E i \in 1..(j - 1) : Live(q[i]) /\ q[i].end) => q[j].seq = run'.seq
                     /\ win'.outcome = "ended" => q[j].seq = run'.seq
  BY DEF ListsRight, Live
<1>1. wire \in Seq(Messages)
  BY DEF TypeOK
<1>2. ~Breaks
  BY BreakShape DEF Breaks
<1>3. ~Early
  <2>1. (\E i \in 1..Len(wire) : q[j] = wire[i]) \/ Comes(q[j])
    BY WireStep, WireHas
  <2>. QED
    BY <2>1 DEF ListsRight, Comes, Known, Early, Sends, Live
<1>4. ~Early'
  BY <1>2, <1>3, PhaseStep DEF Early
<1>5. ASSUME NEW i \in 1..Len(wire), Live(wire[i]), wire[i].end
      PROVE  run'.seq = run.seq
  BY <1>5, ClosedOnce DEF EndsRight
<1>6. win'.outcome = "ended" => win.outcome = "ended" \/ EndArrives
  BY OutcomeStep
<1>7. win.outcome = "ended" => run'.seq = run.seq
  BY ClosedOnce DEF EndsRight
<1>8. CASE q = wire
  <2>1. ~EndArrives
    <3>1. wire # <<>> => Len(Tail(wire)) < Len(wire)
      BY <1>1
    <3>. QED
      BY <1>8, <3>1 DEF EndArrives
  <2>2. (\E i \in 1..(j - 1) : Live(q[i]) /\ q[i].end) => q[j].seq = run'.seq
    <3>1. ASSUME NEW i \in 1..(j - 1), Live(q[i]), q[i].end
          PROVE  q[j].seq = run'.seq
      <4>1. i \in 1..Len(wire) /\ run'.seq = run.seq
        BY <1>1, <1>5, <1>8, <3>1
      <4>. QED
        BY <1>8, <3>1, <4>1 DEF ListsRight
    <3>. QED
      BY <3>1
  <2>. QED
    BY <1>4, <1>6, <1>7, <1>8, <2>1, <2>2 DEF ListsRight
<1>9. CASE wire # <<>> /\ q = Tail(wire)
  <2>1. /\ j + 1 \in 1..Len(wire) /\ q[j] = wire[j + 1] /\ 1 \in 1..Len(wire) /\ Head(wire) = wire[1]
        /\ 1 \in 1..((j + 1) - 1)
    BY <1>1, <1>9, InTail
  <2>2. (\E i \in 1..(j - 1) : Live(q[i]) /\ q[i].end) => q[j].seq = run'.seq
    <3>1. ASSUME NEW i \in 1..(j - 1), Live(q[i]), q[i].end
          PROVE  q[j].seq = run'.seq
      <4>1. i + 1 \in 1..Len(wire) /\ q[i] = wire[i + 1] /\ i + 1 \in 1..((j + 1) - 1)
        BY <1>1, <1>9, <2>1, InTail
      <4>2. run'.seq = run.seq
        BY <1>5, <3>1, <4>1
      <4>. QED
        BY <2>1, <3>1, <4>1, <4>2 DEF ListsRight
    <3>. QED
      BY <3>1
  <2>3. CASE EndArrives
    <3>1. q[j].seq = run.seq
      BY <2>1, <2>3 DEF EndArrives, ListsRight
    <3>2. run' = run
      BY <2>3 DEF EndArrives
    <3>. QED
      BY <1>4, <3>1, <3>2
  <2>4. win.outcome = "ended" => q[j].seq = run'.seq
    BY <1>7, <2>1 DEF ListsRight
  <2>. QED
    BY <1>4, <1>6, <2>2, <2>3, <2>4
<1>10. CASE q = <<>>
  BY <1>10
<1>11. CASE \E m \in Messages : /\ q = Append(wire, m) /\ Comes(m)
                                /\ run'.phase = run.phase /\ run'.seq = run.seq
  <2>1. PICK m \in Messages : q = Append(wire, m) /\ Comes(m) /\ run'.seq = run.seq
    BY <1>11
  <2>2. ~EndArrives
    <3>1. wire # <<>> => Len(Tail(wire)) < Len(wire)
      BY <1>1
    <3>. QED
      BY <1>1, <2>1, <3>1 DEF EndArrives
  <2>3. CASE j = Len(wire) + 1
    <3>1. q[j] = m
      BY <1>1, <2>1, <2>3
    <3>2. m.seq = run.seq
      BY <2>1, <3>1 DEF Comes, Sends, Live
    <3>. QED
      BY <1>4, <2>1, <3>1, <3>2
  <2>4. CASE j \in 1..Len(wire)
    <3>1. q[j] = wire[j] /\ \A i \in 1..(j - 1) : q[i] = wire[i]
      BY <1>1, <2>1, <2>4
    <3>2. /\ (\E i \in 1..(j - 1) : Live(wire[i]) /\ wire[i].end) => wire[j].seq = run.seq
          /\ win.outcome = "ended" => wire[j].seq = run.seq
      BY <2>4, <3>1 DEF ListsRight
    <3>. QED
      BY <1>4, <1>6, <2>1, <2>2, <3>1, <3>2
  <2>5. j \in 1..Len(wire) \/ j = Len(wire) + 1
    BY <1>1, <2>1, InAppend
  <2>. QED
    BY <2>3, <2>4, <2>5
<1>12. WireMoves
  BY WireStep
<1>. QED
  BY <1>8, <1>9, <1>10, <1>11, <1>12 DEF WireMoves

LEMMA NotedStep ==
  ASSUME TypeOK, RunInRange, EndsRight, Noted, Next
  PROVE  Noted'
<1>1. win \in Windows
  BY DEF TypeOK
<1>2. ASSUME win'.outcome = "ended", ~win'.away
      PROVE  run'.seq \in win'.observed
  <2>1. CASE EndArrives
    <3>1. /\ wire # <<>> /\ Live(Head(wire)) /\ Head(wire).end /\ win'.observed = {Head(wire).seq}
          /\ run' = run
      BY <2>1 DEF EndArrives
    <3>2. 1 \in 1..Len(wire) /\ Head(wire) = wire[1]
      BY <3>1, InTail DEF TypeOK
    <3>3. Head(wire).seq = run.seq
      BY <3>1, <3>2 DEF EndsRight
    <3>. QED
      BY <3>1, <3>3
  <2>2. CASE win.outcome = "ended" /\ win'.away = win.away /\ win'.observed = win.observed
    <3>1. run'.seq = run.seq
      BY <2>2, ClosedOnce DEF EndsRight
    <3>. QED
      BY <1>2, <2>2, <3>1 DEF Noted
  <2>. QED
    BY <1>2, <2>1, <2>2, OutcomeStep
<1>3. ASSUME win'.away
      PROVE  ~win'.listening
  <2>1. ASSUME NEW w, EffectDoes(w), ~w.away \/ ~w.listening
        PROVE  ~win'.listening
    BY <1>3, <2>1 DEF EffectDoes
  <2>2. CASE BridgeSteps
    BY <1>3, <2>2, BridgeShape DEF Noted
  <2>3. CASE Connect
    <3>1. PICK w : /\ Same(w, {"loaded", "away", "tracked", "seen", "view", "whole", "clean", "stale",
                              "listening", "observed", "outcome"})
                   /\ EffectDoes(w)
      BY <2>3, ConnectShape
    <3>2. ~w.away \/ ~w.listening
      BY <3>1 DEF Same, Noted
    <3>. QED
      BY <2>1, <3>1, <3>2
  <2>4. CASE Leave
    BY <2>1, <2>4, LeaveShape
  <2>5. CASE GoalNews
    BY <2>1, <2>5, NewsShape DEF Noted
  <2>6. CASE LoadHistory
    BY <2>1, <2>6, LoadShape
  <2>7. CASE Poll
    BY <1>3, <2>7, PollShape
  <2>8. CASE StartRun
    BY <2>8, StartShape DEF TrackDoes
  <2>9. CASE Receive
    <3>. DEFINE m == Head(wire)
    <3>1. Moves(m) \/ Refuses(m) \/ Finds(m) \/ Quiets(m) \/ Drops(m)
      BY <2>9, ReceiveShape
    <3>2. ASSUME NEW w, NEW outcome, ~w.away \/ ~w.listening, FinishDoes(w, outcome)
          PROVE  ~win'.listening
      <4>1. PICK v \in Windows : v.away = w.away /\ v.listening = w.listening /\ EffectDoes(v)
        BY <3>2 DEF FinishDoes
      <4>. QED
        BY <2>1, <3>2, <4>1
    <3>3. CASE Moves(m)
      <4>1. PICK w : /\ Same(w, {"conn", "loaded", "away", "tracked", "clean", "stale", "listening",
                                 "observed", "outcome"})
                     /\ win' = w \/ FinishDoes(w, "ended")
        BY <3>3 DEF Moves
      <4>2. ~w.away \/ ~w.listening
        BY <4>1 DEF Same, Noted
      <4>. QED
        BY <1>3, <3>2, <4>1, <4>2
    <3>4. CASE Refuses(m)
      BY <3>2, <3>4 DEF Refuses, Noted
    <3>5. CASE Finds(m) \/ Quiets(m) \/ Drops(m)
      BY <1>3, <3>5 DEF Finds, TrackDoes, Quiets, Drops, Noted
    <3>. QED
      BY <3>1, <3>3, <3>4, <3>5
  <2>10. CASE Breaks
    <3>1. CASE win' = NewWindow
      BY <3>1 DEF NewWindow
    <3>. QED
      BY <1>3, <2>10, <3>1, BreakShape DEF Breaks, Noted
  <2>. QED
    BY <2>2, <2>3, <2>4, <2>5, <2>6, <2>7, <2>8, <2>9, <2>10, Steps DEF BridgeSteps
<1>. QED
  BY <1>2, <1>3 DEF Noted

LEMMA ListedStep ==
  ASSUME TypeOK, RunInRange, EndsRight, Listed, Next
  PROVE  Listed'
  BY ListsRightStep, NotedStep DEF Listed

LEMMA NotTakenAgain ==
  ASSUME TypeOK, EndsRight, Listed, Next, win.outcome = "ended"
  PROVE  ~win'.tracked
<1>. SUFFICES ASSUME win'.tracked
              PROVE  FALSE
  OBVIOUS
<1>1. Closed /\ ~win.tracked
  BY DEF EndsRight
<1>2. TakesOn
  BY <1>1, WindowKeepsOn DEF KeepsOn, MovesOn
<1>3. CASE StartRun
  BY <1>1, <1>3, StartShape DEF Closed
<1>4. CASE wire # <<>> /\ Finds(Head(wire))
  <2>1. 1 \in 1..Len(wire) /\ Head(wire) = wire[1]
    BY <1>4, InTail DEF TypeOK
  <2>2. Head(wire).kind = "runs" /\ win.listening /\ Head(wire).seq \notin win.observed
    BY <1>4 DEF Finds
  <2>. QED
    BY <2>1, <2>2 DEF Listed, ListsRight, Noted
<1>. QED
  BY <1>2, <1>3, <1>4 DEF TakesOn

-----------------------------------------------------------------------------
(* What a step asks for.                                                    *)

\* The run has not begun or goes on.
Young == Early \/ Going
\* What becomes of the requests.
AsksMove ==
  \/ asks' = asks
  \/ Serve /\ asks # <<>> /\ asks' = Tail(asks)
  \/ asks' = Append(asks, List)
  \/ asks' = <<>>
  \/ KeepsOn /\ (\E fresh \in BOOLEAN : asks' = Append(asks, Attach(fresh, win.seen)))
     /\ (Connect \/ LoadHistory \/ Leave \/ GoalNews)
  \/ TakesOn

LEMMA AsksStep ==
  ASSUME TypeOK, Next
  PROVE  AsksMove
<1>1. CASE win'.tracked
  <2>1. KeepsOn \/ MovesOn \/ TakesOn
    BY <1>1, WindowKeepsOn
  <2>2. CASE KeepsOn
    BY <2>2 DEF KeepsOn, AsksMove
  <2>. QED
    BY <2>1, <2>2 DEF MovesOn, AsksMove
<1>2. CASE ~win'.tracked
  <2>1. ASSUME NEW w, EffectDoes(w)
        PROVE  AsksMove
    BY <1>2, <2>1 DEF EffectDoes, AsksMove
  <2>2. CASE BridgeSteps
    <3>1. asks' = asks \/ Serve
      BY <2>2, BridgeShape
    <3>. QED
      BY <3>1, ServeShape DEF AsksMove
  <2>3. CASE Connect
    BY <2>1, <2>3, ConnectShape
  <2>4. CASE Leave
    BY <2>1, <2>4, LeaveShape
  <2>5. CASE GoalNews
    BY <2>1, <2>5, NewsShape
  <2>6. CASE LoadHistory
    BY <2>1, <2>6, LoadShape
  <2>7. CASE Poll
    BY <2>7, PollShape DEF AsksMove
  <2>8. CASE StartRun
    BY <1>2, <2>8, StartShape DEF TrackDoes
  <2>9. CASE Receive
    <3>. DEFINE m == Head(wire)
    <3>1. Moves(m) \/ Refuses(m) \/ Finds(m) \/ Quiets(m) \/ Drops(m)
      BY <2>9, ReceiveShape
    <3>2. ASSUME NEW w, NEW outcome, FinishDoes(w, outcome)
          PROVE  AsksMove
      BY <2>1, <3>2 DEF FinishDoes
    <3>3. CASE Moves(m)
      BY <3>2, <3>3 DEF Moves, AsksMove
    <3>4. CASE Refuses(m)
      BY <3>2, <3>4 DEF Refuses
    <3>5. CASE Finds(m) \/ Quiets(m) \/ Drops(m)
      BY <1>2, <3>5 DEF Finds, TrackDoes, Quiets, Drops, AsksMove
    <3>. QED
      BY <3>1, <3>3, <3>4, <3>5
  <2>10. CASE Breaks
    BY <2>10, BreakShape DEF Breaks, AsksMove
  <2>. QED
    BY <2>2, <2>3, <2>4, <2>5, <2>6, <2>7, <2>8, <2>9, <2>10, Steps DEF BridgeSteps
<1>. QED
  BY <1>1, <1>2

\* Only a start in StartRun, and only an attach of a window that shows a run.
LEMMA AsksHave ==
  ASSUME TypeOK, Next, NEW a, a = asks'
  PROVE  /\ Has(a, "start") => Has(asks, "start") \/ (StartRun /\ TakesOn)
         /\ Has(a, "attach") => Has(asks, "attach") \/ TakesOn
                                \/ (KeepsOn /\ (Connect \/ LoadHistory \/ Leave \/ GoalNews))
<1>1. asks \in Seq(Asks) /\ win.seen \in Nat /\ win.stale \in BOOLEAN
  BY DEF TypeOK, Windows
<1>2. AsksMove
  BY AsksStep
<1>3. CASE a = asks \/ a = <<>>
  BY <1>3 DEF Has
<1>4. CASE asks # <<>> /\ a = Tail(asks)
  <2>1. \A kind : Has(a, kind) => Has(asks, kind)
    BY <1>1, <1>4, HasTail
  <2>. QED
    BY <2>1
<1>5. CASE a = Append(asks, List)
  <2>1. List \in Asks /\ List.kind = "list"
    BY AskKinds
  <2>2. \A kind : kind # "list" => (Has(a, kind) <=> Has(asks, kind))
    BY <1>1, <1>5, <2>1, HasAppend
  <2>. QED
    BY <2>2
<1>6. CASE /\ KeepsOn /\ (\E fresh \in BOOLEAN : a = Append(asks, Attach(fresh, win.seen)))
           /\ Connect \/ LoadHistory \/ Leave \/ GoalNews
  <2>1. PICK b \in Asks : b.kind = "attach" /\ a = Append(asks, b)
    BY <1>1, <1>6, AskKinds
  <2>2. Has(a, "start") <=> Has(asks, "start")
    BY <1>1, <2>1, HasAppend
  <2>. QED
    BY <1>6, <2>2
<1>7. CASE TakesOn
  <2>1. CASE StartRun
    BY <1>7, <2>1
  <2>2. CASE ~StartRun
    <3>0. a = asks \o <<Attach(TRUE, 0), Attach(win.stale, 0)>>
      BY <1>7, <2>2 DEF TakesOn, Finds
    <3>1. PICK b \in Asks, c \in Asks : b.kind = "attach" /\ c.kind = "attach" /\ a = asks \o <<b, c>>
      BY <1>1, <3>0, AskKinds
    <3>2. Has(a, "start") <=> Has(asks, "start")
      BY <1>1, <3>1, HasTwo
    <3>. QED
      BY <1>7, <3>2
  <2>. QED
    BY <2>1, <2>2
<1>. QED
  BY <1>2, <1>3, <1>4, <1>5, <1>6, <1>7 DEF AsksMove

\* A run does not get younger.
LEMMA YoungOnce ==
  ASSUME TypeOK, RunInRange, Next
  PROVE  /\ Early' => Early
         /\ Young' => Young
         /\ run'.phase = "none" => run.phase \in {"none", "late"}
<1>. SUFFICES ASSUME NEW r, r = run'
              PROVE  /\ r.phase \in {"none", "late"} => run.phase \in {"none", "late"}
                     /\ r.phase \in {"none", "late", "reserved", "running"} =>
                          run.phase \in {"none", "late", "reserved", "running"}
  BY DEF Early, Young, Going
<1>1. CASE RunSteps
  <2>1. RunMoves
    BY <1>1, RunShape DEF RunInRange
  <2>. QED
    BY <2>1 DEF RunMoves
<1>2. CASE Refuse
  BY <1>2, RefuseShape
<1>3. CASE Accept
  BY <1>3, AcceptShape
<1>4. CASE Serve
  <2>1. run' = run \/ run.phase = "none"
    BY <1>4, ServeShape DEF ServesStart, ServesAttach, ServesMissing, ServesList
  <2>. QED
    BY <2>1
<1>5. CASE Breaks
  <2>1. \/ run'.phase = run.phase
        \/ run'.phase = "late" /\ run.phase = "none"
        \/ run'.phase = "lost"
        \/ run'.phase = "none" /\ run.phase = "late"
    BY <1>5, BreakShape DEF Breaks
  <2>. QED
    BY <2>1
<1>6. ASSUME \/ Vanish \/ Connect \/ LoadHistory \/ Leave \/ GoalNews \/ Poll \/ StartRun \/ Receive
             \/ \E k \in {"live", "stray"} : Read(k) \/ Send(k)
      PROVE  run' = run
  BY <1>6 DEF Vanish, Connect, LoadHistory, Leave, GoalNews, Poll, StartRun, Receive, Read, Send
<1>. QED
  BY <1>1, <1>2, <1>3, <1>4, <1>5, <1>6, Steps

-----------------------------------------------------------------------------
(* With a host's run, the window asks for none, and finds it when it began. *)

\* Without a break the window finds the host's run only when it has begun.
NeverBroken ==
  left.breaks = MaxBreaks =>
    /\ Early => ~win.tracked /\ ~Has(asks, "attach")
    /\ Has(wire, "missing") => ~Young
    /\ win.tracked => win.conn
Hosted ==
  HostGoal => /\ ~Has(asks, "start") /\ ~run.here /\ run.phase # "late"
              /\ NeverBroken

LEMMA HostedStep ==
  ASSUME TypeOK, TypeOK', RunInRange, Placed, ListsRight, Hosted, Next
  PROVE  Hosted'
<1>. SUFFICES ASSUME HostGoal, NEW a, a = asks', NEW q, q = wire'
              PROVE  /\ ~Has(a, "start") /\ ~run'.here /\ run'.phase # "late"
                     /\ left'.breaks = MaxBreaks =>
                          /\ Early' => ~win'.tracked /\ ~Has(a, "attach")
                          /\ Has(q, "missing") => ~Young'
                          /\ win'.tracked => win'.conn
  BY DEF Hosted, NeverBroken, Has, Young, Early, Going
<1>1. /\ asks \in Seq(Asks) /\ wire \in Seq(Messages)
      /\ ~Has(asks, "start") /\ ~run.here /\ run.phase # "late" /\ NeverBroken
  BY DEF TypeOK, Hosted
<1>2. ~StartRun
  BY StartShape
<1>3. ~Has(a, "start")
  BY <1>1, <1>2, AsksHave
<1>4. asks # <<>> => Head(asks).kind # "start"
  BY <1>1, HasTail
<1>5. ~run'.here
  BY <1>1, <1>4, PhaseStep
<1>6. run'.phase # "late"
  <2>1. CASE Breaks
    BY <1>1, <2>1, BreakShape DEF Breaks
  <2>. QED
    BY <1>1, <2>1, PhaseStep
<1>7. ASSUME left'.breaks = MaxBreaks
      PROVE  /\ Early' => ~win'.tracked /\ ~Has(a, "attach")
             /\ Has(q, "missing") => ~Young'
             /\ win'.tracked => win'.conn
  <2>1. left.breaks = MaxBreaks /\ ~Breaks
    BY <1>7, BoundedStep DEF Placed
  <2>2. /\ Early => ~win.tracked /\ ~Has(asks, "attach")
        /\ Has(wire, "missing") => ~Young
        /\ win.tracked => win.conn
    BY <1>1, <2>1 DEF NeverBroken
  <2>3. ASSUME TakesOn
        PROVE  ~Early /\ win.conn /\ win'.conn = win.conn
    <3>1. wire # <<>> /\ Finds(Head(wire)) /\ TrackDoes
      BY <1>2, <2>3 DEF TakesOn
    <3>2. 1 \in 1..Len(wire) /\ Head(wire) = wire[1] /\ wire[1].kind = "runs"
      BY <1>1, <3>1, InTail DEF Finds
    <3>3. win.conn
      BY <3>1 DEF Placed, Unplugged
    <3>. QED
      BY <3>1, <3>2, <3>3 DEF ListsRight, TrackDoes
  <2>4. ASSUME Early'
        PROVE  ~win'.tracked /\ ~Has(a, "attach")
    <3>1. Early
      BY <2>4, YoungOnce
    <3>. QED
      BY <2>2, <2>3, <3>1, AsksHave, WindowKeepsOn DEF KeepsOn, MovesOn
  <2>5. ASSUME Has(q, "missing")
        PROVE  ~Young'
    <3>1. PICK i \in 1..Len(q) : q[i].kind = "missing"
      BY <2>5 DEF Has
    <3>2. CASE \E j \in 1..Len(wire) : q[i] = wire[j]
      <4>1. Has(wire, "missing")
        BY <3>1, <3>2 DEF Has
      <4>. QED
        BY <2>2, <4>1, YoungOnce
    <3>3. CASE Comes(q[i])
      <4>1. Serve /\ ServesMissing
        BY <3>1, <3>3 DEF Comes, Sends, Live
      <4>2. ~Known /\ Has(asks, "attach")
        BY <1>1, <4>1, ServeShape, HasTail DEF ServesMissing
      <4>. QED
        BY <2>2, <4>2, YoungOnce DEF Known, Young, Going
    <3>. QED
      BY <3>1, <3>2, <3>3, WireStep, WireHas
  <2>6. ASSUME win'.tracked
        PROVE  win'.conn
    <3>1. CASE KeepsOn
      <4>1. win.conn
        BY <2>2, <3>1 DEF KeepsOn
      <4>. QED
        BY <2>1, <4>1, Plugged, ConnectShape DEF EffectDoes
    <3>2. CASE MovesOn
      BY <2>2, <3>2 DEF MovesOn
    <3>. QED
      BY <2>3, <2>6, <3>1, <3>2, WindowKeepsOn
  <2>. QED
    BY <2>4, <2>5, <2>6
<1>. QED
  BY <1>3, <1>5, <1>6, <1>7

-----------------------------------------------------------------------------
(* Where only sockets were lost, or only histories were loaded again, the   *)
(* window takes the run up from its first event with nothing on its way.    *)

\* No news about the goal, and breaks only or visits only: visits to a host's run
\* whose aborted forwarders stop at once.
Alone ==
  /\ left.goals = MaxGoalNews
  /\ left.visits = MaxVisits \/ (HostGoal /\ ~LateAbort /\ left.breaks = MaxBreaks)
StartFirst(q) ==
  \A i, j \in 1..Len(q) : q[i].kind = "start" /\ q[j].kind = "attach" => i < j

\* Nothing of the run is under way.
Vacant ==
  /\ \A k \in Both : task[k].at = "none"
  /\ \A i \in 1..Len(wire) : ~Live(wire[i])
  /\ ~Has(asks, "attach") /\ ~Has(asks, "start") /\ ~run.here
\* The window takes a run up when nothing of it is under way, so what it shows from
\* then on is clean; a run that is missing is so for a single attach, before its start.
Untaken == Young /\ ~win.tracked => Vacant
Clean == Young /\ win.tracked => win.clean
MissingOnce == Young /\ Has(wire, "missing") => win.tracked /\ Vacant /\ Single(wire, "missing")
AttachOnce ==
  Early /\ ~Has(asks, "start") /\ Has(asks, "attach") => Single(asks, "attach") /\ ~Has(wire, "missing")
StartOnce ==
  Has(asks, "start") => /\ run.phase = "none" /\ Single(asks, "start") /\ StartFirst(asks)
                        /\ Single(asks, "attach")
Sole == Alone => Untaken /\ Clean /\ MissingOnce /\ AttachOnce /\ StartOnce

\* Who is alone was alone, and asks for an attach only after a lost socket, or,
\* on a window that was never disconnected, for a run that has begun.
LEMMA AloneStep ==
  ASSUME TypeOK, TypeOK', Placed, Next, Alone'
  PROVE  /\ Alone /\ ~GoalNews
         /\ \/ left.visits = MaxVisits /\ ~Leave /\ ~win.away /\ win.whole
            \/ HostGoal /\ ~LateAbort /\ left.breaks = MaxBreaks /\ ~Breaks
  BY BoundedStep DEF Alone, Placed, Unvisited

LEMMA AttachAlone ==
  ASSUME TypeOK, TypeOK', Placed, Hosted, Next, Alone', win.tracked,
         Connect \/ LoadHistory \/ Leave \/ GoalNews
  PROVE  \/ asks = <<>> /\ wire = <<>>
         \/ ~Early /\ ~Has(asks, "start") /\ (Has(wire, "missing") => ~Young)
<1>1. CASE left.visits = MaxVisits /\ ~Leave /\ ~win.away
  <2>1. win.loaded
    BY DEF Placed, WindowPlaced
  <2>2. ~LoadHistory
    BY <1>1, <2>1, LoadShape
  <2>3. Connect
    BY <1>1, <2>2, AloneStep
  <2>. QED
    BY <2>3, ConnectShape DEF Placed, Unplugged
<1>2. CASE HostGoal /\ left.breaks = MaxBreaks
  BY <1>2 DEF Hosted, NeverBroken
<1>. QED
  BY <1>1, <1>2, AloneStep

LEMMA VacantFree ==
  ASSUME Vacant
  PROVE  ~Busy
  BY DEF Vacant, Busy, Has, Live, Both

\* Only an attach or a start ends the vacancy.
LEMMA VacantStep ==
  ASSUME TypeOK, RunInRange, Vacant, Next, NEW a, a = asks', ~Has(a, "attach"), ~Has(a, "start")
  PROVE  Vacant'
<1>. SUFFICES ASSUME NEW t, t = task', NEW q, q = wire'
              PROVE  /\ \A k \in Both : t[k].at = "none"
                     /\ \A i \in 1..Len(q) : ~Live(q[i])
                     /\ ~run'.here
  BY DEF Vacant, Has, Live
<1>1. asks # <<>> => Head(asks).kind \notin {"attach", "start"}
  BY HasTail DEF Vacant, TypeOK
<1>2. ~run'.here
  BY <1>1, PhaseStep DEF Vacant
<1>3. ~Accept
  BY AcceptShape DEF Vacant
<1>4. ASSUME NEW k \in Both
      PROVE  t[k].at = "none"
  <2>1. TaskMoves(k, t[k])
    BY TaskStep
  <2>. QED
    BY <1>1, <1>3, <2>1 DEF TaskMoves, ReadLeaves, SendLeaves, NoTask, Both, Vacant
<1>5. ASSUME NEW i \in 1..Len(q)
      PROVE  ~Live(q[i])
  <2>1. (\E j \in 1..Len(wire) : q[i] = wire[j]) \/ Comes(q[i])
    BY WireStep, WireHas
  <2>. QED
    BY <2>1 DEF Comes, Sends, Live, Vacant
<1>. QED
  BY <1>2, <1>4, <1>5

\* A window that drops a young run leaves nothing of it on its way.
LEMMA DropsVacant ==
  ASSUME TypeOK, RunInRange, EndsRight, Placed, MissingOnce, Next, Young, win.tracked, ~win'.tracked
  PROVE  Vacant'
<1>1. win \in Windows
  BY DEF TypeOK
<1>2. ASSUME NEW w, EffectDoes(w), w.tracked
      PROVE  FALSE
  BY <1>2 DEF EffectDoes
<1>3. ~BridgeSteps
  BY BridgeShape
<1>4. ~Connect /\ ~Leave /\ ~GoalNews /\ ~LoadHistory
  <2>1. ~Connect
    <3>1. ASSUME Connect
          PROVE  FALSE
      <4>1. PICK w : /\ Same(w, {"loaded", "away", "tracked", "seen", "view", "whole", "clean", "stale",
                                "listening", "observed", "outcome"})
                     /\ EffectDoes(w)
        BY <3>1, ConnectShape
      <4>. QED
        BY <1>2, <4>1 DEF Same
    <3>. QED
      BY <3>1
  <2>2. ~Leave
    <3>1. ASSUME Leave
          PROVE  FALSE
      <4>1. PICK w : /\ Same(w, {"conn", "loaded", "tracked", "seen", "view", "whole", "clean", "outcome"})
                     /\ EffectDoes(w)
        BY <3>1, LeaveShape
      <4>. QED
        BY <1>2, <4>1 DEF Same
    <3>. QED
      BY <3>1
  <2>3. ~GoalNews
    BY <1>2, NewsShape
  <2>4. ~LoadHistory
    <3>1. ASSUME LoadHistory
          PROVE  FALSE
      <4>1. PICK w : Same(w, {"conn", "tracked", "clean"}) /\ EffectDoes(w)
        BY <3>1, LoadShape
      <4>. QED
        BY <1>2, <4>1 DEF Same
    <3>. QED
      BY <3>1
  <2>. QED
    BY <2>1, <2>2, <2>3, <2>4
<1>5. ~Poll /\ ~StartRun
  BY PollShape, StartShape
<1>6. CASE Breaks
  <2>. SUFFICES ASSUME NEW t, t = task', NEW q, q = wire', NEW a, a = asks'
                PROVE  /\ \A k \in Both : t[k].at = "none"
                       /\ \A i \in 1..Len(q) : ~Live(q[i])
                       /\ ~Has(a, "attach") /\ ~Has(a, "start") /\ ~run'.here
    BY DEF Vacant, Has, Live
  <2>1. a = <<>> /\ q = <<>> /\ \A k \in Both : t[k] = NoTask
    BY <1>6, BreakShape DEF Breaks, Both
  <2>2. ~run'.here
    BY <1>6, BreakShape DEF Breaks, Placed, Unheard
  <2>. QED
    BY <2>1, <2>2 DEF NoTask, Has
<1>7. CASE Receive
  <2>. DEFINE m == Head(wire)
  <2>1. wire # <<>> /\ UNCHANGED run /\ (Moves(m) \/ Refuses(m) \/ Finds(m) \/ Quiets(m) \/ Drops(m))
    BY <1>7, ReceiveShape
  <2>2. 1 \in 1..Len(wire) /\ m = wire[1]
    <3>1. wire # <<>> /\ wire \in Seq(Messages)
      BY <2>1 DEF TypeOK
    <3>. QED
      BY <3>1, InTail
  <2>3. CASE Moves(m)
    <3>1. PICK w : Same(w, {"tracked"}) /\ Live(m) /\ (win' = w \/ m.end)
      BY <2>3 DEF Moves, Same
    <3>2. m.end
      BY <3>1 DEF Same
    <3>3. Ended
      BY <2>2, <3>1, <3>2 DEF EndsRight
    <3>. QED
      BY <3>3 DEF Ended, Young, Early, Going
  <2>4. CASE Refuses(m)
    <3>1. m.kind \in {"rejected", "missing"}
      BY <2>4 DEF Refuses
    <3>2. m.kind # "rejected"
      BY <2>2 DEF Placed, Rejected, Has, Young, Early, Going
    <3>3. Vacant
      BY <2>2, <3>1, <3>2 DEF MissingOnce, Has
    <3>. QED
      <4>1. PICK outcome \in {"unknown", "rejected"} : FinishDoes(win, outcome)
        BY <2>4 DEF Refuses
      <4>2. asks' = asks \/ asks' = Append(asks, List)
        BY <4>1 DEF FinishDoes, EffectDoes
      <4>. SUFFICES ASSUME NEW a, a = asks'
                    PROVE  ~Has(a, "attach") /\ ~Has(a, "start")
        BY <3>3, VacantStep
      <4>3. List \in Asks /\ List.kind = "list" /\ asks \in Seq(Asks)
        BY AskKinds DEF TypeOK
      <4>4. ~Has(asks, "attach") /\ ~Has(asks, "start")
        BY <3>3 DEF Vacant
      <4>5. CASE a = Append(asks, List)
        <5>1. \A kind : Has(a, kind) => Has(asks, kind) \/ List.kind = kind
          BY <4>3, <4>5, HasAppend
        <5>. QED
          BY <4>3, <4>4, <5>1
      <4>. QED
        BY <4>2, <4>4, <4>5
  <2>5. CASE Finds(m) \/ Quiets(m) \/ Drops(m)
    BY <2>5 DEF Finds, TrackDoes, Quiets, Drops
  <2>. QED
    BY <2>1, <2>3, <2>4, <2>5
<1>. QED
  BY <1>3, <1>4, <1>5, <1>6, <1>7, Steps DEF BridgeSteps

LEMMA UntakenStep ==
  ASSUME TypeOK, TypeOK', RunInRange, EndsRight, Placed, MissingOnce, Untaken, Next
  PROVE  Untaken'
<1>. SUFFICES ASSUME Young', ~win'.tracked
              PROVE  Vacant'
  BY DEF Untaken
<1>1. Young
  BY YoungOnce
<1>2. CASE win.tracked
  BY <1>1, <1>2, DropsVacant
<1>3. CASE ~win.tracked
  <2>. SUFFICES ASSUME NEW a, a = asks'
                PROVE  ~Has(a, "attach") /\ ~Has(a, "start") /\ Vacant
    BY VacantStep
  <2>1. Vacant
    BY <1>1, <1>3 DEF Untaken
  <2>. QED
    BY <1>3, <2>1, AsksHave DEF Vacant, TakesOn, TrackDoes, KeepsOn
<1>. QED
  BY <1>2, <1>3

LEMMA CleanStep ==
  ASSUME TypeOK, RunInRange, Untaken, Clean, Next
  PROVE  Clean'
<1>. SUFFICES ASSUME Young', win'.tracked
              PROVE  win'.clean
  BY DEF Clean
<1>1. Young
  BY YoungOnce
<1>2. CASE KeepsOn \/ MovesOn
  BY <1>1, <1>2 DEF KeepsOn, MovesOn, Clean
<1>3. CASE TakesOn
  <2>1. ~Busy
    BY <1>1, <1>3, VacantFree DEF Untaken, TakesOn
  <2>. QED
    BY <1>3, <2>1 DEF TakesOn, TrackDoes
<1>. QED
  BY <1>2, <1>3, WindowKeepsOn

\* An attach that is served before the run begins is the only one, and its
\* answer finds nothing on its way.
LEMMA MissingStep ==
  ASSUME TypeOK, TypeOK', RunInRange, EndsRight, Placed, Hosted, Alone', MissingOnce, Untaken,
         AttachOnce, StartOnce, Next
  PROVE  MissingOnce'
<1>. SUFFICES ASSUME Young', NEW q, q = wire', Has(q, "missing"), NEW a, a = asks'
              PROVE  win'.tracked /\ Vacant' /\ Single(q, "missing")
  BY DEF MissingOnce, Has, Single
<1>1. wire \in Seq(Messages) /\ asks \in Seq(Asks) /\ Young
  BY YoungOnce DEF TypeOK
<1>2. ~Breaks
  BY BreakShape DEF Breaks, Has
<1>3. CASE Has(wire, "missing")
  <2>1. win.tracked /\ Vacant /\ Single(wire, "missing")
    BY <1>1, <1>3 DEF MissingOnce
  <2>2. wire # <<>>
    BY <1>3 DEF Has
  <2>3. ~TakesOn
    BY <2>1 DEF TakesOn
  <2>4. ~Has(a, "attach") /\ ~Has(a, "start")
    <3>1. Connect \/ LoadHistory \/ Leave \/ GoalNews => FALSE
      BY <1>1, <1>3, <2>1, <2>2, AttachAlone
    <3>. QED
      BY <2>1, <2>3, <3>1, AsksHave DEF Vacant
  <2>5. Vacant'
    BY <2>1, <2>4, VacantStep
  <2>6. Single(q, "missing")
    <3>1. WireMoves
      BY WireStep
    <3>2. CASE q = wire
      BY <2>1, <3>2
    <3>3. CASE wire # <<>> /\ q = Tail(wire)
      BY <1>1, <2>1, <3>3, SingleTail
    <3>4. CASE q = <<>>
      BY <3>4 DEF Has
    <3>5. ASSUME NEW m \in Messages, q = Append(wire, m), Comes(m)
          PROVE  Single(q, "missing")
      <4>1. m.kind # "missing"
        <5>1. ASSUME Serve, ServesMissing
              PROVE  FALSE
          <6>1. asks # <<>> /\ Head(asks).kind = "attach"
            BY <5>1, ServeShape DEF ServesMissing
          <6>. QED
            BY <1>1, <2>1, <6>1, HasTail DEF Vacant
        <5>. QED
          BY <3>5, <5>1 DEF Comes, Sends, Live
      <4>. QED
        BY <1>1, <2>1, <3>5, <4>1, SingleAppend
    <3>. QED
      BY <3>1, <3>2, <3>3, <3>4, <3>5 DEF WireMoves
  <2>7. win'.tracked
    <3>1. ASSUME ~win'.tracked
          PROVE  FALSE
      <4>1. ~BridgeSteps
        BY <2>1, <3>1, BridgeShape
      <4>2. ASSUME NEW w, EffectDoes(w)
            PROVE  ~w.tracked
        BY <3>1, <4>2 DEF EffectDoes
      <4>3. ~Connect /\ ~Leave /\ ~GoalNews /\ ~LoadHistory
        BY <1>1, <1>3, <2>1, <2>2, AttachAlone
      <4>4. ~Poll /\ ~StartRun
        BY <2>1, PollShape, StartShape
      <4>5. Receive
        BY <1>2, <4>1, <4>3, <4>4, Steps DEF BridgeSteps
      <4>. DEFINE m == Head(wire)
      <4>6. q = Tail(wire) /\ (Moves(m) \/ Refuses(m) \/ Finds(m) \/ Quiets(m) \/ Drops(m))
        BY <4>5, ReceiveShape
      <4>7. 1 \in 1..Len(wire) /\ m = wire[1]
        BY <1>1, <2>2, InTail
      <4>8. ~Moves(m)
        BY <2>1, <4>7 DEF Moves, Vacant
      <4>9. ~Refuses(m)
        <5>1. m.kind = "missing" => ~Has(q, "missing")
          BY <1>1, <2>1, <2>2, <4>6, SingleTail
        <5>2. m.kind # "rejected"
          BY <1>1, <4>7 DEF Placed, Rejected, Has, Young, Early, Going
        <5>. QED
          BY <5>1, <5>2 DEF Refuses
      <4>. QED
        BY <2>1, <3>1, <4>6, <4>8, <4>9 DEF Finds, TrackDoes, Quiets, Drops
    <3>. QED
      BY <3>1
  <2>. QED
    BY <2>5, <2>6, <2>7
<1>4. CASE ~Has(wire, "missing")
  <2>1. PICK i \in 1..Len(q) : q[i].kind = "missing"
    BY DEF Has
  <2>2. \/ \E j \in 1..Len(wire) : q[i] = wire[j]
        \/ Comes(q[i])
    BY WireStep, WireHas
  <2>3. Serve /\ ServesMissing
    BY <1>4, <2>1, <2>2 DEF Comes, Sends, Live, Has
  <2>4. /\ asks # <<>> /\ a = Tail(asks) /\ Head(asks).kind = "attach" /\ ~Known /\ win' = win
        /\ UNCHANGED <<run, task>>
    BY <2>3, ServeShape DEF ServesMissing
  <2>5. PICK m \in Messages : m.kind = "missing" /\ q = Append(wire, m)
    BY <2>3 DEF ServesMissing
  <2>6. Early /\ Has(asks, "attach")
    BY <1>1, <2>4, HasTail DEF Known, Young, Going, Early
  <2>7. win.tracked
    BY <1>1, <2>6 DEF Untaken, Vacant
  <2>8. ~Has(asks, "start")
    <3>1. ASSUME Has(asks, "start")
          PROVE  FALSE
      <4>1. PICK j \in 1..Len(asks) : asks[j].kind = "start"
        BY <3>1 DEF Has
      <4>2. 1 \in 1..Len(asks) /\ asks[1].kind = "attach"
        BY <1>1, <2>4, InTail
      <4>3. j < 1
        BY <3>1, <4>1, <4>2 DEF StartOnce, StartFirst
      <4>. QED
        BY <4>3
    <3>. QED
      BY <3>1
  <2>9. Single(asks, "attach") /\ ~Has(a, "attach") /\ ~Has(a, "start")
    BY <1>1, <2>4, <2>6, <2>8, SingleTail, HasTail DEF AttachOnce
  <2>10. Vacant'
    <3>1. (\A k \in Both : task[k].at = "none") /\ ~run.here /\ \A j \in 1..Len(wire) : ~Live(wire[j])
      BY <2>6 DEF Placed, Unheard, Early
    <3>2. \A j \in 1..Len(q) : ~Live(q[j])
      BY <1>1, <2>5, <3>1, InAppend DEF Live
    <3>. SUFFICES ASSUME NEW t, t = task'
                  PROVE  (\A k \in Both : t[k].at = "none") /\ ~run'.here
      BY <2>9, <3>2 DEF Vacant, Has, Live
    <3>. QED
      BY <2>4, <3>1
  <2>11. Single(q, "missing")
    <3>1. Single(wire, "missing")
      BY <1>4 DEF Single, Has
    <3>. QED
      BY <1>1, <1>4, <2>5, <3>1, SingleAppend
  <2>. QED
    BY <2>4, <2>7, <2>10, <2>11
<1>. QED
  BY <1>3, <1>4

LEMMA StartOfTwo ==
  ASSUME NEW q \in Seq(Asks), NEW a \in Asks, NEW b \in Asks, a.kind = "start", b.kind = "attach",
         ~Has(q, "start"), ~Has(q, "attach")
  PROVE  LET r == q \o <<a, b>> IN Single(r, "start") /\ StartFirst(r) /\ Single(r, "attach")
<1>. DEFINE r == q \o <<a, b>>
<1>1. /\ Len(r) = Len(q) + 2 /\ Len(q) \in Nat
      /\ \A i \in 1..Len(q) : r[i] = q[i]
      /\ r[Len(q) + 1] = a /\ r[Len(q) + 2] = b
  OBVIOUS
<1>. HIDE DEF r
<1>2. \A i \in 1..Len(r) : /\ r[i].kind = "start" => i = Len(q) + 1
                           /\ r[i].kind = "attach" => i = Len(q) + 2
  <2>. TAKE i \in 1..Len(r)
  <2>1. CASE i \in 1..Len(q)
    <3>1. q[i].kind # "start" /\ q[i].kind # "attach"
      BY <2>1 DEF Has
    <3>. QED
      BY <1>1, <2>1, <3>1
  <2>2. CASE i = Len(q) + 1
    BY <1>1, <2>2
  <2>3. CASE i = Len(q) + 2
    BY <1>1, <2>3
  <2>. QED
    BY <1>1, <2>1, <2>2, <2>3
<1>3. Single(r, "start") /\ Single(r, "attach")
  BY <1>2 DEF Single
<1>4. StartFirst(r)
  BY <1>1, <1>2 DEF StartFirst
<1>. QED
  BY <1>3, <1>4 DEF r

LEMMA StartFirstAppend ==
  ASSUME NEW q \in Seq(Asks), NEW a \in Asks, a.kind = "list", StartFirst(q)
  PROVE  StartFirst(Append(q, a))
<1>1. /\ Len(Append(q, a)) = Len(q) + 1
      /\ \A i \in 1..Len(q) : Append(q, a)[i] = q[i]
      /\ Append(q, a)[Len(q) + 1] = a
  OBVIOUS
<1>. QED
  BY <1>1 DEF StartFirst

LEMMA StartFirstTail ==
  ASSUME NEW q \in Seq(Asks), q # <<>>, StartFirst(q)
  PROVE  StartFirst(Tail(q))
<1>1. \A i \in 1..Len(Tail(q)) : i + 1 \in 1..Len(q) /\ Tail(q)[i] = q[i + 1] /\ i \in Int
  BY InTail
<1>2. ASSUME NEW i \in 1..Len(Tail(q)), NEW j \in 1..Len(Tail(q)),
             Tail(q)[i].kind = "start", Tail(q)[j].kind = "attach"
      PROVE  i < j
  <2>1. i + 1 < j + 1
    BY <1>1, <1>2 DEF StartFirst
  <2>. QED
    BY <2>1
<1>. QED
  BY <1>2 DEF StartFirst

\* A list that is asked for and a request that is served add no start and no attach.
LEMMA AsksLess ==
  ASSUME NEW q \in Seq(Asks), NEW a, NEW kind \in {"start", "attach"},
         a = q \/ a = Append(q, List) \/ (q # <<>> /\ a = Tail(q))
  PROVE  /\ Has(a, kind) => Has(q, kind)
         /\ Single(q, kind) => Single(a, kind)
         /\ a = Append(q, List) /\ Has(q, kind) => Has(a, kind)
<1>1. List \in Asks /\ List.kind = "list"
  BY AskKinds
<1>2. CASE a = q
  BY <1>2
<1>3. CASE a = Append(q, List)
  <2>1. Has(a, kind) <=> Has(q, kind)
    BY <1>1, <1>3, HasAppend
  <2>2. Single(q, kind) => Single(a, kind)
    BY <1>1, <1>3, SingleAppend
  <2>. QED
    BY <2>1, <2>2
<1>4. CASE q # <<>> /\ a = Tail(q)
  <2>1. Has(a, kind) => Has(q, kind)
    BY <1>4, HasTail
  <2>2. Single(q, kind) => Single(a, kind)
    BY <1>4, SingleTail
  <2>3. a # Append(q, List)
    <3>1. Len(a) < Len(q) /\ Len(Append(q, List)) = Len(q) + 1
      BY <1>1, <1>4
    <3>. QED
      BY <3>1
  <2>. QED
    BY <2>1, <2>2, <2>3
<1>. QED
  BY <1>2, <1>3, <1>4

\* A start that is served makes the run begin.
LEMMA StartServed ==
  ASSUME TypeOK, Serve, Head(asks).kind = "start"
  PROVE  run'.phase = "reserved"
  BY ServeShape DEF ServesStart, ServesAttach, ServesMissing, ServesList

LEMMA AttachOnceStep ==
  ASSUME TypeOK, TypeOK', RunInRange, Placed, ListsRight, Hosted, Alone', AttachOnce, Next
  PROVE  AttachOnce'
<1>. SUFFICES ASSUME Early', NEW a, a = asks', ~Has(a, "start"), Has(a, "attach"), NEW q, q = wire'
              PROVE  Single(a, "attach") /\ ~Has(q, "missing")
  BY DEF AttachOnce, Has, Single
<1>1. asks \in Seq(Asks) /\ wire \in Seq(Messages) /\ Early /\ win.seen \in Nat /\ win.stale \in BOOLEAN
  BY YoungOnce DEF TypeOK, Windows
<1>2. CASE /\ KeepsOn /\ (\E fresh \in BOOLEAN : a = Append(asks, Attach(fresh, win.seen)))
           /\ Connect \/ LoadHistory \/ Leave \/ GoalNews
  <2>1. win.tracked
    BY <1>2 DEF KeepsOn
  <2>2. asks = <<>> /\ wire = <<>>
    BY <1>1, <1>2, <2>1, AttachAlone
  <2>3. q = wire
    BY <1>2 DEF Connect, LoadHistory, Leave, GoalNews
  <2>4. PICK b \in Asks : a = Append(asks, b)
    BY <1>1, <1>2, AskKinds
  <2>5. Len(a) = 1
    BY <1>1, <2>2, <2>4
  <2>. QED
    BY <2>2, <2>3, <2>5 DEF Single, Has
<1>3. ~TakesOn
  <2>1. ASSUME TakesOn
        PROVE  FALSE
    <3>1. CASE StartRun /\ a = asks \o <<Start, Attach(win.stale, 0)>>
      <4>1. Start \in Asks /\ Attach(win.stale, 0) \in Asks /\ Start.kind = "start"
        BY <1>1, AskKinds
      <4>. QED
        BY <1>1, <3>1, <4>1, HasTwo
    <3>2. CASE wire # <<>> /\ Finds(Head(wire))
      <4>1. 1 \in 1..Len(wire) /\ wire[1].kind = "runs"
        BY <1>1, <3>2, InTail DEF Finds
      <4>. QED
        BY <1>1, <4>1 DEF ListsRight
    <3>. QED
      BY <2>1, <3>1, <3>2 DEF TakesOn
  <2>. QED
    BY <2>1
<1>4. CASE \/ a = asks \/ a = Append(asks, List)
           \/ Serve /\ asks # <<>> /\ a = Tail(asks)
  <2>1. Has(asks, "attach")
    BY <1>1, <1>4, AsksLess
  <2>2. ~Has(asks, "start")
    <3>1. CASE a = asks \/ a = Append(asks, List)
      BY <1>1, <3>1, AsksLess
    <3>2. CASE Serve /\ asks # <<>> /\ a = Tail(asks)
      <4>1. Head(asks).kind # "start"
        BY <3>2, StartServed DEF Early
      <4>. QED
        BY <1>1, <3>2, <4>1, HasTail
    <3>. QED
      BY <1>4, <3>1, <3>2
  <2>3. Single(asks, "attach") /\ ~Has(wire, "missing")
    BY <1>1, <2>1, <2>2 DEF AttachOnce
  <2>4. Single(a, "attach")
    BY <1>1, <1>4, <2>3, AsksLess
  <2>5. ASSUME Has(q, "missing")
        PROVE  FALSE
    <3>1. PICK i \in 1..Len(q) : q[i].kind = "missing"
      BY <2>5 DEF Has
    <3>2. (\E j \in 1..Len(wire) : q[i] = wire[j]) \/ Comes(q[i])
      BY WireStep, WireHas
    <3>3. Serve /\ ServesMissing
      BY <2>3, <3>1, <3>2 DEF Comes, Sends, Live, Has
    <3>4. asks # <<>> /\ a = Tail(asks) /\ Head(asks).kind = "attach"
      BY <3>3, ServeShape DEF ServesMissing
    <3>. QED
      BY <1>1, <2>3, <3>4, SingleTail
  <2>. QED
    BY <2>4, <2>5
<1>5. a # <<>>
  BY DEF Has
<1>6. AsksMove
  BY AsksStep
<1>. QED
  BY <1>2, <1>3, <1>4, <1>5, <1>6 DEF AsksMove

LEMMA StartOnceStep ==
  ASSUME TypeOK, TypeOK', RunInRange, Placed, Hosted, Alone', Untaken, StartOnce, Next
  PROVE  StartOnce'
<1>. SUFFICES ASSUME NEW a, a = asks', Has(a, "start")
              PROVE  /\ run'.phase = "none" /\ Single(a, "start") /\ StartFirst(a)
                     /\ Single(a, "attach")
  BY DEF StartOnce, Has, Single, StartFirst
<1>1. asks \in Seq(Asks) /\ win.stale \in BOOLEAN
  BY DEF TypeOK, Windows
<1>2. CASE StartRun
  <2>1. run.phase = "none" /\ ~win.tracked /\ a = asks \o <<Start, Attach(win.stale, 0)>> /\ run' = run
    BY <1>2, StartShape
  <2>. DEFINE b == Attach(win.stale, 0)
  <2>2. /\ Start \in Asks /\ b \in Asks /\ Start.kind = "start" /\ b.kind = "attach"
        /\ a = asks \o <<Start, b>>
    BY <1>1, <2>1, AskKinds
  <2>. HIDE DEF b
  <2>3. ~Has(asks, "start") /\ ~Has(asks, "attach")
    BY <2>1 DEF Untaken, Young, Early, Vacant
  <2>. QED
    BY <1>1, <2>1, <2>2, <2>3, StartOfTwo
<1>3. CASE ~StartRun
  <2>1. /\ Has(asks, "start") /\ run.phase = "none" /\ Single(asks, "start") /\ StartFirst(asks)
        /\ Single(asks, "attach")
    BY <1>3, AsksHave DEF StartOnce
  <2>2. ~TakesOn
    BY <2>1 DEF TakesOn, Untaken, Young, Early, Vacant
  <2>3. ~(KeepsOn /\ (Connect \/ LoadHistory \/ Leave \/ GoalNews))
    <3>1. ASSUME KeepsOn, Connect \/ LoadHistory \/ Leave \/ GoalNews
          PROVE  FALSE
      <4>1. win.tracked
        BY <3>1 DEF KeepsOn
      <4>2. asks # <<>>
        BY <2>1 DEF Has
      <4>. QED
        BY <2>1, <3>1, <4>1, <4>2, AttachAlone
    <3>. QED
      BY <3>1
  <2>4. ~Breaks
    BY BreakShape DEF Breaks, Has
  <2>5. \/ a = asks \/ a = Append(asks, List)
        \/ Serve /\ asks # <<>> /\ a = Tail(asks)
    <3>1. a # <<>>
      BY DEF Has
    <3>. QED
      BY <2>2, <2>3, <3>1, AsksStep DEF AsksMove
  <2>6. List \in Asks /\ List.kind = "list"
    BY AskKinds
  <2>7. Single(a, "start") /\ Single(a, "attach")
    BY <1>1, <2>1, <2>5, AsksLess
  <2>8. StartFirst(a)
    BY <1>1, <2>1, <2>5, <2>6, StartFirstAppend, StartFirstTail
  <2>9. run'.phase = "none"
    <3>1. ~HostGoal
      BY <2>1 DEF Hosted
    <3>2. CASE RunSteps
      BY <2>1, <3>1, <3>2, RunShape DEF RunMoves, RunInRange
    <3>3. CASE Refuse
      BY <2>1, <3>3, RefuseShape
    <3>4. CASE Accept
      BY <2>1, <3>4, AcceptShape
    <3>5. CASE Serve
      <4>1. asks # <<>> /\ a = Tail(asks)
        BY <3>5, ServeShape
      <4>2. Head(asks).kind # "start"
        BY <1>1, <2>1, <4>1, SingleTail
      <4>. QED
        BY <2>1, <3>5, <4>2, ServeShape DEF ServesStart, ServesAttach, ServesMissing, ServesList
    <3>6. CASE \/ Vanish \/ Connect \/ LoadHistory \/ Leave \/ GoalNews \/ Poll \/ Receive
               \/ \E k \in {"live", "stray"} : Read(k) \/ Send(k)
      BY <2>1, <3>6 DEF Vanish, Connect, LoadHistory, Leave, GoalNews, Poll, Receive, Read, Send
    <3>. QED
      BY <1>3, <2>4, <3>2, <3>3, <3>4, <3>5, <3>6, Steps
  <2>. QED
    BY <2>7, <2>8, <2>9
<1>. QED
  BY <1>2, <1>3

LEMMA SoleStep ==
  ASSUME TypeOK, TypeOK', RunInRange, EndsRight, Placed, ListsRight, Hosted, Sole, Next
  PROVE  Sole'
<1>. SUFFICES ASSUME Alone'
              PROVE  Untaken' /\ Clean' /\ MissingOnce' /\ AttachOnce' /\ StartOnce'
  BY DEF Sole
<1>1. Untaken /\ Clean /\ MissingOnce /\ AttachOnce /\ StartOnce
  BY AloneStep DEF Sole
<1>2. Untaken'
  BY <1>1, UntakenStep
<1>3. Clean'
  BY <1>1, CleanStep
<1>4. MissingOnce'
  BY <1>1, MissingStep
<1>5. AttachOnce'
  BY <1>1, AttachOnceStep
<1>6. StartOnce'
  BY <1>1, StartOnceStep
<1>. QED
  BY <1>2, <1>3, <1>4, <1>5, <1>6

-----------------------------------------------------------------------------
(* A window that shows less than it was sent will be sent a snapshot that   *)
(* nothing on its way overtakes.                                            *)

\* The last attach asks for a snapshot; a forwarder reads or sends it, no older than
\* what is on its way; it is on the wire.
AskedFresh == \E i \in 1..Len(asks) : Latest(asks, i) /\ asks[i].fresh
Covers(q, seen, n) == seen <= n /\ \A i \in 1..Len(q) : Live(q[i]) => q[i].seq <= n
ReadsFresh ==
  /\ ~Has(asks, "attach")
  /\ \/ task["live"].at = "read" /\ task["live"].fresh
     \/ /\ task["live"].at = "send" /\ task["live"].whole
        /\ Covers(wire, win.seen, task["live"].next)
ShowsAll(q, seen) ==
  \E i \in 1..Len(q) : /\ q[i].kind = "snapshot" /\ seen <= q[i].seq
                       /\ \A j \in 1..(i - 1) : Live(q[j]) => q[j].seq <= q[i].seq
Renewed ==
  \/ AskedFresh \/ ReadsFresh \/ ShowsAll(wire, win.seen)
  \/ Has(wire, "missing") \/ Has(wire, "rejected")
\* One of these holds as long as the window shows less than it was sent.
Fresh == Alone /\ win.tracked /\ ~win.away /\ ~win.whole => Renewed

\* The messages of q give way to those of q2 at a window that shows less than all.
Passes(q, q2, seen, seen2) ==
  \/ q2 = q /\ seen2 = seen
  \/ (\E m \in Messages : q2 = Append(q, m)) /\ seen2 = seen
  \/ /\ q # <<>> /\ q2 = Tail(q) /\ Head(q).kind \notin {"missing", "rejected"} /\ seen <= seen2
     /\ seen2 = seen \/ (Live(Head(q)) /\ seen2 = Head(q).seq)
     /\ Head(q).kind = "snapshot" => Head(q).seq < seen

LEMMA ShownStill ==
  ASSUME NEW q \in Seq(Messages), NEW q2, NEW seen \in Nat, NEW seen2 \in Nat,
         Passes(q, q2, seen, seen2), ShowsAll(q, seen)
  PROVE  ShowsAll(q2, seen2)
<1>1. PICK i \in 1..Len(q) : /\ q[i].kind = "snapshot" /\ seen <= q[i].seq
                             /\ \A j \in 1..(i - 1) : Live(q[j]) => q[j].seq <= q[i].seq
  BY DEF ShowsAll
<1>2. q[i].seq \in Nat
  <2>1. q[i] \in Messages
    OBVIOUS
  <2>. QED
    BY <2>1 DEF Messages
<1>3. CASE q2 = q /\ seen2 = seen
  BY <1>3
<1>4. CASE (\E m \in Messages : q2 = Append(q, m)) /\ seen2 = seen
  <2>1. i \in 1..Len(q2) /\ q2[i] = q[i] /\ \A j \in 1..(i - 1) : q2[j] = q[j]
    BY <1>4
  <2>. QED
    BY <1>1, <1>4, <2>1 DEF ShowsAll
<1>5. CASE /\ q # <<>> /\ q2 = Tail(q) /\ seen <= seen2
           /\ seen2 = seen \/ (Live(Head(q)) /\ seen2 = Head(q).seq)
           /\ Head(q).kind = "snapshot" => Head(q).seq < seen
  <2>1. Head(q) = q[1] /\ i # 1
    BY <1>1, <1>2, <1>5
  <2>2. /\ i - 1 \in 1..Len(q2) /\ q2[i - 1] = q[i] /\ 1 \in 1..(i - 1)
        /\ \A j \in 1..((i - 1) - 1) : q2[j] = q[j + 1] /\ j + 1 \in 1..(i - 1)
    BY <1>5, <2>1
  <2>3. seen2 <= q[i].seq
    BY <1>1, <1>5, <2>1, <2>2
  <2>4. \A j \in 1..((i - 1) - 1) : Live(q2[j]) => q2[j].seq <= q2[i - 1].seq
    BY <1>1, <2>2
  <2>. QED
    BY <1>1, <2>2, <2>3, <2>4 DEF ShowsAll
<1>. QED
  BY <1>3, <1>4, <1>5 DEF Passes

LEMMA RefusalStill ==
  ASSUME NEW q \in Seq(Messages), NEW q2, NEW seen \in Nat, NEW seen2 \in Nat,
         Passes(q, q2, seen, seen2), NEW kind \in {"missing", "rejected"}, Has(q, kind)
  PROVE  Has(q2, kind)
<1>1. CASE \E m \in Messages : q2 = Append(q, m)
  BY <1>1, HasAppend
<1>2. CASE q # <<>> /\ q2 = Tail(q) /\ Head(q).kind \notin {"missing", "rejected"}
  BY <1>2, HasTail
<1>. QED
  BY <1>1, <1>2 DEF Passes

LEMMA CoversStill ==
  ASSUME NEW q \in Seq(Messages), NEW q2, NEW seen \in Nat, NEW seen2 \in Nat, NEW n \in Nat,
         Passes(q, q2, seen, seen2), Covers(q, seen, n),
         \A m \in Messages : q2 = Append(q, m) => ~Live(m) \/ m.seq <= n
  PROVE  Covers(q2, seen2, n)
<1>1. CASE q2 = q /\ seen2 = seen
  BY <1>1
<1>2. CASE (\E m \in Messages : q2 = Append(q, m)) /\ seen2 = seen
  <2>1. PICK m \in Messages : q2 = Append(q, m)
    BY <1>2
  <2>2. \A i \in 1..Len(q2) : q2[i] = m \/ (i \in 1..Len(q) /\ q2[i] = q[i])
    BY <2>1, InAppend
  <2>. QED
    BY <1>2, <2>1, <2>2 DEF Covers
<1>3. CASE /\ q # <<>> /\ q2 = Tail(q)
           /\ seen2 = seen \/ (Live(Head(q)) /\ seen2 = Head(q).seq)
  <2>1. /\ 1 \in 1..Len(q) /\ Head(q) = q[1]
        /\ \A i \in 1..Len(q2) : i + 1 \in 1..Len(q) /\ q2[i] = q[i + 1]
    BY <1>3, InTail
  <2>. QED
    BY <1>3, <2>1 DEF Covers
<1>. QED
  BY <1>1, <1>2, <1>3 DEF Passes

\* The attach that asks for a snapshot is served with one, or with a refusal.
LEMMA AskedFreshStep ==
  ASSUME TypeOK, Next, AskedFresh, NEW a, a = asks', NEW q, q = wire', NEW v, v = task'["live"],
         a = asks \/ (Serve /\ asks # <<>> /\ a = Tail(asks))
  PROVE  \/ \E i \in 1..Len(a) : Latest(a, i) /\ a[i].fresh
         \/ ~Has(a, "attach") /\ v.at = "read" /\ v.fresh
         \/ Has(q, "missing")
<1>1. asks \in Seq(Asks) /\ wire \in Seq(Messages)
  BY DEF TypeOK
<1>2. CASE a = asks
  BY <1>2 DEF AskedFresh
<1>3. CASE Serve /\ asks # <<>> /\ a = Tail(asks)
  <2>1. PICK i \in 1..Len(asks) : Latest(asks, i) /\ asks[i].fresh
    BY DEF AskedFresh
  <2>2. /\ Len(asks) \in Nat /\ Len(a) = Len(asks) - 1 /\ Head(asks) = asks[1]
        /\ \A j \in 1..Len(a) : a[j] = asks[j + 1]
    BY <1>1, <1>3
  <2>3. CASE i = 1
    <3>1. ~Has(a, "attach")
      <4>1. \A j \in 1..Len(a) : j + 1 \in (i + 1)..Len(asks)
        BY <2>2, <2>3
      <4>. QED
        BY <2>1, <2>2, <4>1 DEF Has, Latest
    <3>2. Head(asks).kind = "attach" /\ Head(asks).fresh
      BY <2>1, <2>2, <2>3 DEF Latest
    <3>3. ServesAttach \/ ServesMissing
      BY <1>3, <3>2, ServeShape DEF ServesStart, ServesList
    <3>4. CASE ServesAttach
      BY <3>1, <3>2, <3>4 DEF ServesAttach, StartsAt
    <3>5. CASE ServesMissing
      <4>1. PICK m \in Messages : m.kind = "missing" /\ q = Append(wire, m)
        BY <3>5 DEF ServesMissing
      <4>. QED
        BY <1>1, <4>1, HasAppend
    <3>. QED
      BY <3>3, <3>4, <3>5
  <2>4. CASE i # 1
    <3>1. i - 1 \in 1..Len(a) /\ a[i - 1] = asks[i]
      BY <2>2, <2>4
    <3>2. \A j \in ((i - 1) + 1)..Len(a) : a[j].kind # "attach"
      <4>. TAKE j \in ((i - 1) + 1)..Len(a)
      <4>1. j + 1 \in (i + 1)..Len(asks) /\ a[j] = asks[j + 1]
        BY <2>2, <2>4
      <4>. QED
        BY <2>1, <4>1 DEF Latest
    <3>. QED
      BY <2>1, <3>1, <3>2 DEF Latest
  <2>. QED
    BY <2>3, <2>4
<1>. QED
  BY <1>2, <1>3

\* The snapshot is read at the end of the run, and sent after all that is on its way.
LEMMA ReadsFreshStep ==
  ASSUME TypeOK, InRange, Next, ReadsFresh, ~Breaks, ~run.here, task["stray"] = NoTask,
         NEW a, a = asks', NEW q, q = wire', NEW v, v = task'["live"], NEW seen \in Nat,
         a = asks \/ (asks # <<>> /\ a = Tail(asks)), Passes(wire, q, win.seen, seen)
  PROVE  \/ /\ ~Has(a, "attach")
            /\ \/ v.at = "read" /\ v.fresh
               \/ v.at = "send" /\ v.whole /\ Covers(q, seen, v.next)
         \/ ShowsAll(q, seen)
<1>1. /\ asks \in Seq(Asks) /\ wire \in Seq(Messages) /\ win.seen \in Nat /\ run.seq \in Nat
      /\ task["live"].next \in Nat
  BY DEF TypeOK, Windows, Tasks
<1>2. ~Has(asks, "attach") /\ ~Has(a, "attach")
  BY <1>1, HasTail DEF ReadsFresh
<1>3. ~Accept /\ (asks # <<>> => Head(asks).kind # "attach")
  BY <1>1, <1>2, AcceptShape, HasTail
<1>4. TaskMoves("live", v)
  BY TaskStep DEF Both
<1>5. Covers(wire, win.seen, run.seq)
  BY DEF InRange, MessageInRange, Covers
<1>6. CASE task["live"].at = "read" /\ task["live"].fresh
  <2>1. CASE v = task["live"]
    BY <1>2, <1>6, <2>1
  <2>2. CASE ReadLeaves("live", v) /\ UNCHANGED <<run, asks, wire, win, left>>
    <3>1. v.at = "send" /\ v.whole /\ v.next = run.seq
      BY <1>6, <2>2 DEF ReadLeaves
    <3>2. Covers(q, seen, run.seq)
      <4>1. q = wire
        BY <2>2
      <4>2. wire # <<>> => Tail(wire) # wire /\ \A m \in Messages : Append(wire, m) # wire
        <5>1. wire # <<>> => Len(Tail(wire)) < Len(wire)
          BY <1>1
        <5>2. \A m \in Messages : Len(Append(wire, m)) = Len(wire) + 1 /\ Len(wire) \in Nat
          BY <1>1
        <5>. QED
          BY <5>1, <5>2
      <4>3. \A m \in Messages : Append(wire, m) # wire
        <5>2. \A m \in Messages : Len(Append(wire, m)) = Len(wire) + 1 /\ Len(wire) \in Nat
          BY <1>1
        <5>. QED
          BY <5>2
      <4>4. seen = win.seen
        BY <4>1, <4>2, <4>3 DEF Passes
      <4>. QED
        BY <1>5, <4>1, <4>4
    <3>. QED
      BY <1>2, <3>1, <3>2
  <2>3. ~SendLeaves("live", v)
    BY <1>6 DEF SendLeaves
  <2>. QED
    BY <1>3, <1>4, <2>1, <2>2, <2>3 DEF TaskMoves
<1>7. CASE task["live"].at = "send" /\ task["live"].whole /\ Covers(wire, win.seen, task["live"].next)
  <2>. DEFINE n == task["live"].next
  <2>1. ASSUME NEW m \in Messages, q = Append(wire, m), Live(m)
        PROVE  m.seq <= n
    <3>1. Comes(m)
      <4>1. q # wire /\ (wire # <<>> => q # Tail(wire)) /\ q # <<>> /\ m = q[Len(q)]
        <5>1. Len(q) = Len(wire) + 1 /\ Len(wire) \in Nat /\ (wire # <<>> => Len(Tail(wire)) = Len(wire) - 1)
              /\ m = q[Len(q)]
          BY <1>1, <2>1
        <5>. QED
          BY <5>1
      <4>2. PICK m2 \in Messages : q = Append(wire, m2) /\ Comes(m2)
        BY <4>1, WireStep DEF WireMoves
      <4>3. m2 = m
        <5>1. q[Len(q)] = m2
          BY <1>1, <4>2
        <5>. QED
          BY <4>1, <5>1
      <4>. QED
        BY <4>2, <4>3
    <3>2. PICK k \in Both : Sends(k, m)
      BY <2>1, <3>1 DEF Comes, Live
    <3>3. k = "live"
      BY <3>2 DEF Sends, Both, NoTask
    <3>. QED
      BY <1>1, <1>7, <3>2, <3>3 DEF Sends
  <2>2. Covers(q, seen, n)
    BY <1>1, <1>7, <2>1, CoversStill
  <2>3. CASE v = task["live"]
    BY <1>2, <1>7, <2>2, <2>3
  <2>4. ~ReadLeaves("live", v)
    BY <1>7 DEF ReadLeaves
  <2>5. CASE SendLeaves("live", v)
    <3>1. PICK m \in Messages : Sends("live", m) /\ q = Append(wire, m)
      BY <2>5 DEF SendLeaves
    <3>2. m.kind = "snapshot" /\ m.seq = n
      BY <1>7, <3>1 DEF Sends
    <3>3. Len(q) \in 1..Len(q) /\ q[Len(q)] = m
      BY <1>1, <3>1
    <3>4. \A j \in 1..(Len(q) - 1) : j \in 1..Len(q)
      BY <1>1, <3>1
    <3>. QED
      BY <2>2, <3>2, <3>3, <3>4 DEF ShowsAll, Covers
  <2>. QED
    BY <1>3, <1>4, <2>3, <2>4, <2>5 DEF TaskMoves
<1>. QED
  BY <1>6, <1>7 DEF ReadsFresh

\* A window that shows less than it was sent showed less before, unless its
\* history has just been loaded.
LEMMA LessBefore ==
  ASSUME TypeOK, Next, win.tracked, win'.tracked, win.conn, ~win'.away, ~win'.whole,
         ~LoadHistory, ~GoalNews, ~Breaks
  PROVE  ~win.away /\ ~win.whole
<1>1. CASE BridgeSteps
  BY <1>1, BridgeShape
<1>2. ~Connect
  BY ConnectShape
<1>3. ~Leave
  BY LeaveShape DEF EffectDoes
<1>4. ~Poll /\ ~StartRun
  BY PollShape, StartShape
<1>5. CASE Receive
  <2>. DEFINE m == Head(wire)
  <2>1. Moves(m) \/ Refuses(m) \/ Finds(m) \/ Quiets(m) \/ Drops(m)
    BY <1>5, ReceiveShape
  <2>2. ASSUME NEW w, NEW outcome, FinishDoes(w, outcome)
        PROVE  FALSE
    BY <2>2 DEF FinishDoes, EffectDoes
  <2>3. CASE Moves(m)
    BY <2>2, <2>3 DEF Moves, Same
  <2>4. CASE Refuses(m)
    BY <2>2, <2>4 DEF Refuses
  <2>5. CASE Finds(m) \/ Quiets(m) \/ Drops(m)
    BY <2>5 DEF Finds, Quiets, Drops
  <2>. QED
    BY <2>1, <2>3, <2>4, <2>5
<1>. QED
  BY <1>1, <1>2, <1>3, <1>4, <1>5, Steps DEF BridgeSteps

\* A window on a socket passes the messages of the wire.
LEMMA PassesOn ==
  ASSUME TypeOK, Next, win'.conn, ~win.away, ~win'.whole, NEW q, q = wire', KeepsOn \/ MovesOn
  PROVE  Passes(wire, q, win.seen, win'.seen)
<1>1. wire \in Seq(Messages) /\ win.seen \in Nat
  BY DEF TypeOK, Windows
<1>2. wire # <<>> => Head(wire).seq \in Nat
  <2>1. wire # <<>> => Head(wire) \in Messages
    BY <1>1
  <2>. QED
    BY <2>1 DEF Messages
<1>3. CASE KeepsOn
  <2>1. win'.seen = win.seen
    BY <1>3 DEF KeepsOn
  <2>2. CASE wire' = wire \/ \E m \in Messages : wire' = Append(wire, m)
    BY <2>1, <2>2 DEF Passes
  <2>3. CASE /\ wire # <<>> /\ wire' = Tail(wire) /\ Head(wire).kind \notin {"missing", "rejected"}
             /\ Live(Head(wire)) => Head(wire).seq <= win.seen /\ ~Advances(Head(wire))
    <3>1. Head(wire).kind = "snapshot" => Head(wire).seq < win.seen
      BY <1>1, <1>2, <2>3 DEF Live, Advances
    <3>. QED
      BY <1>1, <2>1, <2>3, <3>1 DEF Passes
  <2>. QED
    BY <1>3, <2>2, <2>3 DEF KeepsOn
<1>4. CASE MovesOn
  <2>. DEFINE m == Head(wire)
  <2>1. wire # <<>> /\ wire' = Tail(wire) /\ Moves(m) /\ ~m.end /\ win'.seen = m.seq /\ win.seen <= win'.seen
    BY <1>4 DEF MovesOn
  <2>2. Live(m) /\ m.kind = "event"
    BY <2>1 DEF Moves
  <2>. QED
    BY <2>1, <2>2 DEF Passes, Live
<1>. QED
  BY <1>3, <1>4

LEMMA FreshAsked ==
  ASSUME TypeOK, LoadHistory, win'.tracked, win.conn, NEW a, a = asks'
  PROVE  \E i \in 1..Len(a) : Latest(a, i) /\ a[i].fresh
<1>1. PICK w : w.stale /\ Same(w, {"conn", "tracked", "clean"}) /\ EffectDoes(w)
  BY LoadShape
<1>2. asks \in Seq(Asks) /\ w.seen \in Nat
  BY <1>1 DEF TypeOK, Same, Windows
<1>3. a = Append(asks, Attach(w.stale, w.seen))
  BY <1>1 DEF EffectDoes, Same
<1>. DEFINE b == Attach(w.stale, w.seen)
<1>4. b \in Asks /\ b.kind = "attach" /\ b.fresh /\ a = Append(asks, b)
  <2>1. w.stale \in BOOLEAN
    BY <1>1 DEF Same, Windows
  <2>. QED
    BY <1>1, <1>2, <1>3, <2>1, AskKinds
<1>. HIDE DEF b
<1>5. Len(a) \in 1..Len(a) /\ a[Len(a)] = b
  BY <1>2, <1>4
<1>. QED
  BY <1>2, <1>4, <1>5 DEF Latest

LEMMA FreshStep ==
  ASSUME TypeOK, TypeOK', InRange, Placed, Hosted, ListsRight, Fresh, Next
  PROVE  Fresh'
<1>. SUFFICES ASSUME Alone', win'.tracked, ~win'.away, ~win'.whole,
                     NEW a, a = asks', NEW q, q = wire', NEW v, v = task'["live"],
                     NEW seen, seen = win'.seen
              PROVE  \/ \E i \in 1..Len(a) : Latest(a, i) /\ a[i].fresh
                     \/ /\ ~Has(a, "attach")
                        /\ \/ v.at = "read" /\ v.fresh
                           \/ v.at = "send" /\ v.whole /\ Covers(q, seen, v.next)
                     \/ ShowsAll(q, seen)
                     \/ Has(q, "missing") \/ Has(q, "rejected")
  BY DEF Fresh, Renewed, AskedFresh, ReadsFresh, ShowsAll, Covers, Latest, Has, Live
<1>1. win.seen \in Nat /\ wire \in Seq(Messages) /\ RunInRange /\ seen \in Nat
  BY DEF TypeOK, Windows, InRange
<1>2. Placed' /\ Hosted'
  BY <1>1, PlacedStep, HostedStep
<1>3. HostGoal /\ ~LateAbort /\ left'.breaks = MaxBreaks
  BY <1>2 DEF Alone, Placed, Unvisited
<1>4. Alone /\ ~GoalNews /\ left.breaks = MaxBreaks /\ ~Breaks
  BY <1>3, AloneStep, BoundedStep DEF Placed
<1>5. KeepsOn \/ MovesOn
  BY WindowKeepsOn DEF TakesOn, TrackDoes
<1>6. win.tracked /\ win.conn /\ win'.conn /\ ~run.here /\ task["stray"] = NoTask
  <2>1. win.tracked
    BY <1>5 DEF KeepsOn, MovesOn
  <2>. QED
    BY <1>2, <1>3, <1>4, <2>1 DEF Hosted, NeverBroken, Placed, Aborted
<1>7. CASE LoadHistory
  BY <1>6, <1>7, FreshAsked
<1>8. CASE ~LoadHistory
  <2>1. ~win.away /\ ~win.whole
    BY <1>4, <1>6, <1>8, LessBefore
  <2>2. Renewed
    BY <1>4, <1>6, <2>1 DEF Fresh
  <2>3. a = asks \/ (Serve /\ asks # <<>> /\ a = Tail(asks))
    <3>1. ~Connect /\ (Leave => win'.away)
      BY <1>6, ConnectShape, LeaveShape DEF EffectDoes
    <3>. QED
      BY <1>4, <1>5, <1>6, <1>8, <3>1 DEF KeepsOn, MovesOn
  <2>4. Passes(wire, q, win.seen, seen)
    BY <1>5, <1>6, <2>1, PassesOn
  <2>5. CASE AskedFresh
    BY <2>3, <2>5, AskedFreshStep
  <2>6. CASE ReadsFresh
    BY <1>1, <1>4, <1>6, <2>3, <2>4, <2>6, ReadsFreshStep
  <2>7. CASE ShowsAll(wire, win.seen)
    BY <1>1, <2>4, <2>7, ShownStill
  <2>8. CASE Has(wire, "missing")
    BY <1>1, <2>4, <2>8, RefusalStill
  <2>9. CASE Has(wire, "rejected")
    BY <1>1, <2>4, <2>9, RefusalStill
  <2>. QED
    BY <2>2, <2>5, <2>6, <2>7, <2>8, <2>9 DEF Renewed
<1>. QED
  BY <1>7, <1>8

-----------------------------------------------------------------------------
(* The theorems about a window that was disturbed. *)

\* The inductive invariant.
RestoreInv ==
  /\ IInv /\ InRange /\ EndsKnown /\ Asked /\ Served /\ Placed /\ Listed /\ Hosted /\ Sole /\ Fresh

LEMMA RestoreInit ==
  ASSUME Init
  PROVE  InRange /\ EndsKnown /\ Asked /\ Served /\ Placed /\ Listed /\ Hosted /\ Sole /\ Fresh
<1>1. /\ run.phase = "none" /\ run.seq = 0 /\ ~run.here /\ asks = <<>> /\ wire = <<>>
      /\ \A k \in Both : task[k] = NoTask
  BY DEF Init, Both
<1>2. /\ ~win.conn /\ ~win.away /\ ~win.tracked /\ win.seen = 0 /\ win.view = <<>> /\ win.whole
      /\ ~win.listening /\ win.outcome = "none"
  BY DEF Init, NewWindow
<1>3. ~Ended /\ ~Has(asks, "start") /\ ~Has(asks, "attach")
      /\ ~Has(wire, "missing") /\ ~Has(wire, "rejected")
  BY <1>1 DEF Ended, Has
<1>4. InRange
  BY <1>1, <1>2 DEF InRange, RunInRange, TaskInRange, NoTask, Both
<1>5. EndsKnown /\ Asked /\ Served /\ Fresh
  BY <1>1, <1>2, <1>3 DEF EndsKnown, TaskKnows, Asked, Served, Fresh
<1>6. Placed
  <2>1. Bounded
    BY RunDeliveryAssumption DEF Init, Bounded
  <2>2. WindowPlaced /\ Unplugged /\ Unheard /\ Rejected /\ Unvisited /\ Aborted
    BY <1>1, <1>2, <1>3 DEF WindowPlaced, Unplugged, Unheard, Rejected, Unvisited, Aborted, NoTask, Both
  <2>. QED
    BY <2>1, <2>2 DEF Placed
<1>7. Listed
  BY <1>1, <1>2 DEF Listed, ListsRight, Noted
<1>8. Hosted
  BY <1>1, <1>2, <1>3 DEF Hosted, NeverBroken
<1>9. Sole
  <2>1. Vacant
    BY <1>1, <1>3 DEF Vacant, NoTask
  <2>. QED
    BY <1>2, <1>3, <2>1 DEF Sole, Untaken, Clean, MissingOnce, AttachOnce, StartOnce
<1>. QED
  BY <1>4, <1>5, <1>6, <1>7, <1>8, <1>9

LEMMA RestoreStutter ==
  ASSUME RestoreInv, UNCHANGED vars, IInv'
  PROVE  RestoreInv'
<1>. USE DEF RestoreInv, vars
<1>1. InRange' /\ EndsKnown' /\ Asked' /\ Served'
  BY DEF InRange, RunInRange, TaskInRange, MessageInRange, Live, EndsKnown, TaskKnows, Ended,
         Asked, Latest, Served, Reaches, Has
<1>2. Placed'
  BY DEF Placed, WindowPlaced, Unplugged, Unheard, Live, Rejected, Has, Bounded, Unvisited, Aborted
<1>3. Listed' /\ Hosted'
  BY DEF Listed, ListsRight, Early, Live, Noted, Hosted, NeverBroken, Young, Going, Has
<1>4. Sole'
  BY DEF Sole, Alone, Untaken, Young, Early, Going, Vacant, Live, Has, Clean, MissingOnce, Single,
         AttachOnce, StartOnce, StartFirst
<1>5. Fresh'
  BY DEF Fresh, Alone, Renewed, AskedFresh, Latest, ReadsFresh, Covers, ShowsAll, Live, Has
<1>. QED
  BY <1>1, <1>2, <1>3, <1>4, <1>5

\* The invariant holds in every reachable state: every window that shows a run is
\* served from what it has seen, and one that shows less than all has asked for all.
THEOREM RestoreInvariance == Spec => []RestoreInv
<1>1. Init /\ IInv => RestoreInv
  BY RestoreInit DEF RestoreInv
<1>2. RestoreInv /\ IInv' /\ [Next]_vars => RestoreInv'
  <2>. SUFFICES ASSUME RestoreInv, IInv', [Next]_vars
                PROVE  RestoreInv'
    OBVIOUS
  <2>1. CASE UNCHANGED vars
    BY <2>1, RestoreStutter
  <2>2. CASE Next
    <3>1. /\ TypeOK /\ TypeOK' /\ EndsRight /\ InRange /\ RunInRange /\ EndsKnown /\ Asked /\ Served
          /\ Placed /\ Listed /\ ListsRight /\ Hosted /\ Sole /\ Fresh
      BY DEF RestoreInv, IInv, InRange, Listed
    <3>2. InRange' /\ EndsKnown' /\ Asked' /\ Served'
      BY <2>2, <3>1, InRangeStep, EndsKnownStep, AskedStep, ServedStep
    <3>3. Placed' /\ Listed' /\ Hosted'
      BY <2>2, <3>1, PlacedStep, ListedStep, HostedStep
    <3>4. Sole' /\ Fresh'
      BY <2>2, <3>1, SoleStep, FreshStep
    <3>. QED
      BY <3>2, <3>3, <3>4 DEF RestoreInv
  <2>. QED
    BY <2>1, <2>2
<1>3. Spec => []IInv
  BY RunInvariance
<1>. QED
  BY <1>1, <1>2, <1>3, PTL DEF Spec

LEMMA QuietSeen ==
  ASSUME RestoreInv, Quiet
  PROVE  win.seen = run.seq /\ task["live"].at = "wait" /\ ~Ended
<1>1. win.seen \in Nat /\ run.seq \in Nat /\ win.seen <= run.seq /\ wire = <<>> /\ asks = <<>>
  BY DEF RestoreInv, IInv, TypeOK, Windows, InRange, Quiet
<1>2. win.tracked /\ win.conn
  BY DEF Quiet
<1>3. ~Has(asks, "attach") /\ ~Has(wire, "missing") /\ ~Has(wire, "rejected")
  BY <1>1 DEF Has
<1>4. \A n : Reaches(wire, Len(wire), n, win.seen) => n <= win.seen
  BY <1>1 DEF Reaches
<1>5. \/ task["live"].at = "wait" /\ run.seq <= win.seen
      \/ Ended /\ run.seq <= win.seen
  BY <1>2, <1>3, <1>4 DEF RestoreInv, Served, Quiet
<1>6. Ended => win.seen # run.seq
  BY <1>2 DEF RestoreInv, EndsKnown
<1>. QED
  BY <1>1, <1>5, <1>6

LEMMA QuietWhole ==
  ASSUME RestoreInv, Quiet, Alone
  PROVE  win.view = Upto(run.seq)
<1>1. win.seen = run.seq /\ task["live"].at = "wait" /\ ~Ended
  BY QuietSeen
<1>2. run.phase \in {"reserved", "running", "failed"}
  BY <1>1 DEF RestoreInv, IInv, TypeOK, Phases, Placed, Unheard, Both, Ended
<1>3. CASE run.phase = "failed"
  BY <1>3, UptoSeq DEF RestoreInv, InRange, RunInRange
<1>4. CASE Young
  <2>1. win.clean
    BY <1>4 DEF RestoreInv, Sole, Clean, Quiet
  <2>2. win.whole
    <3>1. Len(asks) = 0 /\ Len(wire) = 0 /\ win.tracked /\ ~win.away
      BY DEF Quiet
    <3>2. ~Renewed
      BY <1>1, <3>1 DEF Renewed, AskedFresh, ReadsFresh, ShowsAll, Has
    <3>. QED
      BY <3>1, <3>2 DEF RestoreInv, Fresh
  <2>. QED
    BY <1>1, <2>1, <2>2 DEF RestoreInv, IInv, ViewExact
<1>. QED
  BY <1>2, <1>3, <1>4 DEF Young, Going

\* However many sockets were lost, pages reloaded, bridges restarted, sessions
\* visited and forwarders replaced: a window that shows a run with nothing under
\* way has been sent the run's last event, and the run has not ended.
Informed == Quiet => win.seen = run.seq /\ ~Ended
THEOREM QuietIsInformed == Spec => []Informed
<1>1. RestoreInv => Informed
  BY QuietSeen DEF Informed
<1>. QED
  BY <1>1, RestoreInvariance, PTL

\* It shows the whole run if sockets, pages and bridges were all that was lost, or,
\* for a run of the host, if histories were all that was loaded again.
RestoredAlone == Quiet /\ Alone => win.view = Upto(run.seq)
THEOREM QuietIsWhole == Spec => []RestoredAlone
<1>1. RestoreInv => RestoredAlone
  BY QuietWhole DEF RestoredAlone
<1>. QED
  BY <1>1, RestoreInvariance, PTL

\* Restored for every ring, queue and number of breaks, of a session that is not
\* left and has no goal.
THEOREM OwnRunIsRestored ==
  ASSUME MaxVisits = 0, MaxGoalNews = 0
  PROVE  Spec => []Restored
<1>1. RestoreInv => Restored
  <2>. SUFFICES ASSUME RestoreInv, Quiet
                PROVE  win.view = Upto(run.seq)
    BY DEF Restored
  <2>1. left.visits = MaxVisits /\ left.goals = MaxGoalNews
    BY DEF RestoreInv, IInv, TypeOK, Placed, Bounded
  <2>2. Alone
    BY <2>1 DEF Alone
  <2>. QED
    BY <2>2, QuietWhole
<1>. QED
  BY <1>1, RestoreInvariance, PTL

\* RestoredFromOne for a run that the host starts, where an aborted forwarder stops.
THEOREM HostRunIsRestored ==
  ASSUME HostGoal, ~LateAbort
  PROVE  Spec => []RestoredFromOne
<1>1. RestoreInv => RestoredFromOne
  BY QuietWhole DEF RestoredFromOne, Alone
<1>. QED
  BY <1>1, RestoreInvariance, PTL

\* A run whose end is shown is not taken up again.
THEOREM EndIsFinal == Spec => NotAgain
<1>1. RestoreInv /\ [Next]_vars => [win.outcome = "ended" => ~win'.tracked]_vars
  <2>. SUFFICES ASSUME RestoreInv, Next, win.outcome = "ended"
                PROVE  ~win'.tracked
    OBVIOUS
  <2>. QED
    BY NotTakenAgain DEF RestoreInv, IInv
<1>. QED
  BY <1>1, RestoreInvariance, PTL DEF Spec, NotAgain

=============================================================================
