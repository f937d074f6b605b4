--------------------------- MODULE JobRunnerProofs ---------------------------
(***************************************************************************)
(* Proofs about JobRunner for any set of jobs, any pool size and any       *)
(* choice of servers and message boxes: type correctness, retention of the *)
(* workers, one message box per job, and that JobRunner implements         *)
(* JobContract.                                                            *)
(*                                                                         *)
(* The properties are not inductive: they depend on what the event queue   *)
(* holds.  The inductive invariant says that the signals of a job in the   *)
(* queue are in order, are newer than what the GUI thread has delivered    *)
(* and no newer than what the worker has emitted, and that while the event *)
(* loop is up nothing emitted and not delivered is missing from the queue. *)
(***************************************************************************)
EXTENDS JobRunner, TLAPS

\* Position of a step in the life of a job; progress may repeat
Rank(step) ==
  IF step \in {"idle", "submitted"} THEN 0
  ELSE IF step = "started" THEN 1
  ELSE IF step = "progress" THEN 2
  ELSE IF step \in Outcomes THEN 3
  ELSE 4

\* The highest rank the worker may have emitted
Emitted(j) ==
  IF phase[j] \in {"new", "waiting", "begin"} THEN 0
  ELSE IF phase[j] = "running" THEN 2
  ELSE IF phase[j] = "outcome" THEN 3
  ELSE 4

Newer(step, old) == Rank(old) < Rank(step) \/ (old = "progress" /\ step = "progress")

InQueue(j, kinds) == \E i \in DOMAIN events : events[i].job = j /\ events[i].kind \in kinds

QueueBounded == \A i \in DOMAIN events : Rank(events[i].kind) <= Emitted(events[i].job)
QueueFresh   == \A i \in DOMAIN events : Newer(events[i].kind, handled[events[i].job])
QueueOrdered ==
  \A i, k \in DOMAIN events :
    i < k /\ events[i].job = events[k].job => Newer(events[k].kind, events[i].kind)
NothingLost ==
  app = "up" =>
    \A j \in Jobs :
      /\ Rank(handled[j]) < 1 /\ 1 <= Emitted(j) => InQueue(j, {"started"})
      /\ Rank(handled[j]) < 3 /\ 3 <= Emitted(j) => InQueue(j, Outcomes)
      /\ Rank(handled[j]) < 4 /\ 4 <= Emitted(j) => InQueue(j, {"finished"})
HandledBounded ==
  \A j \in Jobs : Rank(handled[j]) <= Emitted(j) /\ (phase[j] = "new" <=> handled[j] = "idle")
ActiveExact == \A j \in Jobs : j \in active <=> handled[j] \notin {"idle", "finished"}
PoolExact ==
  /\ \A i \in DOMAIN poolQueue : phase[poolQueue[i]] = "waiting"
  /\ \A i, k \in DOMAIN poolQueue : poolQueue[i] = poolQueue[k] => i = k
BoxesSettled == \A i \in DOMAIN boxes : Rank(handled[boxes[i]]) >= 3

IInv ==
  /\ TypeOK
  /\ QueueBounded /\ QueueFresh /\ QueueOrdered /\ NothingLost
  /\ HandledBounded /\ ActiveExact /\ PoolExact
  /\ BoxesSettled /\ OneBoxPerJob

-----------------------------------------------------------------------------
(* Sequences *)

\* What Append does to the elements and the length of a sequence.
LEMMA AppendFacts ==
  ASSUME NEW S, NEW q \in Seq(S), NEW e \in S
  PROVE  /\ Append(q, e) \in Seq(S)
         /\ Len(Append(q, e)) = Len(q) + 1
         /\ DOMAIN Append(q, e) = 1..(Len(q) + 1)
         /\ \A i \in 1..Len(q) : Append(q, e)[i] = q[i]
         /\ Append(q, e)[Len(q) + 1] = e
OBVIOUS

\* What Tail does to the elements and the length of a sequence.
LEMMA TailFacts ==
  ASSUME NEW S, NEW q \in Seq(S), q # <<>>
  PROVE  /\ Tail(q) \in Seq(S)
         /\ Len(q) \in Nat \ {0}
         /\ Head(q) = q[1] /\ Head(q) \in S
         /\ DOMAIN Tail(q) = 1..(Len(q) - 1)
         /\ \A i \in 1..(Len(q) - 1) : Tail(q)[i] = q[i + 1]
OBVIOUS

\* What removing one element by position leaves of a sequence.
LEMMA FrontFacts ==
  ASSUME NEW S, NEW q \in Seq(S), q # <<>>
  PROVE  /\ SubSeq(q, 1, Len(q) - 1) \in Seq(S)
         /\ DOMAIN SubSeq(q, 1, Len(q) - 1) = 1..(Len(q) - 1)
         /\ \A i \in 1..(Len(q) - 1) : SubSeq(q, 1, Len(q) - 1)[i] = q[i]
OBVIOUS

-----------------------------------------------------------------------------
(* Type correctness *)

\* The initial state is typed.
LEMMA TypeInit == Init => TypeOK
BY JobAssumption DEF Init, TypeOK, Phases, Steps, Kinds

\* Every step keeps the types.
LEMMA TypeStep == TypeOK /\ [Next]_vars => TypeOK'
<1> SUFFICES ASSUME TypeOK, [Next]_vars PROVE TypeOK'
  OBVIOUS
<1> USE DEF TypeOK, Phases
<1>1. ASSUME NEW j \in Jobs, Start(j) PROVE TypeOK'
  BY <1>1, AppendFacts DEF Start, Steps
<1>2. ASSUME NEW j \in Jobs, Cancel(j) PROVE TypeOK'
  BY <1>2 DEF Cancel, workerVars, guiVars
<1>3. ASSUME NEW j \in Jobs, NEW k \in Kinds, Emit(j, k) PROVE events' \in Seq(Signals)
  BY <1>3, AppendFacts DEF Emit, Signals
<1>4. ASSUME NEW j \in Jobs, EmitStarted(j) PROVE TypeOK'
  BY <1>4, <1>3 DEF EmitStarted, guiVars, Kinds
<1>5. ASSUME NEW j \in Jobs, EmitProgress(j) PROVE TypeOK'
  BY <1>5, <1>3 DEF EmitProgress, guiVars, Kinds
<1>6. ASSUME NEW j \in Jobs, FnReturn(j) \/ FnRaise(j) PROVE TypeOK'
  BY <1>6, <1>3 DEF FnReturn, FnRaise, Settle, guiVars, Kinds
<1>7. ASSUME NEW j \in Jobs, EmitFinished(j) PROVE TypeOK'
  BY <1>7, <1>3 DEF EmitFinished, guiVars, Kinds
<1>8. CASE PoolRun
  BY <1>8, TailFacts DEF PoolRun
<1>9. CASE Deliver
  <2>1. events' \in Seq(Signals) /\ Head(events) \in Signals
    BY <1>9, TailFacts DEF Deliver
  <2> QED
    BY <1>9, <2>1, AppendFacts DEF Deliver, Signals, Steps, workerVars
<1>10. CASE Dismiss
  BY <1>10, FrontFacts DEF Dismiss, workerVars
<1>11. CASE Close
  BY <1>11 DEF Close, workerVars, guiVars
<1>12. CASE Exit
  BY <1>12 DEF Exit, workerVars, guiVars
<1>13. CASE UNCHANGED vars
  BY <1>13 DEF vars
<1> QED
  BY <1>1, <1>2, <1>4, <1>5, <1>6, <1>7, <1>8, <1>9, <1>10, <1>11, <1>12, <1>13 DEF Next, Worker

\* Every variable keeps its type: TypeOK of JobRunner.
THEOREM TypeCorrect == Spec => []TypeOK
BY TypeInit, TypeStep, PTL DEF Spec

-----------------------------------------------------------------------------
(* The inductive invariant *)

\* The inductive invariant holds before any job is started.
LEMMA InvInit == Init => IInv
<1> SUFFICES ASSUME Init PROVE IInv
  OBVIOUS
<1>1. TypeOK
  BY TypeInit
<1>2. QueueBounded /\ QueueFresh /\ QueueOrdered
  BY DEF Init, QueueBounded, QueueFresh, QueueOrdered
<1>3. NothingLost
  BY DEF Init, NothingLost, Emitted
<1>4. HandledBounded /\ ActiveExact
  BY DEF Init, HandledBounded, ActiveExact, Rank, Emitted
<1>5. PoolExact /\ BoxesSettled /\ OneBoxPerJob
  BY DEF Init, PoolExact, BoxesSettled, OneBoxPerJob
<1> QED
  BY <1>1, <1>2, <1>3, <1>4, <1>5 DEF IInv

\* The queue part of the invariant when one signal, newer than all the worker has
\* emitted for the job or a further progress, is appended
LEMMA EmitOne ==
  ASSUME IInv, NEW j \in Jobs, NEW kind \in Kinds,
         app = "up", events' = Append(events, [job |-> j, kind |-> kind]),
         handled' = handled, app' = app,
         Emitted(j) < Rank(kind) \/ (kind = "progress" /\ Emitted(j) = 2),
         \A l \in Jobs : Emitted(l) <= Emitted(l)',
         Rank(kind) <= Emitted(j)',
         \A l \in Jobs \ {j} : Emitted(l)' = Emitted(l),
         1 <= Emitted(j)' => 1 <= Emitted(j) \/ kind = "started",
         3 <= Emitted(j)' => 3 <= Emitted(j) \/ kind \in Outcomes,
         4 <= Emitted(j)' => 4 <= Emitted(j) \/ kind = "finished"
  PROVE  (QueueBounded /\ QueueFresh /\ QueueOrdered /\ NothingLost)'
<1> DEFINE s == [job |-> j, kind |-> kind]
           n == Len(events)
<1>1. /\ n \in Nat /\ DOMAIN events = 1..n /\ DOMAIN events' = 1..(n + 1)
      /\ \A i \in 1..n : events'[i] = events[i] /\ events[i] \in Signals
      /\ events'[n + 1] = s
  <2>1. events \in Seq(Signals) /\ s \in Signals
    BY DEF IInv, TypeOK, Signals
  <2> QED
    BY <2>1, AppendFacts
<1>2. \A i \in 1..n : events[i].job \in Jobs /\ events[i].kind \in Kinds
  BY <1>1 DEF Signals
<1>3. \A k \in Steps : Rank(k) \in 0..4
  BY DEF Rank
<1>4. \A l \in Jobs : Emitted(l) \in 0..4 /\ Emitted(l)' \in 0..4
  BY DEF Emitted
<1>5. QueueBounded'
  <2>1. ASSUME NEW i \in 1..(n + 1), NEW l \in Jobs, l = events'[i].job
        PROVE  Rank(events'[i].kind) <= Emitted(l)'
    <3>1. CASE i = n + 1
      BY <2>1, <3>1, <1>1
    <3>2. CASE i \in 1..n
      <4>1. Rank(events[i].kind) <= Emitted(l)
        BY <2>1, <3>2, <1>1 DEF IInv, QueueBounded
      <4> QED
        BY <4>1, <2>1, <3>2, <1>1, <1>2, <1>3, <1>4 DEF Steps
    <3> QED
      BY <1>1, <3>1, <3>2
  <2>2. \A i \in 1..(n + 1) : events'[i].job \in Jobs
    BY <1>1, <1>2
  <2> QED
    BY <2>1, <2>2, <1>1 DEF QueueBounded, Emitted
<1>6. QueueFresh'
  <2> SUFFICES ASSUME NEW i \in 1..(n + 1)
               PROVE  Newer(events'[i].kind, handled[events'[i].job])
    BY <1>1 DEF QueueFresh, Newer
  <2>1. CASE i = n + 1
    <3>1. Rank(handled[j]) <= Emitted(j) /\ handled[j] \in Steps
      BY DEF IInv, HandledBounded, TypeOK
    <3>2. CASE Emitted(j) < Rank(kind)
      BY <2>1, <1>1, <3>1, <3>2, <1>3, <1>4 DEF Newer, Steps
    <3>3. CASE kind = "progress" /\ Emitted(j) = 2
      BY <2>1, <1>1, <3>1, <3>3 DEF Newer, Rank, Steps, Kinds, Outcomes
    <3> QED
      BY <3>2, <3>3
  <2>2. CASE i \in 1..n
    BY <2>2, <1>1 DEF IInv, QueueFresh
  <2> QED
    BY <1>1, <2>1, <2>2
<1>7. QueueOrdered'
  <2> SUFFICES ASSUME NEW i \in 1..(n + 1), NEW k \in 1..(n + 1), i < k, events'[i].job = events'[k].job
               PROVE  Newer(events'[k].kind, events'[i].kind)
    BY <1>1 DEF QueueOrdered, Newer
  <2>1. CASE k \in 1..n
    BY <2>1, <1>1 DEF IInv, QueueOrdered
  <2>2. CASE k = n + 1
    <3>1. i \in 1..n /\ events[i].job = j /\ events[i].kind \in Kinds /\ Rank(events[i].kind) <= Emitted(j)
      BY <2>2, <1>1, <1>2 DEF IInv, QueueBounded
    <3>2. CASE Emitted(j) < Rank(kind)
      BY <2>2, <1>1, <3>1, <3>2, <1>3, <1>4 DEF Newer, Steps
    <3>3. CASE kind = "progress" /\ Emitted(j) = 2
      BY <2>2, <1>1, <3>1, <3>3 DEF Newer, Rank, Kinds, Outcomes
    <3> QED
      BY <3>2, <3>3
  <2> QED
    BY <1>1, <2>1, <2>2
<1>8. NothingLost'
  <2>1. ASSUME NEW l \in Jobs, NEW kinds, InQueue(l, kinds) PROVE InQueue(l, kinds)'
    BY <2>1, <1>1 DEF InQueue
  <2>2. ASSUME NEW kinds, kind \in kinds PROVE InQueue(j, kinds)'
    BY <2>2, <1>1 DEF InQueue
  <2>3. ASSUME NEW l \in Jobs
        PROVE  /\ Rank(handled[l]) < 1 /\ 1 <= Emitted(l)' => InQueue(l, {"started"})'
               /\ Rank(handled[l]) < 3 /\ 3 <= Emitted(l)' => InQueue(l, Outcomes)'
               /\ Rank(handled[l]) < 4 /\ 4 <= Emitted(l)' => InQueue(l, {"finished"})'
    BY <2>1, <2>2, <1>4 DEF IInv, NothingLost
  <2> QED
    BY <2>3 DEF NothingLost, Rank
<1> QED
  BY <1>5, <1>6, <1>7, <1>8

\* The parts of the invariant about the queue when the queue and what has been
\* delivered stay as they are
LEMMA QueueQuiet ==
  ASSUME IInv, events' = events, handled' = handled, app' = app,
         \A l \in Jobs : Emitted(l) <= Emitted(l)',
         app # "up" \/ \A l \in Jobs : Emitted(l)' = Emitted(l)
  PROVE  (QueueBounded /\ QueueFresh /\ QueueOrdered /\ NothingLost)'
<1>1. \A l \in Jobs : Emitted(l) \in 0..4 /\ Emitted(l)' \in 0..4
  BY DEF Emitted
<1>2. \A i \in DOMAIN events : events[i].job \in Jobs /\ Rank(events[i].kind) \in 0..4
  <2>1. \A i \in DOMAIN events : events[i] \in Signals
    BY DEF IInv, TypeOK
  <2> QED
    BY <2>1 DEF Signals, Rank
<1>3. QueueBounded'
  <2>1. ASSUME NEW i \in DOMAIN events, NEW l \in Jobs, l = events[i].job
        PROVE  Rank(events[i].kind) <= Emitted(l)'
    <3>1. Rank(events[i].kind) <= Emitted(l)
      BY <2>1 DEF IInv, QueueBounded
    <3> QED
      BY <3>1, <1>1, <1>2
  <2> QED
    BY <2>1, <1>2 DEF QueueBounded, Emitted
<1>4. QueueFresh' /\ QueueOrdered'
  BY DEF IInv, QueueFresh, QueueOrdered, Newer
<1>5. NothingLost'
  BY DEF IInv, NothingLost, InQueue, Rank
<1> QED
  BY <1>3, <1>4, <1>5

\* A worker thread moves its job from one phase to the next
Moves(j, p) ==
  /\ phase' = [phase EXCEPT ![j] = p]
  /\ UNCHANGED <<cancel, poolQueue, app>> /\ UNCHANGED guiVars

\* The parts of the invariant about the GUI thread and the pool when a worker moves
LEMMA WorkerMoves ==
  ASSUME IInv, TypeOK', NEW j \in Jobs, OnThread(j),
         NEW p \in {"running", "outcome", "ended"}, Moves(j, p),
         \A l \in Jobs : Emitted(l) <= Emitted(l)'
  PROVE  (HandledBounded /\ ActiveExact /\ PoolExact /\ BoxesSettled /\ OneBoxPerJob)'
<1> USE DEF Moves, guiVars
<1>1. TypeOK /\ phase[j] \notin {"new", "waiting"}
  BY DEF IInv, OnThread
<1>2. \A l \in Jobs : Emitted(l) \in 0..4 /\ Emitted(l)' \in 0..4
  BY DEF Emitted
<1>3. \A l \in Jobs : Rank(handled[l]) \in 0..4
  BY DEF Rank
<1>4. HandledBounded'
  <2>1. \A l \in Jobs : Rank(handled[l]) <= Emitted(l) /\ (phase[l] = "new" <=> handled[l] = "idle")
    BY DEF IInv, HandledBounded
  <2>2. \A l \in Jobs : (Rank(handled[l]) <= Emitted(l))'
    BY <2>1, <1>2, <1>3 DEF Rank
  <2>3. \A l \in Jobs : (phase[l] = "new" <=> handled[l] = "idle")'
    BY <2>1, <1>1 DEF TypeOK
  <2> QED
    BY <2>2, <2>3 DEF HandledBounded
<1>5. ActiveExact'
  BY DEF IInv, ActiveExact
<1>6. PoolExact'
  BY <1>1 DEF IInv, PoolExact, TypeOK
<1>7. BoxesSettled' /\ OneBoxPerJob'
  BY DEF IInv, BoxesSettled, OneBoxPerJob, Rank
<1> QED
  BY <1>4, <1>5, <1>6, <1>7

\* A worker thread emits the signal its phase calls for
LEMMA WorkerEmits ==
  ASSUME IInv, TypeOK', NEW j \in Jobs, NEW kind \in Kinds,
         NEW p \in {"running", "outcome", "ended"},
         Emit(j, kind), Moves(j, p),
         \/ phase[j] = "begin"   /\ kind = "started"     /\ p = "running"
         \/ phase[j] = "running" /\ kind = "progress"    /\ p = "running"
         \/ phase[j] = "running" /\ kind \in Outcomes     /\ p = "outcome"
         \/ phase[j] = "outcome" /\ kind = "finished"    /\ p = "ended"
  PROVE  IInv'
<1>1. TypeOK /\ phase'[j] = p /\ \A l \in Jobs \ {j} : phase'[l] = phase[l]
  BY DEF IInv, TypeOK, Moves
<1>2. \A l \in Jobs \ {j} : Emitted(l)' = Emitted(l)
  BY <1>1 DEF Emitted
<1>3. Emitted(j) <= Emitted(j)' /\ Emitted(j) \in 0..4
  BY <1>1 DEF Emitted
<1>4. \A l \in Jobs : Emitted(l) <= Emitted(l)'
  BY <1>2, <1>3 DEF Emitted
<1>5. (QueueBounded /\ QueueFresh /\ QueueOrdered /\ NothingLost)'
  <2>1. CASE app = "up"
    <3>1. Emitted(j) < Rank(kind) \/ (kind = "progress" /\ Emitted(j) = 2)
      BY DEF Emitted, Rank, Outcomes
    <3>2. Rank(kind) <= Emitted(j)'
      BY <1>1 DEF Emitted, Rank, Outcomes
    <3>3. /\ 1 <= Emitted(j)' => 1 <= Emitted(j) \/ kind = "started"
          /\ 3 <= Emitted(j)' => 3 <= Emitted(j) \/ kind \in Outcomes
          /\ 4 <= Emitted(j)' => 4 <= Emitted(j) \/ kind = "finished"
      BY <1>1 DEF Emitted, Outcomes
    <3> QED
      BY <2>1, <1>2, <1>4, <3>1, <3>2, <3>3, EmitOne DEF Emit, Moves, guiVars
  <2>2. CASE app # "up"
    BY <2>2, <1>4, QueueQuiet DEF Emit, Moves, guiVars
  <2> QED
    BY <2>1, <2>2
<1>6. OnThread(j)
  BY DEF OnThread
<1> QED
  BY <1>4, <1>5, <1>6, WorkerMoves DEF IInv

\* JobRunner.start keeps the inductive invariant: the new worker is retained and queued.
LEMMA InvStart ==
  ASSUME IInv, TypeOK', NEW j \in Jobs, Start(j)
  PROVE  IInv'
<1> USE DEF Start
<1>1. /\ TypeOK /\ handled[j] = "idle"
      /\ phase' = [phase EXCEPT ![j] = "waiting"] /\ handled' = [handled EXCEPT ![j] = "submitted"]
  BY DEF IInv, HandledBounded
<1>2. \A l \in Jobs : Emitted(l)' = Emitted(l) /\ Rank(handled'[l]) = Rank(handled[l])
  BY <1>1 DEF TypeOK, Emitted, Rank
<1>3. Emitted(j) = 0
  BY <1>1 DEF TypeOK, Emitted
<1>4. \A i \in DOMAIN events : /\ events[i].job \in Jobs \ {j}
                               /\ Rank(events[i].kind) <= Emitted(events[i].job)
  <2>1. \A i \in DOMAIN events : events[i] \in Signals
    BY <1>1 DEF TypeOK
  <2>2. ASSUME NEW i \in DOMAIN events PROVE Rank(events[i].kind) \in 1..4
    BY <2>1 DEF Signals, Rank, Kinds
  <2> QED
    BY <1>3, <2>1, <2>2 DEF IInv, QueueBounded, Signals
<1>5. QueueBounded' /\ QueueFresh' /\ QueueOrdered'
  <2>1. ASSUME NEW i \in DOMAIN events, NEW l \in Jobs, l = events[i].job
        PROVE  Rank(events[i].kind) <= Emitted(l)'
    BY <2>1, <1>2, <1>4
  <2>2. QueueBounded'
    BY <2>1, <1>4 DEF QueueBounded, Emitted
  <2>3. QueueFresh'
    BY <1>1, <1>4 DEF IInv, QueueFresh, Newer, TypeOK
  <2> QED
    BY <2>2, <2>3 DEF IInv, QueueOrdered, Newer
<1>6. NothingLost'
  <2>1. \A l \in Jobs, kinds \in {{"started"}, Outcomes, {"finished"}} : InQueue(l, kinds)' = InQueue(l, kinds)
    BY DEF InQueue
  <2> QED
    BY <1>2, <2>1 DEF IInv, NothingLost
<1>7. HandledBounded' /\ ActiveExact'
  <2>1. \A l \in Jobs : Rank(handled'[l]) <= Emitted(l)'
    BY <1>2 DEF IInv, HandledBounded
  <2>2. \A l \in Jobs : phase'[l] = "new" <=> handled'[l] = "idle"
    BY <1>1 DEF IInv, HandledBounded, TypeOK
  <2>3. HandledBounded'
    BY <2>1, <2>2 DEF HandledBounded, Rank, Emitted
  <2>4. ActiveExact'
    BY <1>1 DEF IInv, ActiveExact, TypeOK
  <2> QED
    BY <2>3, <2>4
<1>8. PoolExact'
  <2>1. /\ poolQueue \in Seq(Jobs) /\ DOMAIN poolQueue' = 1..(Len(poolQueue) + 1)
        /\ DOMAIN poolQueue = 1..Len(poolQueue) /\ Len(poolQueue) \in Nat
        /\ \A i \in 1..Len(poolQueue) : poolQueue'[i] = poolQueue[i] /\ poolQueue[i] \in Jobs
        /\ poolQueue'[Len(poolQueue) + 1] = j
    BY <1>1, AppendFacts DEF TypeOK
  <2>2. \A i \in 1..Len(poolQueue) : poolQueue[i] # j /\ phase[poolQueue[i]] = "waiting"
    BY <2>1 DEF IInv, PoolExact
  <2>3. \A i \in 1..(Len(poolQueue) + 1) : phase'[poolQueue'[i]] = "waiting"
    BY <1>1, <2>1, <2>2 DEF TypeOK
  <2>4. \A i, k \in 1..(Len(poolQueue) + 1) : poolQueue'[i] = poolQueue'[k] => i = k
    BY <2>1, <2>2 DEF IInv, PoolExact
  <2> QED
    BY <2>1, <2>3, <2>4 DEF PoolExact
<1>9. BoxesSettled' /\ OneBoxPerJob'
  <2>1. \A i \in DOMAIN boxes : boxes[i] \in Jobs /\ Rank(handled[boxes[i]]) >= 3
    BY <1>1 DEF IInv, BoxesSettled, TypeOK
  <2>2. \A i \in DOMAIN boxes : Rank(handled'[boxes[i]]) >= 3
    BY <1>2, <2>1
  <2> QED
    BY <2>2 DEF IInv, BoxesSettled, OneBoxPerJob, Rank
<1> QED
  BY <1>5, <1>6, <1>7, <1>8, <1>9 DEF IInv

\* A pool thread that takes a worker keeps the inductive invariant.
LEMMA InvPoolRun == ASSUME IInv, TypeOK', PoolRun PROVE IInv'
<1> DEFINE j == Head(poolQueue)
           n == Len(poolQueue)
<1> USE DEF PoolRun, guiVars
<1>1. /\ n \in Nat \ {0} /\ j \in Jobs /\ j = poolQueue[1]
      /\ DOMAIN poolQueue' = 1..(n - 1) /\ DOMAIN poolQueue = 1..n
      /\ \A i \in 1..(n - 1) : poolQueue'[i] = poolQueue[i + 1]
      /\ \A i \in 1..n : poolQueue[i] \in Jobs
  BY TailFacts DEF IInv, TypeOK
<1>2. phase[j] = "waiting" /\ phase' = [phase EXCEPT ![j] = "begin"] /\ phase \in [Jobs -> Phases]
  <2>1. 1 \in DOMAIN poolQueue
    BY <1>1
  <2>2. phase[poolQueue[1]] = "waiting"
    BY <2>1 DEF IInv, PoolExact
  <2> QED
    BY <1>1, <2>2 DEF IInv, TypeOK
<1> HIDE DEF j, n
<1>3. \A l \in Jobs : Emitted(l)' = Emitted(l)
  BY <1>1, <1>2 DEF Emitted
<1>4. \A l \in Jobs : Emitted(l) \in 0..4
  BY DEF Emitted
<1>5. (QueueBounded /\ QueueFresh /\ QueueOrdered /\ NothingLost)'
  BY <1>3, <1>4, QueueQuiet
<1>6. HandledBounded' /\ ActiveExact'
  <2>1. \A l \in Jobs : Rank(handled[l]) <= Emitted(l)' /\ (phase'[l] = "new" <=> handled[l] = "idle")
    BY <1>1, <1>2, <1>3 DEF IInv, HandledBounded
  <2> QED
    BY <2>1 DEF IInv, HandledBounded, ActiveExact, Rank, Emitted
<1>7. PoolExact'
  <2>1. \A i \in 1..n : phase[poolQueue[i]] = "waiting" /\ poolQueue[i] \in Jobs
    BY <1>1 DEF IInv, PoolExact
  <2>2. \A i, k \in 1..n : poolQueue[i] = poolQueue[k] => i = k
    BY <1>1 DEF IInv, PoolExact
  <2>3. \A i \in 1..(n - 1) : poolQueue'[i] # j /\ phase'[poolQueue'[i]] = "waiting"
    BY <1>1, <1>2, <2>1, <2>2
  <2>4. \A i, k \in 1..(n - 1) : poolQueue'[i] = poolQueue'[k] => i = k
    <3> SUFFICES ASSUME NEW i \in 1..(n - 1), NEW k \in 1..(n - 1), poolQueue[i + 1] = poolQueue[k + 1]
                 PROVE  i = k
      BY <1>1
    <3>1. i + 1 \in 1..n /\ k + 1 \in 1..n
      BY <1>1
    <3>2. i + 1 = k + 1
      BY <2>2, <3>1
    <3> QED
      BY <3>2
  <2> QED
    BY <1>1, <2>3, <2>4 DEF PoolExact
<1>8. BoxesSettled' /\ OneBoxPerJob'
  BY DEF IInv, BoxesSettled, OneBoxPerJob, Rank
<1> QED
  BY <1>5, <1>6, <1>7, <1>8 DEF IInv

\* The delivery of a queued signal to the GUI thread keeps the inductive invariant.
LEMMA InvDeliver == ASSUME IInv, TypeOK', Deliver PROVE IInv'
<1> DEFINE n == Len(events)
           s == Head(events)
<1> USE DEF workerVars
<1>1. /\ n \in Nat \ {0} /\ s = events[1] /\ s \in Signals
      /\ DOMAIN events = 1..n /\ DOMAIN events' = 1..(n - 1)
      /\ \A i \in 1..(n - 1) : events'[i] = events[i + 1]
      /\ \A i \in 1..n : events[i] \in Signals
  BY TailFacts DEF Deliver, IInv, TypeOK
<1>2. /\ handled' = [handled EXCEPT ![s.job] = s.kind]
      /\ active' = IF s.kind = "finished" THEN active \ {s.job} ELSE active
      /\ boxes' = IF s.kind \in BoxOn[s.job] THEN Append(boxes, s.job) ELSE boxes
      /\ phase' = phase /\ poolQueue' = poolQueue /\ app = "up" /\ app' = "up"
  BY DEF Deliver, Released
<1> HIDE DEF s, n
<1>3. PICK j \in Jobs, kind \in Kinds : s.job = j /\ s.kind = kind
  BY <1>1 DEF Signals
<1>4. /\ handled \in [Jobs -> Steps] /\ phase \in [Jobs -> Phases]
      /\ handled'[j] = kind /\ \A l \in Jobs \ {j} : handled'[l] = handled[l]
  BY <1>2, <1>3 DEF IInv, TypeOK
<1>5. \A l \in Jobs : Emitted(l) \in 0..4 /\ Emitted(l)' = Emitted(l)
  BY <1>2 DEF Emitted
<1>6. \A step \in Steps : Rank(step) \in 0..4
  BY DEF Rank
<1>7. Newer(kind, handled[j]) /\ Rank(kind) <= Emitted(j) /\ Rank(kind) >= 1
  <2>1. 1 \in DOMAIN events
    BY <1>1
  <2>2. Newer(events[1].kind, handled[events[1].job]) /\ Rank(events[1].kind) <= Emitted(events[1].job)
    BY <2>1 DEF IInv, QueueFresh, QueueBounded
  <2>3. Rank(kind) >= 1
    BY DEF Rank, Kinds
  <2> QED
    BY <2>2, <2>3, <1>1, <1>3
<1>8. Rank(handled[j]) <= Rank(kind) /\ handled[j] # "idle" /\ handled[j] # "finished" /\ phase[j] # "new"
  <2>1. kind \in Steps /\ handled[j] \in Steps /\ Rank(kind) \in 0..4 /\ Rank(handled[j]) \in 0..4
    BY <1>4, <1>6 DEF Steps
  <2>2. Rank(handled[j]) <= Rank(kind)
    BY <1>7, <2>1 DEF Newer
  <2>3. phase[j] # "new"
    BY <1>7, <2>1 DEF Emitted
  <2>4. handled[j] # "idle"
    BY <2>3 DEF IInv, HandledBounded
  <2>5. handled[j] # "finished"
    <3>1. Rank("finished") = 4
      BY DEF Rank, Outcomes
    <3> QED
      BY <3>1, <1>7, <2>1 DEF Newer
  <2> QED
    BY <2>2, <2>3, <2>4, <2>5
<1>9. \A i \in 1..(n - 1) : i + 1 \in 1..n /\ events'[i] = events[i + 1] /\ events'[i].job \in Jobs
  BY <1>1 DEF Signals
<1>10. QueueBounded'
  <2>1. ASSUME NEW i \in 1..(n - 1), NEW l \in Jobs, l = events'[i].job
        PROVE  Rank(events'[i].kind) <= Emitted(l)'
    BY <2>1, <1>1, <1>5, <1>9 DEF IInv, QueueBounded
  <2> QED
    BY <2>1, <1>1, <1>9 DEF QueueBounded, Emitted
<1>11. QueueOrdered'
  <2> SUFFICES ASSUME NEW i \in 1..(n - 1), NEW k \in 1..(n - 1), i < k, events'[i].job = events'[k].job
               PROVE  Newer(events'[k].kind, events'[i].kind)
    BY <1>1 DEF QueueOrdered, Newer
  <2>1. i + 1 < k + 1 /\ i + 1 \in DOMAIN events /\ k + 1 \in DOMAIN events
    BY <1>1, <1>9
  <2> QED
    BY <2>1, <1>9 DEF IInv, QueueOrdered
<1>12. QueueFresh'
  <2> SUFFICES ASSUME NEW i \in 1..(n - 1)
               PROVE  Newer(events'[i].kind, handled'[events'[i].job])
    BY <1>1 DEF QueueFresh, Newer
  <2>1. 1 < i + 1 /\ 1 \in DOMAIN events /\ i + 1 \in DOMAIN events
    BY <1>1, <1>9
  <2>2. CASE events'[i].job = j
    <3>1. events[1].job = events[i + 1].job
      BY <2>2, <1>1, <1>3, <1>9
    <3>2. Newer(events[i + 1].kind, events[1].kind)
      BY <2>1, <3>1 DEF IInv, QueueOrdered
    <3> QED
      BY <2>2, <3>2, <1>1, <1>3, <1>4, <1>9
  <2>3. CASE events'[i].job # j
    BY <2>1, <2>3, <1>4, <1>9 DEF IInv, QueueFresh
  <2> QED
    BY <2>2, <2>3
<1>13. NothingLost'
  <2>1. ASSUME NEW l \in Jobs, NEW kinds, InQueue(l, kinds), l # j \/ kind \notin kinds
        PROVE  InQueue(l, kinds)'
    <3>1. PICK i \in 1..n : events[i].job = l /\ events[i].kind \in kinds
      BY <2>1, <1>1 DEF InQueue
    <3>2. i # 1
      BY <2>1, <3>1, <1>1, <1>3
    <3>3. i - 1 \in 1..(n - 1) /\ (i - 1) + 1 = i
      BY <3>2, <1>1
    <3>4. events'[i - 1] = events[i]
      BY <3>3, <1>9
    <3> QED
      BY <3>1, <3>3, <3>4, <1>1 DEF InQueue
  <2>2. ASSUME NEW l \in Jobs
        PROVE  /\ Rank(handled'[l]) < 1 /\ 1 <= Emitted(l) => InQueue(l, {"started"})'
               /\ Rank(handled'[l]) < 3 /\ 3 <= Emitted(l) => InQueue(l, Outcomes)'
               /\ Rank(handled'[l]) < 4 /\ 4 <= Emitted(l) => InQueue(l, {"finished"})'
    <3>1. /\ Rank(handled[l]) < 1 /\ 1 <= Emitted(l) => InQueue(l, {"started"})
          /\ Rank(handled[l]) < 3 /\ 3 <= Emitted(l) => InQueue(l, Outcomes)
          /\ Rank(handled[l]) < 4 /\ 4 <= Emitted(l) => InQueue(l, {"finished"})
      BY <1>2 DEF IInv, NothingLost
    <3>2. CASE l # j
      BY <3>1, <3>2, <2>1, <1>4
    <3>3. CASE l = j
      <4>1. Rank(handled[j]) \in 0..4 /\ Rank(kind) \in 0..4
        BY <1>4, <1>6 DEF Steps
      <4>2. /\ Rank(kind) < 3 => kind \notin Outcomes
            /\ Rank(kind) < 4 => kind \notin {"finished"}
        BY DEF Rank, Outcomes
      <4> QED
        BY <3>1, <3>3, <4>1, <4>2, <2>1, <1>4, <1>7, <1>8
    <3> QED
      BY <3>2, <3>3
  <2> QED
    BY <2>2, <1>5 DEF NothingLost
<1>14. HandledBounded'
  <2>1. \A l \in Jobs : Rank(handled'[l]) <= Emitted(l)
    BY <1>4, <1>7 DEF IInv, HandledBounded
  <2>2. \A l \in Jobs : phase[l] = "new" <=> handled'[l] = "idle"
    BY <1>4, <1>8 DEF IInv, HandledBounded, Kinds
  <2> QED
    BY <2>1, <2>2, <1>2, <1>5 DEF HandledBounded, Rank
<1>15. ActiveExact'
  <2>1. j \in active
    BY <1>8 DEF IInv, ActiveExact
  <2>2. \A l \in Jobs : l \in active' <=> handled'[l] \notin {"idle", "finished"}
    BY <2>1, <1>2, <1>3, <1>4 DEF IInv, ActiveExact, Kinds
  <2> QED
    BY <2>2 DEF ActiveExact
<1>16. PoolExact'
  BY <1>2 DEF IInv, PoolExact
<1>17. BoxesSettled' /\ OneBoxPerJob'
  <2>1. boxes \in Seq(Jobs) /\ \A l \in Jobs : Rank(handled[l]) \in 0..4 /\ Rank(handled'[l]) \in 0..4
    BY <1>4, <1>6 DEF IInv, TypeOK, Steps
  <2>2. \A i \in DOMAIN boxes : boxes[i] \in Jobs /\ Rank(handled[boxes[i]]) >= 3
    BY <2>1 DEF IInv, BoxesSettled
  <2>3. \A i \in DOMAIN boxes : Rank(handled'[boxes[i]]) >= 3
    BY <2>1, <2>2, <1>4, <1>8
  <2>4. CASE kind \in BoxOn[j]
    <3>1. kind \in Outcomes /\ Rank(kind) = 3
      BY <2>4, JobAssumption DEF Rank, Outcomes
    <3>2. \A i \in DOMAIN boxes : boxes[i] # j
      BY <3>1, <2>1, <2>2, <1>7 DEF Newer, Outcomes
    <3>3. /\ DOMAIN boxes' = 1..(Len(boxes) + 1) /\ DOMAIN boxes = 1..Len(boxes) /\ Len(boxes) \in Nat
          /\ \A i \in 1..Len(boxes) : boxes'[i] = boxes[i]
          /\ boxes'[Len(boxes) + 1] = j
      BY <2>4, <2>1, <1>2, <1>3, AppendFacts
    <3>4. \A i \in DOMAIN boxes' : Rank(handled'[boxes'[i]]) >= 3
      BY <3>1, <3>3, <2>3, <1>4
    <3>5. \A i, k \in DOMAIN boxes' : boxes'[i] = boxes'[k] => i = k
      BY <3>2, <3>3 DEF IInv, OneBoxPerJob
    <3> QED
      BY <3>4, <3>5 DEF BoxesSettled, OneBoxPerJob, Rank
  <2>5. CASE kind \notin BoxOn[j]
    BY <2>5, <2>3, <1>2, <1>3 DEF IInv, BoxesSettled, OneBoxPerJob, Rank
  <2> QED
    BY <2>4, <2>5
<1> QED
  BY <1>10, <1>11, <1>12, <1>13, <1>14, <1>15, <1>16, <1>17 DEF IInv

\* Steps that leave the workers, the queue and the deliveries as they are
LEMMA InvOther ==
  ASSUME IInv, TypeOK',
         (\E j \in Jobs : Cancel(j)) \/ Dismiss \/ Close \/ Exit \/ UNCHANGED vars
  PROVE  IInv'
<1> USE DEF workerVars, guiVars, vars
<1>1. phase' = phase /\ poolQueue' = poolQueue /\ active' = active /\ handled' = handled
  BY DEF Cancel, Dismiss, Close, Exit
<1>2. (QueueBounded /\ QueueFresh /\ QueueOrdered /\ NothingLost)'
  <2>1. CASE Close
    BY <2>1, <1>1 DEF Close, QueueBounded, QueueFresh, QueueOrdered, NothingLost
  <2>2. CASE ~Close
    <3>1. events' = events /\ (app' = app \/ (app' = "exited" /\ app = "closed"))
      BY <2>2 DEF Cancel, Dismiss, Exit
    <3>2. QueueBounded' /\ QueueFresh' /\ QueueOrdered'
      BY <1>1, <3>1 DEF IInv, QueueBounded, QueueFresh, QueueOrdered, Newer, Emitted
    <3>3. NothingLost'
      BY <1>1, <3>1 DEF IInv, NothingLost, InQueue, Emitted, Rank
    <3> QED
      BY <3>2, <3>3
  <2> QED
    BY <2>1, <2>2
<1>3. HandledBounded' /\ ActiveExact' /\ PoolExact'
  BY <1>1 DEF IInv, HandledBounded, ActiveExact, PoolExact, Rank, Emitted
<1>4. BoxesSettled' /\ OneBoxPerJob'
  <2>1. CASE Dismiss
    <3>1. /\ Len(boxes) \in Nat /\ DOMAIN boxes = 1..Len(boxes)
          /\ DOMAIN boxes' = 1..(Len(boxes) - 1)
          /\ \A i \in 1..(Len(boxes) - 1) : boxes'[i] = boxes[i]
      BY <2>1, FrontFacts DEF Dismiss, IInv, TypeOK
    <3> QED
      BY <3>1, <1>1 DEF IInv, BoxesSettled, OneBoxPerJob, Rank
  <2>2. CASE ~Dismiss
    <3>1. boxes' = boxes
      BY <2>2 DEF Cancel, Close, Exit
    <3> QED
      BY <3>1, <1>1 DEF IInv, BoxesSettled, OneBoxPerJob, Rank
  <2> QED
    BY <2>1, <2>2
<1> QED
  BY <1>2, <1>3, <1>4 DEF IInv

\* Every step of FunctionWorker.run keeps the inductive invariant.
LEMMA InvWorker ==
  ASSUME IInv, TypeOK', NEW j \in Jobs, Worker(j)
  PROVE  IInv'
<1> USE DEF Moves, Kinds
<1>1. CASE EmitStarted(j)
  <2>1. CASE Emit(j, "started") /\ phase' = [phase EXCEPT ![j] = "running"]
    BY <1>1, <2>1, WorkerEmits DEF EmitStarted
  <2>2. CASE app # "up" /\ phase' = [phase EXCEPT ![j] = "ended"] /\ UNCHANGED events
    <3>1. phase[j] = "begin" /\ phase \in [Jobs -> Phases] /\ Moves(j, "ended")
      BY <1>1, <2>2 DEF EmitStarted, IInv, TypeOK
    <3>2. \A l \in Jobs : Emitted(l) <= Emitted(l)'
      BY <2>2, <3>1 DEF Emitted
    <3>3. (QueueBounded /\ QueueFresh /\ QueueOrdered /\ NothingLost)'
      BY <2>2, <3>1, <3>2, QueueQuiet DEF guiVars
    <3>4. OnThread(j)
      BY <3>1 DEF OnThread
    <3> QED
      BY <3>1, <3>2, <3>3, <3>4, WorkerMoves DEF IInv
  <2> QED
    BY <1>1, <2>1, <2>2 DEF EmitStarted
<1>2. CASE EmitProgress(j)
  <2>1. phase' = [phase EXCEPT ![j] = "running"] /\ phase[j] = "running"
    BY <1>2 DEF EmitProgress, IInv, TypeOK
  <2> QED
    BY <1>2, <2>1, WorkerEmits DEF EmitProgress
<1>3. CASE FnReturn(j) \/ FnRaise(j)
  <2>1. PICK outcome \in Outcomes : Settle(j, outcome)
    BY <1>3 DEF FnReturn, FnRaise, Outcomes
  <2> QED
    BY <2>1, WorkerEmits DEF Settle, Outcomes
<1>4. CASE EmitFinished(j)
  BY <1>4, WorkerEmits DEF EmitFinished
<1> QED
  BY <1>1, <1>2, <1>3, <1>4 DEF Worker

\* Every step of the specification keeps the inductive invariant.
LEMMA InvStep == IInv /\ [Next]_vars => IInv'
<1> SUFFICES ASSUME IInv, [Next]_vars PROVE IInv'
  OBVIOUS
<1>1. TypeOK'
  BY TypeStep DEF IInv
<1>2. ASSUME NEW j \in Jobs, Start(j) \/ Worker(j) PROVE IInv'
  BY <1>1, <1>2, InvStart, InvWorker
<1>3. CASE PoolRun \/ Deliver
  BY <1>1, <1>3, InvPoolRun, InvDeliver
<1>4. CASE (\E j \in Jobs : Cancel(j)) \/ Dismiss \/ Close \/ Exit \/ UNCHANGED vars
  BY <1>1, <1>4, InvOther
<1> QED
  BY <1>2, <1>3, <1>4 DEF Next

\* In every reachable state the retained workers, the pool, the phases of the workers
\* and the queued signals agree as IInv says: the inductive invariant of JobRunner.
THEOREM Invariance == Spec => []IInv
BY InvInit, InvStep, PTL DEF Spec

-----------------------------------------------------------------------------
(* What follows from it *)

\* The inductive invariant contains Retained.
LEMMA IInvRetained == IInv => Retained
<1> SUFFICES ASSUME IInv PROVE Retained
  OBVIOUS
<1>1. ASSUME NEW i \in DOMAIN events
      PROVE  events[i].job \in Jobs /\ events[i].kind \in Kinds
  <2>1. events[i] \in Signals
    BY DEF IInv, TypeOK
  <2> QED
    BY <2>1 DEF Signals
<1>2. \A l \in Jobs : Rank(handled[l]) \in 0..4 /\ Emitted(l) \in 0..4
  BY DEF Rank, Emitted
<1>3. Rank("finished") = 4 /\ \A kind \in Kinds : Rank(kind) \in 1..4
  BY DEF Rank, Outcomes, Kinds
<1>4. ASSUME NEW j \in Jobs, phase[j] = "waiting" \/ OnThread(j)
      PROVE  j \in active
  <2>1. phase[j] # "new" /\ Emitted(j) <= 3
    BY <1>4 DEF Emitted, OnThread
  <2>2. handled[j] # "idle" /\ Rank(handled[j]) <= 3
    BY <2>1, <1>2 DEF IInv, HandledBounded
  <2> QED
    BY <2>2, <1>3 DEF IInv, ActiveExact
<1>5. ASSUME NEW i \in DOMAIN events, NEW j \in Jobs, j = events[i].job
      PROVE  j \in active
  <2>1. Rank(events[i].kind) <= Emitted(j) /\ Newer(events[i].kind, handled[j])
    BY <1>5 DEF IInv, QueueBounded, QueueFresh
  <2>2. phase[j] # "new"
    BY <2>1, <1>1, <1>2, <1>3 DEF Emitted
  <2>3. handled[j] # "idle"
    BY <2>2 DEF IInv, HandledBounded
  <2>4. handled[j] # "finished"
    BY <2>1, <1>1, <1>2, <1>3 DEF Newer
  <2> QED
    BY <2>3, <2>4 DEF IInv, ActiveExact
<1> QED
  BY <1>1, <1>4, <1>5 DEF Retained

\* A worker whose thread has yet to finish, or with a signal still to be delivered,
\* is kept in _active_workers: Retained, for any number of jobs and threads.
THEOREM WorkersRetained == Spec => []Retained
BY Invariance, IInvRetained, PTL

\* The outcome of a job opens at most one message box: OneBoxPerJob.
THEOREM OneBox == Spec => []OneBoxPerJob
<1>1. IInv => OneBoxPerJob
  BY DEF IInv
<1> QED
  BY <1>1, Invariance, PTL

\* The signal at the head of the queue is the next one of its job in the contract
LEMMA HeadIsNext ==
  ASSUME IInv, app = "up", events # <<>>,
         NEW j \in Jobs, NEW kind \in Kinds, Head(events) = [job |-> j, kind |-> kind]
  PROVE  /\ kind = "started"  => handled[j] = "submitted"
         /\ kind = "progress" => handled[j] \in {"started", "progress"}
         /\ kind \in Outcomes  => handled[j] \in {"started", "progress"}
         /\ kind = "finished" => handled[j] \in Outcomes
<1>1. /\ 1 \in DOMAIN events /\ events[1] = [job |-> j, kind |-> kind]
      /\ \A i \in DOMAIN events : i = 1 \/ 1 < i
  BY TailFacts DEF IInv, TypeOK
<1>2. Newer(kind, handled[j]) /\ Rank(kind) <= Emitted(j)
  BY <1>1 DEF IInv, QueueFresh, QueueBounded
<1>3. ASSUME NEW kinds, InQueue(j, kinds), kind \notin kinds
      PROVE  \E k \in kinds : Newer(k, kind)
  <2>1. PICK i \in DOMAIN events : events[i].job = j /\ events[i].kind \in kinds
    BY <1>3 DEF InQueue
  <2>2. 1 < i /\ events[1].job = j
    BY <2>1, <1>1, <1>3
  <2>3. Newer(events[i].kind, events[1].kind)
    BY <2>1, <2>2, <1>1 DEF IInv, QueueOrdered
  <2> QED
    BY <2>1, <2>3, <1>1
<1>4. handled[j] \in Steps /\ Emitted(j) \in 0..4 /\ Rank(handled[j]) \in 0..4
  BY DEF IInv, TypeOK, Emitted, Rank
<1>5. /\ Rank("idle") = 0 /\ Rank("submitted") = 0 /\ Rank("started") = 1 /\ Rank("progress") = 2
      /\ Rank("result") = 3 /\ Rank("error") = 3 /\ Rank("finished") = 4
  BY DEF Rank, Outcomes
<1>6. handled[j] # "idle"
  <2>1. Emitted(j) >= 1
    BY <1>2, <1>4, <1>5 DEF Kinds
  <2>2. phase[j] # "new"
    BY <2>1 DEF Emitted
  <2> QED
    BY <2>2 DEF IInv, HandledBounded
<1>7. Rank(kind) >= 2 => Rank(handled[j]) >= 1
  <2> SUFFICES ASSUME Rank(kind) >= 2, Rank(handled[j]) < 1 PROVE FALSE
    BY <1>4
  <2>1. kind \notin {"started"} /\ 1 <= Emitted(j)
    BY <1>2, <1>4, <1>5 DEF Kinds
  <2>2. InQueue(j, {"started"})
    BY <2>1 DEF IInv, NothingLost
  <2>3. Newer("started", kind)
    BY <2>1, <2>2, <1>3
  <2> QED
    BY <2>3, <1>5 DEF Newer, Kinds
<1>8. Rank(kind) >= 4 => Rank(handled[j]) >= 3
  <2> SUFFICES ASSUME Rank(kind) >= 4, Rank(handled[j]) < 3 PROVE FALSE
    BY <1>4
  <2>1. kind \notin Outcomes /\ 3 <= Emitted(j)
    BY <1>2, <1>4, <1>5 DEF Kinds, Outcomes
  <2>2. InQueue(j, Outcomes)
    BY <2>1 DEF IInv, NothingLost
  <2>3. PICK k \in Outcomes : Newer(k, kind)
    BY <2>1, <2>2, <1>3
  <2> QED
    BY <2>3, <1>5 DEF Newer, Kinds, Outcomes
<1>9. CASE kind = "started"
  BY <1>9, <1>2, <1>4, <1>5, <1>6 DEF Newer, Steps, Kinds, Outcomes
<1>10. CASE kind = "progress"
  BY <1>10, <1>2, <1>4, <1>5, <1>7 DEF Newer, Steps, Kinds, Outcomes
<1>11. CASE kind \in Outcomes
  BY <1>11, <1>2, <1>4, <1>5, <1>7 DEF Newer, Steps, Kinds, Outcomes
<1>12. CASE kind = "finished"
  BY <1>12, <1>2, <1>4, <1>5, <1>8 DEF Newer, Steps, Kinds, Outcomes
<1> QED
  BY <1>9, <1>10, <1>11, <1>12 DEF Kinds, Outcomes

\* No job has begun in the contract when none has been started in JobRunner.
LEMMA RefinementInit == Init => Contract!Init
BY DEF Init, Contract!Init, stage

\* A step of JobRunner is a step of the contract, or leaves what callers see unchanged.
LEMMA RefinementStep == IInv /\ [Next]_vars => [Contract!Next]_(Contract!vars)
<1> SUFFICES ASSUME IInv, [Next]_vars PROVE Contract!Next \/ stage' = stage
  BY DEF Contract!vars
<1> USE DEF workerVars, guiVars, vars
<1>1. handled \in [Jobs -> Steps]
  BY DEF IInv, TypeOK
<1>2. handled' = handled => stage' = stage
  BY DEF stage
<1>3. ASSUME NEW j \in Jobs, Start(j) PROVE Contract!Next
  <2>1. handled[j] = "idle" /\ handled' = [handled EXCEPT ![j] = "submitted"]
    BY <1>3 DEF Start, IInv, HandledBounded
  <2>2. stage[j] = "idle" /\ stage' = [stage EXCEPT ![j] = "submitted"]
    BY <2>1, <1>1 DEF stage
  <2> QED
    BY <2>2 DEF Contract!Next, Contract!Submit, Contract!Advance
<1>4. CASE Deliver
  <2>1. app = "up" /\ events # <<>> /\ Head(events) \in Signals
        /\ handled' = [handled EXCEPT ![Head(events).job] = Head(events).kind]
    BY <1>4, TailFacts DEF Deliver, IInv, TypeOK
  <2>2. PICK j \in Jobs, kind \in Kinds : Head(events) = [job |-> j, kind |-> kind]
    BY <2>1 DEF Signals
  <2>3. handled' = [handled EXCEPT ![j] = kind]
    <3>1. Head(events).job = j /\ Head(events).kind = kind
      BY <2>2
    <3> QED
      BY <2>1, <3>1
  <2>4. /\ kind = "started"  => handled[j] = "submitted"
        /\ kind = "progress" => handled[j] \in {"started", "progress"}
        /\ kind \in Outcomes  => handled[j] \in {"started", "progress"}
        /\ kind = "finished" => handled[j] \in Outcomes
    BY <2>1, <2>2, HeadIsNext
  <2>5. CASE kind = "started"
    <3>1. stage[j] \in {"submitted"} /\ stage' = [stage EXCEPT ![j] = "started"]
      BY <2>3, <2>4, <2>5, <1>1 DEF stage
    <3> QED
      BY <3>1 DEF Contract!Next, Contract!Begin, Contract!Advance
  <2>6. CASE kind = "progress"
    BY <2>3, <2>4, <2>6, <1>1 DEF stage
  <2>7. CASE kind \in Outcomes
    <3>1. stage[j] \in {"started"} /\ stage' = [stage EXCEPT ![j] = kind]
      BY <2>3, <2>4, <2>7, <1>1 DEF stage, Outcomes
    <3> QED
      BY <3>1, <2>7 DEF Contract!Next, Contract!Settle, Contract!Advance, Outcomes
  <2>8. CASE kind = "finished"
    <3>1. stage[j] \in {"result", "error"} /\ stage' = [stage EXCEPT ![j] = "finished"]
      BY <2>3, <2>4, <2>8, <1>1 DEF stage, Outcomes
    <3> QED
      BY <3>1 DEF Contract!Next, Contract!Finish, Contract!Advance
  <2> QED
    BY <2>5, <2>6, <2>7, <2>8 DEF Kinds, Outcomes
<1>5. ASSUME NEW j \in Jobs, Cancel(j) \/ Worker(j) PROVE handled' = handled
  BY <1>5 DEF Cancel, Worker, EmitStarted, EmitProgress, FnReturn, FnRaise, Settle, EmitFinished
<1>6. CASE PoolRun \/ Dismiss \/ Close \/ Exit \/ UNCHANGED vars
  BY <1>2, <1>6 DEF PoolRun, Dismiss, Close, Exit
<1> QED
  BY <1>2, <1>3, <1>4, <1>5, <1>6 DEF Next

\* Whatever the number of jobs, threads and message boxes, the callbacks of every
\* job run on the GUI thread once each and in the order of JobContract:
\* ImplementsContract, by the refinement mapping stage.
THEOREM RunnerImplementsContract == Spec => ImplementsContract
<1>1. Init => Contract!Init
  BY RefinementInit
<1>2. IInv /\ [Next]_vars => [Contract!Next]_(Contract!vars)
  BY RefinementStep
<1> QED
  BY <1>1, <1>2, Invariance, PTL DEF Spec, ImplementsContract, Contract!Spec
=============================================================================
