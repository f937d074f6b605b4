------------------------------ MODULE JobRunner ------------------------------
(***************************************************************************)
(* Background jobs of the application: JobRunner.start                     *)
(* (app/ui/common/job_runner.py), FunctionWorker.run                       *)
(* (app/utils/threading_utils.py) and the global Qt thread pool they share.*)
(*                                                                         *)
(* A job is one call of start.  Its worker waits for a thread of the pool, *)
(* emits started, runs the function, emits result or error and then        *)
(* finished.  Every signal is queued for the GUI thread, which delivers    *)
(* the queue in order.  A slot that opens a message box runs a nested      *)
(* event loop: the queue keeps being delivered underneath the open box.    *)
(* Closing the window ends delivery; the process ends when the pool is     *)
(* empty, because the application object waits for it when destroyed.      *)
(***************************************************************************)
EXTENDS Naturals, Sequences, FiniteSets

CONSTANTS
  Jobs,         \* the calls of start
  Servers,      \* jobs whose function returns only once cancelled (temporary servers, continuous ping)
  Reporting,    \* jobs whose function has a progress_callback parameter
  BoxOn,        \* BoxOn[j]: the outcomes of j whose slot opens a message box
  MaxThreads,   \* maxThreadCount of the pool
  MaxProgress   \* bound on the progress signals of a job in the queue at a time

Outcomes == {"result", "error"}

ASSUME JobAssumption ==
  /\ IsFiniteSet(Jobs)
  /\ Servers \subseteq Jobs /\ Reporting \subseteq Jobs
  /\ BoxOn \in [Jobs -> SUBSET Outcomes]
  /\ MaxThreads \in Nat \ {0}
  /\ MaxProgress \in Nat

VARIABLES
  phase,      \* where the worker of each job is
  cancel,     \* the cancel event handed to the job is set
  poolQueue,  \* workers waiting for a thread, first in first out
  events,     \* signals posted to the GUI thread and not delivered yet
  active,     \* _active_workers
  boxes,      \* jobs whose slot has a message box open, innermost last
  handled,    \* history: the last thing the GUI thread did for each job
  app         \* the event loop: running, left, process gone

workerVars == <<phase, poolQueue>>
guiVars    == <<active, boxes, handled>>
vars       == <<phase, cancel, poolQueue, events, active, boxes, handled, app>>

Phases == {"new", "waiting", "begin", "running", "outcome", "ended"}
Kinds  == {"started", "progress", "result", "error", "finished"}
Steps  == Kinds \cup {"idle", "submitted"}

Signals == [job : Jobs, kind : Kinds]

OnThread(j) == phase[j] \in {"begin", "running", "outcome"}
Busy == {j \in Jobs : OnThread(j)}

-----------------------------------------------------------------------------
Init ==
  /\ phase = [j \in Jobs |-> "new"]
  /\ cancel = [j \in Jobs |-> FALSE]
  /\ poolQueue = <<>>
  /\ events = <<>>
  /\ active = {}
  /\ boxes = <<>>
  /\ handled = [j \in Jobs |-> "idle"]
  /\ app = "up"

\* JobRunner.start: keep the worker, connect the slots, hand it to the pool
Start(j) ==
  /\ app = "up"
  /\ phase[j] = "new"
  /\ active' = active \cup {j}
  /\ phase' = [phase EXCEPT ![j] = "waiting"]
  /\ poolQueue' = Append(poolQueue, j)
  /\ handled' = [handled EXCEPT ![j] = "submitted"]
  /\ UNCHANGED <<cancel, events, boxes, app>>

\* QThreadPool: a free thread takes the oldest waiting worker
PoolRun ==
  /\ poolQueue # <<>>
  /\ Cardinality(Busy) < MaxThreads
  /\ phase' = [phase EXCEPT ![Head(poolQueue)] = "begin"]
  /\ poolQueue' = Tail(poolQueue)
  /\ UNCHANGED <<cancel, events, active, boxes, handled, app>>

\* Signal.emit on a worker thread: queued for the event loop; once that is left
\* the signal is queued in vain, or its object is gone and emit raises
Emit(j, kind) ==
  events' = IF app = "up" THEN Append(events, [job |-> j, kind |-> kind]) ELSE events

\* run: started.emit(); a RuntimeError there returns without any other signal
EmitStarted(j) ==
  /\ phase[j] = "begin"
  /\ \/ /\ Emit(j, "started")
        /\ phase' = [phase EXCEPT ![j] = "running"]
     \/ /\ app # "up"
        /\ phase' = [phase EXCEPT ![j] = "ended"]
        /\ UNCHANGED events
  /\ UNCHANGED <<cancel, poolQueue, app>> /\ UNCHANGED guiVars

\* run passes signals.progress to a function that takes it, and the function emits
EmitProgress(j) ==
  /\ j \in Reporting /\ phase[j] = "running"
  /\ Cardinality({i \in DOMAIN events : events[i] = [job |-> j, kind |-> "progress"]}) < MaxProgress
  /\ Emit(j, "progress")
  /\ UNCHANGED <<phase, cancel, poolQueue, app>> /\ UNCHANGED guiVars

\* mutant: result.emit inside the try block, so that the except clause can follow it
SettleInsideTry(j, outcome) ==
  /\ phase[j] = "running"
  /\ Emit(j, outcome)
  /\ phase' = [phase EXCEPT ![j] = IF outcome = "result" THEN "running" ELSE "outcome"]
  /\ UNCHANGED <<cancel, poolQueue, app>> /\ UNCHANGED guiVars

\* mutant: the except clause returns before finished is emitted
SettleReturnsOnError(j, outcome) ==
  /\ phase[j] = "running"
  /\ Emit(j, outcome)
  /\ phase' = [phase EXCEPT ![j] = IF outcome = "error" THEN "ended" ELSE "outcome"]
  /\ UNCHANGED <<cancel, poolQueue, app>> /\ UNCHANGED guiVars

\* run: the function ended, with a value or an exception
Settle(j, outcome) ==
  /\ phase[j] = "running"
  /\ Emit(j, outcome)
  /\ phase' = [phase EXCEPT ![j] = "outcome"]
  /\ UNCHANGED <<cancel, poolQueue, app>> /\ UNCHANGED guiVars

\* mutant: the function is not handed the cancel event
FnReturnNoCancel(j) == j \notin Servers /\ Settle(j, "result")

\* a server function polls its cancel event and returns only when it is set
FnReturn(j) == (j \in Servers => cancel[j]) /\ Settle(j, "result")
FnRaise(j)  == Settle(j, "error")

\* run: the finally clause emits finished
EmitFinished(j) ==
  /\ phase[j] = "outcome"
  /\ Emit(j, "finished")
  /\ phase' = [phase EXCEPT ![j] = "ended"]
  /\ UNCHANGED <<cancel, poolQueue, app>> /\ UNCHANGED guiVars

\* The user presses the stop button of a job; a message box blocks the window
Cancel(j) ==
  /\ app = "up" /\ boxes = <<>>
  /\ j \in Servers /\ phase[j] \notin {"new", "ended"} /\ ~cancel[j]
  /\ cancel' = [cancel EXCEPT ![j] = TRUE]
  /\ UNCHANGED <<events, app>> /\ UNCHANGED workerVars /\ UNCHANGED guiVars

\* mutant: _discard_worker connected to result and error, not to finished
ReleasedOnOutcome(kind) == kind \in Outcomes

\* _discard_worker is the last slot of finished, after on_finished
Released(kind) == kind = "finished"

\* The GUI thread, in its main loop or in the loop of an open box, delivers a signal
Deliver ==
  /\ app = "up"
  /\ events # <<>>
  /\ LET s == Head(events)
     IN /\ handled' = [handled EXCEPT ![s.job] = s.kind]
        /\ active' = IF Released(s.kind) THEN active \ {s.job} ELSE active
        /\ boxes' = IF s.kind \in BoxOn[s.job] THEN Append(boxes, s.job) ELSE boxes
  /\ events' = Tail(events)
  /\ UNCHANGED <<cancel, app>> /\ UNCHANGED workerVars

\* The user answers the innermost message box
Dismiss ==
  /\ app = "up"
  /\ boxes # <<>>
  /\ boxes' = SubSeq(boxes, 1, Len(boxes) - 1)
  /\ UNCHANGED <<cancel, events, active, handled, app>> /\ UNCHANGED workerVars

\* closeEvent saves the UI state and cancels nothing; app.exec() returns and what
\* is queued is never delivered
Close ==
  /\ app = "up" /\ boxes = <<>>
  /\ app' = "closed"
  /\ events' = <<>>
  /\ UNCHANGED cancel /\ UNCHANGED workerVars /\ UNCHANGED guiVars

\* The application object is destroyed: it waits for the pool, queue included
Exit ==
  /\ app = "closed"
  /\ poolQueue = <<>> /\ Busy = {}
  /\ app' = "exited"
  /\ UNCHANGED <<cancel, events>> /\ UNCHANGED workerVars /\ UNCHANGED guiVars

Worker(j) ==
  EmitStarted(j) \/ EmitProgress(j) \/ FnReturn(j) \/ FnRaise(j) \/ EmitFinished(j)

Next ==
  \/ \E j \in Jobs : Start(j) \/ Cancel(j) \/ Worker(j)
  \/ PoolRun
  \/ Deliver
  \/ Dismiss
  \/ Close
  \/ Exit

Spec == Init /\ [][Next]_vars

\* Threads are scheduled, functions other than servers terminate, servers obey
\* their cancel event, Qt delivers its queue and waits for its pool.  The user
\* owes nothing: no box is ever answered, no server stopped, no window closed.
Fairness ==
  /\ WF_vars(PoolRun) /\ WF_vars(Deliver) /\ WF_vars(Exit)
  /\ \A j \in Jobs : WF_vars(EmitStarted(j)) /\ WF_vars(FnReturn(j))
                      /\ WF_vars(EmitFinished(j))

FairSpec == Spec /\ Fairness

-----------------------------------------------------------------------------
TypeOK ==
  /\ phase \in [Jobs -> Phases]
  /\ cancel \in [Jobs -> BOOLEAN]
  /\ poolQueue \in Seq(Jobs)
  /\ events \in Seq(Signals)
  /\ active \subseteq Jobs
  /\ boxes \in Seq(Jobs)
  /\ handled \in [Jobs -> Steps]
  /\ app \in {"up", "closed", "exited"}

\* _active_workers owns the signal objects: a worker that still waits, runs or
\* has a signal in the queue is in it, so no emit of a live application can
\* raise and no queued call loses its sender (job_runner.py: append before
\* pool.start, remove only from the finished signal).
Retained ==
  /\ \A j \in Jobs : phase[j] = "waiting" \/ OnThread(j) => j \in active
  /\ \A i \in DOMAIN events : events[i].job \in active

\* The callbacks of a job reach the GUI thread once each and in the order of
\* the contract, whatever other jobs, nested boxes and threads do.
stage == [j \in Jobs |-> IF handled[j] = "progress" THEN "started" ELSE handled[j]]

Contract == INSTANCE JobContract WITH stage <- stage
ImplementsContract == Contract!Spec

\* A job has at most one message box: its outcome is reported once, also when
\* the box of another job is opened from the loop of the first.
OneBoxPerJob == \A i, k \in DOMAIN boxes : boxes[i] = boxes[k] => i = k

\* A worker that is no server leaves the pool's queue unless servers nobody has stopped
\* hold every thread.
Starved == Cardinality({s \in Servers : OnThread(s) /\ ~cancel[s]}) = MaxThreads
NoJobWaitsForever ==
  \A j \in Jobs \ Servers : phase[j] = "waiting" ~> (phase[j] # "waiting" \/ Starved)

\* Every job that got a thread, unless it is a server nobody stops, reaches
\* on_finished and is released even if no message box is ever answered.
EveryJobCompletes ==
  \A j \in Jobs :
    OnThread(j) /\ (j \in Servers => cancel[j]) ~> (handled[j] = "finished" \/ app # "up")

\* closeEvent stops no job, so the process ends only if no server is left running.
CloseEndsProcess ==
  app = "closed" ~> (app = "exited" \/ \E s \in Servers : OnThread(s) /\ ~cancel[s])

=============================================================================
