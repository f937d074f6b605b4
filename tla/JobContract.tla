----------------------------- MODULE JobContract -----------------------------
(***************************************************************************)
(* What the tabs of the application rely on when they hand a function to   *)
(* the job runner: for every job the GUI thread runs the callbacks         *)
(* on_started, any number of on_progress, exactly one of on_result and     *)
(* on_error, and on_finished, each once and in this order.  Threads, the   *)
(* pool and the event queue do not appear here; JobRunner implements this  *)
(* contract.                                                               *)
(***************************************************************************)

CONSTANT Jobs     \* the calls of JobRunner.start

VARIABLE stage    \* the last callback the GUI thread ran for each job

vars == <<stage>>

Stages == {"idle", "submitted", "started", "result", "error", "finished"}

Init == stage = [j \in Jobs |-> "idle"]

Advance(j, from, to) ==
  /\ stage[j] \in from
  /\ stage' = [stage EXCEPT ![j] = to]

Submit(j)  == Advance(j, {"idle"}, "submitted")
Begin(j)   == Advance(j, {"submitted"}, "started")
Settle(j)  == \E outcome \in {"result", "error"} : Advance(j, {"started"}, outcome)
Finish(j)  == Advance(j, {"result", "error"}, "finished")

Next == \E j \in Jobs : Submit(j) \/ Begin(j) \/ Settle(j) \/ Finish(j)

Spec == Init /\ [][Next]_vars

=============================================================================
