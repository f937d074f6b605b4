------------------------------ MODULE ProbePool ------------------------------
(***************************************************************************)
(* The Ping and TCPing panels (app/ui/tabs/diagnostics/ping.py, tcp.py)    *)
(* and the thread pool behind them: run_multi_ping                         *)
(* (app/services/ping_service.py) and run_multi_check                      *)
(* (tcp_check_service.py).                                                 *)
(*                                                                         *)
(* A run submits one future per entry; at most Workers threads run them.   *)
(* Every probe posts the counts so far to the GUI thread.  The job collects *)
(* the futures and posts its outcome.  The GUI thread finds the row of each *)
(* report in a table that the user sorts meanwhile.  What tcping says of   *)
(* itself in its summary goes into the results and not into the table.     *)
(***************************************************************************)
EXTENDS Naturals, Sequences, SequencesExt, FiniteSets

CONSTANTS
  Entries,   \* 1..n: the lines of the target list, times the ports
  Key,       \* Key[e]: name and target (and port) of an entry; two lines may be the same
  Workers,   \* threads of the executor
  Count,     \* probes per entry of a run that is not continuous
  MaxCount,  \* bound: later probes of a continuous run are not counted any more
  MaxRuns    \* bound on the runs the user starts

ASSUME PoolAssumption ==
  /\ IsFiniteSet(Entries) /\ Entries = 1..Cardinality(Entries)
  /\ DOMAIN Key = Entries
  /\ {Workers, Count, MaxCount, MaxRuns} \subseteq Nat \ {0}

Tools    == {"ping", "tcping", "socket"}
Programs == {"ping", "tcping"}   \* followed line by line; without a tcping: connections
Keys     == {Key[e] : e \in Entries}

VARIABLES
  tool, continuous,
  run,      \* number of the run, counted by the start button
  cancel,   \* its cancel event
  task,     \* the future of each entry
  sent,     \* its probes so far
  summary,  \* the number of probes in tcping's summary, 0 before it
  job,      \* run_multi_ping, run_multi_check
  events,   \* signals posted to the GUI thread
  busy,     \* cancel button enabled, start button disabled
  table,    \* rows, top first
  rowMap,   \* ping_row_map: row by key, 0 when there is none
  results   \* ping_results, tcp_results: sent of each entry

runVars   == <<tool, continuous, run>>
taskVars  == <<task, sent, summary>>
panelVars == <<busy, table, rowMap, results>>
vars      == <<tool, continuous, run, cancel, task, sent, summary, job, events,
               busy, table, rowMap, results>>

OnThread == {e \in Entries : task[e] \in {"head", "probe", "tail"}}
Ended    == {e \in Entries : task[e] \in {"done", "raised"}}
NoRow    == [k \in Keys |-> 0]
NoResult == <<>>

-----------------------------------------------------------------------------
Init ==
  /\ tool = "ping" /\ continuous = FALSE /\ run = 0 /\ cancel = FALSE
  /\ task = [e \in Entries |-> "none"] /\ sent = [e \in Entries |-> 0]
  /\ summary = [e \in Entries |-> 0]
  /\ job = "idle" /\ events = <<>>
  /\ busy = FALSE /\ table = <<>> /\ rowMap = NoRow /\ results = NoResult

-----------------------------------------------------------------------------
(* The job and the threads of its executor *)

Emit(s) == events' = events \o s

\* executor.submit for every entry; an empty list of targets or a bad port raises
Submit(valid) ==
  IF valid THEN job' = "collecting" /\ task' = [e \in Entries |-> "queued"]
           ELSE job' = "raising"    /\ task' = [e \in Entries |-> "none"]

TaskTo(e, t) ==
  /\ task' = [task EXCEPT ![e] = t]
  /\ UNCHANGED <<cancel, job>> /\ UNCHANGED runVars /\ UNCHANGED panelVars

\* A thread takes the first future that waits.  Popen raises when there is no program.
Begin(e) ==
  /\ task[e] = "queued" /\ Cardinality(OnThread) < Workers
  /\ \A f \in Entries : f < e => task[f] # "queued"
  /\ TaskTo(e, "head") \/ (tool \in Programs /\ TaskTo(e, "raised"))
  /\ UNCHANGED <<sent, summary, events>>

\* mutant: cancellation is looked at before the first probe only
CancelAtFirst(e) == cancel /\ sent[e] = 0

CancelSeen(e) == cancel

Enough(e) == ~continuous /\ sent[e] >= Count

\* Head of the loop: cancelled (the program is killed), or enough connections
LoopHead(e) ==
  /\ task[e] = "head"
  /\ TaskTo(e, IF CancelSeen(e) \/ (tool = "socket" /\ Enough(e)) THEN "done" ELSE "probe")
  /\ UNCHANGED <<sent, summary, events>>

Progress(e, n) == [kind |-> "progress", key |-> Key[e], run |-> run, sent |-> n]

\* A reply or a connection attempt, and the report on it
Probe(e) ==
  /\ task[e] = "probe"
  /\ tool \in Programs => ~Enough(e)
  /\ LET n == sent[e] + 1
     IN IF n > MaxCount THEN UNCHANGED <<sent, events>>
        ELSE sent' = [sent EXCEPT ![e] = n] /\ Emit(<<Progress(e, n)>>)
  /\ UNCHANGED summary
  /\ TaskTo(e, IF tool = "socket" THEN "tail" ELSE "head")

\* create_connection raises something other than OSError: a name that cannot be encoded
ConnectRaises(e) ==
  /\ task[e] = "probe" /\ tool = "socket" /\ sent[e] = 0
  /\ TaskTo(e, "raised")
  /\ UNCHANGED <<sent, summary, events>>

\* After a connection: cancelled, or the next one after a second
LoopTail(e) ==
  /\ task[e] = "tail"
  /\ TaskTo(e, IF CancelSeen(e) THEN "done" ELSE "head")
  /\ UNCHANGED <<sent, summary, events>>

\* queue.Empty: back to the head, which makes a difference once cancelled
NoLine(e) ==
  /\ task[e] = "probe" /\ tool \in Programs /\ cancel
  /\ TaskTo(e, "head")
  /\ UNCHANGED <<sent, summary, events>>

\* The program ends: all probes sent, unknown host.  The last that tcping prints is
\* its own count of the probes; those whose line was not recognised are in it.
ProgramEnds(e) ==
  /\ task[e] = "probe" /\ tool \in Programs
  /\ \/ UNCHANGED summary
     \/ tool = "tcping" /\ \E n \in 1..MaxCount : summary' = [summary EXCEPT ![e] = n]
  /\ TaskTo(e, "done")
  /\ UNCHANGED <<sent, events>>

Thread(e) ==
  \/ Begin(e) \/ LoopHead(e) \/ Probe(e) \/ ConnectRaises(e) \/ LoopTail(e)
  \/ NoLine(e) \/ ProgramEnds(e)

JobTo(j) == job' = j /\ UNCHANGED cancel /\ UNCHANGED runVars /\ UNCHANGED taskVars /\ UNCHANGED panelVars

Outcome(kind) == <<[kind |-> kind, run |-> run], [kind |-> "finished", run |-> run]>>

\* as_completed: the first future that raised; the others go on
CollectRaises ==
  /\ job = "collecting" /\ \E e \in Entries : task[e] = "raised"
  /\ JobTo("raising") /\ UNCHANGED events

\* mutant: the executor is left without waiting for its threads
NoWait == OnThread = {} \/ job = "raising"

\* with ThreadPoolExecutor: leaving it waits for every future
ExecutorEmpty == Ended = Entries \/ \A e \in Entries : task[e] = "none"

JobRaises ==
  /\ job = "raising" /\ ExecutorEmpty
  /\ JobTo("idle") /\ Emit(Outcome("error"))

\* mutant: the futures collected so far are the results
SomeDone == \E e \in Entries : task[e] = "done"

AllDone == \A e \in Entries : task[e] = "done"

JobReturns ==
  /\ job = "collecting" /\ AllDone
  /\ JobTo("idle") /\ Emit(Outcome("result"))

Job == CollectRaises \/ JobRaises \/ JobReturns

-----------------------------------------------------------------------------
(* The GUI thread *)

Start(t, c, valid) ==
  /\ ~busy /\ run < MaxRuns
  /\ tool' = t /\ continuous' = c /\ run' = run + 1
  /\ cancel' = FALSE                       \* a new event
  /\ sent' = [e \in Entries |-> 0] /\ summary' = [e \in Entries |-> 0]
  /\ busy' = TRUE /\ table' = <<>> /\ rowMap' = NoRow /\ results' = NoResult
  /\ Submit(valid)
  /\ UNCHANGED events

Cancel ==
  /\ busy /\ ~cancel
  /\ cancel' = TRUE
  /\ UNCHANGED <<job, events>> /\ UNCHANGED runVars /\ UNCHANGED taskVars /\ UNCHANGED panelVars

Rearrangements(rows) == {[i \in 1..Len(rows) |-> rows[p[i]]] : p \in SetToSeqs(1..Len(rows))}

\* A click on a header; row numbers remembered before it are stale
Sort ==
  /\ Len(table) > 1
  /\ table' \in Rearrangements(table)
  /\ UNCHANGED <<cancel, job, events, busy, rowMap, results>> /\ UNCHANGED runVars /\ UNCHANGED taskVars

\* mutant: the remembered row is not checked
Remembered(k, row) == row \in 1..Len(table)

\* _ping_row_matches
RowMatches(k, row) == row \in 1..Len(table) /\ table[row].key = k

\* _find_ping_row: the remembered row, else the first that matches
FindRow(k) ==
  LET matching == {r \in 1..Len(table) : table[r].key = k}
  IN IF RowMatches(k, rowMap[k]) THEN rowMap[k]
     ELSE IF matching = {} THEN 0
     ELSE CHOOSE r \in matching : \A q \in matching : r <= q

\* _rebuild_ping_row_map: the last row of a key
Rebuilt(rows) ==
  [k \in Keys |->
     LET having == {r \in 1..Len(rows) : rows[r].key = k}
     IN IF having = {} THEN 0 ELSE CHOOSE r \in having : \A q \in having : q <= r]

\* _handle_ping_progress: sorting is off while the row is written, then the table is sorted again
Report(event) ==
  LET row  == [key |-> event.key, run |-> event.run, sent |-> event.sent]
      at   == FindRow(event.key)
      rows == IF at = 0 THEN Append(table, row) ELSE [table EXCEPT ![at] = row]
  IN /\ table' \in Rearrangements(rows)
     /\ rowMap' = Rebuilt(table')
     /\ UNCHANGED <<busy, results>>

\* The count in the result of an entry: the summary's, when there is one
Final(e) == IF summary[e] # 0 THEN summary[e] ELSE sent[e]

\* on_result, on_finished; an error only opens a box
Deliver ==
  /\ events # <<>>
  /\ events' = Tail(events)
  /\ LET event == Head(events)
     IN \/ event.kind = "progress" /\ Report(event)
        \/ /\ event.kind = "result" /\ results' = [e \in Entries |-> Final(e)]
           /\ UNCHANGED <<busy, table, rowMap>>
        \/ event.kind = "error"    /\ UNCHANGED panelVars
        \/ event.kind = "finished" /\ busy' = FALSE /\ UNCHANGED <<table, rowMap, results>>
  /\ UNCHANGED <<cancel, job>> /\ UNCHANGED runVars /\ UNCHANGED taskVars

Next ==
  \/ \E t \in Tools, c, valid \in BOOLEAN : Start(t, c, valid)
  \/ Cancel \/ Sort \/ Deliver \/ Job
  \/ \E e \in Entries : Thread(e)

Spec == Init /\ [][Next]_vars

\* Threads run, a program that has sent its probes ends, the event loop runs
FairSpec == Spec /\ WF_vars(Deliver) /\ WF_vars(Job) /\ \A e \in Entries : WF_vars(Thread(e))

-----------------------------------------------------------------------------
\* When a run is over, however it ended and however often the table was sorted
\* meanwhile, each key that was probed has exactly one row, and it shows the last
\* count reported for one of its entries.  A result is there only when every entry
\* has one, and it is the last reported count, unless tcping's summary gave
\* another: then the row keeps the count of its lines, and an entry of which no line
\* was recognised has a result and no row.
TableShowsOutcome ==
  ~busy =>
    /\ \A k \in Keys :
         LET counts == {sent[e] : e \in {f \in Entries : Key[f] = k}} \ {0}
             rows   == {r \in DOMAIN table : table[r].key = k}
         IN /\ (counts = {}) = (rows = {})
            /\ \A r, q \in rows : r = q /\ table[r].sent \in counts
    /\ results # NoResult =>
         \A e \in Entries :
           /\ task[e] = "done"
           /\ tool # "tcping" \/ summary[e] = 0 => results[e] = sent[e]

\* A row is never of an earlier run: that run's threads and reports are through
\* before the start button comes back, even when one of its futures raised.
NoOldRow == \A r \in DOMAIN table : table[r].run = run

\* The buttons come back after a cancellation and, unless the run is continuous,
\* without one, although more entries may wait than there are threads.
RunEnds == busy /\ (cancel \/ ~continuous) ~> ~busy

=============================================================================
