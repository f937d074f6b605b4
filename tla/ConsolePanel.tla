----------------------------- MODULE ConsolePanel -----------------------------
(***************************************************************************)
(* The panels that follow a console program: iperf3                        *)
(* (app/ui/tabs/diagnostics/iperf.py) with IperfService and                *)
(* PublicIperfService, and tracert/pathping (trace.py), composed with      *)
(* StreamingCommand, which is the call inside the background job.  The      *)
(* threads of a ping or tcping run the same loops; their panels are in     *)
(* ProbePool, here a call also stands alone.                                *)
(*                                                                          *)
(* An iperf3 test and the installation by winget exclude each other by      *)
(* their buttons; the download of the public servers is a second job, which *)
(* writes into the same text pane when it fails.  All signals come through  *)
(* one queue, in the form JobContract promises.  What is found out about    *)
(* iperf3 is asked of winget and of iperf3 itself, without a timeout: by    *)
(* the panel on the GUI thread, where no button and no signal is served     *)
(* meanwhile, and by an installation before its process.  The jobs' own     *)
(* headings and the questions before an installation, beneath which only    *)
(* the download can be delivered, are left out, as are mode, target and     *)
(* options.                                                                 *)
(***************************************************************************)
EXTENDS StreamingCommand

CONSTANTS
  MaxRuns,     \* programs one panel starts (bound)
  PanelLines   \* lines such a program writes (bound)

ASSUME PanelAssumption == MaxRuns \in Nat /\ PanelLines \in Nat

VARIABLES
  panel,       \* "iperf", "trace", or "none" for a call alone
  job,         \* what the command is or was for
  begun,       \* that has got to its process, or past it
  returned,    \* its function has returned
  running,     \* run buttons off, cancel button on
  runs,        \* programs started
  pane,        \* iperf_output, trace_output
  events,      \* signals posted to the GUI thread and not delivered yet
  fetching,    \* _public_iperf_refresh_in_progress
  disk,        \* executable_details finds iperf3
  available,   \* _iperf_available
  manageable,  \* _iperf_manage_enabled
  looking,     \* what the GUI thread waits for winget for: buttons, install, or no
  changed      \* history: winget has been late, after the panel's last look

jobVars   == <<job, begun, returned, running, runs>>
iperfVars == <<disk, available, manageable, looking, changed>>
panelVars == <<panel, jobVars, pane, events, fetching, iperfVars>>
allVars   == <<vars, panelVars>>

NoCommand ==
  /\ proc = "gone" /\ reader = "gone" /\ pc = "returned" /\ result = "ended"
  /\ written = <<>> /\ pipe = <<>> /\ queue = <<>> /\ output = <<>>
  /\ finished = TRUE /\ cancel = FALSE /\ late = TRUE

PanelInit ==
  /\ panel \in {"iperf", "trace", "none"}
  /\ IF panel = "none" THEN Init
     ELSE NoCommand /\ caller = "command" /\ continuous = FALSE
  /\ job = "none" /\ begun = TRUE /\ returned = TRUE /\ running = FALSE /\ runs = 0
  /\ pane = <<>> /\ events = <<>>
  /\ fetching = FALSE
  /\ disk \in IF panel = "iperf" THEN BOOLEAN ELSE {FALSE}
  /\ available = disk /\ manageable = ~disk /\ looking = "no"
  /\ changed = FALSE

-----------------------------------------------------------------------------
(* Buttons *)

\* mutant: the pane is not emptied
KeptPane == pane

\* iperf_output.clear()
Cleared == <<>>

\* The job with its own event.  A killed process of a call that raised is gone before
\* the next one (bound).
Start(kind) ==
  /\ ~running /\ proc = "gone" /\ runs < MaxRuns
  /\ job' = kind /\ begun' = FALSE /\ returned' = FALSE /\ running' = TRUE /\ runs' = runs + 1
  /\ pane' = Cleared
  /\ reader' = "gone" /\ pc' = "returned" /\ result' = "ended"
  /\ written' = <<>> /\ pipe' = <<>> /\ queue' = <<>> /\ output' = <<>>
  /\ finished' = TRUE /\ cancel' = FALSE /\ late' = TRUE
  /\ looking' = "no"
  /\ UNCHANGED <<proc, panel, events, disk, fetching, args>>

\* managed_install_state: winget, which is there and can be started, may know an update
Manageable == IF disk THEN BOOLEAN ELSE {TRUE}

\* refresh_iperf_availability: the run button says what is found now.
Look ==
  /\ available' = disk
  /\ changed' = FALSE

\* run_iperf_test: the button is on when iperf3 was found, and it is looked for
\* again, without asking winget.  It does not disappear (bound).
RunTest ==
  /\ panel = "iperf" /\ available /\ looking = "no"
  /\ disk /\ Look /\ manageable' = FALSE
  /\ Start("test")

\* Invalid input: the look is all there is
RunRefused ==
  /\ panel = "iperf" /\ available /\ ~running /\ looking = "no"
  /\ Look /\ manageable' = ~disk
  /\ UNCHANGED <<panel, jobVars, pane, events, disk, looking, fetching, vars>>

\* manage_iperf_install, up to the answer of winget
AskInstall ==
  /\ panel = "iperf" /\ manageable /\ ~running /\ looking = "no"
  /\ looking' = "install"
  /\ UNCHANGED <<panel, jobVars, pane, events, disk, available, manageable, changed, fetching, vars>>

\* There is nothing to install, or No
NotInstalled ==
  /\ looking = "install"
  /\ looking' = "no"
  /\ UNCHANGED <<panel, jobVars, pane, events, disk, available, manageable, changed, fetching, vars>>

\* Yes
Install ==
  /\ panel = "iperf" /\ looking = "install"
  /\ UNCHANGED <<available, manageable, changed>>
  /\ Start("install")

\* start_trace
StartTrace ==
  /\ panel = "trace"
  /\ Start("trace")
  /\ UNCHANGED <<available, manageable, changed>>

\* cancel_iperf_test, cancel_trace
Cancel ==
  /\ running /\ ~cancel
  /\ cancel' = TRUE
  /\ UNCHANGED <<proc, finished, output, pc, late, result, ioVars, args, panelVars>>

\* iperf_refresh_button: the deep look, which asks winget
LookAgain ==
  /\ panel = "iperf" /\ ~running /\ looking = "no"
  /\ Look /\ looking' = "buttons"
  /\ UNCHANGED <<panel, jobVars, pane, events, disk, manageable, fetching, vars>>

\* winget has answered, and iperf3 --version
Looked ==
  /\ looking = "buttons"
  /\ looking' = "no"
  /\ manageable' \in Manageable
  /\ UNCHANGED <<panel, jobVars, pane, events, disk, available, changed, fetching, vars>>

\* refresh_public_iperf_servers.  A run switches its button off, but the next edit of
\* the form switches it on again (_update_iperf_mode_state looks at fetching only).
RefreshList ==
  /\ panel = "iperf" /\ ~fetching /\ looking = "no"
  /\ fetching' = TRUE
  /\ UNCHANGED <<panel, jobVars, pane, events, iperfVars, vars>>

-----------------------------------------------------------------------------
(* Jobs *)

Line(line) == [what |-> "line", run |-> runs, line |-> line]
Signal(what) == [what |-> what, run |-> runs, line |-> "text"]

\* Popen, at the beginning of run_streaming_command.  An installation has asked winget
\* before, deaf to its cancel event.
Opens ==
  /\ ~begun /\ begun' = TRUE
  /\ proc' = "running" /\ reader' = "reading" /\ pc' = "check" /\ result' = "none"
  /\ finished' = FALSE /\ late' = FALSE
  /\ UNCHANGED <<written, pipe, queue, output, cancel, args>>
  /\ UNCHANGED <<panel, job, returned, running, runs, pane, events, fetching, iperfVars>>

Ends(what) == events' = events \o <<Signal(what), Signal("finished")>>

\* There is no process: the program is not found, or cannot be started.
NoProcess ==
  /\ ~begun /\ begun' = TRUE /\ returned' = TRUE
  /\ \E what \in {"error"} \cup (IF job = "trace" THEN {} ELSE {"result"}) : Ends(what)
  /\ UNCHANGED <<panel, job, running, runs, pane, fetching, iperfVars, vars>>

\* The loop of the call; a line goes to the panel when it is put into the output
Follow ==
  /\ Loop
  /\ events' = IF panel # "none" /\ output' # output
               THEN Append(events, Line(output'[Len(output')])) ELSE events
  /\ UNCHANGED <<panel, jobVars, pane, fetching, iperfVars>>

\* run_test, install_or_update_managed, run_tracert return what the call returned; its
\* exception becomes an error
JobReturns ==
  /\ begun /\ ~returned /\ result # "none"
  /\ returned' = TRUE
  /\ Ends(IF result = "raised" THEN "error" ELSE "result")
  /\ UNCHANGED <<panel, job, begun, running, runs, pane, fetching, iperfVars, vars>>

\* fetch_public_servers: the new list, which is saved, the cached one, or an error of
\* the save; or, without a cached one, nothing.  Result and finished are one signal.
Fetched ==
  /\ fetching /\ \A i \in DOMAIN events : events[i].what \notin {"list", "nothing"}
  /\ \E what \in {"list", "nothing"} : events' = Append(events, Signal(what))
  /\ UNCHANGED <<panel, jobVars, pane, fetching, iperfVars, vars>>

\* winget has installed or updated iperf3; a killed one may still do so
WingetInstalls ==
  /\ job = "install" /\ proc # "gone" /\ ~disk
  /\ disk' = TRUE
  /\ changed' = ~running
  /\ UNCHANGED <<panel, jobVars, pane, events, available, manageable, looking, fetching, vars>>

-----------------------------------------------------------------------------
(* Callbacks *)

\* _finish_iperf, _finish_iperf_manage: the result, as a heading and a text, at the end
IperfPane(e) == IF e.what \in {"line", "result"} THEN Append(pane, e) ELSE pane

\* _finish_trace: the result goes to the status label, the pane has the output already
TracePane(e) == IF e.what = "line" THEN Append(pane, e) ELSE pane

\* _finish_public_iperf_refresh: the message of a failure replaces the text
PaneAfter(e) ==
  IF e.what = "nothing" THEN <<e>>
  ELSE IF panel = "iperf" THEN IperfPane(e) ELSE TracePane(e)

\* _finish_iperf_operation looks for iperf3 again behind the buttons
Deliver ==
  /\ events # <<>> /\ looking = "no"
  /\ events' = Tail(events)
  /\ LET e == Head(events)
     IN /\ pane' = PaneAfter(e)
        /\ running' = (running /\ e.what # "finished")
        /\ fetching' = (fetching /\ e.what \notin {"list", "nothing"})
        /\ IF panel = "iperf" /\ e.what = "finished" THEN Look /\ looking' = "buttons"
           ELSE UNCHANGED <<available, looking, changed>>
  /\ UNCHANGED <<panel, job, begun, returned, runs, disk, manageable, vars>>

-----------------------------------------------------------------------------
Click ==
  \/ RunTest \/ RunRefused \/ AskInstall \/ NotInstalled \/ Install \/ StartTrace
  \/ Cancel \/ LookAgain \/ Looked \/ RefreshList

\* The process, the clock and the reader thread of the call; cancelling a probe
Call ==
  /\ \/ \E line \in Lines : Write(line) /\ (panel # "none" => Len(written) < PanelLines)
     \/ ProcessGone \/ ReadLine \/ ReadEnd
     \/ result = "none" /\ Deadline
     \/ panel = "none" /\ SetCancel
  /\ UNCHANGED panelVars

PanelNext ==
  \/ Click \/ Call \/ Opens \/ NoProcess \/ Follow \/ JobReturns \/ Deliver
  \/ Fetched \/ WingetInstalls

PanelSpec == PanelInit /\ [][PanelNext]_allVars

\* winget, or iperf3 --version, is asked by a thread that waits for the answer
Asking == looking # "no" \/ (job = "install" /\ ~begun)

\* Threads run, the clock advances, a killed process disappears, the queue is
\* delivered.  No program needs to end by itself, nobody needs to cancel, and who is
\* asked needs not answer.
PanelFairness ==
  /\ WF_allVars((Opens \/ NoProcess) /\ ~Asking)
  /\ WF_allVars(Follow) /\ WF_allVars(JobReturns) /\ WF_allVars(Deliver)
  /\ WF_allVars(ReadLine /\ UNCHANGED panelVars) /\ WF_allVars(ReadEnd /\ UNCHANGED panelVars)
  /\ WF_allVars(result = "none" /\ Deadline /\ UNCHANGED panelVars)
  /\ WF_allVars(proc = "killed" /\ ProcessGone /\ UNCHANGED panelVars)

FairPanelSpec == PanelSpec /\ PanelFairness

-----------------------------------------------------------------------------
IsLine(e) == e.what = "line"

\* The lines among these entries are, in this order, those.
Shows(entries, lines) ==
  \E place \in [DOMAIN lines -> DOMAIN entries] :
    /\ \A k, l \in DOMAIN lines : k < l => place[k] < place[l]
    /\ \A i \in DOMAIN entries : IsLine(entries[i]) <=> \E k \in DOMAIN lines : place[k] = i
    /\ \A k \in DOMAIN lines : entries[place[k]].line = lines[k]

\* The panel tells the truth.  Its pane and the signals still queued hold what the
\* call has read from the current program and nothing of an earlier one, unless a
\* failed download of the public servers was written over it; and between runs the
\* run button says whether iperf3 is there, also after an installation that was
\* cancelled, unless winget has outlived its call.
PanelTellsTruth ==
  /\ panel # "none" /\ (\A i \in DOMAIN pane : pane[i].what # "nothing") =>
       /\ Shows(pane \o events, output)
       /\ \A i \in DOMAIN pane : pane[i].run = runs
  /\ ~running /\ ~changed => available = disk

\* Who cancels gets the buttons back, and so does who waits for the deadline or for
\* the end of the program, even if it has stopped writing or never stops; if winget
\* and iperf3 answer what is asked beside that program, which has no deadline.
Busy == IF panel = "none" THEN result = "none" ELSE running \/ looking # "no"
ButtonsReturn ==
  ([]<>~Asking) =>
    (Busy /\ (cancel \/ (late /\ caller = "command") \/ proc = "gone") ~> ~Busy)

=============================================================================
