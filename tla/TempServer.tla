------------------------------ MODULE TempServer ------------------------------
(***************************************************************************)
(* The temporary FTP/FTPS, SFTP, SCP and TFTP servers: FtpServerService    *)
(* (app/services/ftp_server_service.py), ScpServerService                  *)
(* (app/services/scp_server_service.py), TftpService                       *)
(* (app/services/tftp_service.py) and the server halves of their panels    *)
(* (app/ui/tabs/diagnostics/ftp.py, scp.py, tftp.py).                      *)
(*                                                                         *)
(* A start is a background job that listens until its cancel event is set. *)
(* Every client has a thread of its own, which counts itself, tells the    *)
(* panel the number of sessions, serves and counts itself out.  The job    *)
(* waits a while for these threads and ends without those that are late.   *)
(* The TFTP server serves its clients in the thread that listens, and has  *)
(* a monitor thread look at the event.                                     *)
(* All signals of a start go through one queue to the GUI thread; its      *)
(* signals object is dropped with the delivery of finished.                *)
(***************************************************************************)
EXTENDS Naturals, Sequences, FiniteSets

CONSTANTS
  Runs,        \* starts of a server (bound)
  Kinds,       \* "ftp" (pyftpdlib, with or without TLS), "sftp", "scp", "tftp"
  Clients,     \* client threads alive at a time (bound)
  MaxEvents,   \* bound on the queue: a client thread adds to a shorter one only
  NoRun        \* no start

ASSUME ServerAssumption ==
  /\ IsFiniteSet(Clients)
  /\ Kinds \subseteq {"ftp", "sftp", "scp", "tftp"}
  /\ NoRun \notin Runs
  /\ MaxEvents \in Nat

VARIABLES
  running,      \* _ftp_server_running, _scp_server_running
  cancelEvent,  \* the start whose event is in ftp_server_cancel_event
  shown,        \* the number in the sessions label
  run,          \* the starts
  listening,    \* starts whose listener is open
  counter,      \* session_counter of each start
  client,       \* the client threads
  events        \* signals posted to the GUI thread and not delivered yet

panelVars == <<running, cancelEvent, shown>>
vars      == <<running, cancelEvent, shown, run, listening, counter, client, events>>

Idle      == [kind |-> "ftp", pc |-> "new", cancelled |-> FALSE]
NoClient  == [run |-> NoRun, pc |-> "none", seen |-> 0, waits |-> FALSE]
Sessions(r) == {c \in Clients : client[c].run = r}

-----------------------------------------------------------------------------
Init ==
  /\ running = FALSE /\ cancelEvent = NoRun /\ shown = 0
  /\ run = [r \in Runs |-> Idle]
  /\ listening = {}
  /\ counter = [r \in Runs |-> 0]
  /\ client = [c \in Clients |-> NoClient]
  /\ events = <<>>

Post(r, what, count) ==
  events' = Append(events, [run |-> r, what |-> what, count |-> count])

\* Qt deletes the signals of a start when _discard_worker drops its worker
Deleted(r) == run[r].pc = "over"

-----------------------------------------------------------------------------
(* The panel: buttons *)

\* mutant: a new event only if none is left
KeptEvent(r) == IF cancelEvent = NoRun THEN r ELSE cancelEvent

\* self.ftp_server_cancel_event = self._new_ftp_cancel_event()
NewEvent(r) == r

\* The job of a start, with an event that is not set
Starting(kind) == [kind |-> kind, pc |-> "bind", cancelled |-> FALSE]

\* _start_ftp_server, _start_scp_server, _start_tftp_server
Start(r) ==
  /\ ~running
  /\ run[r].pc = "new"
  /\ \E kind \in Kinds : run' = [run EXCEPT ![r] = Starting(kind)]
  /\ cancelEvent' = NewEvent(r)
  /\ running' = TRUE
  /\ UNCHANGED <<shown, listening, counter, client, events>>

\* _stop_ftp_server, _stop_scp_server: the button is enabled while running
Stop ==
  /\ running
  /\ cancelEvent # NoRun /\ ~run[cancelEvent].cancelled
  /\ run' = [run EXCEPT ![cancelEvent].cancelled = TRUE]
  /\ UNCHANGED <<listening, counter, client, events>> /\ UNCHANGED panelVars

-----------------------------------------------------------------------------
(* The job: run_temporary_server *)

RunTo(r, pc) == run' = [run EXCEPT ![r].pc = pc]

\* Invalid input, no dependency, or the port cannot be bound
BindFails(r) ==
  /\ run[r].pc = "bind"
  /\ Post(r, "error", 0)
  /\ RunTo(r, "settled")
  /\ UNCHANGED <<listening, counter, client>> /\ UNCHANGED panelVars

Bind(r) ==
  /\ run[r].pc = "bind" /\ run[r].kind # "tftp"
  /\ listening' = listening \cup {r}
  /\ RunTo(r, "serve")
  /\ UNCHANGED <<counter, client, events>> /\ UNCHANGED panelVars

\* emit_runtime of the job, before its loop.  pyftpdlib accepts from Bind on
Announce(r) ==
  /\ run[r].pc = "serve" /\ run[r].kind # "tftp"
  /\ Post(r, "count", counter[r])
  /\ RunTo(r, "loop")
  /\ UNCHANGED <<listening, counter, client>> /\ UNCHANGED panelVars

\* The TFTP server is announced before it listens: _emit_server_runtime
TftpAnnounce(r) ==
  /\ run[r].pc = "bind" /\ run[r].kind = "tftp"
  /\ Post(r, "count", 0)
  /\ RunTo(r, "serve")
  /\ UNCHANGED <<listening, counter, client>> /\ UNCHANGED panelVars

\* server.listen; a port that cannot be bound leaves through the finally clause
TftpListen(r) ==
  /\ run[r].pc = "serve" /\ run[r].kind = "tftp"
  /\ \/ listening' = listening \cup {r} /\ RunTo(r, "loop")
     \/ RunTo(r, "joinError") /\ UNCHANGED listening
  /\ UNCHANGED <<counter, client, events>> /\ UNCHANGED panelVars

\* tftpy serves in the listening thread
Accepts(r) ==
  /\ r \in listening /\ run[r].kind # "tftp"
  /\ run[r].pc = "loop" \/ (run[r].pc = "serve" /\ run[r].kind = "ftp")

\* listener.accept() and the start of handle_client; ThreadedFTPServer likewise
Accept(r, c) ==
  /\ Accepts(r)
  /\ client[c].pc = "none"
  /\ client' = [client EXCEPT ![c] = [run |-> r, pc |-> "new", seen |-> 0, waits |-> FALSE]]
  /\ UNCHANGED <<run, listening, counter, events>> /\ UNCHANGED panelVars

\* mutant: no finally around the loop
NotClosed(r) == IF run[r].cancelled THEN listening \ {r} ELSE listening

\* finally: listener.close(), or server.close_all()
Closed(r) == listening \ {r}

\* The loop sees the cancel event, or the serving thread has died (ftp)
LeaveLoop(r) ==
  /\ run[r].pc = "loop" /\ run[r].kind # "tftp"
  /\ run[r].cancelled \/ run[r].kind = "ftp"
  /\ listening' = Closed(r)
  /\ RunTo(r, "join")
  /\ UNCHANGED <<counter, client, events>> /\ UNCHANGED panelVars

\* monitor_stop has seen the cancel event: server.stop ends listen
TftpStop(r) ==
  /\ run[r].pc = "loop" /\ run[r].kind = "tftp" /\ run[r].cancelled
  /\ listening' = Closed(r)
  /\ RunTo(r, "join")
  /\ UNCHANGED <<counter, client, events>> /\ UNCHANGED panelVars

\* accept raises something else than a timeout; the exception leaves after the joins
AcceptFails(r) ==
  /\ run[r].pc = "loop" /\ run[r].kind # "ftp"
  /\ listening' = Closed(r)
  /\ RunTo(r, "joinError")
  /\ UNCHANGED <<counter, client, events>> /\ UNCHANGED panelVars

\* join(timeout): all threads gone, or time is over
Settle(r) ==
  /\ run[r].pc \in {"join", "joinError"}
  /\ Post(r, IF run[r].pc = "join" THEN "result" ELSE "error", 0)
  /\ RunTo(r, "settled")
  /\ UNCHANGED <<listening, counter, client>> /\ UNCHANGED panelVars

\* FunctionWorker.run: finally finished.emit()
Finish(r) ==
  /\ run[r].pc = "settled"
  /\ Post(r, "finished", 0)
  /\ RunTo(r, "ended")
  /\ UNCHANGED <<listening, counter, client>> /\ UNCHANGED panelVars

-----------------------------------------------------------------------------
(* A client thread: handle_client, LoggingHandler.on_connect and on_disconnect *)

ClientTo(c, pc) == client' = [client EXCEPT ![c].pc = pc]

\* with counter_lock: session_counter["count"] += 1
CountIn(c) ==
  /\ client[c].pc = "new"
  /\ counter' = [counter EXCEPT ![client[c].run] = @ + 1]
  /\ ClientTo(c, "in")
  /\ UNCHANGED <<run, listening, events>> /\ UNCHANGED panelVars

\* max(0, session_counter["count"] - 1)
Down(n) == IF n = 0 THEN 0 ELSE n - 1

\* with counter_lock, in the finally clause
CountOut(c) ==
  /\ client[c].pc = "shut"
  /\ counter' = [counter EXCEPT ![client[c].run] = Down(@)]
  /\ ClientTo(c, "out")
  /\ UNCHANGED <<run, listening, events>> /\ UNCHANGED panelVars

\* emit_runtime: the counter is read outside the lock
Read(c) ==
  /\ client[c].pc \in {"in", "out"}
  /\ client' = [client EXCEPT ![c].seen = counter[client[c].run],
                              ![c].pc = IF @ = "in" THEN "tellIn" ELSE "tellOut"]
  /\ UNCHANGED <<run, listening, counter, events>> /\ UNCHANGED panelVars

\* and the signal emitted; with its object gone emit raises, which ends the thread
Tell(c) ==
  /\ client[c].pc \in {"tellIn", "tellOut"}
  /\ IF Deleted(client[c].run)
     THEN UNCHANGED events /\ client' = [client EXCEPT ![c] = NoClient]
     ELSE /\ Len(events) < MaxEvents
          /\ Post(client[c].run, "count", client[c].seen)
          /\ client' = [client EXCEPT ![c] = IF @.pc = "tellIn" THEN [@ EXCEPT !.pc = "open"] ELSE NoClient]
  /\ UNCHANGED <<run, listening, counter>> /\ UNCHANGED panelVars

\* channel.recv and channel.sendall of an SCP copy block on the peer, without a timeout
PeerWait(c) ==
  /\ client[c].pc = "open" /\ run[client[c].run].kind = "scp"
  /\ client' = [client EXCEPT ![c].waits = ~@]
  /\ UNCHANGED <<run, listening, counter, events>> /\ UNCHANGED panelVars

\* The client leaves, fails or is done: transport.close(), client_socket.close()
Leave(c) ==
  /\ client[c].pc = "open"
  /\ client' = [client EXCEPT ![c].pc = "shut", ![c].waits = FALSE]
  /\ UNCHANGED <<run, listening, counter, events>> /\ UNCHANGED panelVars

\* mutant: the session is left to its client
NotPolled(c) == FALSE

\* The thread looks at the cancel event; pyftpdlib closes its sessions with the listener
SeesStop(c) ==
  LET r == client[c].run
  IN IF run[r].kind = "ftp" THEN run[r].pc \notin {"bind", "serve", "loop"}
     ELSE run[r].cancelled /\ ~client[c].waits

EndSession(c) == Leave(c) /\ SeesStop(c)

-----------------------------------------------------------------------------
(* The panel: callbacks *)

\* _handle_*_server_progress.  What a late thread posted behind finished may be
\* delivered or dropped.
Show(e) ==
  \/ e.what = "count" /\ shown' = e.count
  \/ (e.what # "count" \/ Deleted(e.run)) /\ UNCHANGED shown

\* _finish_*_server_job, on_result: the event is dropped
EventAfter(e) == IF e.what = "result" THEN NoRun ELSE cancelEvent

\* on_finished: _set_*_server_running(False)
RunningAfter(e) == running /\ e.what # "finished"

\* on_error is the default one
Deliver ==
  /\ events # <<>>
  /\ events' = Tail(events)
  /\ LET e == Head(events)
     IN /\ Show(e)
        /\ cancelEvent' = EventAfter(e)
        /\ running' = RunningAfter(e)
        /\ run' = IF e.what = "finished" THEN [run EXCEPT ![e.run].pc = "over"] ELSE run
  /\ UNCHANGED <<listening, counter, client>>

Job(r) ==
  \/ BindFails(r) \/ Bind(r) \/ Announce(r) \/ LeaveLoop(r) \/ AcceptFails(r) \/ Settle(r) \/ Finish(r)
  \/ TftpAnnounce(r) \/ TftpListen(r) \/ TftpStop(r)
Thread(c) == CountIn(c) \/ CountOut(c) \/ Read(c) \/ Tell(c)

Next ==
  \/ Stop \/ Deliver
  \/ \E r \in Runs : Start(r) \/ Job(r) \/ \E c \in Clients : Accept(r, c)
  \/ \E c \in Clients : Thread(c) \/ PeerWait(c) \/ Leave(c) \/ EndSession(c)

Spec == Init /\ [][Next]_vars

\* Threads run and the queue is delivered.  No client needs to leave or to answer,
\* no server needs to be stopped.
Fairness ==
  /\ WF_vars(Deliver)
  /\ \A r \in Runs : WF_vars(BindFails(r) \/ Bind(r) \/ Announce(r) \/ Settle(r) \/ Finish(r))
                     /\ WF_vars(TftpAnnounce(r) \/ TftpListen(r) \/ TftpStop(r))
                     /\ WF_vars(run[r].cancelled /\ LeaveLoop(r))
  /\ \A c \in Clients : WF_vars(Thread(c)) /\ WF_vars(EndSession(c))

FairSpec == Spec /\ Fairness

-----------------------------------------------------------------------------
TypeOK ==
  /\ running \in BOOLEAN /\ cancelEvent \in Runs \cup {NoRun}
  /\ shown \in 0..Cardinality(Clients)
  /\ run \in [Runs -> [kind : {"ftp", "sftp", "scp", "tftp"}, cancelled : BOOLEAN,
                       pc : {"new", "bind", "serve", "loop", "join", "joinError", "settled", "ended", "over"}]]
  /\ listening \subseteq Runs
  /\ counter \in [Runs -> 0..Cardinality(Clients)]
  /\ client \in [Clients -> [run : Runs \cup {NoRun}, seen : 0..Cardinality(Clients), waits : BOOLEAN,
                             pc : {"none", "new", "in", "tellIn", "open", "shut", "out", "tellOut"}]]
  /\ events \in Seq([run : Runs, what : {"count", "result", "error", "finished"},
                     count : 0..Cardinality(Clients)])

\* The start button means that the port is free: when it is enabled no earlier start
\* of the panel listens any more, however it ended, and never do two.
StartFindsPortFree ==
  /\ ~running => listening = {}
  /\ \A r \in listening : run[r].pc \in {"serve", "loop"} /\ \A q \in Runs \ {r} : run[q].pc \in {"new", "over"}

\* The stop button reaches the server that listens, also after a start that failed.
StopReachesServer == \A r \in listening : running /\ cancelEvent = r

\* A stopped server gives the panel back, whatever its clients do, and no session
\* survives it but one that waits for its SCP client.
StopEnds ==
  \A r \in Runs :
    /\ run[r].cancelled ~> run[r].pc = "over"
    /\ \A c \in Clients :
         client[c].run = r /\ run[r].cancelled ~> (client[c].run # r \/ client[c].waits)

\* The panel shows the number of sessions: once every thread has told its count and
\* every signal is delivered, it is the counter.
ShownIsCounted ==
  \A r \in Runs : run[r].pc = "loop" /\ events = <<>> /\ (\A c \in Sessions(r) : client[c].pc = "open")
                    => shown = counter[r]

=============================================================================
