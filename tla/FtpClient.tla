------------------------------ MODULE FtpClient ------------------------------
(***************************************************************************)
(* The FTP/FTPS/SFTP client: the panel in                                  *)
(* app/ui/tabs/diagnostics/ftp.py and FtpClientService                     *)
(* (app/services/ftp_client_service.py).                                   *)
(*                                                                         *)
(* The panel runs on the GUI thread and starts one background job per      *)
(* click.  A job runs on a thread of its own: it looks the session up,     *)
(* takes its lock, works and lets the lock go.  Its callbacks then reach   *)
(* the GUI thread in the order of JobContract, the outcome before          *)
(* on_finished, and interleave with those of other jobs.                   *)
(*                                                                         *)
(* The panel means to run one job at a time: the buttons are disabled      *)
(* while _ftp_client_busy.  The remote table is not, so a double click on  *)
(* a folder can start a listing beside any other job; raced remembers it.  *)
(***************************************************************************)
EXTENDS Naturals, FiniteSets

CONSTANTS
  Slots,      \* jobs alive at a time (bound)
  Sessions,   \* session identifiers
  Sftp,       \* the sessions whose protocol is sftp; the others are ftp or ftps
  Files,      \* files a transfer can name
  NoOne       \* no session, no job, no file

ASSUME FtpAssumption ==
  /\ Sftp \subseteq Sessions
  /\ IsFiniteSet(Slots)
  /\ NoOne \notin Slots \cup Sessions \cup Files

Transfers == {"upload", "download"}
Ops       == Transfers \cup {"connect", "disconnect", "list", "command"}

VARIABLES
  connected,    \* _ftp_client_connected
  busy,         \* _ftp_client_busy
  panelId,      \* _ftp_session_id
  shown,        \* the session whose listing is in _ftp_remote_entries
  cancelEvent,  \* the job holding the event that ftp_client_cancel_event refers to
  sessions,     \* keys of _sessions
  open,         \* sessions whose connection is open
  lock,         \* holder of each session's lock
  job,          \* the jobs
  partial,      \* copies begun and not completed, as <<direction, file>>
  raced,        \* history: a listing was started by double click while busy
  failed        \* history: which of a transfer and the closing of a connection has raised

panelVars   == <<connected, busy, panelId, shown, cancelEvent>>
serviceVars == <<sessions, open, lock, partial>>
history     == <<raced, failed>>
vars        == <<panelVars, serviceVars, job, history>>

NoJob == [op |-> "list", sid |-> NoOne, pc |-> "none", todo |-> {}, at |-> NoOne, cancelled |-> FALSE]
NewJob(op, s, files) ==
  [op |-> op, sid |-> s, pc |-> "lookup", todo |-> files, at |-> NoOne, cancelled |-> FALSE]

Running(k) == job[k].pc \in {"lookup", "lock", "work"}
Alive == {k \in Slots : job[k].pc # "none"}

-----------------------------------------------------------------------------
Init ==
  /\ connected = FALSE /\ busy = FALSE
  /\ panelId = NoOne /\ shown = NoOne /\ cancelEvent = NoOne
  /\ sessions = {} /\ open = {}
  /\ lock = [s \in Sessions |-> NoOne]
  /\ job = [k \in Slots |-> NoJob]
  /\ partial = {}
  /\ raced = FALSE /\ failed = {}

-----------------------------------------------------------------------------
(* The panel: clicks *)

\* mutant: the buttons follow the connection only
ButtonIgnoresBusy(op) == (op = "connect") # connected

\* _set_ftp_client_connected: which buttons are enabled
Button(op) == (op = "connect") # connected /\ ~busy

\* mutant: a transfer keeps the cancel event of the previous one
KeptCancelEvent(k, op) == IF op \in Transfers /\ cancelEvent = NoOne THEN k ELSE cancelEvent

\* connect forgets the event, a transfer makes a new one, other jobs leave it
NextCancelEvent(k, op) ==
  CASE op = "connect" -> NoOne
    [] op \in Transfers -> k
    [] OTHER -> cancelEvent

\* What the handlers ask for before they start a job: a transfer names files
Asks(op, files) == (op \in Transfers) <=> (files # {})

\* A click on the button of op, from the guards of the handler to _start_worker.
\* A fresh uuid is a session name nothing refers to.
Click(k, op) ==
  /\ job[k].pc = "none"
  /\ Button(op)
  /\ \E s \in Sessions, files \in SUBSET Files :
       /\ IF op = "connect"
          THEN s \notin sessions \cup open \cup {shown} \cup {job[l].sid : l \in Alive}
          ELSE s = panelId
       /\ Asks(op, files)
       /\ job' = [job EXCEPT ![k] = NewJob(op, s, files)]
  /\ busy' = TRUE
  /\ cancelEvent' = NextCancelEvent(k, op)
  /\ UNCHANGED <<connected, panelId, shown>> /\ UNCHANGED serviceVars /\ UNCHANGED history

\* _handle_ftp_remote_double_click: the table is enabled while connected, busy or not
DoubleClick(k) ==
  /\ job[k].pc = "none"
  /\ connected /\ shown # NoOne /\ panelId # NoOne
  /\ job' = [job EXCEPT ![k] = NewJob("list", panelId, {})]
  /\ busy' = TRUE
  /\ raced' = (raced \/ busy)
  /\ UNCHANGED <<connected, panelId, shown, cancelEvent, failed>> /\ UNCHANGED serviceVars

\* _cancel_ftp_client_job: the button is enabled while busy
Cancel ==
  /\ busy
  /\ cancelEvent # NoOne
  /\ job[cancelEvent].op \in Transfers
  /\ ~job[cancelEvent].cancelled
  /\ job' = [job EXCEPT ![cancelEvent].cancelled = TRUE]
  /\ UNCHANGED panelVars /\ UNCHANGED serviceVars /\ UNCHANGED history

-----------------------------------------------------------------------------
(* The service: jobs on their threads *)

Goto(k, pc) == job' = [job EXCEPT ![k].pc = pc]

\* connect: validation, login or the first listing raises
ConnectFails(k) ==
  /\ job[k].op = "connect" /\ job[k].pc = "lookup"
  /\ Goto(k, "error")
  /\ UNCHANGED panelVars /\ UNCHANGED serviceVars /\ UNCHANGED history

Connect(k) ==
  /\ job[k].op = "connect" /\ job[k].pc = "lookup"
  /\ sessions' = sessions \cup {job[k].sid}
  /\ open' = open \cup {job[k].sid}
  /\ Goto(k, "result")
  /\ UNCHANGED <<lock, partial>> /\ UNCHANGED panelVars /\ UNCHANGED history

\* _get_session, or _pop_session in disconnect
Lookup(k) ==
  /\ job[k].op # "connect" /\ job[k].pc = "lookup"
  /\ Goto(k, IF job[k].sid \in sessions THEN "lock" ELSE "error")
  /\ sessions' = IF job[k].op = "disconnect" THEN sessions \ {job[k].sid} ELSE sessions
  /\ UNCHANGED <<open, lock, partial>> /\ UNCHANGED panelVars /\ UNCHANGED history

\* mutant: the session is closed without its lock
LockIgnoredByClose(k) == job[k].op = "disconnect" \/ lock[job[k].sid] = NoOne

\* with session.lock
LockFree(k) == lock[job[k].sid] = NoOne

Acquire(k) ==
  /\ job[k].pc = "lock"
  /\ LockFree(k)
  /\ lock' = [lock EXCEPT ![job[k].sid] = k]
  /\ Goto(k, "work")
  /\ UNCHANGED <<sessions, open, partial>> /\ UNCHANGED panelVars /\ UNCHANGED history

\* The with block is left and the function returns or raises
Leave(k, outcome) ==
  /\ lock' = [lock EXCEPT ![job[k].sid] = NoOne]
  /\ Goto(k, outcome)
  /\ UNCHANGED sessions /\ UNCHANGED panelVars

\* _close_session: ftp swallows every exception; sftp closes the transport in any
\* case, but lets the exception of client.close through
Close(k) ==
  /\ job[k].op = "disconnect" /\ job[k].pc = "work"
  /\ open' = open \ {job[k].sid}
  /\ \/ Leave(k, "result") /\ UNCHANGED failed
     \/ job[k].sid \in Sftp /\ Leave(k, "error") /\ failed' = failed \cup {"close"}
  /\ UNCHANGED <<partial, raced>>

\* One exchange with the server, which a broken or closed connection makes raise
Exchange(k) ==
  /\ \/ job[k].sid \in open /\ Leave(k, "result")
     \/ Leave(k, "error")
  /\ UNCHANGED <<open, partial>> /\ UNCHANGED history

\* list_directory: _ftp_list_directory, _sftp_list_directory
List(k) == job[k].op = "list" /\ job[k].pc = "work" /\ Exchange(k)

\* make_directory, rename_path and delete_entries
Command(k) == job[k].op = "command" /\ job[k].pc = "work" /\ Exchange(k)

\* upload_files and download_files: the next file, which opening its target truncates
BeginFile(k) ==
  /\ job[k].op \in Transfers /\ job[k].pc = "work" /\ job[k].at = NoOne
  /\ ~job[k].cancelled
  /\ job[k].sid \in open
  /\ \E f \in job[k].todo :
       /\ job' = [job EXCEPT ![k].at = f, ![k].todo = @ \ {f}]
       /\ partial' = partial \cup {<<job[k].op, f>>}
  /\ UNCHANGED <<sessions, open, lock>> /\ UNCHANGED panelVars /\ UNCHANGED history

\* All blocks went through before a block saw the event
EndFile(k) ==
  /\ job[k].at # NoOne
  /\ partial' = partial \ {<<job[k].op, job[k].at>>}
  /\ job' = [job EXCEPT ![k].at = NoOne]
  /\ UNCHANGED <<sessions, open, lock>> /\ UNCHANGED panelVars /\ UNCHANGED history

\* mutant: a cancelled download keeps what it has
NothingRemoved(op, s) == {FALSE}

\* Whether a cancelled copy is removed: a local file always, a remote one over
\* sftp unless remove raises, over ftp never
Removed(op, s) ==
  IF op = "download" THEN {TRUE} ELSE IF s \in Sftp THEN BOOLEAN ELSE {FALSE}

\* A block, or the check before it, finds the event set
CancelFile(k) ==
  /\ job[k].at # NoOne /\ job[k].cancelled
  /\ \E removed \in Removed(job[k].op, job[k].sid) :
       partial' = IF removed THEN partial \ {<<job[k].op, job[k].at>>} ELSE partial
  /\ job' = [job EXCEPT ![k].at = NoOne]
  /\ UNCHANGED <<sessions, open, lock>> /\ UNCHANGED panelVars /\ UNCHANGED history

EndTransfer(k) ==
  /\ job[k].op \in Transfers /\ job[k].pc = "work" /\ job[k].at = NoOne
  /\ job[k].todo = {} \/ job[k].cancelled
  /\ Leave(k, "result")
  /\ UNCHANGED <<open, partial>> /\ UNCHANGED history

\* Any other exception leaves the copy as it is
TransferFails(k) ==
  /\ job[k].op \in Transfers /\ job[k].pc = "work"
  /\ lock' = [lock EXCEPT ![job[k].sid] = NoOne]
  /\ job' = [job EXCEPT ![k].pc = "error", ![k].at = NoOne]
  /\ failed' = failed \cup {"transfer"}
  /\ UNCHANGED <<sessions, open, partial, raced>> /\ UNCHANGED panelVars

-----------------------------------------------------------------------------
(* The panel: callbacks *)

\* on_result: _finish_ftp_connect, _finish_ftp_disconnect, _finish_ftp_refresh;
\* the others only show a message
OnResult(k) ==
  /\ job[k].pc = "result"
  /\ CASE job[k].op = "connect" ->
            connected' = TRUE /\ panelId' = job[k].sid /\ shown' = job[k].sid
       [] job[k].op = "disconnect" ->
            connected' = FALSE /\ panelId' = NoOne /\ shown' = NoOne
       [] job[k].op = "list" ->
            shown' = job[k].sid /\ UNCHANGED <<connected, panelId>>
       [] OTHER -> UNCHANGED <<connected, panelId, shown>>
  /\ Goto(k, "done")
  /\ UNCHANGED <<busy, cancelEvent>> /\ UNCHANGED serviceVars /\ UNCHANGED history

\* on_error is the default one: a message box, beneath which callbacks go on
OnError(k) ==
  /\ job[k].pc = "error"
  /\ Goto(k, "done")
  /\ UNCHANGED panelVars /\ UNCHANGED serviceVars /\ UNCHANGED history

\* _finish_ftp_job_with_refresh, the on_finished of transfers and commands
Refreshes(op) == op \in Transfers \cup {"command"} /\ connected /\ panelId # NoOne

\* mutant: busy is left to the listing, which a failed connection never starts
BusyUntilRefreshed(k) == Refreshes(job[k].op) \/ job[k].op # "list"

\* _set_ftp_client_busy(False), then True again when a refresh starts
BusyAfter(k) == Refreshes(job[k].op)

\* on_finished: busy is reset; a refresh sets it again and starts a listing
OnFinished(k) ==
  /\ job[k].pc = "done"
  /\ job' = [job EXCEPT ![k] = IF Refreshes(job[k].op) THEN NewJob("list", panelId, {}) ELSE NoJob]
  /\ busy' = BusyAfter(k)
  /\ UNCHANGED <<connected, panelId, shown, cancelEvent>> /\ UNCHANGED serviceVars /\ UNCHANGED history

Serve(k) ==
  \/ Connect(k) \/ ConnectFails(k) \/ Lookup(k) \/ Acquire(k) \/ Close(k) \/ List(k) \/ Command(k)
  \/ BeginFile(k) \/ EndFile(k) \/ CancelFile(k) \/ EndTransfer(k) \/ TransferFails(k)

Callback(k) == OnResult(k) \/ OnError(k) \/ OnFinished(k)

Next ==
  \/ \E k \in Slots : \/ \E op \in Ops : Click(k, op)
                      \/ DoubleClick(k) \/ Serve(k) \/ Callback(k)
  \/ Cancel

Spec == Init /\ [][Next]_vars

\* The job waits for the server of an sftp session.  Only the banner of that connection
\* has a timeout; its channel has none, so a silent server holds the job for ever.
OnSftp(k) ==
  /\ job[k].sid \in Sftp
  /\ job[k].pc = "work" \/ (job[k].op = "connect" /\ job[k].pc = "lookup")

\* Jobs run and callbacks are delivered.  An ftp or ftps server answers, or the timeout of
\* the socket raises; nothing is assumed of an sftp server.
Fairness == \A k \in Slots : WF_vars(Serve(k) /\ ~OnSftp(k)) /\ WF_vars(Callback(k))

FairSpec == Spec /\ Fairness

-----------------------------------------------------------------------------
TypeOK ==
  /\ {connected, busy, raced} \subseteq BOOLEAN
  /\ {panelId, shown} \subseteq Sessions \cup {NoOne}
  /\ cancelEvent \in Slots \cup {NoOne}
  /\ sessions \subseteq Sessions /\ open \subseteq Sessions
  /\ lock \in [Sessions -> Slots \cup {NoOne}]
  /\ job \in [Slots -> [op : Ops, sid : Sessions \cup {NoOne},
                        pc : {"none", "lookup", "lock", "work", "result", "error", "done"},
                        todo : SUBSET Files, at : Files \cup {NoOne}, cancelled : BOOLEAN]]
  /\ partial \subseteq Transfers \X Files
  /\ failed \subseteq {"transfer", "close"}

\* Unless a folder was double-clicked during a job, the panel and the service agree
\* outside connect and disconnect jobs: connected is having an id, the id names the only
\* session, its connection is open, and the entries offered for download and deletion
\* are a listing of that session.
SessionsMatchPanel ==
  ~raced /\ "close" \notin failed /\ (\A k \in Alive : job[k].op \notin {"connect", "disconnect"}) =>
    /\ connected <=> panelId # NoOne
    /\ sessions = {panelId} \ {NoOne} /\ open = sessions
    /\ shown = panelId

\* The cancel button reaches the transfer that is alive
CancelReachesTransfer ==
  ~raced => \A k \in Alive : job[k].op \in Transfers => cancelEvent = k

\* A connection is never closed between the first and the last block of a copy,
\* whatever is clicked: disconnect waits for the lock of the session.
CopyKeepsConnection == \A k \in Slots : job[k].at # NoOne => job[k].sid \in open

\* Unless a transfer raised, a local file is incomplete only while it is downloaded:
\* cancelling removes it, also when another job asked for the same file.
NoPartialDownload ==
  "transfer" \notin failed =>
    \A f \in Files : <<"download", f>> \in partial =>
      \E k \in Slots : job[k].op = "download" /\ job[k].at = f

\* If no sftp server keeps a job waiting for ever, the buttons come back: every job ends,
\* fails or is cancelled, and so does the refresh that follows it.
BusyClears == (\A k \in Slots : []<>~OnSftp(k)) => (busy ~> ~busy)

=============================================================================
