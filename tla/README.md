# NetOps Toolkit: specification and proofs

NetOps Toolkit is a PySide6 desktop program for network engineers: ping, TCP,
trace, DNS and ARP diagnostics, iperf3, interface and wireless settings, file
transfer clients and temporary servers (FTP, FTPS, SFTP, SCP, TFTP), and an
updater. This directory holds TLA+ modules of its concurrent core, the TLC
configurations that check them and TLAPS proofs.

Run a model with `tlc -config X.cfg MCY.tla`, a proof with `tlapm XProofs.tla`.
Paths below are relative to the repository.

## 1. The system

One process. The **GUI thread** runs every handler; everything slow is a
**background job** on a thread of the global Qt thread pool; several services
start further threads of their own (pipe readers, server threads, one thread per
client) and child processes. Threads talk to the GUI thread through queued
signals only, and are cancelled through `threading.Event`s they poll. A modal
message box runs a nested event loop: other callbacks go on beneath it.

| Component | State | Operations | Talks to | Hard part | What makes it correct |
|---|---|---|---|---|---|
| Job runner (`app/ui/common/job_runner.py`, `app/utils/threading_utils.py`) | `_active_workers`, pool, signal queue | `start`, `run`, `_discard_worker` | every tab, Qt pool | nested loops, pool exhaustion, closing while jobs run | callbacks once and in order; signal owners retained; jobs complete |
| FTP/FTPS/SFTP client (`ftp_client_service.py`, `diagnostics/ftp.py`) | connected, busy, session id, listing, cancel event; sessions, locks | connect, disconnect, list, upload, download, mkdir, rename, delete, cancel | job runner, remote server | double click beside a job, refresh chained to `on_finished`, cancellation in a copy, a silent SFTP server | panel and sessions agree; cancel reaches the transfer; connection kept during a copy; no truncated download after cancel |
| Temporary servers (`ftp_server_service.py`, `scp_server_service.py`, `tftp_service.py`, server halves of `ftp.py`, `scp.py`, `tftp.py`) | running, cancel event, labels; listener, session counter, client threads | start, accept, count, stop, join with timeout | job runner, clients | threads that outlive their server, racing counts | free port after stop, stop reaches the listener, stop ends sessions |
| Update (`update_service.py`, `main_window.py`) | `_update_busy`, timer, open questions | check, offer, download, verify, install | GitHub, installer | questions pile up over nested loops, order on versions | only verified newer installers run; newest release picked |
| Console programs (`process_utils.py`, `ping_service.py`, `tcp_check_service.py`, `trace_service.py`, `iperf_service.py`) | process, pipe, queue, sentinel, deadline | spawn, read, poll, kill | ping, tracert, pathping, tcping, iperf3, winget | exit, end of pipe and queue seen apart | no line lost, process stopped, call returns |
| Ping and TCP panels and their executor (`diagnostics/ping.py`, `tcp.py`) | result rows, row map, cancel event, executor queue | start, cancel, progress, sort | console programs, sockets | more targets than workers, one target raising, sorting between reports | one row per target with its last reported count; a run ends with its threads |
| Application state and files (`app_state.py`, `file_utils.py`) | config, profiles, runtime dictionaries and their files | load, normalise, migrate, save, restart as administrator | every tab | crash in or between saves, two instances at a restart | no preset lost, deleted profiles stay deleted, settings kept |
| SCP client (`scp_client_service.py`) and protocol of the SCP server | channel, file in transfer | send, receive, acknowledge, cancel | SCP server | cancel in mid-file, loss of the channel, errors inside a data stream | what is reported complete is complete; no end hangs |
| TFTP client (`tftp_service.py`) | block set | download, upload | tftpy | cancel from a packet hook, 16-bit blocks | a cancelled transfer ends |
| OUI and public iperf caches (`oui_service.py`, `public_iperf_service.py`) | records, file | load, refresh, look up | wireless tab, ARP scan, iperf tab | refresh during lookups | a failed refresh keeps the records |
| iperf3 and trace panels (`diagnostics/iperf.py`, `trace.py`) | cancel events, text pane, what is known of iperf3, buttons | look for iperf3, test, install, trace, cancel, download the public servers | console programs, winget | a second job that writes into the pane, winget killed half-way, winget asked without a timeout | pane shows the current run, buttons tell the truth and come back |
| Interfaces (`interface_tab.py`, `network_interface_service.py`, `powershell_service.py`) | adapters, selection, form, profile list | refresh, apply, add, edit and delete profiles | netsh, PowerShell | callbacks beneath questions, steps that fail half-way | the job reports what it did, the table follows and comes back |
| Wireless (`wireless_tab.py`, `wireless_service.py`) | timers, running flags, table | refresh, scan, filter, vendor download | netsh, OUI cache | three jobs feed one table | table follows scan, state and filter; vendors arrive |
| One-shot diagnostics (DNS, ARP, public IP, tools) | none beyond a result | one job each | services above | covered by the job runner | - |
| Parsing, validation, models, dialogs, widgets, logging | none | pure conversions and layout | - | - | unit tests of the repository |

The hazards of this code, each at its line, are listed in `PROJECT.json` under
`hazards` with the properties that watch them.

## 2. Plan

Modelled, in this order: job runner (everything rests on it), FTP client, update,
console programs, temporary servers; then the SCP exchange, the configuration
files, the interface tab with its profile list, the executor of the probe panels,
the wireless tab with the OUI cache, and the panels of the console programs.

Composition: the panels use a background job in the form `JobContract` promises
(outcome before `on_finished`, both once), and `JobRunner` is shown to implement
that contract, so those modules need not repeat pool and queue. `ProbePool` uses
of a followed program what `StreamingCommand` shows: it reports every probe and
returns. `TempServer` knows an SCP session only as a thread that may wait for its
client; `ScpTransfer` is what that thread does. `ConsolePanel` extends
`StreamingCommand` and runs its steps inside the job of a panel.

Proved: every invariant and every action property the passing runs check, and that
`JobRunner` implements `JobContract` (section 5). Liveness stays with TLC.

## 3. Modules

### JobContract, JobRunner, JobRunnerProofs, MCJobRunner

`JobContract` is what the tabs rely on: per job `submitted`, `started`, one of
`result` and `error`, `finished`. `JobRunner` is the code: `Start` is
`JobRunner.start`, `PoolRun` the pool, `EmitStarted` ... `EmitFinished` are
`FunctionWorker.run` line by line with its `RuntimeError` branch, `Deliver` is the
GUI thread (main or nested loop) taking one queued signal, `Dismiss` the user
closing a box, `Close` is `closeEvent`, `Exit` the destruction of the application
object, which waits for the pool. `handled` is a history variable; the refinement
mapping `stage` reads the contract's state from it (a progress counts as started).
Servers are jobs whose function returns only after their cancel event is set.
The default error slot and the prompts of result handlers are in `BoxOn`.

### FtpClient, FtpClientProofs, MCFtpClient

Panel variables carry the names of `ftp.py` without their prefix. A job is a
record: operation, session, phase, files to do, file at hand, its cancel event.
`Click` is every handler behind a button from its guards to `_start_worker`, `Asks`
what it needs before;
`DoubleClick` is the remote table, which the busy flag does not disable. `Lookup`
is `_get_session`/`_pop_session`, `Acquire` the session lock. A transfer copies
file by file (`BeginFile`, then `EndFile`, `CancelFile` or `TransferFails`);
`partial` holds copies that are begun and not completed. `OnFinished` includes the
refresh that `_finish_ftp_job_with_refresh` starts. File contents, listings and
paths are abstracted away. `OnSftp` says that a job waits for an SFTP server: opening
the connection has a timeout for the banner only (`ftp_client_service.py:120`), and the
channel has none.

The history variables `raced` (a double click during a job) and `failed` (a copy or
a close has raised) mark the states in which the code keeps no promise; the
model goes on past them, the properties are stated up to them. After a race the
first `on_finished` clears the busy flag, a second transfer may start and replace
the cancel event. After a failed SFTP close the panel stays connected to a session
that was popped, until the program is restarted or the user reconnects.

### VersionOrder, UpdateFlow, SettingsProofs, MCUpdateFlow

`VersionOrder` translates `_parse_version`'s result, `_compare_versions` (`Older`)
and `_version_sort_key` (`SortsBefore`); a dotted token is a number or the rank of
a word. `UpdateFlow` has the jobs (check, download), the stack of open questions,
the startup timer and the launched installers. A check gets an arbitrary set of
releases as the answer of GitHub. Answering a question pops it and runs the rest of
its handler. A main window closed beneath a question ends the program only with
the last question. `stacked` remembers that a question was opened over another or
an offer accepted while a job was alive; only `OneUpdateAtATime` needs it.
Information boxes (`manual`) only delay the user and are left out, so the model
allows more clicks than the program. `WrittenShorter` says where the two orders part:
two tags with the same numbers, of which one writes fewer zeros at the end.

### StreamingCommand, ConsolePanel, StreamingCommandProofs, MCConsolePanel

`caller` selects the loop: `run_streaming_command`, `_ping_target` or `_run_tcping`.
`Write` and `ProcessGone` are the child process, `ReadLine` and `ReadEnd` the reader
thread with its sentinel, `Check` the cancel and deadline branches, `Get`/`GetEmpty`
the timed read of the queue, `Poll` the exit check, `Counted` ping's early exit,
`Return` the last wait with its `TimeoutExpired`. A line is a probe or text. A
grandchild that keeps the pipe open after the process is gone is not modelled: end
of file comes when the process is gone and the pipe is empty.

`ConsolePanel` puts a panel around the call, iperf3 or trace (`panel`), which may start
programs one after the other; `panel = "none"` is the call alone, as a ping uses it.
`RunTest`, `Install`, `StartTrace` end in `Start`, which empties pane and call;
`Opens` is the `Popen` of its job, `NoProcess` the ways around it (winget or the
program is not found, or cannot be started). A line
goes to the queue when it goes to the output (`Follow`), `JobReturns` posts outcome
and `finished`, `Deliver` is the GUI thread with the finish handlers. `Look` is the
half of `refresh_iperf_availability` that reads the disk: `disk` is what there is,
`available` and `manageable` what the buttons say. The other half asks winget and
`iperf3 --version`, with `subprocess.run` and no timeout, and it does so on the GUI
thread: `looking` says for which handler (`LookAgain` and the finish handlers,
`iperf.py:546` and `731`, until `Looked`; `AskInstall` until `Install` or
`NotInstalled`), and while it is set no button and no signal is served. An
installation asks winget once more in its own thread before its process
(`iperf_service.py:252`), deaf to its cancel event: that is the job that has not
`begun`. `RunRefused` is a test whose input is invalid, which looks all the same.
`WingetInstalls` may happen until the process is gone, also
after it was killed. `RefreshList` and `Fetched` are the second job, which `running`
does not exclude; its failure replaces the pane (`PaneAfter`), and `PanelTellsTruth`
promises the text up to then. The look at the disk is taken to see winget and to be
able to start it, iperf3 only comes by it and never goes; mode, target, options,
headings and the questions before an installation are left out.
Counting probes and showing lines are stated without recursion: `Probes` is the
size of a set of places, `Shows` the existence of places in increasing order.

### TempServer, TempServerProofs, MCTempServer

`run` holds the starts, `client` the client threads. `Kinds` distinguishes pyftpdlib
(accepts as soon as it is bound, closes its sessions itself), SFTP and SCP (a
thread per client that polls the cancel event; an SCP copy may block on its peer:
`PeerWait`) and tftpy (announced before it listens, serves in the listening thread,
stopped by a monitor thread: `TftpStop`). `LeaveLoop` closes the listener, `Settle` is
the join with timeout, after which threads may still be alive. `Read` and `Tell` are
the two halves of `emit_runtime`. `Deleted`: the signals of a start are gone with its
`finished`, and a later emit raises. The port, addresses, keys and files are not
modelled; the SFTP operations of a session do not touch this state.

### ScpTransfer, ScpTransferProofs, MCScpTransfer

One connection per transfer, two streams of tokens. A token is a reply, a header
line, a chunk of data, or one of the two parts of an error (its first byte and its
text), because a client that counts data bytes takes an error for data (`AsData`).
Client actions are the steps of `upload_files`, `download_files`, `_send_file` and
`_receive_file` between two receives; server actions those of
`_handle_upload_request` and `_handle_download_request`. Files are sequences of
chunks, written at the offset of their handle (`Write`), so that a late thread of a
cancelled upload can spoil a later transfer; `alone` remembers transfers without
such a thread. The list of an upload names files that exist, each once, for it
comes from a file dialog; that of a download is typed in. `unserved` is the second channel a download opens for its second
source: the server of the program serves one channel per connection, so the client
runs into its timeout there. `Error` also ends the connection. The server accepts the end
of the stream in place of the byte behind an uploaded file; the client is gone then,
and what remains of it is that the reply raises (`ThreadFails`). That the reply still
succeeds, between the client's end of stream and its close, is not modelled.

### ConfigStore, SettingsProofs, MCConfigStore

`disk` has one file for each way of being used. `save_json` is two writes in `todo`,
the truncation and the text; `Crash` and `SaveFails` may come before each, leaving
`Torn` (no JSON, `load_json` answers the default) or `Mangled` (no UTF-8, which
`load_json` does not catch: `LoadRaises`, which leaves what was loaded before it). `phase` follows `main`:
`ensure_runtime_files`, then `reload_config_files` in its order (configuration,
lists, migration), then the window. `RestartAsAdmin` starts the next process while
the writes of the closing one are still in `late`. `choice`, `left` and `deleted` are
what the user was promised: the channel saved, the layout closed with, the profiles
deleted; `choice` and `left` are given up when a damaged file was read or a save
failed, for the code then falls back to defaults and saves those.

### InterfaceTab, NetworkProofs, MCInterfaceTab, ProfileList, MCProfileList

`InterfaceTab` has the adapter table, the open question with the adapter and the
setting it asks about, and background jobs; what the form contains is left open. An
apply runs through `NetshAddress`, `NetshDns`, `CleanupStatic` and `FallbackStatic` (or
their DHCP counterparts). A configuration keeps address, gateway and DNS apart, so a
half-applied one is visible. Each netsh command may fail with or without having done
its work. The PowerShell fall-back of a static setting stops at the address and at the
DNS servers only: it removes every default route and adds the gateway with
`SilentlyContinue` (`network_interface_service.py:128`, `162`), so `Rerouted` lets it
succeed with the old gateway, none, or the new one; the cmdlets of the DHCP fall-back
fail silently too (`Silently`). Callbacks are delivered beneath an open question,
`Populate` then replaces table and selection. `alone` marks applies that had
the adapter to themselves, `stale` histories in which the code does not promise a
fresh table (an apply failed, or two refreshes overlapped).

`ProfileList` has the list widget, whose current row serves as an index into
`ip_profiles`, with the editor and the delete question; `RestoreSelection` is the
part of the first refresh that moves the row.

### ProbePool, ProbePoolProofs, MCProbePool

A future per entry, at most `Workers` of them on threads. `tool` tells the followed
programs ping and tcping (their probes come as lines: `NoLine`, `ProgramEnds`) from the
socket loop (`LoopHead`, `Probe`, `LoopTail`, `ConnectRaises`). `sent` is the count an
entry has reported last. When tcping ends, the lines of its summary replace the counts
of its probes (`tcp_check_service.py:169` and `216`), with any number, also when no
probe line was recognised: `summary` is that number, `Final` what the result carries.
The row is not told, it keeps the last report. The job collects results,
`CollectRaises` on the first exception, and in either case leaves the `with` block
only when all threads are done (`ExecutorEmpty`). `Report` is the handler of a
progress signal: `FindRow` trusts the row map if the row still matches, else
searches; `Sort` permutes the rows at any time. A continuous run stops counting at
`MaxCount`, which bounds the states and not the run.

### WirelessTab, NetworkProofs, MCWirelessTab

Three kinds of jobs with one queue: `Info`, the scan (`Netsh`, then `LookUp` of one
access point after the other in the shared `records`, then `Found`) and downloads
(`Fetch`, `Store`, `Refreshed`). `View` is the table (`nearby_table`) that `_apply_nearby_view` builds from the
last scan, the current access point and the filter. A vendor is the version of the
registry it was looked up in. The timers are `AskInfo` and `Tick`; the interval is
not modelled.

## 4. Runs

Every property of a passing run has a mutant in `PROJECT.json`: a plausible slip in
the code that makes the property fail on the same run.

| Run | Bounds | Shows |
|---|---|---|
| `JobRunner` | 2 servers, 1 reporting job, 2 threads, 1 queued progress | retained owners, refinement of `JobContract`, no starvation but by servers, jobs complete, process ends after close |
| `FtpClient` | 2 jobs at a time, one FTP and one SFTP session, 1 file | panel and service agree, see the properties; buttons come back if an SFTP server answers |
| `UpdateFlow` | 2 jobs, 5 releases (the running candidate, its stable version with three numbers and with two, a later candidate, a draft; one of them unverifiable) | chain of trust, newest picked but for a shorter tag, one job at a time |
| `ConsolePanel` | 2 runs of 2 lines in a panel, 2 probes and 4 lines for a call alone | nothing lost, process stopped, pane and buttons tell the truth, buttons return if winget answers |
| `TempServer` | 2 starts, 4 kinds, 1 client thread, queue of 2 | port free, stop works, sessions end |
| `TempServerCount` | 1 SFTP start, 2 client threads, queue of 2 | **violation**: a stale session count stays in the panel |
| `ScpTransfer` | 2 transfers, a file of 2 chunks and an empty one, one edit | complete means complete, cancel leaves no part, both ends finish |
| `ConfigStore` | 2 profiles, 2 layouts, all crashes and failed writes | presets, deletions, channel and layout survive |
| `InterfaceTab` | 1 adapter, 1 static setting beside DHCP, 2 workers | success is true, table settles, and is disabled for a refresh only |
| `ProfileList` | 2 profiles | **violation**: another profile is deleted than the question named |
| `ProbePool` | 3 entries with 2 keys, 2 threads, 2 runs, 1 probe (2 when continuous) | rows right, results right but for tcping's summary, runs end |
| `WirelessTab` | 2 access points, 1 registry, 1 download over known vendors | table is current, vendors survive and arrive |

Why the bounds are enough: two servers fill a pool of two threads while a third job
waits; two jobs are a job and the one that races it; two sessions let a connection
follow another; one client thread can outlive a first server into a second run;
two client threads can swap their counts; four lines can be in pipe, queue and
output at once; two transfers let a thread of the first meet the second, two chunks
leave one half of a file; a profile that stays beside one that goes shows both
losses; two workers are two refreshes or a refresh and an apply; three entries on
two threads leave one waiting, two of them with one key share a row; one access
point can be current and the other not, and a scan stand between them when a
download ends. One adapter suffices because jobs share nothing but the adapter, and two
applies for one are the hard case. `MaxProgress` and `MaxEvents` cap queues that the code leaves
unbounded: a shorter queue only means that its sender waits, and neither bound
disables a signal whose order matters (started, outcome, finished). `Conns`,
`MaxRuns` and `Refreshes` bound how often the user starts something.

Deadlock checking is off: a program whose jobs are done, whose window is closed or
whose command has returned rightly stops. `ConfigStore` can always be started again
and is checked for deadlock.

### Fairness

Threads are scheduled, the GUI thread delivers its queue, the clock passes a deadline,
a killed process disappears, a server loop polls its cancel event. Whether a function
in the background returns is asked module by module, for not every call of the code
has a timeout:

- `UpdateFlow`: HTTP requests have one, so `Work` is fair. `JobRunner` supposes of all
  functions but servers that they return or raise; its liveness properties are about
  the runner, given that.
- `FtpClient`: FTP and FTPS sockets have a timeout; the channel of an SFTP session has
  none (`ftp_client_service.py:120-124`). `Serve` is fair only outside `OnSftp`, and
  `BusyClears` has the hypothesis that no job waits for an SFTP server for ever.
- `ConsolePanel`: the streamed process has a deadline. What is asked of winget and of
  `iperf3 --version` before and behind it has none (`iperf_service.py:144`), so
  `Looked`, `NotInstalled`, `Install` and the `Opens` of an installation are not fair,
  and `ButtonsReturn` has the hypothesis that such a question is answered time and again.

In `ScpTransfer` both ends run and a silent peer is noticed after its
timeout; in `ProbePool` the threads of the executor run and a program that has sent
its probes ends; in `WirelessTab` a timer that is on fires again. All weak: each of
these steps stays enabled until taken. Users owe
nothing: no box is answered, no window closed, nothing cancelled; clients of a
server need not leave or answer; a child process need not end.

### Findings

1. `emit_runtime` of the temporary servers reads the session counter outside its
   lock and emits later; two client threads can post their counts in the opposite
   order and the panel keeps the older one (`TempServerCount`).
2. `delete_selected_profile` (`app/ui/tabs/interface_tab.py:454`) asks about the
   profile selected before the question and removes the row that is current after
   it; the first refresh, delivered beneath the question, restores the saved
   selection, and another profile is deleted (`ProfileList`).

Further disagreements, each in the model and seen in its properties rather than in a
run of its own:

3. `_version_sort_key` (`app/services/update_service.py:361`) does not pad versions as
   `_compare_versions` (365) does, and nothing in the release workflow asks for three
   numbers. With the tags `v1.2` and `v1.2.0-rc1` the candidate is sorted first, so a
   beta tester who runs it is told "이미 최신 버전입니다. (현재 {current_version})"
   (`update_service.py:66`) although the stable 1.2 is newer by the program's own
   comparison. `NothingNewerMissed` therefore allows a newer release to be passed over
   if its tag is that of the one picked short of zeros at the end, and in no other
   case; on the run, which has such a pair, TLC finds it false without the exception.
4. The PowerShell fall-back of a static setting reports success without the gateway
   (`network_interface_service.py:128`, behind 162): `SuccessMeansApplied` promises the
   gateway only of what netsh did.
5. With a silent SFTP server the job never returns, the busy flag stays set and the
   panel's buttons stay off: the hypothesis of `BusyClears`.
6. The finish handlers of iperf3 ask winget on the GUI thread
   (`app/ui/tabs/diagnostics/iperf.py:546`, `731`): while it does not answer the whole
   window is dead, and an installation that has not come to its process cannot be
   cancelled: the hypothesis of `ButtonsReturn`.
7. tcping's summary replaces the counts of the result and not those of the row
   (`tcp_check_service.py:216-223`), so the two may differ, and an entry of which no
   line was recognised has a result and no row: `TableShowsOutcome` promises equality
   of result and last report for the other tools, and for tcping without a summary.

## 5. Proofs

Each theorem is about a whole specification, for every value of the constants that the
assumptions allow: any number of jobs, files, lines, entries, adapters, clients,
starts, profiles. Those on the two orders are about all versions. The property that a theorem states is named where a run checks it.

| Theorem | Says | Argument |
|---|---|---|
| `JobRunnerProofs!WorkersRetained`, `OneBox` | `Retained`; at most one box per outcome (proved only) | `IInv` |
| `JobRunnerProofs!RunnerImplementsContract` | `ImplementsContract`: `JobRunner` implements `JobContract` | `IInv` and the mapping `stage` |
| `FtpClientProofs!PanelMatches` | `SessionsMatchPanel` | `OneJob`, `Agree` |
| `FtpClientProofs!CancelReaches` | `CancelReachesTransfer` | `OneJob` |
| `FtpClientProofs!CopiesConnected`, `DownloadsWhole` | `CopyKeepsConnection`, `NoPartialDownload` | `LocksHeld`, `CopiesWork` |
| `SettingsProofs!InstallersAreVerified`, `QuestionsAreSound` | `OnlyVerifiedUpdatesRun`, `QuestionsAreAboutUpdates` | `Chain` |
| `SettingsProofs!NewestIsPicked` | `NothingNewerMissed`, for tags of any length | `PickIsNewest`, `PassedOver` |
| `SettingsProofs!OrdersDiffer` | the sort key misplaces a newer version exactly if its numbers are those of the other short of zeros at the end, and what follows them is newer (proved only) | `PassedOver`, `BasesOrdered` |
| `SettingsProofs!OneUpdate` | `OneUpdateAtATime` | `BusyIsTheJob` |
| `SettingsProofs!UpdatesGoForward` | no update leads back to the version it replaced (proved only) | `Chain`, `OlderIsAnOrder` |
| `SettingsProofs!OlderIsAnOrder`, `OlderIsTotal` | `_compare_versions` is a strict order, total up to zeros at the end (proved only) | `BaseOlder` |
| `SettingsProofs!SortingIsTotal`, `SomethingIsPicked` | `_version_sort_key` is a strict total order, so any finite set of candidates has a newest version (proved only) | `TupleTotal`, minimal counterexample |
| `SettingsProofs!ChannelIsKept` | `ChoiceKept` | `Choices` |
| `SettingsProofs!DeletionsLast` | `DeletedStaysDeleted` | `Deletions`, `Presets` |
| `SettingsProofs!MigrationKeeps`, `LayoutIsRestored` | `ClearedAfterKept`, `LayoutReturns`, action properties | `Presets`; `Layout` |
| `StreamingCommandProofs!NothingIsLost`, `NoProcessIsLeft`, `ProbesAreCounted` | `NothingLost`, `ProcessStopped`, `EveryProbeCounted` of a call alone | `Flow`, `Left`, `Counting` |
| `StreamingCommandProofs!CallsOfPanels` | the same three for every run of a panel | `PanelInv` |
| `StreamingCommandProofs!PanelIsTrue` | `PanelTellsTruth` | `Posting`, `Truth`, `Found` |
| `TempServerProofs!PortIsFree`, `StopReaches` | `StartFindsPortFree`, `StopReachesServer` | `OneServer`, `InOrder` |
| `TempServerProofs!CountersExact` | the counter of a start is the number of its counted threads (proved only) | `Counting` |
| `ScpTransferProofs!DownloadIsWhole`, `NoPartIsLeft` | `DownloadsComplete`, `CancelLeavesNoPart` | `Streams`, `Downloading` |
| `ScpTransferProofs!UploadIsWhole` | `UploadsComplete` | `Streams`, `Uploading` |
| `NetworkProofs!SuccessIsTrue` | `SuccessMeansApplied` | `Alone`, `Applying` |
| `NetworkProofs!TableIsRight` | `TableSettles` | `Settling` |
| `NetworkProofs!TableIsDisabled` | `DisabledWhileRefreshing` | `Settling`, `Disabled` |
| `NetworkProofs!TableShowsTheScan` | `TableIsView` | inductive as it stands |
| `NetworkProofs!VendorsAreKept` | `VendorsSurvive`, an action property | `Posting` |
| `NetworkProofs!OneJobOfEachKind` | a job alive has its flag, a queued end has no successor yet (proved only) | `Flagged` |
| `ProbePoolProofs!RowsAreOfTheRun`, `OutcomeIsShown` | `NoOldRow`, `TableShowsOutcome` | `InOrder`, `Showing` |
| `TypeCorrect` | `TypeOK` of `JobRunner`, `FtpClient`, `UpdateFlow`, `StreamingCommand`, `TempServer`, `ScpTransfer` (no run spends states on it) | first part of each invariant |
| `SettingsProofs!FilesAreSound` | the same for `ConfigStore` (`ConfigTypeOK`) | `Shapes`, `Todo` |
| `Invariance`, `PanelInvariance` | the inductive invariant of each module | one lemma per action |

Assumptions are those named `...Assumption` in the modules: finite sets of jobs,
slots and clients, at least one thread, `None` not a release, numbers that are
numbers, file contents that are not the marks of damaged files, a default layout, an
access point that is not the mark of none. No theorem about a specification has a hypothesis beyond these; TLC found every
inductive invariant true on the bounds of its run before it was proved.

*Job runner.* Neither `Retained` nor the contract is inductive: whether a signal may
be emitted depends on what is still in the queue. `IInv` describes, for every job,
the signals it has in the queue as the stretch of the contract between what was
delivered (`handled`) and what its phase has emitted, in order, so the head of the
queue is always the next callback of its job. Each worker step appends the next
signal of the stretch (`EmitOne`), delivery takes the first (`HeadIsNext`).

*FTP client.* Two exclusions. Until a double click races with a job there is one job
(`OneJob`), so panel and service can be apart by that job only: `Midway` says by how
much, from the lookup of a connect or disconnect to the delivery of its outcome.
The session lock (`LocksHeld`) excludes races or not, and is why a copy keeps its
connection and a partial file its writer even when two transfers are alive.

*Update.* `Chain` carries trust from step to step: the releases a check saw, the
result of a check, an open offer, a download begun from it, its verified content,
an open installation question, a launched installer. The stack of questions is
arbitrary, which is the point: nothing in the chain depends on `_update_busy`.
`OneUpdateAtATime` does: `BusyIsTheJob` says, until something is stacked, that
`_update_busy` is there being a job, which is why the next one starts alone.

*Versions.* `_compare_versions` pads two versions to the length of the longer, so that
one version is padded differently with each partner, and a chain of comparisons
compares tuples that are not the same. `Place` lets every version go on with zeros
for ever; `OlderIs` shows that padding to a pair's length compares as far as it takes,
and then the order of tuples can be chained (`BasesOrdered`). The sort key does not pad;
`PassedOver` shows that the two orders part only where one tuple is the other with
zeros behind it. That two tuples differ
at a first place, and that a finite set has a newest version, are inductions over
data: the proofs take a minimal counterexample (`WFMin` of the library, for numbers
and for finite sets), which needs no operator as a parameter.

*Console programs.* `Flow` says that output, queue without sentinel and pipe, one
after the other, are what was written, and that the sentinel is behind everything;
a loop that has seen the sentinel has therefore seen it all. A ping may leave
earlier: then it has counted `Count` probes, and the process prints no more of them
(`Counting`). In a panel, `Posting` says that the signals of a job in the queue are
those of the run that goes on, with nothing of it behind `finished`; so a pane that
was emptied by a start never gets a line of the run before, and pane followed by
queue shows the output (`Truth`): a delivery moves an entry from one to the other. A
job that has not begun has neither process nor lines.

*Temporary servers.* The order of the signals. The panel forgets the cancel event
with the outcome and enables the start button with `finished`; the job posts both,
once and in this order, when its listener is closed (`InOrder`), and behind `finished`
there are only counts of late threads. So at most one start is active, it is the
one of the panel's event, and only an active start listens (`OneServer`). `Counting`
shows the counter itself exact; what the panel displays is another matter
(`TempServerCount`).

*SCP.* The streams of the panel's connection hold exactly the part of the file between
the places of the two ends as long as the connection stands (`HalfWay`, `Unbroken`).
Once it does not, the two ends know different things, and what remains is that a
reply in a stream is behind the whole file (`Trailers`, `Answered`): nothing that a
lost connection, a stopped server or its error text leaves in the stream passes for
one. The connections behind the panel's are unused, those before it belong to
threads that only matter if they still write (`Others`), which `alone` rules out.

*Interface tab.* `Applying` follows an apply through its commands: what it has run
successfully is still so, because only another apply for the adapter could change
it, and then neither is `alone`; an apply that came through the fall-back is marked
(`ok`), and nothing is said of its gateway. `Settling` follows the configuration from the
worker that reads it into the table: a change is always behind an outcome that has
yet to be delivered, and that outcome starts a refresh or is a failure. `Disabled`
needs it: the end of one refresh enables the table under another unless the one is
alone, and the refresh that an apply starts may be a second one.

*Wireless tab.* The table is rebuilt in every step that changes what it shows. The flags
need the queue: `Flagged` says that a job's end is posted once, behind it nothing of
that job, and that the flag is up until the end is delivered; so no second job of the
kind starts before, by button, timer or end of a download, and no end is one of an
earlier job.

*Configuration files.* Saves are sequences of writes that a crash or a failure may cut
anywhere. `Todo` says that what is still to be written is the end of the sequence the
phase saves, of the values in memory; `Late` says it of a program that has started
its successor, and that the successor writes nothing meanwhile. Each promise then has
a part on disk and a part in memory, of which a save in progress suspends one:
`Choices` for the channel, `Deletions` for the profiles in both files that may carry
them, `Layout` for window and forms. A damaged file falsifies nothing, for the parts
on disk speak of whole files; reading it ends the promise of channel and layout.
`Presets` is about the migration: the legacy list is emptied only behind a whole
profile file that contains it, and is empty or damaged once a program is up, so a
later deletion is not undone by migrating again.

*Probe panels.* Reports of two threads for one key may come in any order, so `Showing`
speaks of the last one: in the queue or, if none is queued, in the table, it carries
the last count reported by one of the entries of the key. A result is the last report
of its entry or what tcping's summary said (`Final`). `InOrder` adds that the
outcome is posted when no thread runs (the executor waits) and `finished` is the
last signal, so the start button comes back to an empty queue. Sorting keeps the
rows and `FindRow` looks a stale row number up again (`OneRow`).

*Only model-checked.* All liveness properties (the prover does not treat fairness and
ENABLED): `NoJobWaitsForever`, `EveryJobCompletes`, `CloseEndsProcess`, `BusyClears` of
both modules, `ButtonsReturn`, `StopEnds`, `RunEnds`, `NoEndHangs`,
`VendorsReachTable`. The properties of the two violation runs are false. `InterfaceTab`,
`ProbePool`, `ConsolePanel` and `WirelessTab` have their types in `Shape`, `PanelShape`
and `Posting`, the first parts of their inductive invariants. The models have no
recursive definitions; the inductions over data there are go by minimal
counterexamples, as said above.

## 6. Not modelled

The components marked `not_modelled` or `partly` in `PROJECT.json`, with reasons. In
particular text conversions, layout, the text of directory listings, what the
PowerShell scripts do inside, and everything behind third-party libraries (Qt,
paramiko, pyftpdlib, tftpy), whose behaviour is taken from how the code uses them.
The TFTP client is one call of tftpy, the one-shot diagnostics are background jobs
with one result; neither keeps state beside the job runner's.

Limits of the code seen on the way that no property states: an FTP delete stops at
the first error with some entries gone (`ftp_client_service.py:302`); a download that
fails instead of being cancelled keeps its truncated copy; a certificate and its key
are two writes (`ftp_server_service.py:396`); FTP and SCP profiles are edited and
deleted by name although adding allows equal names (`ftp.py:587`, `scp.py`); two
remote paths with one base name overwrite each other locally
(`scp_client_service.py:272`); a failed first SFTP listing leaves its transport open
(`ftp_client_service.py:124`); a failed download of the public iperf servers replaces
the text of a running test (`iperf.py:199`), and a new list or region takes the new
server's host but keeps the old port (`iperf.py:387`); a TFTP server that cannot
listen leaves its monitor thread behind (`tftp_service.py:243`); `load_json` does not catch a decoding error
(`file_utils.py:308`), so the program does not start over such a file; every run of
the TFTP server adds a handler to the one tftpy logger (`tftp_service.py:235`).
