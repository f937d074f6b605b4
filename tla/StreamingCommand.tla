--------------------------- MODULE StreamingCommand ---------------------------
(***************************************************************************)
(* A console program whose output is followed line by line:                *)
(* run_streaming_command (app/utils/process_utils.py; tracert, pathping,   *)
(* iperf3 and winget) and the same loop in PingService._ping_target and in *)
(* TcpCheckService._run_tcping.                                            *)
(*                                                                         *)
(* Four parties: the process writes to a pipe; a reader thread moves the   *)
(* lines to a queue and ends with a sentinel; the loop takes them from the *)
(* queue with a timeout and polls the process; the user cancels.  Only     *)
(* run_streaming_command has a deadline.                                   *)
(***************************************************************************)
EXTENDS Naturals, Sequences, FiniteSets

CONSTANTS
  Count,      \* probes a ping or tcping is asked for; it prints at most so many
  MaxLines    \* bound on the lines the process writes

ASSUME CommandAssumption == Count \in Nat /\ MaxLines \in Nat

Callers == {"command", "ping", "tcping"}
Lines   == {"probe", "text"}     \* a line that _consume_ping_line counts as sent; any other
Sentinel == "None"

VARIABLES
  caller,      \* which of the three loops runs
  continuous,  \* ping -t, tcping -t: no count
  proc,        \* the process: running, killed and still there, gone
  written,     \* history: what it has written
  pipe,        \* lines in the pipe
  reader,      \* the reader thread: reading, at end of file, gone
  queue,       \* output_queue
  finished,    \* reader_finished
  output,      \* output_lines
  pc,          \* where the loop is
  cancel,      \* the cancel event is set
  late,        \* the deadline has passed
  result       \* what the call returned

ioVars == <<written, pipe, reader, queue>>
args   == <<caller, continuous>>
vars   == <<caller, continuous, proc, written, pipe, reader, queue, finished, output, pc, cancel, late, result>>

IsProbe(line) == line = "probe"
Probes(s) == Cardinality({i \in DOMAIN s : IsProbe(s[i])})

-----------------------------------------------------------------------------
Init ==
  /\ caller \in Callers
  /\ continuous \in IF caller = "command" THEN {FALSE} ELSE BOOLEAN
  /\ proc = "running"
  /\ written = <<>> /\ pipe = <<>> /\ queue = <<>> /\ output = <<>>
  /\ reader = "reading"
  /\ finished = FALSE
  /\ pc = "check"
  /\ cancel = FALSE /\ late = FALSE
  /\ result = "none"

-----------------------------------------------------------------------------
(* The process and the clock *)

Write(line) ==
  /\ proc = "running"
  /\ Len(written) < MaxLines
  /\ caller # "command" /\ ~continuous /\ line = "probe" => Probes(written) < Count
  /\ written' = Append(written, line)
  /\ pipe' = Append(pipe, line)
  /\ UNCHANGED <<proc, reader, queue, finished, output, pc, cancel, late, result>> /\ UNCHANGED args

\* It ends by itself, or the kill takes effect
ProcessGone ==
  /\ proc # "gone"
  /\ proc' = "gone"
  /\ UNCHANGED <<finished, output, pc, cancel, late, result>> /\ UNCHANGED ioVars /\ UNCHANGED args

Deadline ==
  /\ caller = "command" /\ ~late
  /\ late' = TRUE
  /\ UNCHANGED <<proc, finished, output, pc, cancel, result>> /\ UNCHANGED ioVars /\ UNCHANGED args

SetCancel ==
  /\ ~cancel /\ result = "none"
  /\ cancel' = TRUE
  /\ UNCHANGED <<proc, finished, output, pc, late, result>> /\ UNCHANGED ioVars /\ UNCHANGED args

-----------------------------------------------------------------------------
(* The reader thread *)

\* for line in iter(process.stdout.readline, ""): output_queue.put(line)
ReadLine ==
  /\ reader = "reading" /\ pipe # <<>>
  /\ queue' = Append(queue, Head(pipe))
  /\ pipe' = Tail(pipe)
  /\ UNCHANGED <<proc, written, reader, finished, output, pc, cancel, late, result>> /\ UNCHANGED args

\* mutant: the reader stops when the process has, not at the end of the pipe
ProcessEnded == proc = "gone"

\* readline returns "" at the end of the pipe: the writer is gone, all lines are read
EndOfFile == proc = "gone" /\ pipe = <<>>

\* finally: output_queue.put(None)
ReadEnd ==
  /\ reader = "reading" /\ EndOfFile
  /\ reader' = "gone"
  /\ queue' = Append(queue, Sentinel)
  /\ UNCHANGED <<proc, written, pipe, finished, output, pc, cancel, late, result>> /\ UNCHANGED args

-----------------------------------------------------------------------------
(* The loop *)

LoopTo(p) == pc' = p /\ UNCHANGED <<cancel, late, written, pipe, reader>> /\ UNCHANGED args

\* mutant: cancellation is looked at before the first line only
CancelledAtStart == cancel /\ output = <<>>

\* The first branches of the loop: cancelled, or too late
CancelSeen == cancel
TooLate    == late /\ caller = "command"

\* mutant: the loop is left without process.kill()
LeftRunning == proc

Killed == IF proc = "running" THEN "killed" ELSE proc

Check ==
  /\ pc = "check"
  /\ IF CancelSeen \/ TooLate
     THEN proc' = Killed /\ LoopTo(IF CancelSeen THEN "stopped" ELSE "expired")
     ELSE UNCHANGED proc /\ LoopTo("get")
  /\ UNCHANGED <<queue, finished, output, result>>

IsEnd(item) == item = Sentinel

\* output_queue.get(timeout=0.2) returns a line or the sentinel
Get ==
  /\ pc = "get" /\ queue # <<>>
  /\ queue' = Tail(queue)
  /\ IF IsEnd(Head(queue))
     THEN finished' = TRUE /\ UNCHANGED output /\ LoopTo("poll")
     ELSE output' = Append(output, Head(queue)) /\ UNCHANGED finished
          /\ LoopTo(IF caller = "ping" THEN "counted" ELSE "check")
  /\ UNCHANGED <<proc, result>>

\* mutant: an empty queue and an ended process are enough
EmptyIsEnough == TRUE

\* reader_finished and process.poll() is not None
PollOnEmpty == finished

\* queue.Empty
GetEmpty ==
  /\ pc = "get" /\ queue = <<>>
  /\ LoopTo(IF PollOnEmpty THEN "poll" ELSE "check")
  /\ UNCHANGED <<proc, queue, finished, output, result>>

\* process.poll() is not None: break
Poll ==
  /\ pc = "poll"
  /\ LoopTo(IF proc = "gone" THEN "ended" ELSE "check")
  /\ UNCHANGED <<proc, queue, finished, output, result>>

\* mutant: the last probe is not waited for
AlmostEnough == Probes(output) + 1 >= Count

\* _ping_target: stats["sent"] >= count
Enough == Probes(output) >= Count

\* _ping_target leaves the loop early, what follows the last probe is not read
Counted ==
  /\ pc = "counted"
  /\ LoopTo(IF ~continuous /\ Enough /\ proc = "gone" THEN "ended" ELSE "check")
  /\ UNCHANGED <<proc, queue, finished, output, result>>

\* process.wait(timeout=5).  Over time run_streaming_command raises, the others kill
Return ==
  /\ pc \in {"ended", "stopped", "expired"}
  /\ \/ proc = "gone" /\ result' = pc /\ UNCHANGED proc
     \/ proc # "gone" /\ caller = "command" /\ result' = "raised" /\ UNCHANGED proc
     \/ proc # "gone" /\ caller # "command" /\ result' = pc /\ proc' = Killed
  /\ LoopTo("returned")
  /\ UNCHANGED <<queue, finished, output>>

Loop == Check \/ Get \/ GetEmpty \/ Poll \/ Counted \/ Return

Next ==
  \/ \E line \in Lines : Write(line)
  \/ ProcessGone \/ Deadline \/ SetCancel
  \/ ReadLine \/ ReadEnd
  \/ Loop

Spec == Init /\ [][Next]_vars

-----------------------------------------------------------------------------
TypeOK ==
  /\ caller \in Callers /\ {continuous, finished, cancel, late} \subseteq BOOLEAN
  /\ proc \in {"running", "killed", "gone"}
  /\ reader \in {"reading", "gone"}
  /\ written \in Seq(Lines) /\ pipe \in Seq(Lines) /\ output \in Seq(Lines)
  /\ queue \in Seq(Lines \cup {Sentinel})
  /\ pc \in {"check", "get", "poll", "counted", "ended", "stopped", "expired", "returned"}
  /\ result \in {"none", "ended", "stopped", "expired", "raised"}

\* A command that ran to its end is reported with everything it wrote, in the
\* order it was written, although the exit of the process, the end of the pipe
\* and the queue are observed apart.
NothingLost == result = "ended" /\ caller # "ping" => output = written

\* A ping is left before its output is read to the end, and still every probe the
\* process reported is counted.
EveryProbeCounted == result = "ended" => Probes(output) = Probes(written)

\* No result, not even an exception, leaves the process to itself
ProcessStopped == result # "none" => proc # "running"

=============================================================================
