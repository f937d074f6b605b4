---------------------------- MODULE FtpClientProofs ----------------------------
(***************************************************************************)
(* Proofs about the FTP client, for any sessions, files and number of      *)
(* concurrent jobs.  What the panel promises rests on two exclusions: jobs *)
(* follow each other until a double click races with one, and the lock of  *)
(* a session is held by the job that works on it, races or not.            *)
(***************************************************************************)
EXTENDS FtpClient, TLAPS

Phases  == {"none", "lookup", "lock", "work", "result", "error", "done"}
JobType == [op : Ops, sid : Sessions \cup {NoOne}, pc : Phases,
            todo : SUBSET Files, at : Files \cup {NoOne}, cancelled : BOOLEAN]

-----------------------------------------------------------------------------
(* The inductive invariant *)

\* A job that is alive is about a session
SidsNamed == \A k \in Slots : job[k].pc # "none" => job[k].sid \in Sessions

\* Who works on a session holds its lock; a copy is open in working transfers only
LocksHeld  == \A k \in Slots : job[k].pc = "work" => lock[job[k].sid] = k
CopiesWork == \A k \in Slots : job[k].at # NoOne => job[k].pc = "work" /\ job[k].op \in Transfers

\* Until a race, one job at a time, and busy while there is one
OneJob ==
  ~raced => /\ \A k, l \in Slots : job[k].pc # "none" /\ job[l].pc # "none" => k = l
            /\ \A k \in Slots : job[k].pc # "none" => busy

Matched ==
  /\ connected <=> panelId # NoOne
  /\ sessions = {panelId} \ {NoOne} /\ open = sessions
  /\ shown = panelId

\* How far panel and service are apart while j runs
HalfConnected(j)    == j.op = "connect" /\ j.pc = "result"
HalfDisconnected(j) == j.op = "disconnect" /\ j.pc \in {"lock", "work", "result"}

Connecting(j)    == /\ ~connected /\ panelId = NoOne /\ shown = NoOne
                    /\ sessions = {j.sid} /\ open = {j.sid}
Disconnecting(j) == /\ connected /\ panelId = j.sid /\ shown = j.sid
                    /\ sessions = {} /\ open = IF j.pc = "result" THEN {} ELSE {j.sid}
Together(j)      == /\ Matched
                    /\ j.op = "connect" => j.pc \in {"lookup", "error", "done"}
                    /\ j.op = "connect" /\ j.pc = "lookup" => ~connected
                    /\ j.op = "disconnect" /\ j.pc = "lookup" => connected /\ j.sid = panelId
                    /\ j.op \notin {"connect", "disconnect"} => j.sid = panelId

Midway(j) == /\ HalfConnected(j) => Connecting(j)
             /\ HalfDisconnected(j) => Disconnecting(j)
             /\ ~HalfConnected(j) /\ ~HalfDisconnected(j) => Together(j)

Agree ==
  ~raced /\ "close" \notin failed =>
    /\ (\A k \in Slots : job[k].pc = "none") => Matched
    /\ \A k \in Slots : job[k].pc # "none" => Midway(job[k])

IInv ==
  /\ TypeOK /\ SidsNamed /\ LocksHeld /\ CopiesWork /\ OneJob
  /\ CancelReachesTransfer /\ CopyKeepsConnection /\ NoPartialDownload /\ Agree

-----------------------------------------------------------------------------
(* Type correctness *)

\* A job that is not there is a job.
LEMMA NoJobType == NoJob \in JobType
BY DEF NoJob, JobType, Phases, Ops

\* The initial state is typed.
LEMMA TypeInit == Init => TypeOK
<1> SUFFICES ASSUME Init PROVE TypeOK
  OBVIOUS
<1>1. job \in [Slots -> JobType]
  BY NoJobType DEF Init
<1> QED
  BY <1>1 DEF Init, TypeOK, JobType, Phases

\* A click or a refresh starts a typed job.
LEMMA NewJobType ==
  ASSUME NEW op \in Ops, NEW s \in Sessions, NEW files \in SUBSET Files
  PROVE  NewJob(op, s, files) \in JobType
BY DEF NewJob, JobType, Phases

\* A job goes on to another phase; nothing else of it changes.
LEMMA JobGoes ==
  ASSUME TypeOK, NEW k \in Slots, NEW pc \in Phases, Goto(k, pc)
  PROVE  /\ job' \in [Slots -> JobType]
         /\ \A l \in Slots \ {k} : job'[l] = job[l]
         /\ job'[k].pc = pc
         /\ job'[k].op = job[k].op /\ job'[k].sid = job[k].sid /\ job'[k].at = job[k].at
BY DEF Goto, TypeOK, JobType, Phases

\* A job is replaced.
LEMMA JobBecomes ==
  ASSUME TypeOK, NEW k \in Slots, NEW new \in JobType, job' = [job EXCEPT ![k] = new]
  PROVE  /\ job' \in [Slots -> JobType]
         /\ \A l \in Slots \ {k} : job'[l] = job[l]
         /\ job'[k] = new
BY DEF TypeOK, JobType, Phases

\* A transfer goes on to its next file.
LEMMA JobBegins ==
  ASSUME TypeOK, NEW k \in Slots, BeginFile(k)
  PROVE  \E f \in Files :
         /\ job' \in [Slots -> JobType]
         /\ \A l \in Slots \ {k} : job'[l] = job[l]
         /\ job'[k].pc = job[k].pc /\ job'[k].op = job[k].op /\ job'[k].sid = job[k].sid
         /\ job'[k].at = f
         /\ partial' = partial \cup {<<job[k].op, f>>}
BY DEF BeginFile, TypeOK, JobType, Phases

\* A copy ends or is cancelled: the file at hand is let go.
LEMMA JobLetsGo ==
  ASSUME TypeOK, NEW k \in Slots, EndFile(k) \/ CancelFile(k)
  PROVE  /\ job' \in [Slots -> JobType]
         /\ \A l \in Slots \ {k} : job'[l] = job[l]
         /\ job'[k].pc = job[k].pc /\ job'[k].op = job[k].op /\ job'[k].sid = job[k].sid
         /\ job'[k].at = NoOne
BY DEF EndFile, CancelFile, TypeOK, JobType, Phases

\* A transfer raises.
LEMMA JobFails ==
  ASSUME TypeOK, NEW k \in Slots, TransferFails(k)
  PROVE  /\ job' \in [Slots -> JobType]
         /\ \A l \in Slots \ {k} : job'[l] = job[l]
         /\ job'[k].pc = "error" /\ job'[k].op = job[k].op /\ job'[k].sid = job[k].sid
         /\ job'[k].at = NoOne
<1>1. job \in [Slots -> JobType]
  BY DEF TypeOK, JobType, Phases
<1>2. job' = [job EXCEPT ![k].pc = "error", ![k].at = NoOne]
  BY DEF TransferFails
<1>3. /\ \A l \in Slots \ {k} : job'[l] = job[l]
      /\ job'[k].pc = "error" /\ job'[k].op = job[k].op /\ job'[k].sid = job[k].sid
      /\ job'[k].at = NoOne
  BY <1>1, <1>2 DEF JobType
<1>4. job' \in [Slots -> JobType]
  <2> DEFINE half == [job EXCEPT ![k].pc = "error"]
  <2>1. half \in [Slots -> JobType]
    BY <1>1 DEF JobType, Phases
  <2>2. job' = [half EXCEPT ![k].at = NoOne]
    BY <1>1, <1>2
  <2> QED
    BY <2>1, <2>2, ZenonT(30) DEF JobType
<1> QED
  BY <1>3, <1>4

\* The cancel button sets an event.
LEMMA JobCancelled ==
  ASSUME TypeOK, Cancel
  PROVE  /\ job' \in [Slots -> JobType]
         /\ \A l \in Slots : /\ job'[l].pc = job[l].pc /\ job'[l].op = job[l].op
                             /\ job'[l].sid = job[l].sid /\ job'[l].at = job[l].at
<1>1. job \in [Slots -> JobType] /\ cancelEvent \in Slots
  BY DEF Cancel, TypeOK, JobType, Phases
<1>2. job' = [job EXCEPT ![cancelEvent].cancelled = TRUE]
  BY DEF Cancel
<1> QED
  BY <1>1, <1>2 DEF JobType

\* Types, and that living jobs are about sessions, are kept by every step.
LEMMA TypeStep == TypeOK /\ SidsNamed /\ [Next]_vars => TypeOK' /\ SidsNamed'
<1> SUFFICES ASSUME TypeOK, SidsNamed, [Next]_vars PROVE TypeOK' /\ SidsNamed'
  OBVIOUS
<1> USE DEF panelVars, serviceVars, history
<1>0. job \in [Slots -> JobType]
  BY DEF TypeOK, JobType, Phases
<1>1. ASSUME NEW k \in Slots, NEW op \in Ops, Click(k, op) PROVE TypeOK' /\ SidsNamed'
  <2>1. PICK s \in Sessions, files \in SUBSET Files : job' = [job EXCEPT ![k] = NewJob(op, s, files)]
    BY <1>1 DEF Click
  <2>2. /\ job' \in [Slots -> JobType] /\ \A l \in Slots \ {k} : job'[l] = job[l]
        /\ job'[k].sid = s
    BY <2>1, NewJobType, JobBecomes DEF NewJob
  <2> QED
    BY <1>1, <2>2 DEF Click, NextCancelEvent, TypeOK, SidsNamed, JobType, Phases
<1>2. ASSUME NEW k \in Slots, DoubleClick(k) PROVE TypeOK' /\ SidsNamed'
  <2>1. panelId \in Sessions /\ NewJob("list", panelId, {}) \in JobType
    BY <1>2, NewJobType DEF DoubleClick, TypeOK, Ops
  <2>2. /\ job' \in [Slots -> JobType] /\ \A l \in Slots \ {k} : job'[l] = job[l]
        /\ job'[k].sid = panelId
    BY <1>2, <2>1, JobBecomes DEF DoubleClick, NewJob
  <2> QED
    BY <1>2, <2>1, <2>2 DEF DoubleClick, TypeOK, SidsNamed, JobType, Phases
<1>3. CASE Cancel
  BY <1>3, JobCancelled DEF Cancel, TypeOK, SidsNamed, JobType, Phases
<1>4. ASSUME NEW k \in Slots, NEW pc \in Phases, Goto(k, pc), job[k].pc # "none",
             panelVars' = panelVars \/ OnResult(k),
             sessions' \subseteq Sessions, open' \subseteq Sessions,
             lock' \in [Sessions -> Slots \cup {NoOne}], partial' = partial,
             raced' = raced, failed' \subseteq {"transfer", "close"}
      PROVE  TypeOK' /\ SidsNamed'
  <2>1. /\ job' \in [Slots -> JobType] /\ \A l \in Slots \ {k} : job'[l] = job[l]
        /\ job'[k].sid = job[k].sid
    BY <1>4, JobGoes
  <2>2. job[k].sid \in Sessions
    BY <1>4 DEF SidsNamed
  <2>3. SidsNamed'
    BY <2>1, <2>2 DEF SidsNamed
  <2>4. CASE panelVars' = panelVars
    BY <1>4, <2>1, <2>3, <2>4 DEF TypeOK, JobType, Phases
  <2>5. CASE OnResult(k)
    <3>1. /\ connected' \in BOOLEAN /\ panelId' \in Sessions \cup {NoOne}
          /\ shown' \in Sessions \cup {NoOne} /\ busy' = busy /\ cancelEvent' = cancelEvent
      <4>1. CASE job[k].op = "connect"
        BY <2>2, <2>5, <4>1 DEF OnResult, TypeOK
      <4>2. CASE job[k].op = "disconnect"
        BY <2>5, <4>2 DEF OnResult, TypeOK
      <4>3. CASE job[k].op = "list"
        BY <2>2, <2>5, <4>3 DEF OnResult, TypeOK
      <4>4. CASE job[k].op \notin {"connect", "disconnect", "list"}
        BY <2>5, <4>4 DEF OnResult, TypeOK
      <4> QED
        BY <4>1, <4>2, <4>3, <4>4
    <3> QED
      BY <1>4, <2>1, <2>3, <3>1 DEF TypeOK, JobType, Phases
  <2> QED
    BY <1>4, <2>4, <2>5
<1>5. ASSUME NEW k \in Slots, job[k].pc # "none"
      PROVE  [lock EXCEPT ![job[k].sid] = NoOne] \in [Sessions -> Slots \cup {NoOne}]
  BY <1>5 DEF TypeOK
<1>6. ASSUME NEW k \in Slots, Serve(k) PROVE TypeOK' /\ SidsNamed'
  <2>1. CASE Connect(k) \/ ConnectFails(k)
    <3>1. job[k].sid \in Sessions /\ job[k].pc # "none"
      BY <2>1 DEF Connect, ConnectFails, SidsNamed
    <3> QED
      BY <1>4, <2>1, <3>1 DEF Connect, ConnectFails, Phases, TypeOK
  <2>2. CASE Lookup(k)
    <3>1. job[k].pc # "none" /\ sessions' \subseteq Sessions
      BY <2>2 DEF Lookup, TypeOK
    <3>2. \E pc \in Phases : Goto(k, pc)
      BY <2>2 DEF Lookup, Phases
    <3> QED
      BY <1>4, <2>2, <3>1, <3>2 DEF Lookup, TypeOK
  <2>3. CASE Acquire(k)
    <3>1. job[k].pc # "none" /\ lock' \in [Sessions -> Slots \cup {NoOne}]
      BY <2>3 DEF Acquire, TypeOK
    <3> QED
      BY <1>4, <2>3, <3>1 DEF Acquire, TypeOK, Phases
  <2>4. CASE Close(k)
    <3>1. \E pc \in Phases : Leave(k, pc)
      BY <2>4 DEF Close, Phases
    <3> QED
      BY <1>4, <1>5, <2>4, <3>1, ZenonT(30) DEF Close, Leave, TypeOK
  <2>5. CASE List(k) \/ Command(k)
    <3>1. \E pc \in Phases : Leave(k, pc)
      BY <2>5 DEF List, Command, Exchange, Phases
    <3> QED
      BY <1>4, <1>5, <2>5, <3>1 DEF List, Command, Exchange, Leave, TypeOK
  <2>6. CASE BeginFile(k)
    <3>1. PICK f \in Files : /\ job' \in [Slots -> JobType]
                             /\ \A l \in Slots \ {k} : job'[l] = job[l]
                             /\ job'[k].sid = job[k].sid /\ job'[k].pc = job[k].pc
                             /\ partial' = partial \cup {<<job[k].op, f>>}
      BY <2>6, JobBegins
    <3> QED
      BY <2>6, <3>1 DEF BeginFile, TypeOK, SidsNamed, JobType, Phases
  <2>7. CASE EndFile(k) \/ CancelFile(k)
    BY <2>7, JobLetsGo DEF EndFile, CancelFile, TypeOK, SidsNamed, JobType, Phases
  <2>8. CASE EndTransfer(k)
    BY <1>4, <1>5, <2>8 DEF EndTransfer, Leave, TypeOK, Phases
  <2>9. CASE TransferFails(k)
    <3>1. job[k].pc # "none"
      BY <2>9 DEF TransferFails
    <3> QED
      BY <1>5, <2>9, <3>1, JobFails DEF TransferFails, TypeOK, SidsNamed, JobType, Phases
  <2> QED
    BY <1>6, <2>1, <2>2, <2>3, <2>4, <2>5, <2>6, <2>7, <2>8, <2>9 DEF Serve
<1>7. ASSUME NEW k \in Slots, OnResult(k) \/ OnError(k) PROVE TypeOK' /\ SidsNamed'
  BY <1>4, <1>7 DEF OnResult, OnError, TypeOK, Phases
<1>8. ASSUME NEW k \in Slots, OnFinished(k) PROVE TypeOK' /\ SidsNamed'
  <2>1. PICK new \in JobType : /\ new.pc # "none" => new.sid \in Sessions
                               /\ job' = [job EXCEPT ![k] = new]
    <3>1. CASE Refreshes(job[k].op)
      <4>1. panelId \in Sessions /\ NewJob("list", panelId, {}) \in JobType
        BY <3>1, NewJobType DEF Refreshes, TypeOK, Ops
      <4> QED
        BY <1>8, <3>1, <4>1 DEF OnFinished, NewJob
    <3>2. CASE ~Refreshes(job[k].op)
      BY <1>8, <3>2, NoJobType DEF OnFinished, NoJob
    <3> QED
      BY <3>1, <3>2
  <2>2. /\ job' \in [Slots -> JobType] /\ job'[k] = new
        /\ \A l \in Slots \ {k} : job'[l] = job[l]
    BY <2>1, JobBecomes
  <2>3. busy' \in BOOLEAN
    <3>1. BusyAfter(k) \in BOOLEAN
      BY DEF BusyAfter, Refreshes
    <3> QED
      BY <1>8, <3>1 DEF OnFinished
  <2>4. SidsNamed'
    BY <2>1, <2>2 DEF SidsNamed
  <2> QED
    BY <1>8, <2>2, <2>3, <2>4 DEF OnFinished, TypeOK, JobType, Phases
<1>9. CASE UNCHANGED vars
  BY <1>9 DEF vars, TypeOK, SidsNamed
<1> QED
  BY <1>1, <1>2, <1>3, <1>6, <1>7, <1>8, <1>9 DEF Next, Callback

-----------------------------------------------------------------------------
(* What a step does to the jobs *)

\* Starting a job, or ending one with or without a refresh: the slot was free or done,
\* no lock and no connection is touched.
Starts(k) ==
  /\ job[k].pc \in {"none", "done"}
  /\ job'[k].pc \in {"none", "lookup"} /\ job'[k].at = NoOne
  /\ \A l \in Slots \ {k} : job'[l] = job[l]
  /\ UNCHANGED serviceVars /\ UNCHANGED <<connected, panelId, shown, failed>>

\* The steps that start or end a job.
LEMMA StartingSteps ==
  ASSUME TypeOK, NEW k \in Slots,
         (\E op \in Ops : Click(k, op)) \/ DoubleClick(k) \/ OnFinished(k)
  PROVE  Starts(k)
<1>1. job \in [Slots -> JobType]
  BY DEF TypeOK, JobType, Phases
<1>2. ASSUME NEW op \in Ops, Click(k, op) PROVE Starts(k)
  BY <1>1, <1>2 DEF Click, NewJob, Starts, panelVars, history, JobType
<1>3. CASE DoubleClick(k)
  BY <1>1, <1>3 DEF DoubleClick, NewJob, Starts, panelVars, JobType
<1>4. CASE OnFinished(k)
  <2>1. CASE Refreshes(job[k].op)
    BY <1>1, <1>4, <2>1 DEF OnFinished, NewJob, Starts, history, JobType
  <2>2. CASE ~Refreshes(job[k].op)
    BY <1>1, <1>4, <2>2 DEF OnFinished, NoJob, Starts, history, JobType
  <2> QED
    BY <2>1, <2>2
<1> QED
  BY <1>2, <1>3, <1>4

\* Going on to another phase without the lock: the job is not working, before or after.
Goes(k) ==
  /\ job[k].pc \in {"lookup", "result", "error"}
  /\ job'[k].pc \in {"lock", "result", "error", "done"}
  /\ job'[k].op = job[k].op /\ job'[k].sid = job[k].sid /\ job'[k].at = job[k].at
  /\ \A l \in Slots \ {k} : job'[l] = job[l]
  /\ UNCHANGED <<lock, partial, busy, cancelEvent>> /\ UNCHANGED history

\* The steps that go on so.
LEMMA GoingSteps ==
  ASSUME TypeOK, NEW k \in Slots,
         Connect(k) \/ ConnectFails(k) \/ Lookup(k) \/ OnResult(k) \/ OnError(k)
  PROVE  Goes(k)
<1>1. CASE Connect(k)
  BY <1>1, JobGoes DEF Connect, Goes, panelVars, Phases
<1>2. CASE ConnectFails(k)
  BY <1>2, JobGoes DEF ConnectFails, Goes, panelVars, serviceVars, Phases
<1>3. CASE Lookup(k)
  <2>1. \E pc \in {"lock", "error"} : Goto(k, pc)
    BY <1>3 DEF Lookup
  <2> QED
    BY <1>3, <2>1, JobGoes DEF Lookup, Goes, panelVars, Phases
<1>4. CASE OnResult(k)
  BY <1>4, JobGoes DEF OnResult, Goes, serviceVars, Phases
<1>5. CASE OnError(k)
  BY <1>5, JobGoes DEF OnError, Goes, panelVars, serviceVars, Phases
<1> QED
  BY <1>1, <1>2, <1>3, <1>4, <1>5

\* Letting the lock of the session go: a listing, a command, the end of a transfer, one
\* that raised, and the closing of the connection.
Releases(k) ==
  /\ job[k].pc = "work" /\ job'[k].pc \in {"result", "error"}
  /\ job'[k].op = job[k].op /\ job'[k].sid = job[k].sid
  /\ \/ job'[k].at = NoOne /\ "transfer" \in failed'
     \/ job'[k].at = job[k].at /\ (job[k].op \notin Transfers \/ job[k].at = NoOne)
  /\ \A l \in Slots \ {k} : job'[l] = job[l]
  /\ lock' = [lock EXCEPT ![job[k].sid] = NoOne]
  /\ open' = IF job[k].op = "disconnect" THEN open \ {job[k].sid} ELSE open
  /\ UNCHANGED <<sessions, partial, raced>> /\ UNCHANGED panelVars
  /\ failed \subseteq failed'

\* The steps that do.
LEMMA ReleasingSteps ==
  ASSUME TypeOK, NEW k \in Slots,
         Close(k) \/ List(k) \/ Command(k) \/ EndTransfer(k) \/ TransferFails(k)
  PROVE  Releases(k)
<1>1. ASSUME NEW pc \in {"result", "error"}, Leave(k, pc)
      PROVE  /\ job'[k].pc = pc
             /\ job'[k].op = job[k].op /\ job'[k].sid = job[k].sid /\ job'[k].at = job[k].at
             /\ \A l \in Slots \ {k} : job'[l] = job[l]
  BY <1>1, JobGoes DEF Leave, Phases
<1>2. CASE Close(k)
  <2>1. \E pc \in {"result", "error"} : Leave(k, pc)
    BY <1>2 DEF Close
  <2> QED
    BY <1>1, <1>2, <2>1 DEF Close, Leave, Releases, Transfers
<1>3. CASE List(k) \/ Command(k)
  <2>1. \E pc \in {"result", "error"} : Leave(k, pc)
    BY <1>3 DEF List, Command, Exchange
  <2> QED
    BY <1>1, <1>3, <2>1 DEF List, Command, Exchange, Leave, Releases, Transfers, history
<1>4. CASE EndTransfer(k)
  <2>1. \E pc \in {"result", "error"} : Leave(k, pc)
    BY <1>4 DEF EndTransfer
  <2> QED
    BY <1>1, <1>4, <2>1 DEF EndTransfer, Leave, Releases, Transfers, history
<1>5. CASE TransferFails(k)
  <2>1. job[k].op # "disconnect" /\ job[k].pc = "work" /\ UNCHANGED open
    BY <1>5 DEF TransferFails, Transfers
  <2>2. /\ UNCHANGED <<sessions, partial, raced>> /\ UNCHANGED panelVars
        /\ failed \subseteq failed' /\ "transfer" \in failed'
    BY <1>5 DEF TransferFails
  <2>3. lock' = [lock EXCEPT ![job[k].sid] = NoOne]
    BY <1>5 DEF TransferFails
  <2>4. /\ job'[k].pc = "error" /\ job'[k].op = job[k].op /\ job'[k].sid = job[k].sid
        /\ job'[k].at = NoOne /\ \A l \in Slots \ {k} : job'[l] = job[l]
    BY <1>5, JobFails
  <2> QED
    BY <2>1, <2>2, <2>3, <2>4 DEF Releases
<1> QED
  BY <1>2, <1>3, <1>4, <1>5

-----------------------------------------------------------------------------
(* The locks and the connections under them *)

Exclusion == LocksHeld /\ CopiesWork /\ CopyKeepsConnection

\* Nobody but the holder of its lock touches the connection of a session: a copy keeps
\* its connection through every step.
LEMMA ExclusionStep == TypeOK /\ SidsNamed /\ Exclusion /\ [Next]_vars => Exclusion'
<1> SUFFICES ASSUME TypeOK, SidsNamed, Exclusion, [Next]_vars PROVE Exclusion'
  OBVIOUS
<1> USE FtpAssumption
<1>0. /\ job \in [Slots -> JobType]
      /\ lock \in [Sessions -> Slots \cup {NoOne}]
  BY DEF TypeOK, JobType, Phases
<1>1. ASSUME NEW k \in Slots, Starts(k) PROVE Exclusion'
  BY <1>1 DEF Starts, serviceVars, Exclusion, LocksHeld, CopiesWork, CopyKeepsConnection
<1>2. CASE Cancel
  BY <1>2, JobCancelled
  DEF Cancel, panelVars, serviceVars, Exclusion, LocksHeld, CopiesWork, CopyKeepsConnection
<1>3. ASSUME NEW k \in Slots, Goes(k), open \subseteq open' PROVE Exclusion'
  BY <1>3 DEF Goes, Exclusion, LocksHeld, CopiesWork, CopyKeepsConnection
<1>4. ASSUME NEW k \in Slots, Acquire(k) PROVE Exclusion'
  <2>1. /\ job'[k].pc = "work" /\ job'[k].op = job[k].op
        /\ job'[k].sid = job[k].sid /\ job'[k].at = job[k].at
        /\ \A l \in Slots \ {k} : job'[l] = job[l]
    BY <1>4, JobGoes DEF Acquire, Phases
  <2>2. job[k].sid \in Sessions /\ lock[job[k].sid] = NoOne /\ job[k].pc = "lock"
    BY <1>4 DEF Acquire, LockFree, SidsNamed
  <2>3. \A s \in Sessions : lock'[s] = IF s = job[k].sid THEN k ELSE lock[s]
    BY <1>0, <1>4, <2>2 DEF Acquire
  <2>4. LocksHeld'
    BY <2>1, <2>2, <2>3 DEF Exclusion, LocksHeld, SidsNamed
  <2> QED
    BY <1>4, <2>1, <2>2, <2>4 DEF Acquire, Exclusion, CopiesWork, CopyKeepsConnection
<1>5. ASSUME NEW k \in Slots, Releases(k) PROVE Exclusion'
  <2>1. job[k].sid \in Sessions /\ lock[job[k].sid] = k
    BY <1>5 DEF Releases, SidsNamed, Exclusion, LocksHeld
  <2>2. \A s \in Sessions : lock'[s] = IF s = job[k].sid THEN NoOne ELSE lock[s]
    BY <1>0, <1>5, <2>1 DEF Releases
  <2>3. job'[k].at = NoOne
    BY <1>5 DEF Releases, Exclusion, CopiesWork
  <2>4. LocksHeld'
    BY <1>5, <2>1, <2>2 DEF Releases, Exclusion, LocksHeld, SidsNamed
  <2>5. CopiesWork'
    BY <1>5, <2>3 DEF Releases, Exclusion, CopiesWork
  <2>6. \A l \in Slots \ {k} : job[l].at # NoOne => job[l].sid # job[k].sid
    BY <2>1 DEF Exclusion, LocksHeld, CopiesWork
  <2>7. CopyKeepsConnection'
    BY <1>5, <2>3, <2>6 DEF Releases, Exclusion, CopyKeepsConnection
  <2> QED
    BY <2>4, <2>5, <2>7 DEF Exclusion
<1>6. ASSUME NEW k \in Slots, BeginFile(k) PROVE Exclusion'
  <2>1. \E f \in Files : /\ \A l \in Slots \ {k} : job'[l] = job[l]
                         /\ job'[k].pc = job[k].pc /\ job'[k].op = job[k].op
                         /\ job'[k].sid = job[k].sid /\ job'[k].at = f
    BY <1>6, JobBegins
  <2>2. /\ job[k].op \in Transfers /\ job[k].pc = "work" /\ job[k].sid \in open
        /\ UNCHANGED <<open, lock>>
    BY <1>6 DEF BeginFile
  <2> QED
    BY <2>1, <2>2 DEF Exclusion, LocksHeld, CopiesWork, CopyKeepsConnection
<1>7. ASSUME NEW k \in Slots, EndFile(k) \/ CancelFile(k) PROVE Exclusion'
  BY <1>7, JobLetsGo
  DEF EndFile, CancelFile, Exclusion, LocksHeld, CopiesWork, CopyKeepsConnection
<1>8. CASE UNCHANGED vars
  BY <1>8 DEF vars, serviceVars, Exclusion, LocksHeld, CopiesWork, CopyKeepsConnection
<1>9. ASSUME NEW k \in Slots,
             Connect(k) \/ ConnectFails(k) \/ Lookup(k) \/ OnResult(k) \/ OnError(k)
      PROVE  open \subseteq open'
  BY <1>9 DEF Connect, ConnectFails, Lookup, OnResult, OnError, serviceVars
<1> QED
  BY <1>1, <1>2, <1>3, <1>4, <1>5, <1>6, <1>7, <1>8, <1>9,
     StartingSteps, GoingSteps, ReleasingSteps
  DEF Next, Serve, Callback

-----------------------------------------------------------------------------
(* One job at a time, and the event of its cancel button *)

\* A step of a living job keeps the jobs alive that were, and the buttons as they were.
\* The cancel event is replaced when a transfer starts, and then the transfer is the only
\* job.
LEMMA OneJobStep ==
  TypeOK /\ OneJob /\ CancelReachesTransfer /\ [Next]_vars => OneJob' /\ CancelReachesTransfer'
<1> SUFFICES ASSUME TypeOK, OneJob, CancelReachesTransfer, [Next]_vars
             PROVE  OneJob' /\ CancelReachesTransfer'
  OBVIOUS
<1> USE DEF OneJob, CancelReachesTransfer, Alive
<1>0. job \in [Slots -> JobType] /\ raced \in BOOLEAN /\ busy \in BOOLEAN
  BY DEF TypeOK, JobType, Phases
<1>1. ASSUME NEW k \in Slots, NEW op \in Ops, Click(k, op)
      PROVE  OneJob' /\ CancelReachesTransfer'
  <2>1. ~busy /\ busy' /\ UNCHANGED raced /\ job'[k].op = op
    BY <1>0, <1>1 DEF Click, Button, NewJob, history, JobType
  <2>2. \A l \in Slots \ {k} : job'[l] = job[l]
    BY <1>1, StartingSteps DEF Starts
  <2>3. op \in Transfers => cancelEvent' = k
    BY <1>1 DEF Click, NextCancelEvent, Transfers
  <2> QED
    BY <2>1, <2>2, <2>3
<1>2. ASSUME NEW k \in Slots, DoubleClick(k) PROVE OneJob' /\ CancelReachesTransfer'
  <2>1. busy' /\ (~raced' => ~raced /\ ~busy) /\ job'[k].op \notin Transfers
    BY <1>0, <1>2 DEF DoubleClick, NewJob, JobType, Transfers
  <2>2. \A l \in Slots \ {k} : job'[l] = job[l]
    BY <1>2, StartingSteps DEF Starts
  <2> QED
    BY <2>1, <2>2
<1>3. ASSUME NEW k \in Slots, OnFinished(k) PROVE OneJob' /\ CancelReachesTransfer'
  <2>1. /\ job[k].pc # "none" /\ UNCHANGED raced
        /\ \A l \in Slots \ {k} : job'[l] = job[l]
    BY <1>3, StartingSteps DEF OnFinished, Starts, history
  <2>2. job'[k].op \notin Transfers /\ (job'[k].pc # "none" => busy')
    <3>1. CASE Refreshes(job[k].op)
      BY <1>0, <1>3, <3>1 DEF OnFinished, BusyAfter, NewJob, Transfers
    <3>2. CASE ~Refreshes(job[k].op)
      BY <1>0, <1>3, <3>2 DEF OnFinished, NoJob, Transfers
    <3> QED
      BY <3>1, <3>2
  <2> QED
    BY <2>1, <2>2
<1>4. ASSUME \A k \in Slots : /\ job'[k].op = job[k].op
                              /\ job'[k].pc # "none" => job[k].pc # "none",
             UNCHANGED <<busy, cancelEvent, raced>>
      PROVE  OneJob' /\ CancelReachesTransfer'
  BY <1>4
<1>5. CASE Cancel
  BY <1>4, <1>5, JobCancelled DEF Cancel, panelVars, history
<1>6. ASSUME NEW k \in Slots, Goes(k) PROVE OneJob' /\ CancelReachesTransfer'
  BY <1>4, <1>6 DEF Goes, history
<1>7. ASSUME NEW k \in Slots, Releases(k) PROVE OneJob' /\ CancelReachesTransfer'
  BY <1>4, <1>7 DEF Releases, panelVars
<1>8. ASSUME NEW k \in Slots, Acquire(k) PROVE OneJob' /\ CancelReachesTransfer'
  <2>1. /\ job'[k].op = job[k].op /\ job[k].pc # "none"
        /\ \A l \in Slots \ {k} : job'[l] = job[l]
    BY <1>8, JobGoes DEF Acquire, Phases
  <2> QED
    BY <1>4, <1>8, <2>1 DEF Acquire, panelVars, history
<1>9. ASSUME NEW k \in Slots, BeginFile(k) \/ EndFile(k) \/ CancelFile(k)
      PROVE  OneJob' /\ CancelReachesTransfer'
  <2>1. /\ job'[k].op = job[k].op /\ job'[k].pc = job[k].pc
        /\ \A l \in Slots \ {k} : job'[l] = job[l]
    BY <1>9, JobBegins, JobLetsGo
  <2>2. UNCHANGED <<busy, cancelEvent, raced>>
    BY <1>9 DEF BeginFile, EndFile, CancelFile, panelVars, history
  <2> QED
    BY <1>4, <2>1, <2>2
<1>10. CASE UNCHANGED vars
  BY <1>10 DEF vars, panelVars, history
<1> QED
  BY <1>1, <1>2, <1>3, <1>5, <1>6, <1>7, <1>8, <1>9, <1>10, GoingSteps, ReleasingSteps
  DEF Next, Serve, Callback

-----------------------------------------------------------------------------
(* Incomplete downloads *)

\* A copy leaves the file it is at only by completing it, by removing it, or by raising.
LEMMA PartialStep ==
  TypeOK /\ Exclusion /\ NoPartialDownload /\ [Next]_vars => NoPartialDownload'
<1> SUFFICES ASSUME TypeOK, Exclusion, NoPartialDownload, [Next]_vars
             PROVE  NoPartialDownload'
  OBVIOUS
<1> USE DEF NoPartialDownload
<1>0. CopiesWork /\ NoOne \notin Files
  BY FtpAssumption DEF Exclusion
<1>1. ASSUME NEW k \in Slots, job[k].at = NoOne \/ job'[k].at = job[k].at,
             job'[k].op = job[k].op \/ job[k].at = NoOne,
             \A l \in Slots \ {k} : job'[l] = job[l],
             partial' = partial, failed \subseteq failed'
      PROVE  NoPartialDownload'
  BY <1>0, <1>1
<1>2. ASSUME NEW k \in Slots, Starts(k) PROVE NoPartialDownload'
  BY <1>0, <1>1, <1>2 DEF Starts, serviceVars, CopiesWork
<1>3. CASE Cancel
  BY <1>3, JobCancelled DEF Cancel, serviceVars, history
<1>4. ASSUME NEW k \in Slots, Goes(k) PROVE NoPartialDownload'
  BY <1>1, <1>4 DEF Goes, history
<1>5. ASSUME NEW k \in Slots, Acquire(k) PROVE NoPartialDownload'
  <2>1. /\ job'[k].op = job[k].op /\ job'[k].at = job[k].at
        /\ \A l \in Slots \ {k} : job'[l] = job[l]
    BY <1>5, JobGoes DEF Acquire, Phases
  <2> QED
    BY <1>1, <1>5, <2>1 DEF Acquire, history
<1>6. ASSUME NEW k \in Slots, Releases(k) PROVE NoPartialDownload'
  <2>1. CASE "transfer" \in failed'
    BY <2>1
  <2>2. CASE "transfer" \notin failed'
    BY <1>1, <1>6, <2>2 DEF Releases
  <2> QED
    BY <2>1, <2>2
<1>7. ASSUME NEW k \in Slots, BeginFile(k) PROVE NoPartialDownload'
  <2>1. PICK f \in Files : /\ \A l \in Slots \ {k} : job'[l] = job[l]
                           /\ job'[k].op = job[k].op /\ job'[k].at = f
                           /\ partial' = partial \cup {<<job[k].op, f>>}
    BY <1>7, JobBegins
  <2>2. job[k].at = NoOne /\ UNCHANGED failed
    BY <1>7 DEF BeginFile, history
  <2> QED
    BY <1>0, <2>1, <2>2
<1>8. ASSUME NEW k \in Slots, EndFile(k) \/ CancelFile(k) PROVE NoPartialDownload'
  <2>1. /\ job[k].op \in Transfers /\ UNCHANGED failed
    BY <1>0, <1>8 DEF EndFile, CancelFile, CopiesWork, history
  <2>2. \A l \in Slots \ {k} : job'[l] = job[l]
    BY <1>8, JobLetsGo
  <2>3. partial' \subseteq partial
    BY <1>8 DEF EndFile, CancelFile
  <2>4. job[k].op = "download" => <<"download", job[k].at>> \notin partial'
    BY <1>8 DEF EndFile, CancelFile, Removed
  <2> QED
    BY <2>1, <2>2, <2>3, <2>4
<1>9. CASE UNCHANGED vars
  BY <1>9 DEF vars, serviceVars, history
<1> QED
  BY <1>2, <1>3, <1>4, <1>5, <1>6, <1>7, <1>8, <1>9, StartingSteps, GoingSteps, ReleasingSteps
  DEF Next, Serve, Callback

-----------------------------------------------------------------------------
(* The panel and the service *)

\* While no second job runs, each step of the one job takes panel and service from one
\* agreed state to the next.
LEMMA AgreeStep ==
  TypeOK /\ SidsNamed /\ OneJob /\ Agree /\ [Next]_vars => Agree'
<1> SUFFICES ASSUME TypeOK, SidsNamed, OneJob, Agree, [Next]_vars,
                    ~raced', "close" \notin failed'
             PROVE  /\ (\A k \in Slots : job'[k].pc = "none") => Matched'
                    /\ \A k \in Slots : job'[k].pc # "none" => Midway(job[k])'
  BY DEF Agree
<1> DEFINE Goal == /\ (\A k \in Slots : job'[k].pc = "none") => Matched'
                   /\ \A k \in Slots : job'[k].pc # "none" => Midway(job[k])'
<1> USE FtpAssumption
<1>0. job \in [Slots -> JobType] /\ raced \in BOOLEAN /\ busy \in BOOLEAN /\ connected \in BOOLEAN
  BY DEF TypeOK, JobType, Phases
<1>a. ASSUME ~raced, "close" \notin failed,
             NEW k \in Slots, job[k].pc # "none",
             \A l \in Slots \ {k} : job'[l] = job[l],
             Midway(job[k]) => Midway(job[k])',
             job'[k].pc # "none"
      PROVE  Goal
  BY <1>a DEF OneJob, Agree
<1>b. ASSUME ~raced, "close" \notin failed, ~busy,
             NEW k \in Slots, Starts(k), Matched => Midway(job[k])', job'[k].pc # "none"
      PROVE  Goal
  BY <1>b DEF OneJob, Agree, Starts
<1>1. ASSUME NEW k \in Slots, NEW op \in Ops, Click(k, op) PROVE Goal
  <2>1. Starts(k) /\ ~raced /\ "close" \notin failed /\ ~busy
    BY <1>1, StartingSteps DEF Click, Button, Starts, history
  <2>2. /\ job'[k].op = op /\ job'[k].pc = "lookup"
        /\ IF op = "connect" THEN ~connected ELSE connected /\ job'[k].sid = panelId
    BY <1>0, <1>1 DEF Click, Button, NewJob
  <2>3. Matched => Midway(job[k])'
    BY <2>1, <2>2
    DEF Starts, serviceVars, Midway, Matched, Together, HalfConnected, HalfDisconnected
  <2> QED
    BY <1>b, <2>1, <2>2, <2>3
<1>2. ASSUME NEW k \in Slots, DoubleClick(k) PROVE Goal
  <2>1. Starts(k) /\ ~raced /\ "close" \notin failed /\ ~busy
    BY <1>0, <1>2, StartingSteps DEF DoubleClick, Starts
  <2>2. job'[k].op = "list" /\ job'[k].pc = "lookup" /\ job'[k].sid = panelId
    BY <1>0, <1>2 DEF DoubleClick, NewJob
  <2>3. Matched => Midway(job[k])'
    BY <2>1, <2>2
    DEF Starts, serviceVars, Midway, Matched, Together, HalfConnected, HalfDisconnected
  <2> QED
    BY <1>b, <2>1, <2>2, <2>3
<1>3. ASSUME NEW k \in Slots, OnFinished(k) PROVE Goal
  <2>1. Starts(k) /\ ~raced /\ "close" \notin failed /\ job[k].pc = "done"
    BY <1>3, StartingSteps DEF OnFinished, Starts, history
  <2>2. Matched /\ \A l \in Slots \ {k} : job'[l].pc = "none"
    BY <2>1 DEF OneJob, Agree, Starts, Midway, HalfConnected, HalfDisconnected, Together
  <2>3. Matched'
    BY <2>1, <2>2 DEF Starts, serviceVars, Matched
  <2>4. CASE Refreshes(job[k].op)
    <3>1. job'[k].op = "list" /\ job'[k].pc = "lookup" /\ job'[k].sid = panelId
      BY <1>0, <1>3, <2>4 DEF OnFinished, NewJob
    <3>2. Midway(job[k])'
      BY <2>1, <2>3, <3>1 DEF Starts, Midway, Together, HalfConnected, HalfDisconnected
    <3> QED
      BY <2>2, <2>3, <3>2
  <2>5. CASE ~Refreshes(job[k].op)
    <3>1. job'[k].pc = "none"
      BY <1>0, <1>3, <2>5 DEF OnFinished, NoJob
    <3> QED
      BY <2>2, <2>3, <3>1
  <2> QED
    BY <2>4, <2>5
<1>4. CASE Cancel
  <2>1. /\ UNCHANGED <<connected, panelId, shown, sessions, open, raced, failed>>
        /\ \A l \in Slots : /\ job'[l].pc = job[l].pc /\ job'[l].op = job[l].op
                            /\ job'[l].sid = job[l].sid
    BY <1>4, JobCancelled DEF Cancel, panelVars, serviceVars, history
  <2> QED
    BY <2>1
    DEF Agree, Midway, Matched, Connecting, Disconnecting, Together, HalfConnected, HalfDisconnected
<1>5. ASSUME NEW k \in Slots, Connect(k) PROVE Goal
  <2>1. /\ job[k].op = "connect" /\ job[k].pc = "lookup" /\ ~raced /\ "close" \notin failed
        /\ sessions' = sessions \cup {job[k].sid} /\ open' = open \cup {job[k].sid}
        /\ UNCHANGED <<connected, panelId, shown>>
    BY <1>5 DEF Connect, panelVars, history
  <2>2. /\ job'[k].op = "connect" /\ job'[k].pc = "result" /\ job'[k].sid = job[k].sid
        /\ \A l \in Slots \ {k} : job'[l] = job[l]
    BY <1>5, <2>1, JobGoes DEF Connect, Phases
  <2>3. Midway(job[k]) => Midway(job[k])'
    BY <2>1, <2>2
    DEF Midway, Matched, Connecting, Together, HalfConnected, HalfDisconnected
  <2> QED
    BY <1>a, <2>1, <2>2, <2>3
<1>6. ASSUME NEW k \in Slots, Lookup(k) PROVE Goal
  <2>1. /\ job[k].op # "connect" /\ job[k].pc = "lookup" /\ ~raced /\ "close" \notin failed
        /\ UNCHANGED <<open, connected, panelId, shown>>
    BY <1>6 DEF Lookup, panelVars, history
  <2>2. /\ job'[k].op = job[k].op /\ job'[k].sid = job[k].sid
        /\ \A l \in Slots \ {k} : job'[l] = job[l]
        /\ job'[k].pc = IF job[k].sid \in sessions THEN "lock" ELSE "error"
    <3>1. CASE job[k].sid \in sessions
      BY <1>6, <3>1, JobGoes DEF Lookup, Phases
    <3>2. CASE job[k].sid \notin sessions
      BY <1>6, <3>2, JobGoes DEF Lookup, Phases
    <3> QED
      BY <3>1, <3>2
  <2>3. Midway(job[k]) => Midway(job[k])'
    <3>1. CASE job[k].op = "disconnect"
      BY <1>6, <2>1, <2>2, <3>1
      DEF Lookup, Midway, Matched, Disconnecting, Together, HalfConnected, HalfDisconnected, SidsNamed
    <3>2. CASE job[k].op # "disconnect"
      BY <1>6, <2>1, <2>2, <3>2
      DEF Lookup, Midway, Matched, Together, HalfConnected, HalfDisconnected
    <3> QED
      BY <3>1, <3>2
  <2> QED
    BY <1>a, <2>1, <2>2, <2>3
<1>7. ASSUME NEW k \in Slots, ConnectFails(k) \/ Acquire(k) \/ OnError(k) PROVE Goal
  <2>1. /\ \/ job[k].op = "connect" /\ job[k].pc = "lookup" /\ job'[k].pc = "error"
           \/ job[k].pc = "lock" /\ job'[k].pc = "work"
           \/ job[k].pc = "error" /\ job'[k].pc = "done"
        /\ job'[k].op = job[k].op /\ job'[k].sid = job[k].sid
        /\ \A l \in Slots \ {k} : job'[l] = job[l]
    BY <1>7, JobGoes DEF ConnectFails, Acquire, OnError, Phases
  <2>2. UNCHANGED <<sessions, open, connected, panelId, shown, raced, failed>>
    BY <1>7 DEF ConnectFails, Acquire, OnError, panelVars, serviceVars, history
  <2>3. Midway(job[k]) => Midway(job[k])'
    BY <2>1, <2>2
    DEF Midway, Matched, Connecting, Disconnecting, Together, HalfConnected, HalfDisconnected
  <2> QED
    BY <1>a, <2>1, <2>2, <2>3
<1>8. ASSUME NEW k \in Slots, Releases(k), job[k].op = "disconnect" => job'[k].pc = "result" PROVE Goal
  <2>1. UNCHANGED <<sessions, connected, panelId, shown, raced>> /\ "close" \notin failed
    BY <1>8 DEF Releases, panelVars
  <2>2. Midway(job[k]) => Midway(job[k])'
    <3>1. /\ job[k].pc = "work" /\ job'[k].pc \in {"result", "error"}
          /\ job'[k].op = job[k].op /\ job'[k].sid = job[k].sid
      BY <1>8 DEF Releases
    <3>2. CASE job[k].op = "disconnect"
      <4>1. open' = open \ {job[k].sid} /\ job'[k].pc = "result"
        BY <1>8, <3>2 DEF Releases
      <4>2. Disconnecting(job[k]) => Disconnecting(job[k])'
        BY <2>1, <3>1, <4>1 DEF Disconnecting
      <4> QED
        BY <3>1, <3>2, <4>1, <4>2 DEF Midway, HalfConnected, HalfDisconnected
    <3>3. CASE job[k].op # "disconnect"
      <4>1. UNCHANGED open
        BY <1>8, <3>3 DEF Releases
      <4> QED
        BY <2>1, <3>1, <3>3, <4>1
        DEF Midway, Matched, Together, HalfConnected, HalfDisconnected
    <3> QED
      BY <3>2, <3>3
  <2> QED
    BY <1>a, <1>8, <2>1, <2>2 DEF Releases
<1>9. ASSUME NEW k \in Slots,
             Close(k) \/ List(k) \/ Command(k) \/ EndTransfer(k) \/ TransferFails(k)
      PROVE  job[k].op = "disconnect" => job'[k].pc = "result"
  BY <1>9, JobGoes
  DEF Close, List, Command, EndTransfer, TransferFails, Leave, Transfers, Phases
<1>10. ASSUME NEW k \in Slots, BeginFile(k) \/ EndFile(k) \/ CancelFile(k) PROVE Goal
  <2>1. /\ job'[k].op = job[k].op /\ job'[k].pc = job[k].pc /\ job'[k].sid = job[k].sid
        /\ \A l \in Slots \ {k} : job'[l] = job[l]
    BY <1>10, JobBegins, JobLetsGo
  <2>2. UNCHANGED <<sessions, open, connected, panelId, shown, raced, failed>>
    BY <1>10 DEF BeginFile, EndFile, CancelFile, panelVars, serviceVars, history
  <2> QED
    BY <2>1, <2>2
    DEF Agree, Midway, Matched, Connecting, Disconnecting, Together, HalfConnected, HalfDisconnected
<1>11. ASSUME NEW k \in Slots, OnResult(k) PROVE Goal
  <2>1. /\ job[k].pc = "result" /\ job'[k].pc = "done"
        /\ job'[k].op = job[k].op /\ job'[k].sid = job[k].sid
        /\ \A l \in Slots \ {k} : job'[l] = job[l]
    BY <1>11, JobGoes DEF OnResult, Phases
  <2>2. ~raced /\ "close" \notin failed /\ UNCHANGED <<sessions, open>> /\ job[k].sid \in Sessions
    BY <1>11 DEF OnResult, serviceVars, history, SidsNamed
  <2>3. Midway(job[k]) => Midway(job[k])'
    <3>1. CASE job[k].op = "connect"
      <4>1. connected' = TRUE /\ panelId' = job[k].sid /\ shown' = job[k].sid
        BY <1>11, <3>1 DEF OnResult
      <4> QED
        BY <2>1, <2>2, <3>1, <4>1
        DEF Midway, Matched, Connecting, Together, HalfConnected, HalfDisconnected
    <3>2. CASE job[k].op = "disconnect"
      <4>1. connected' = FALSE /\ panelId' = NoOne /\ shown' = NoOne
        BY <1>11, <3>2 DEF OnResult
      <4> QED
        BY <2>1, <2>2, <3>2, <4>1
        DEF Midway, Matched, Disconnecting, Together, HalfConnected, HalfDisconnected
    <3>3. CASE job[k].op \notin {"connect", "disconnect"}
      <4>1. UNCHANGED <<connected, panelId>> /\ (shown' = shown \/ shown' = job[k].sid)
        <5>1. CASE job[k].op = "list"
          BY <1>11, <3>3, <5>1 DEF OnResult
        <5>2. CASE job[k].op # "list"
          BY <1>11, <3>3, <5>2 DEF OnResult
        <5> QED
          BY <5>1, <5>2
      <4> QED
        BY <2>1, <2>2, <3>3, <4>1
        DEF Midway, Matched, Together, HalfConnected, HalfDisconnected
    <3> QED
      BY <3>1, <3>2, <3>3
  <2> QED
    BY <1>a, <2>1, <2>2, <2>3
<1>12. CASE UNCHANGED vars
  BY <1>12
  DEF vars, panelVars, serviceVars, history, Agree,
      Midway, Matched, Connecting, Disconnecting, Together, HalfConnected, HalfDisconnected
<1> QED
  BY <1>1, <1>2, <1>3, <1>4, <1>5, <1>6, <1>7, <1>8, <1>9, <1>10, <1>11, <1>12, ReleasingSteps
  DEF Next, Serve, Callback

-----------------------------------------------------------------------------
(* The theorems *)

\* The invariant holds before the first click.
LEMMA IInvInit == Init => IInv
<1> SUFFICES ASSUME Init PROVE IInv
  OBVIOUS
<1>1. \A k \in Slots : job[k] = NoJob
  BY DEF Init
<1>2. \A k \in Slots : job[k].pc = "none" /\ job[k].at = NoOne
  BY <1>1 DEF NoJob
<1>3. Matched
  BY DEF Init, Matched
<1>4. partial = {}
  BY DEF Init
<1> QED
  BY <1>2, <1>3, <1>4, TypeInit
  DEF IInv, SidsNamed, LocksHeld, CopiesWork, OneJob, CancelReachesTransfer, Alive,
      CopyKeepsConnection, NoPartialDownload, Agree

\* Every step keeps it.
LEMMA IInvStep == IInv /\ [Next]_vars => IInv'
<1> SUFFICES ASSUME IInv, [Next]_vars PROVE IInv'
  OBVIOUS
<1>1. TypeOK' /\ SidsNamed'
  BY TypeStep DEF IInv
<1>2. Exclusion'
  BY ExclusionStep DEF IInv, Exclusion
<1>3. OneJob' /\ CancelReachesTransfer'
  BY OneJobStep DEF IInv
<1>4. NoPartialDownload'
  BY PartialStep DEF IInv, Exclusion
<1>5. Agree'
  BY AgreeStep DEF IInv
<1> QED
  BY <1>1, <1>2, <1>3, <1>4, <1>5 DEF IInv, Exclusion

\* The inductive invariant holds in every reachable state.
THEOREM Invariance == Spec => []IInv
<1> QED
  BY IInvInit, IInvStep, PTL DEF Spec

\* The variables of the panel, the service and the jobs keep their types.
THEOREM TypeCorrect == Spec => []TypeOK
<1>1. IInv => TypeOK
  BY DEF IInv
<1> QED
  BY <1>1, Invariance, PTL

\* Outside connect and disconnect jobs, and until a folder is double-clicked during a job,
\* _ftp_client_connected, _ftp_session_id, the entries shown and the service's sessions
\* agree.
THEOREM PanelMatches == Spec => []SessionsMatchPanel
<1>1. IInv => SessionsMatchPanel
  <2> SUFFICES ASSUME IInv, ~raced, "close" \notin failed,
                      \A k \in Alive : job[k].op \notin {"connect", "disconnect"}
               PROVE  Matched
    BY DEF SessionsMatchPanel, Matched
  <2>1. CASE \A k \in Slots : job[k].pc = "none"
    BY <2>1 DEF IInv, Agree
  <2>2. ASSUME NEW k \in Slots, job[k].pc # "none" PROVE Matched
    BY <2>2 DEF IInv, Agree, Alive, Midway, HalfConnected, HalfDisconnected, Together
  <2> QED
    BY <2>1, <2>2
<1> QED
  BY <1>1, Invariance, PTL

\* Until then, the event of _cancel_ftp_client_job is the one of the transfer alive.
THEOREM CancelReaches == Spec => []CancelReachesTransfer
<1>1. IInv => CancelReachesTransfer
  BY DEF IInv
<1> QED
  BY <1>1, Invariance, PTL

\* Whatever is clicked, also during a race, disconnect never closes a connection between
\* two blocks of a copy.
THEOREM CopiesConnected == Spec => []CopyKeepsConnection
<1>1. IInv => CopyKeepsConnection
  BY DEF IInv
<1> QED
  BY <1>1, Invariance, PTL

\* Unless a transfer raised, no local file is left incomplete by download_files.
THEOREM DownloadsWhole == Spec => []NoPartialDownload
<1>1. IInv => NoPartialDownload
  BY DEF IInv
<1> QED
  BY <1>1, Invariance, PTL

=============================================================================
