---------------------------- MODULE ProbePoolProofs ----------------------------
(***************************************************************************)
(* Proofs about the Ping and TCPing panels, for any list of targets, any   *)
(* number of threads, of probes and of runs: the table holds rows of the   *)
(* current run only, and when the run is over it shows one row per key,    *)
(* with the last count reported; the result has this count too unless a    *)
(* tcping's summary gave another.  The argument follows the reports: the   *)
(* last one of a key, in the queue or in the table, has the count at which *)
(* its thread stopped unless another report of the key comes behind it;    *)
(* and finished is the last signal of a run, because the executor waits    *)
(* for its threads.                                                        *)
(***************************************************************************)
EXTENDS ProbePool, FiniteSetTheorems, TLAPS

Waiting    == {"queued", "head", "probe", "tail"}
Phases     == Waiting \cup {"none", "done", "raised"}
ReportType == [kind : {"progress"}, key : Keys, run : Nat, sent : Nat]
SignalType == [kind : {"result", "error", "finished"}, run : Nat]
EventType  == ReportType \cup SignalType
RowType    == [key : Keys, run : Nat, sent : Nat]

-----------------------------------------------------------------------------
(* The inductive invariant *)

Shape ==
  /\ tool \in Tools /\ run \in Nat
  /\ continuous \in BOOLEAN /\ cancel \in BOOLEAN /\ busy \in BOOLEAN
  /\ task \in [Entries -> Phases] /\ sent \in [Entries -> Nat]
  /\ tool # "tcping" => \A e \in Entries : summary[e] = 0
  /\ job \in {"idle", "collecting", "raising"}
  /\ events \in Seq(EventType) /\ table \in Seq(RowType)

OfRun ==
  /\ \A i \in DOMAIN events : events[i].run = run
  /\ \A row \in Range(table) : row.run = run

\* The threads of a run are through when its outcome is posted, and finished is
\* the last signal
InOrder ==
  /\ ~busy => job = "idle" /\ events = <<>>
  /\ job = "idle" => \A e \in Entries : task[e] \notin Waiting
  /\ busy /\ job = "idle" => events # <<>> /\ events[Len(events)].kind = "finished"
  /\ \A i \in DOMAIN events : events[i].kind # "progress" => job = "idle"
  /\ \A i \in DOMAIN events : events[i].kind = "finished" => i = Len(events)
  /\ \A i \in DOMAIN events : events[i].kind = "result" => AllDone
  /\ results # NoResult => AllDone /\ results = [e \in Entries |-> Final(e)]

\* The counts of the entries of a key that have been probed
CountsOf(k) == {sent[e] : e \in {f \in Entries : Key[f] = k}} \ {0}

IsReport(event, k) == event.kind = "progress" /\ event.key = k

\* The last report of a key is in the queue, or none is and its row is there
LastReport(k) ==
  \/ \E i \in DOMAIN events :
       /\ IsReport(events[i], k) /\ events[i].sent \in CountsOf(k)
       /\ \A j \in DOMAIN events : j > i => ~IsReport(events[j], k)
  \/ /\ \A i \in DOMAIN events : ~IsReport(events[i], k)
     /\ \E row \in Range(table) : row.key = k /\ row.sent \in CountsOf(k)

NoReport(k) ==
  /\ \A i \in DOMAIN events : ~IsReport(events[i], k)
  /\ \A row \in Range(table) : row.key # k

OneRow(rows) == \A r, q \in DOMAIN rows : rows[r].key = rows[q].key => r = q

Showing ==
  /\ OneRow(table)
  /\ \A k \in Keys : IF CountsOf(k) = {} THEN NoReport(k) ELSE LastReport(k)

IInv == Shape /\ OfRun /\ InOrder /\ Showing

-----------------------------------------------------------------------------
(* Sequences *)

\* What a signal behind the queue does to its elements.
LEMMA EmitFacts ==
  ASSUME NEW S, NEW q \in Seq(S), NEW e \in S
  PROVE  /\ q \o <<e>> \in Seq(S) /\ Len(q) \in Nat
         /\ DOMAIN q = 1..Len(q) /\ DOMAIN (q \o <<e>>) = 1..(Len(q) + 1)
         /\ Len(q \o <<e>>) = Len(q) + 1
         /\ \A i \in 1..Len(q) : (q \o <<e>>)[i] = q[i]
         /\ (q \o <<e>>)[Len(q) + 1] = e
OBVIOUS

\* Two signals are one behind the other.
LEMMA EmitTwo ==
  ASSUME NEW S, NEW q \in Seq(S), NEW d \in S, NEW e \in S
  PROVE  /\ q \o <<d, e>> \in Seq(S) /\ Len(q) \in Nat
         /\ DOMAIN q = 1..Len(q) /\ DOMAIN (q \o <<d, e>>) = 1..(Len(q) + 2)
         /\ Len(q \o <<d, e>>) = Len(q) + 2
         /\ \A i \in 1..Len(q) : (q \o <<d, e>>)[i] = q[i]
         /\ (q \o <<d, e>>)[Len(q) + 1] = d
         /\ (q \o <<d, e>>)[Len(q) + 2] = e
OBVIOUS

\* What Tail does to the elements of a queue.
LEMMA TailFacts ==
  ASSUME NEW S, NEW q \in Seq(S), q # <<>>
  PROVE  /\ Tail(q) \in Seq(S)
         /\ DOMAIN q = 1..Len(q) /\ Len(q) \in Nat \ {0}
         /\ Head(q) = q[1] /\ Head(q) \in S
         /\ DOMAIN Tail(q) = 1..(Len(q) - 1) /\ Len(Tail(q)) = Len(q) - 1
         /\ \A i \in 1..(Len(q) - 1) : Tail(q)[i] = q[i + 1]
OBVIOUS

\* Sorting the table neither loses nor doubles a row.
LEMMA Rearranged ==
  ASSUME NEW S, NEW rows \in Seq(S), NEW new \in Rearrangements(rows)
  PROVE  /\ new \in Seq(S)
         /\ Range(new) = Range(rows)
         /\ OneRow(rows) => OneRow(new)
<1>1. /\ Len(rows) \in Nat /\ DOMAIN rows = 1..Len(rows)
      /\ \A i \in 1..Len(rows) : rows[i] \in S
  OBVIOUS
<1>2. IsFiniteSet(1..Len(rows)) /\ Cardinality(1..Len(rows)) = Len(rows)
  <2>1. 1 \in Int /\ Len(rows) \in Int /\ ~(1 > Len(rows)) <=> Len(rows) # 0
    BY <1>1
  <2>2. /\ IsFiniteSet(1..Len(rows))
        /\ Cardinality(1..Len(rows)) = IF 1 > Len(rows) THEN 0 ELSE Len(rows) - 1 + 1
    BY <1>1, FS_Interval
  <2>3. (IF 1 > Len(rows) THEN 0 ELSE Len(rows) - 1 + 1) = Len(rows)
    BY <1>1
  <2> QED
    BY <2>2, <2>3
<1>3. PICK p \in [1..Len(rows) -> 1..Len(rows)] :
        /\ \A i, j \in 1..Len(rows) : i # j => p[i] # p[j]
        /\ new = [i \in 1..Len(rows) |-> rows[p[i]]]
  BY <1>2 DEF Rearrangements, SetToSeqs
<1>4. p \in Surjection(1..Len(rows), 1..Len(rows))
  <2>1. p \in Injection(1..Len(rows), 1..Len(rows))
    BY <1>3 DEF Injection, IsInjective
  <2> QED
    BY <2>1, <1>2, FS_Injection
<1>5. \A j \in 1..Len(rows) : \E i \in 1..Len(rows) : p[i] = j
  BY <1>4 DEF Surjection
<1>6. DOMAIN new = 1..Len(rows)
  BY <1>3
<1>7. new \in Seq(S)
  BY <1>1, <1>3, SMTT(30)
<1>8. Range(new) = Range(rows)
  <2>1. ASSUME NEW i \in 1..Len(rows) PROVE new[i] \in Range(rows)
    <3>1. new[i] = rows[p[i]] /\ p[i] \in DOMAIN rows
      BY <1>1, <1>3
    <3> QED
      BY <3>1 DEF Range
  <2>2. ASSUME NEW j \in 1..Len(rows) PROVE rows[j] \in Range(new)
    <3>1. PICK i \in 1..Len(rows) : p[i] = j
      BY <1>5
    <3>2. new[i] = rows[j] /\ i \in DOMAIN new
      BY <1>3, <1>6, <3>1
    <3> QED
      BY <3>2 DEF Range
  <2> QED
    BY <1>1, <1>6, <2>1, <2>2 DEF Range
<1> QED
  BY <1>1, <1>3, <1>6, <1>7, <1>8 DEF OneRow

-----------------------------------------------------------------------------
(* What the steps do *)

\* The row of a report is found wherever the user has sorted it to.
LEMMA FoundRow ==
  ASSUME Shape, OneRow(table), NEW k \in Keys
  PROVE  /\ FindRow(k) \in {0} \cup DOMAIN table
         /\ FindRow(k) = 0 => \A r \in DOMAIN table : table[r].key # k
         /\ FindRow(k) # 0 => table[FindRow(k)].key = k
<1>0. DOMAIN table = 1..Len(table) /\ Len(table) \in Nat
  BY DEF Shape
<1>1. CASE RowMatches(k, rowMap[k])
  BY <1>0, <1>1 DEF RowMatches, FindRow
<1>2. CASE ~RowMatches(k, rowMap[k]) /\ \A r \in DOMAIN table : table[r].key # k
  BY <1>0, <1>2 DEF FindRow
<1>3. ASSUME ~RowMatches(k, rowMap[k]), NEW r \in DOMAIN table, table[r].key = k
      PROVE  FindRow(k) = r
  <2>1. {q \in 1..Len(table) : table[q].key = k} = {r}
    BY <1>0, <1>3 DEF OneRow
  <2>2. (CHOOSE q \in {r} : \A o \in {r} : q <= o) = r
    BY <1>0
  <2> QED
    BY <1>3, <2>1, <2>2 DEF FindRow
<1>4. \A r \in DOMAIN table : r # 0
  BY <1>0
<1> QED
  BY <1>1, <1>2, <1>3, <1>4

RowOf(event) == [key |-> event.key, run |-> event.run, sent |-> event.sent]

\* A report replaces the row of its key, or is its first row.
LEMMA Reported ==
  ASSUME Shape, OneRow(table), NEW event \in ReportType, Report(event)
  PROVE  /\ table' \in Seq(RowType) /\ OneRow(table')
         /\ Range(table') = {RowOf(event)} \cup {row \in Range(table) : row.key # event.key}
         /\ busy' = busy /\ results' = results
<1>0. /\ DOMAIN table = 1..Len(table) /\ Len(table) \in Nat
      /\ \A r \in DOMAIN table : table[r] \in RowType
  BY DEF Shape
<1>1. RowOf(event) \in RowType /\ RowOf(event).key = event.key /\ event.key \in Keys
  BY DEF RowOf, RowType, ReportType
<1>2. PICK at \in {0} \cup DOMAIN table :
        /\ at = FindRow(event.key)
        /\ at = 0 => \A r \in DOMAIN table : table[r].key # event.key
        /\ at # 0 => table[at].key = event.key
  BY <1>1, FoundRow
<1>3. PICK rows : /\ rows = IF at = 0 THEN Append(table, RowOf(event))
                                      ELSE [table EXCEPT ![at] = RowOf(event)]
                  /\ table' \in Rearrangements(rows)
  BY <1>2 DEF Report, RowOf
<1>4. /\ rows \in Seq(RowType) /\ OneRow(rows)
      /\ Range(rows) = {RowOf(event)} \cup {row \in Range(table) : row.key # event.key}
  <2>1. CASE at = 0
    <3>1. /\ rows \in Seq(RowType) /\ DOMAIN rows = 1..(Len(table) + 1)
          /\ rows[Len(table) + 1] = RowOf(event)
          /\ \A r \in 1..Len(table) : rows[r] = table[r] /\ table[r].key # event.key
      BY <1>0, <1>1, <1>2, <1>3, <2>1 DEF Shape
    <3>2. OneRow(rows)
      BY <1>0, <1>1, <3>1 DEF OneRow
    <3>3. Range(rows) = {RowOf(event)} \cup Range(table)
      BY <1>0, <3>1 DEF Range
    <3>4. \A row \in Range(table) : row.key # event.key
      BY <1>0, <3>1 DEF Range
    <3> QED
      BY <3>1, <3>2, <3>3, <3>4
  <2>2. CASE at # 0
    <3>1. /\ rows \in Seq(RowType) /\ DOMAIN rows = DOMAIN table /\ at \in DOMAIN table
          /\ rows[at] = RowOf(event)
          /\ \A r \in DOMAIN table \ {at} : rows[r] = table[r] /\ table[r].key # event.key
      BY <1>0, <1>1, <1>2, <1>3, <2>2 DEF Shape, OneRow
    <3>2. OneRow(rows)
      BY <1>1, <3>1 DEF OneRow
    <3>3. \A row : row \in Range(rows) <=>
                     row = RowOf(event) \/ (row \in Range(table) /\ row.key # event.key)
      BY <1>2, <2>2, <3>1 DEF Range
    <3> QED
      BY <3>1, <3>2, <3>3
  <2> QED
    BY <2>1, <2>2
<1>5. busy' = busy /\ results' = results
  BY DEF Report
<1> QED
  BY <1>3, <1>4, <1>5, Rearranged

\* A thread of the executor works on a future that waits, and reports what it counts.
LEMMA ThreadSteps ==
  ASSUME Shape, NEW e \in Entries, Thread(e)
  PROVE  /\ task[e] \in Waiting /\ task' \in [Entries -> Phases]
         /\ UNCHANGED <<cancel, job>> /\ UNCHANGED runVars /\ UNCHANGED panelVars
         /\ tool' # "tcping" => UNCHANGED summary
         /\ \/ UNCHANGED <<sent, events>>
            \/ \E n \in Nat \ {0} :
                 sent' = [sent EXCEPT ![e] = n] /\ events' = events \o <<Progress(e, n)>>
<1>1. ASSUME NEW t \in Phases, TaskTo(e, t)
      PROVE  /\ task' \in [Entries -> Phases]
             /\ UNCHANGED <<cancel, job>> /\ UNCHANGED runVars /\ UNCHANGED panelVars
  BY <1>1 DEF TaskTo, Shape
<1>2. {"head", "probe", "tail", "done", "raised"} \subseteq Phases
  BY DEF Phases, Waiting
<1>3. CASE Begin(e)
  BY <1>1, <1>2, <1>3 DEF Begin, Waiting
<1>4. CASE LoopHead(e)
  BY <1>1, <1>2, <1>4 DEF LoopHead, Waiting
<1>5. CASE Probe(e)
  <2>1. sent[e] + 1 \in Nat \ {0}
    BY DEF Shape
  <2> QED
    BY <1>1, <1>2, <1>5, <2>1 DEF Probe, Waiting, Emit
<1>6. CASE ConnectRaises(e)
  BY <1>1, <1>2, <1>6 DEF ConnectRaises, Waiting
<1>7. CASE LoopTail(e)
  BY <1>1, <1>2, <1>7 DEF LoopTail, Waiting
<1>8. CASE NoLine(e)
  BY <1>1, <1>2, <1>8 DEF NoLine, Waiting
<1>9. CASE ProgramEnds(e)
  BY <1>1, <1>2, <1>9 DEF ProgramEnds, Waiting, runVars
<1> QED
  BY <1>3, <1>4, <1>5, <1>6, <1>7, <1>8, <1>9 DEF Thread

\* The job posts its outcome and finished once no future waits.
LEMMA JobSteps ==
  ASSUME Shape, Job
  PROVE  /\ UNCHANGED cancel /\ UNCHANGED runVars /\ UNCHANGED taskVars /\ UNCHANGED panelVars
         /\ job # "idle"
         /\ \/ job' = "raising" /\ UNCHANGED events
            \/ /\ job' = "idle" /\ \A e \in Entries : task[e] \notin Waiting
               /\ \E kind \in {"result", "error"} :
                    /\ events' = events \o Outcome(kind)
                    /\ kind = "result" => AllDone
<1>1. CASE CollectRaises
  BY <1>1 DEF CollectRaises, JobTo
<1>2. CASE JobRaises
  BY <1>2 DEF JobRaises, JobTo, ExecutorEmpty, Ended, Waiting, Emit
<1>3. CASE JobReturns
  BY <1>3 DEF JobReturns, JobTo, AllDone, Waiting, Emit
<1> QED
  BY <1>1, <1>2, <1>3 DEF Job

\* Signals have the types of the queue.
LEMMA Signals ==
  ASSUME run \in Nat
  PROVE  /\ \A e \in Entries, n \in Nat : Progress(e, n) \in ReportType
         /\ ReportType \subseteq EventType
         /\ \A kind \in {"result", "error", "finished"} : [kind |-> kind, run |-> run] \in EventType
         /\ \A event \in EventType : event.kind = "progress" => event \in ReportType
<1>1. \A e \in Entries, n \in Nat : Progress(e, n) \in ReportType
  BY DEF Progress, ReportType, Keys
<1> QED
  BY <1>1 DEF EventType, ReportType, SignalType

-----------------------------------------------------------------------------
(* Every step keeps the invariant *)

\* The variables keep their shape, and the table one row a key.
LEMMA ShapeStep == Shape /\ OneRow(table) /\ [Next]_vars => Shape'
<1> SUFFICES ASSUME Shape, OneRow(table), [Next]_vars PROVE Shape'
  OBVIOUS
<1>0. run \in Nat
  BY DEF Shape
<1>1. ASSUME NEW t \in Tools, NEW c \in BOOLEAN, NEW valid \in BOOLEAN, Start(t, c, valid)
      PROVE  Shape'
  <2>1. task' \in [Entries -> Phases] /\ job' \in {"idle", "collecting", "raising"}
    BY <1>1 DEF Start, Submit, Phases, Waiting
  <2>2. table' \in Seq(RowType)
    BY <1>1 DEF Start
  <2>3. continuous' \in BOOLEAN /\ cancel' \in BOOLEAN /\ busy' \in BOOLEAN
    BY <1>1 DEF Start
  <2>4. tool' \in Tools /\ run' \in Nat /\ sent' \in [Entries -> Nat] /\ events' = events
    BY <1>0, <1>1 DEF Start
  <2>5. \A e \in Entries : summary'[e] = 0
    BY <1>1 DEF Start
  <2> QED
    BY <2>1, <2>2, <2>3, <2>4, <2>5 DEF Shape
<1>2. CASE Cancel
  BY <1>2 DEF Cancel, Shape, runVars, taskVars, panelVars
<1>3. CASE Sort
  <2>1. table \in Seq(RowType) /\ table' \in Rearrangements(table)
    BY <1>3 DEF Sort, Shape
  <2>2. table' \in Seq(RowType)
    BY <2>1, Rearranged
  <2> QED
    BY <1>3, <2>2 DEF Sort, Shape, runVars, taskVars
<1>4. CASE Deliver
  <2>1. events # <<>> /\ events' = Tail(events) /\ Head(events) \in EventType /\ events' \in Seq(EventType)
    BY <1>4 DEF Deliver, Shape
  <2>2. UNCHANGED <<cancel, job>> /\ UNCHANGED runVars /\ UNCHANGED taskVars
    BY <1>4 DEF Deliver
  <2>3. table' \in Seq(RowType) /\ busy' \in BOOLEAN
    <3>1. CASE Head(events).kind = "progress" /\ Report(Head(events))
      <4>1. Head(events) \in ReportType
        BY <1>0, <2>1, <3>1, Signals
      <4> QED
        BY <3>1, <4>1, Reported DEF Shape
    <3>2. CASE UNCHANGED table /\ busy' \in {busy, FALSE}
      BY <3>2 DEF Shape
    <3> QED
      BY <1>4, <3>1, <3>2 DEF Deliver, panelVars
  <2> QED
    BY <2>1, <2>2, <2>3 DEF Shape, runVars, taskVars
<1>5. CASE Job
  <2>1. events' \in Seq(EventType)
    <3>1. CASE UNCHANGED events
      BY <3>1 DEF Shape
    <3>2. ASSUME NEW kind \in {"result", "error"}, events' = events \o Outcome(kind)
          PROVE  events' \in Seq(EventType)
      BY <1>0, <3>2, EmitTwo, Signals DEF Outcome, Shape
    <3> QED
      BY <1>5, <3>1, <3>2, JobSteps
  <2> QED
    BY <1>5, <2>1, JobSteps DEF Shape, runVars, taskVars, panelVars
<1>6. ASSUME NEW e \in Entries, Thread(e) PROVE Shape'
  <2>1. sent' \in [Entries -> Nat] /\ events' \in Seq(EventType)
    <3>1. CASE UNCHANGED <<sent, events>>
      BY <3>1 DEF Shape
    <3>2. ASSUME NEW n \in Nat \ {0},
                 sent' = [sent EXCEPT ![e] = n], events' = events \o <<Progress(e, n)>>
          PROVE  sent' \in [Entries -> Nat] /\ events' \in Seq(EventType)
      <4>1. Progress(e, n) \in EventType
        BY <1>0, Signals
      <4> QED
        BY <3>2, <4>1, EmitFacts DEF Shape
    <3> QED
      BY <1>6, <3>1, <3>2, ThreadSteps
  <2> QED
    BY <1>6, <2>1, ThreadSteps DEF Shape, runVars, panelVars
<1>7. CASE UNCHANGED vars
  BY <1>7 DEF vars, Shape
<1> QED
  BY <1>1, <1>2, <1>3, <1>4, <1>5, <1>6, <1>7 DEF Next

\* Neither an old signal nor an old row is left when a run starts.
LEMMA OfRunStep == Shape /\ OneRow(table) /\ InOrder /\ OfRun /\ [Next]_vars => OfRun'
<1> SUFFICES ASSUME Shape, OneRow(table), InOrder, OfRun, [Next]_vars PROVE OfRun'
  OBVIOUS
<1>0. run \in Nat /\ events \in Seq(EventType) /\ table \in Seq(RowType)
  BY DEF Shape
<1>1. ASSUME NEW t \in Tools, NEW c \in BOOLEAN, NEW valid \in BOOLEAN, Start(t, c, valid)
      PROVE  OfRun'
  <2>1. events' = <<>> /\ table' = <<>>
    BY <1>1 DEF Start, InOrder
  <2> QED
    BY <2>1 DEF OfRun, Range
<1>2. CASE Cancel \/ UNCHANGED vars
  BY <1>2 DEF Cancel, vars, OfRun, runVars, panelVars
<1>3. CASE Sort
  <2>1. Range(table') = Range(table)
    BY <1>0, <1>3, Rearranged DEF Sort
  <2> QED
    BY <1>3, <2>1 DEF Sort, OfRun, runVars
<1>4. CASE Deliver
  <2>1. /\ events # <<>> /\ events' = Tail(events) /\ run' = run
        /\ DOMAIN events = 1..Len(events) /\ Len(events) \in Nat \ {0}
        /\ Head(events) = events[1] /\ Head(events) \in EventType
        /\ DOMAIN events' = 1..(Len(events) - 1)
        /\ \A i \in 1..(Len(events) - 1) : events'[i] = events[i + 1]
    BY <1>0, <1>4, TailFacts DEF Deliver, runVars
  <2>2. Head(events).run = run
    BY <2>1 DEF OfRun
  <2>3. \A i \in DOMAIN events' : events'[i].run = run
    BY <2>1 DEF OfRun
  <2>4. \A row \in Range(table') : row.run = run
    <3>1. CASE Head(events).kind = "progress" /\ Report(Head(events))
      <4>1. Head(events) \in ReportType
        BY <1>0, <2>1, <3>1, Signals
      <4>2. Range(table') = {RowOf(Head(events))}
                              \cup {row \in Range(table) : row.key # Head(events).key}
        BY <3>1, <4>1, Reported
      <4> QED
        BY <2>2, <4>2 DEF OfRun, RowOf
    <3>2. CASE UNCHANGED table
      BY <3>2 DEF OfRun
    <3> QED
      BY <1>4, <3>1, <3>2 DEF Deliver, panelVars
  <2> QED
    BY <2>1, <2>3, <2>4 DEF OfRun
<1>5. CASE Job
  <2>1. run' = run /\ table' = table
    BY <1>5, JobSteps DEF runVars, panelVars
  <2>2. \A i \in DOMAIN events' : events'[i].run = run
    <3>1. CASE UNCHANGED events
      BY <3>1 DEF OfRun
    <3>2. ASSUME NEW kind \in {"result", "error"}, events' = events \o Outcome(kind)
          PROVE  \A i \in DOMAIN events' : events'[i].run = run
      <4>1. /\ DOMAIN events = 1..Len(events) /\ Len(events) \in Nat
            /\ DOMAIN events' = 1..(Len(events) + 2)
            /\ \A i \in 1..Len(events) : events'[i] = events[i]
            /\ events'[Len(events) + 1].run = run /\ events'[Len(events) + 2].run = run
        BY <1>0, <3>2, EmitTwo, Signals DEF Outcome
      <4> QED
        BY <4>1 DEF OfRun
    <3> QED
      BY <1>5, <3>1, <3>2, JobSteps
  <2> QED
    BY <2>1, <2>2 DEF OfRun
<1>6. ASSUME NEW e \in Entries, Thread(e) PROVE OfRun'
  <2>1. run' = run /\ table' = table
    BY <1>6, ThreadSteps DEF runVars, panelVars
  <2>2. \A i \in DOMAIN events' : events'[i].run = run
    <3>1. CASE UNCHANGED events
      BY <3>1 DEF OfRun
    <3>2. ASSUME NEW n \in Nat \ {0}, events' = events \o <<Progress(e, n)>>
          PROVE  \A i \in DOMAIN events' : events'[i].run = run
      <4>1. Progress(e, n) \in EventType /\ Progress(e, n).run = run
        BY <1>0, Signals DEF Progress
      <4>2. /\ DOMAIN events = 1..Len(events) /\ Len(events) \in Nat
            /\ DOMAIN events' = 1..(Len(events) + 1)
            /\ \A i \in 1..Len(events) : events'[i] = events[i]
            /\ events'[Len(events) + 1].run = run
        BY <1>0, <3>2, <4>1, EmitFacts
      <4> QED
        BY <4>2 DEF OfRun
    <3> QED
      BY <1>6, <3>1, <3>2, ThreadSteps
  <2> QED
    BY <2>1, <2>2 DEF OfRun
<1> QED
  BY <1>1, <1>2, <1>3, <1>4, <1>5, <1>6 DEF Next

\* The outcome of a run is behind all its reports, and finished is behind the outcome.
LEMMA InOrderStep == Shape /\ InOrder /\ [Next]_vars => InOrder'
<1> SUFFICES ASSUME Shape, InOrder, [Next]_vars PROVE InOrder'
  OBVIOUS
<1>0. run \in Nat /\ events \in Seq(EventType) /\ busy \in BOOLEAN
  BY DEF Shape
<1>1. ASSUME NEW t \in Tools, NEW c \in BOOLEAN, NEW valid \in BOOLEAN, Start(t, c, valid)
      PROVE  InOrder'
  BY <1>1 DEF Start, Submit, InOrder
<1>2. CASE Cancel \/ Sort \/ UNCHANGED vars
  BY <1>2 DEF Cancel, Sort, vars, InOrder, runVars, taskVars, panelVars, AllDone, Final
<1>3. CASE Deliver
  <2>1. /\ events # <<>> /\ events' = Tail(events) /\ UNCHANGED <<job, task, sent, summary>>
        /\ DOMAIN events = 1..Len(events) /\ Len(events) \in Nat \ {0}
        /\ Head(events) = events[1]
        /\ DOMAIN events' = 1..(Len(events) - 1) /\ Len(events') = Len(events) - 1
        /\ \A i \in 1..(Len(events) - 1) : events'[i] = events[i + 1]
    BY <1>0, <1>3, TailFacts DEF Deliver, taskVars
  <2>2. /\ busy /\ AllDone' = AllDone
        /\ [e \in Entries |-> Final(e)]' = [e \in Entries |-> Final(e)]
    BY <2>1 DEF InOrder, AllDone, Final
  <2>3. \A i \in DOMAIN events' :
          /\ events'[i].kind # "progress" => job' = "idle"
          /\ events'[i].kind = "finished" => i = Len(events')
          /\ events'[i].kind = "result" => AllDone'
    BY <2>1, <2>2 DEF InOrder
  <2>4. CASE events[1].kind = "finished" /\ busy' = FALSE /\ results' = results
    <3>1. Len(events) = 1 /\ job = "idle"
      BY <2>1, <2>4 DEF InOrder
    <3>2. events' = <<>>
      BY <1>0, <2>1, <3>1
    <3> QED
      BY <2>1, <2>2, <2>3, <2>4, <3>1, <3>2 DEF InOrder
  <2>5. CASE /\ events[1].kind # "finished" /\ busy' = busy
             /\ \/ results' = results
                \/ results' = [e \in Entries |-> Final(e)] /\ events[1].kind = "result"
    <3>1. job = "idle" => /\ events' # <<>> /\ Len(events') = Len(events) - 1
                          /\ events'[Len(events')].kind = "finished"
      BY <1>0, <2>1, <2>2, <2>5 DEF InOrder
    <3>2. results' # NoResult => AllDone' /\ results' = [e \in Entries |-> Final(e)]'
      BY <2>1, <2>2, <2>5 DEF InOrder
    <3> QED
      BY <2>1, <2>2, <2>3, <2>5, <3>1, <3>2 DEF InOrder
  <2> QED
    BY <1>3, <2>1, <2>4, <2>5 DEF Deliver, Report, panelVars
<1>4. CASE Job
  <2>1. /\ busy' = busy /\ results' = results /\ task' = task /\ AllDone' = AllDone
        /\ [e \in Entries |-> Final(e)]' = [e \in Entries |-> Final(e)]
    BY <1>4, JobSteps DEF taskVars, panelVars, AllDone, Final
  <2>2. busy /\ job # "idle" /\ \A i \in DOMAIN events : events[i].kind = "progress"
    BY <1>4, JobSteps DEF InOrder
  <2>3. CASE job' = "raising" /\ UNCHANGED events
    BY <2>1, <2>2, <2>3 DEF InOrder
  <2>4. ASSUME NEW kind \in {"result", "error"}, kind = "result" => AllDone,
               job' = "idle", \A e \in Entries : task[e] \notin Waiting,
               events' = events \o Outcome(kind)
        PROVE  InOrder'
    <3>1. /\ DOMAIN events = 1..Len(events) /\ Len(events) \in Nat
          /\ DOMAIN events' = 1..(Len(events) + 2) /\ Len(events') = Len(events) + 2
          /\ \A i \in 1..Len(events) : events'[i] = events[i]
          /\ events'[Len(events) + 1].kind = kind /\ events'[Len(events) + 2].kind = "finished"
      BY <1>0, <2>4, EmitTwo, Signals DEF Outcome
    <3>2. \A i \in DOMAIN events' :
            /\ events'[i].kind = "finished" => i = Len(events')
            /\ events'[i].kind = "result" => AllDone'
      BY <2>1, <2>2, <2>4, <3>1
    <3>3. events' # <<>>
      BY <3>1
    <3> QED
      BY <2>1, <2>2, <2>4, <3>1, <3>2, <3>3 DEF InOrder
  <2> QED
    BY <1>4, <2>3, <2>4, JobSteps
<1>5. ASSUME NEW e \in Entries, Thread(e) PROVE InOrder'
  <2>1. /\ task[e] \in Waiting /\ busy' = busy /\ results' = results /\ job' = job
        /\ task[e] # "done" /\ ~AllDone
    BY <1>5, ThreadSteps DEF panelVars, AllDone, Waiting
  <2>2. busy /\ job # "idle" /\ results = NoResult
    BY <2>1 DEF InOrder
  <2>3. \A i \in DOMAIN events : events[i].kind = "progress"
    BY <2>2 DEF InOrder
  <2>4. \A i \in DOMAIN events' : events'[i].kind = "progress"
    <3>1. ASSUME NEW n \in Nat \ {0}, events' = events \o <<Progress(e, n)>>
          PROVE  \A i \in DOMAIN events' : events'[i].kind = "progress"
      <4>1. Progress(e, n) \in EventType /\ Progress(e, n).kind = "progress"
        BY <1>0, Signals DEF Progress
      <4>2. /\ DOMAIN events = 1..Len(events) /\ Len(events) \in Nat
            /\ DOMAIN events' = 1..(Len(events) + 1)
            /\ \A i \in 1..Len(events) : events'[i] = events[i]
            /\ events'[Len(events) + 1].kind = "progress"
        BY <1>0, <3>1, <4>1, EmitFacts
      <4> QED
        BY <2>3, <4>2
    <3> QED
      BY <1>5, <2>3, <3>1, ThreadSteps
  <2> QED
    BY <2>1, <2>2, <2>4 DEF InOrder
<1> QED
  BY <1>1, <1>2, <1>3, <1>4, <1>5 DEF Next

\* A signal that is no report, or a new last report, is put behind the queue.
LEMMA LastStays ==
  ASSUME NEW k \in Keys, LastReport(k), NEW m \in Nat, events \in Seq(EventType),
         DOMAIN events' = 1..m, m >= Len(events),
         \A i \in 1..Len(events) : events'[i] = events[i],
         \A i \in 1..m : i > Len(events) => ~IsReport(events'[i], k),
         table' = table, CountsOf(k)' = CountsOf(k)
  PROVE  LastReport(k)'
<1>0. DOMAIN events = 1..Len(events) /\ Len(events) \in Nat
  OBVIOUS
<1>1. ASSUME NEW i \in DOMAIN events, IsReport(events[i], k), events[i].sent \in CountsOf(k),
             \A j \in DOMAIN events : j > i => ~IsReport(events[j], k)
      PROVE  LastReport(k)'
  <2>1. /\ i \in DOMAIN events' /\ IsReport(events'[i], k)
        /\ events'[i].sent \in CountsOf(k)'
        /\ \A j \in DOMAIN events' : j > i => ~IsReport(events'[j], k)
    BY <1>0, <1>1
  <2> QED
    BY <2>1 DEF LastReport, IsReport
<1>2. ASSUME \A i \in DOMAIN events : ~IsReport(events[i], k),
             \E row \in Range(table) : row.key = k /\ row.sent \in CountsOf(k)
      PROVE  LastReport(k)'
  <2>1. \A i \in DOMAIN events' : ~IsReport(events'[i], k)
    BY <1>0, <1>2
  <2> QED
    BY <1>2, <2>1 DEF LastReport, IsReport
<1> QED
  BY <1>1, <1>2 DEF LastReport

\* The last report of a key goes from the thread through the queue into the table.
LEMMA ShowingStep == Shape /\ InOrder /\ Showing /\ [Next]_vars => Showing'
<1> SUFFICES ASSUME Shape, InOrder, Showing, [Next]_vars PROVE Showing'
  OBVIOUS
<1>0. /\ run \in Nat /\ events \in Seq(EventType) /\ table \in Seq(RowType) /\ OneRow(table)
      /\ DOMAIN events = 1..Len(events) /\ Len(events) \in Nat
  BY DEF Shape, Showing
<1>1. sent' = sent => \A k : CountsOf(k)' = CountsOf(k)
  BY DEF CountsOf
<1>2. ASSUME NEW t \in Tools, NEW c \in BOOLEAN, NEW valid \in BOOLEAN, Start(t, c, valid)
      PROVE  Showing'
  <2>1. events' = <<>> /\ table' = <<>>
    BY <1>2 DEF Start, InOrder
  <2>2. \A k : CountsOf(k)' = {}
    BY <1>2 DEF Start, CountsOf
  <2> QED
    BY <2>1, <2>2 DEF Showing, OneRow, NoReport, Range
<1>3. ASSUME UNCHANGED <<events, sent, table>> PROVE Showing'
  <2>1. \A k \in Keys : LastReport(k)' = LastReport(k) /\ NoReport(k)' = NoReport(k)
    BY <1>1, <1>3 DEF LastReport, NoReport
  <2> QED
    BY <1>1, <1>3, <2>1 DEF Showing
<1>4. CASE Cancel \/ UNCHANGED vars
  BY <1>3, <1>4 DEF Cancel, vars, taskVars, panelVars
<1>5. CASE Sort
  <2>1. OneRow(table') /\ Range(table') = Range(table) /\ UNCHANGED <<events, sent>>
    BY <1>0, <1>5, Rearranged DEF Sort, taskVars
  <2>2. \A k \in Keys : LastReport(k)' = LastReport(k) /\ NoReport(k)' = NoReport(k)
    BY <1>1, <2>1 DEF LastReport, NoReport
  <2> QED
    BY <1>1, <2>1, <2>2 DEF Showing
<1>6. CASE Deliver
  <2>1. /\ events # <<>> /\ events' = Tail(events) /\ sent' = sent
        /\ Len(events) \in Nat \ {0} /\ Head(events) = events[1] /\ Head(events) \in EventType
        /\ DOMAIN events' = 1..(Len(events) - 1)
        /\ \A i \in 1..(Len(events) - 1) : events'[i] = events[i + 1]
    BY <1>0, <1>6, TailFacts DEF Deliver, taskVars
  <2>2. \A k : CountsOf(k)' = CountsOf(k)
    BY <1>1, <2>1
  <2>3. ASSUME NEW k \in Keys, CountsOf(k)' = {}
        PROVE  NoReport(k) /\ \A i \in DOMAIN events' : ~IsReport(events'[i], k)
    <3>1. NoReport(k)
      BY <2>2, <2>3 DEF Showing
    <3> QED
      BY <1>0, <2>1, <3>1 DEF NoReport
  <2>4. ASSUME NEW k \in Keys, NEW i \in DOMAIN events, i # 1,
               IsReport(events[i], k), events[i].sent \in CountsOf(k),
               \A j \in DOMAIN events : j > i => ~IsReport(events[j], k)
        PROVE  LastReport(k)'
    <3>1. /\ i - 1 \in DOMAIN events' /\ IsReport(events'[i - 1], k)
          /\ events'[i - 1].sent \in CountsOf(k)'
          /\ \A j \in DOMAIN events' : j > i - 1 => ~IsReport(events'[j], k)
      BY <1>0, <2>1, <2>2, <2>4
    <3> QED
      BY <3>1 DEF LastReport, IsReport
  <2>5. ASSUME NEW k \in Keys, \A j \in DOMAIN events : j > 1 => ~IsReport(events[j], k),
               \E row \in Range(table') : row.key = k /\ row.sent \in CountsOf(k)
        PROVE  LastReport(k)'
    <3>1. \A j \in DOMAIN events' : ~IsReport(events'[j], k)
      BY <1>0, <2>1, <2>5
    <3> QED
      BY <2>2, <2>5, <3>1 DEF LastReport, IsReport
  <2>6. CASE Head(events).kind = "progress" /\ Report(Head(events))
    <3>1. Head(events) \in ReportType
      BY <1>0, <2>1, <2>6, Signals
    <3>2. /\ OneRow(table')
          /\ Range(table') = {RowOf(events[1])}
                                \cup {row \in Range(table) : row.key # events[1].key}
      BY <1>0, <2>1, <2>6, <3>1, Reported
    <3>3. /\ RowOf(events[1]).key = events[1].key /\ RowOf(events[1]).sent = events[1].sent
          /\ events[1].kind = "progress" /\ 1 \in DOMAIN events
      BY <1>0, <2>1, <2>6 DEF RowOf
    <3>4. ASSUME NEW k \in Keys, CountsOf(k)' = {} PROVE NoReport(k)'
      <4>1. NoReport(k) /\ events[1].key # k
        BY <2>3, <3>3, <3>4 DEF NoReport, IsReport
      <4>2. \A row \in Range(table') : row.key # k
        BY <3>2, <3>3, <4>1 DEF NoReport
      <4> QED
        BY <2>3, <3>4, <4>2 DEF NoReport, IsReport
    <3>5. ASSUME NEW k \in Keys, CountsOf(k)' # {} PROVE LastReport(k)'
      <4>1. LastReport(k)
        BY <2>2, <3>5 DEF Showing
      <4>2. ASSUME IsReport(events[1], k), events[1].sent \in CountsOf(k),
                   \A j \in DOMAIN events : j > 1 => ~IsReport(events[j], k)
            PROVE  LastReport(k)'
        <5>1. RowOf(events[1]) \in Range(table') /\ RowOf(events[1]).key = k
          BY <3>2, <3>3, <4>2 DEF IsReport
        <5> QED
          BY <2>5, <3>3, <4>2, <5>1
      <4>3. ASSUME \A i \in DOMAIN events : ~IsReport(events[i], k),
                   \E row \in Range(table) : row.key = k /\ row.sent \in CountsOf(k)
            PROVE  LastReport(k)'
        <5>1. events[1].key # k
          BY <3>3, <4>3 DEF IsReport
        <5>2. \E row \in Range(table') : row.key = k /\ row.sent \in CountsOf(k)
          BY <3>2, <4>3, <5>1
        <5> QED
          BY <2>5, <4>3, <5>2
      <4> QED
        BY <2>4, <4>1, <4>2, <4>3 DEF LastReport
    <3> QED
      BY <3>2, <3>4, <3>5 DEF Showing
  <2>7. CASE Head(events).kind # "progress" /\ UNCHANGED table
    <3>1. ASSUME NEW k \in Keys, CountsOf(k)' # {} PROVE LastReport(k)'
      <4>1. LastReport(k) /\ ~IsReport(events[1], k)
        BY <2>1, <2>2, <2>7, <3>1 DEF Showing, IsReport
      <4> QED
        BY <2>4, <2>5, <2>7, <4>1 DEF LastReport
    <3>2. ASSUME NEW k \in Keys, CountsOf(k)' = {} PROVE NoReport(k)'
      BY <2>3, <2>7, <3>2 DEF NoReport, IsReport
    <3> QED
      BY <1>0, <2>7, <3>1, <3>2 DEF Showing
  <2> QED
    BY <1>6, <2>6, <2>7 DEF Deliver, panelVars
<1>7. CASE Job
  <2>1. table' = table /\ sent' = sent
    BY <1>7, JobSteps DEF taskVars, panelVars
  <2>2. CASE UNCHANGED events
    BY <1>3, <2>1, <2>2
  <2>3. ASSUME NEW kind \in {"result", "error"}, events' = events \o Outcome(kind)
        PROVE  Showing'
    <3>1. /\ DOMAIN events' = 1..(Len(events) + 2)
          /\ \A i \in 1..Len(events) : events'[i] = events[i]
          /\ events'[Len(events) + 1].kind = kind /\ events'[Len(events) + 2].kind = "finished"
      BY <1>0, <2>3, EmitTwo, Signals DEF Outcome
    <3>2. \A i \in 1..(Len(events) + 2) : i > Len(events) => events'[i].kind # "progress"
      BY <1>0, <3>1
    <3>3. ASSUME NEW k \in Keys, CountsOf(k)' = {} PROVE NoReport(k)'
      <4>1. NoReport(k)
        BY <1>1, <2>1, <3>3 DEF Showing
      <4>2. \A i \in DOMAIN events' : ~IsReport(events'[i], k)
        BY <1>0, <3>1, <3>2, <4>1 DEF NoReport, IsReport
      <4> QED
        BY <2>1, <4>1, <4>2 DEF NoReport, IsReport
    <3>4. ASSUME NEW k \in Keys, CountsOf(k)' # {} PROVE LastReport(k)'
      <4>1. LastReport(k) /\ CountsOf(k)' = CountsOf(k)
        BY <1>1, <2>1, <3>4 DEF Showing
      <4>2. \A i \in 1..(Len(events) + 2) : i > Len(events) => ~IsReport(events'[i], k)
        BY <3>2 DEF IsReport
      <4>3. Len(events) + 2 \in Nat /\ Len(events) + 2 >= Len(events)
        BY <1>0
      <4> QED
        BY <1>0, <2>1, <3>1, <4>1, <4>2, <4>3, LastStays
    <3> QED
      BY <1>0, <2>1, <3>3, <3>4 DEF Showing
  <2> QED
    BY <1>7, <2>2, <2>3, JobSteps
<1>8. ASSUME NEW e \in Entries, Thread(e) PROVE Showing'
  <2>1. table' = table
    BY <1>8, ThreadSteps DEF panelVars
  <2>2. CASE UNCHANGED <<sent, events>>
    BY <1>3, <2>1, <2>2
  <2>3. ASSUME NEW n \in Nat \ {0},
               sent' = [sent EXCEPT ![e] = n], events' = events \o <<Progress(e, n)>>
        PROVE  Showing'
    <3>1. /\ Progress(e, n) \in EventType /\ Key[e] \in Keys
          /\ Progress(e, n).kind = "progress" /\ Progress(e, n).key = Key[e]
          /\ Progress(e, n).sent = n
      BY <1>0, Signals DEF Progress, Keys
    <3>2. /\ DOMAIN events' = 1..(Len(events) + 1)
          /\ \A i \in 1..Len(events) : events'[i] = events[i]
          /\ events'[Len(events) + 1] = Progress(e, n)
      BY <1>0, <2>3, <3>1, EmitFacts
    <3>3. /\ sent \in [Entries -> Nat] /\ sent'[e] = n /\ n # 0
          /\ \A f \in Entries \ {e} : sent'[f] = sent[f]
      BY <2>3 DEF Shape
    <3>4. n \in CountsOf(Key[e])'
      BY <3>3 DEF CountsOf
    <3>5. \A k : k # Key[e] => CountsOf(k)' = CountsOf(k)
      BY <3>3 DEF CountsOf
    <3>6. ASSUME NEW k \in Keys, CountsOf(k)' = {} PROVE NoReport(k)'
      <4>1. k # Key[e] /\ CountsOf(k) = {}
        BY <3>4, <3>5, <3>6
      <4>2. NoReport(k)
        BY <4>1 DEF Showing
      <4>3. \A i \in DOMAIN events' : ~IsReport(events'[i], k)
        BY <1>0, <3>1, <3>2, <4>1, <4>2 DEF NoReport, IsReport
      <4> QED
        BY <2>1, <4>2, <4>3 DEF NoReport, IsReport
    <3>7. ASSUME NEW k \in Keys, CountsOf(k)' # {} PROVE LastReport(k)'
      <4>1. CASE k = Key[e]
        <5>1. /\ Len(events) + 1 \in DOMAIN events' /\ IsReport(events'[Len(events) + 1], k)
              /\ events'[Len(events) + 1].sent \in CountsOf(k)'
              /\ \A j \in DOMAIN events' : ~(j > Len(events) + 1)
          BY <1>0, <3>1, <3>2, <3>4, <4>1 DEF IsReport
        <5> QED
          BY <5>1 DEF LastReport, IsReport
      <4>2. CASE k # Key[e]
        <5>1. CountsOf(k)' = CountsOf(k) /\ LastReport(k)
          BY <3>5, <3>7, <4>2 DEF Showing
        <5>2. \A i \in 1..(Len(events) + 1) : i > Len(events) => ~IsReport(events'[i], k)
          BY <1>0, <3>1, <3>2, <4>2 DEF IsReport
        <5>3. Len(events) + 1 \in Nat /\ Len(events) + 1 >= Len(events)
          BY <1>0
        <5> QED
          BY <1>0, <2>1, <3>2, <5>1, <5>2, <5>3, LastStays
      <4> QED
        BY <4>1, <4>2
    <3> QED
      BY <1>0, <2>1, <3>6, <3>7 DEF Showing
  <2> QED
    BY <1>8, <2>2, <2>3, ThreadSteps
<1> QED
  BY <1>2, <1>4, <1>5, <1>6, <1>7, <1>8 DEF Next

\* The invariant holds before the first run.
LEMMA IInvInit == Init => IInv
<1> SUFFICES ASSUME Init PROVE IInv
  OBVIOUS
<1>1. events = <<>> /\ table = <<>> /\ <<>> \in Seq(EventType) /\ <<>> \in Seq(RowType)
  BY DEF Init
<1>2. Shape
  BY <1>1 DEF Init, Shape, Tools, Phases
<1>3. \A k : CountsOf(k) = {}
  BY DEF Init, CountsOf
<1>4. OfRun /\ Showing
  BY <1>1, <1>3 DEF OfRun, Showing, OneRow, NoReport, Range
<1>5. InOrder
  BY DEF Init, InOrder, Waiting
<1> QED
  BY <1>2, <1>4, <1>5 DEF IInv

-----------------------------------------------------------------------------
(* The theorems *)

\* The inductive invariant holds in every reachable state.
THEOREM Invariance == Spec => []IInv
<1>1. IInv /\ [Next]_vars => IInv'
  <2>1. IInv => OneRow(table)
    BY DEF IInv, Showing
  <2> QED
    BY <2>1, ShapeStep, OfRunStep, InOrderStep, ShowingStep DEF IInv
<1> QED
  BY <1>1, IInvInit, PTL DEF Spec

\* A row is never of an earlier run: NoOldRow.
THEOREM RowsAreOfTheRun == Spec => []NoOldRow
<1>1. IInv => NoOldRow
  BY DEF IInv, OfRun, Range, NoOldRow
<1> QED
  BY <1>1, Invariance, PTL

\* The table and the results show the outcome of a run that is over: TableShowsOutcome.
THEOREM OutcomeIsShown == Spec => []TableShowsOutcome
<1>1. IInv => TableShowsOutcome
  <2> SUFFICES ASSUME Shape, InOrder, Showing, ~busy PROVE TableShowsOutcome
    BY DEF IInv, TableShowsOutcome
  <2>1. events = <<>>
    BY DEF InOrder
  <2>2. ASSUME NEW k \in Keys
        PROVE  /\ (CountsOf(k) = {}) = ({r \in DOMAIN table : table[r].key = k} = {})
               /\ \A r, q \in {r \in DOMAIN table : table[r].key = k} :
                    r = q /\ table[r].sent \in CountsOf(k)
    <3>1. \A r \in DOMAIN table : table[r].key = k => CountsOf(k) # {}
      BY DEF Showing, NoReport, Range
    <3>2. ASSUME CountsOf(k) # {}
          PROVE  \E r \in DOMAIN table : table[r].key = k /\ table[r].sent \in CountsOf(k)
      <4>1. \E row \in Range(table) : row.key = k /\ row.sent \in CountsOf(k)
        BY <2>1, <3>2 DEF Showing, LastReport
      <4> QED
        BY <4>1 DEF Range
    <3>3. \A r, q \in DOMAIN table : table[r].key = k /\ table[q].key = k => r = q
      BY DEF Showing, OneRow
    <3> QED
      BY <3>1, <3>2, <3>3
  <2>3. results # NoResult =>
          \A e \in Entries :
            /\ task[e] = "done"
            /\ tool # "tcping" \/ summary[e] = 0 => results[e] = sent[e]
    BY DEF InOrder, AllDone, Shape, Final
  <2> QED
    BY <2>2, <2>3 DEF TableShowsOutcome, CountsOf
<1> QED
  BY <1>1, Invariance, PTL

=============================================================================
