------------------------ MODULE StreamingCommandProofs ------------------------
(***************************************************************************)
(* Proofs about a console command that is followed line by line: what the  *)
(* process wrote is in the output, in the queue and in the pipe, in this   *)
(* order, whatever the bounds; so when the loop has seen the sentinel and  *)
(* the end of the process the output is complete.  Then the same inside a  *)
(* panel: its pane and its queue show the output of the run that goes on.  *)
(***************************************************************************)
EXTENDS ConsolePanel, SequenceTheorems, FiniteSetTheorems, TLAPS

-----------------------------------------------------------------------------
(* Sequences *)

\* A line put at the end of the pipe is at the end of what was written.
LEMMA PutAtEnd ==
  ASSUME NEW S, NEW s \in Seq(S), NEW t \in Seq(S), NEW e \in S
  PROVE  s \o Append(t, e) = Append(s \o t, e) /\ s \o t \in Seq(S)
<1>1. Append(t, e) = t \o <<e>> /\ Append(s \o t, e) = (s \o t) \o <<e>>
  BY AppendIsConcat, ConcatProperties
<1>2. <<e>> \in Seq(S)
  OBVIOUS
<1> QED
  BY <1>1, <1>2, ConcatAssociative, ConcatProperties

\* A line moved from the head of one buffer to the end of the one before keeps its place.
LEMMA MoveOne ==
  ASSUME NEW S, NEW s \in Seq(S), NEW t \in Seq(S), t # <<>>
  PROVE  Append(s, Head(t)) \o Tail(t) = s \o t
<1>1. Head(t) \in S /\ Tail(t) \in Seq(S) /\ <<Head(t)>> \in Seq(S)
  BY HeadTailProperties
<1>2. Append(s, Head(t)) = s \o <<Head(t)>>
  BY <1>1, AppendIsConcat
<1>3. <<Head(t)>> \o Tail(t) = t
  <2>1. /\ Len(Tail(t)) = Len(t) - 1 /\ Len(t) \in Nat \ {0}
        /\ \A i \in 1..Len(Tail(t)) : Tail(t)[i] = t[i + 1]
    BY HeadTailProperties, EmptySeq
  <2>2. /\ <<Head(t)>> \o Tail(t) \in Seq(S)
        /\ Len(<<Head(t)>> \o Tail(t)) = Len(t)
        /\ \A i \in 1..Len(t) : (<<Head(t)>> \o Tail(t))[i] =
             IF i <= 1 THEN <<Head(t)>>[i] ELSE Tail(t)[i - 1]
    BY <1>1, <2>1, ConcatProperties
  <2>3. \A i \in 1..Len(t) : (<<Head(t)>> \o Tail(t))[i] = t[i]
    BY <2>1, <2>2
  <2> QED
    BY <2>2, <2>3, SeqEqual
<1>4. (s \o <<Head(t)>>) \o Tail(t) = s \o (<<Head(t)>> \o Tail(t))
  BY <1>1, ConcatAssociative
<1> QED
  BY <1>2, <1>3, <1>4

\* The same with what is behind: the queue is followed by the pipe.
LEMMA MoveAcross ==
  ASSUME NEW S, NEW s \in Seq(S), NEW t \in Seq(S), NEW u \in Seq(S), t # <<>>
  PROVE  Append(s, Head(t)) \o (Tail(t) \o u) = s \o (t \o u)
<1>1. Tail(t) \in Seq(S) /\ Append(s, Head(t)) \in Seq(S)
  BY HeadTailProperties, AppendProperties
<1>2. Append(s, Head(t)) \o (Tail(t) \o u) = (Append(s, Head(t)) \o Tail(t)) \o u
  BY <1>1, ConcatAssociative, SMTT(30)
<1>3. Append(s, Head(t)) \o Tail(t) = s \o t
  BY MoveOne
<1>4. (s \o t) \o u = s \o (t \o u)
  BY ConcatAssociative
<1> QED
  BY <1>2, <1>3, <1>4

\* Taking the head of a queue that ends with one more item.
LEMMA TakeHead ==
  ASSUME NEW S, NEW q \in Seq(S), NEW e
  PROVE  /\ Append(q, e) # <<>>
         /\ q = <<>> => Head(Append(q, e)) = e /\ Tail(Append(q, e)) = <<>>
         /\ q # <<>> => Head(Append(q, e)) = Head(q) /\ Tail(Append(q, e)) = Append(Tail(q), e)
OBVIOUS

-----------------------------------------------------------------------------
(* Counting *)

ProbesOf(s) == {i \in DOMAIN s : IsProbe(s[i])}

\* A count of probes is a number.
LEMMA ProbesCount ==
  ASSUME NEW s \in Seq(Lines)
  PROVE  IsFiniteSet(ProbesOf(s)) /\ Probes(s) = Cardinality(ProbesOf(s)) /\ Probes(s) \in Nat
<1>1. IsFiniteSet(1..Len(s)) /\ ProbesOf(s) \subseteq 1..Len(s)
  BY FS_Interval DEF ProbesOf
<1>2. IsFiniteSet(ProbesOf(s))
  BY <1>1, FS_Subset
<1> QED
  BY <1>2, FS_CardinalityType DEF Probes, ProbesOf

\* A line more is at most a probe more.
LEMMA ProbesAppend ==
  ASSUME NEW s \in Seq(Lines), NEW e \in Lines
  PROVE  Probes(Append(s, e)) = IF IsProbe(e) THEN Probes(s) + 1 ELSE Probes(s)
<1>1. PICK t \in Seq(Lines) : t = Append(s, e)
  BY AppendProperties
<1>2. PICK n \in Nat : n = Len(s) + 1
  OBVIOUS
<1>3. DOMAIN t = 1..n /\ DOMAIN s = 1..(n - 1) /\ t[n] = e /\ \A i \in 1..(n - 1) : t[i] = s[i]
  BY <1>1, <1>2
<1>4. n \notin ProbesOf(s)
  BY <1>2, <1>3 DEF ProbesOf
<1>5. ProbesOf(t) = IF IsProbe(e) THEN ProbesOf(s) \cup {n} ELSE ProbesOf(s)
  <2>1. \A i \in 1..n : i = n \/ i \in 1..(n - 1)
    BY <1>2
  <2>2. n \in 1..n /\ \A i \in 1..(n - 1) : i \in 1..n
    BY <1>2
  <2> QED
    BY <1>3, <2>1, <2>2 DEF ProbesOf
<1>6. Cardinality(ProbesOf(s) \cup {n}) = Cardinality(ProbesOf(s)) + 1
  BY <1>4, ProbesCount, FS_AddElement
<1> QED
  BY <1>1, <1>5, <1>6, ProbesCount

\* The whole has as many probes as its beginning or more.
LEMMA ProbesPrefix ==
  ASSUME NEW s \in Seq(Lines), NEW t \in Seq(Lines)
  PROVE  Probes(s) <= Probes(s \o t)
<1>1. PICK u \in Seq(Lines) : u = s \o t
  BY ConcatProperties
<1>2. \A i \in 1..Len(s) : i \in 1..Len(u) /\ u[i] = s[i]
  BY <1>1
<1>3. ProbesOf(s) \subseteq ProbesOf(u)
  BY <1>2 DEF ProbesOf
<1>4. Cardinality(ProbesOf(s)) <= Cardinality(ProbesOf(u))
  BY <1>3, ProbesCount, FS_Subset
<1> QED
  BY <1>1, <1>4, ProbesCount

-----------------------------------------------------------------------------
(* Type correctness *)

\* The initial state is typed.
LEMMA TypeInit == Init => TypeOK
<1> SUFFICES ASSUME Init PROVE TypeOK
  OBVIOUS
<1>1. continuous \in BOOLEAN
  BY DEF Init
<1>2. <<>> \in Seq(Lines) /\ <<>> \in Seq(Lines \cup {Sentinel})
  OBVIOUS
<1> QED
  BY <1>1, <1>2 DEF Init, TypeOK

\* Every step keeps the types.
LEMMA TypeStep == TypeOK /\ [Next]_vars => TypeOK'
<1> SUFFICES ASSUME TypeOK, [Next]_vars PROVE TypeOK'
  OBVIOUS
<1> USE DEF TypeOK, args, ioVars
<1>1. ASSUME NEW line \in Lines, Write(line) PROVE TypeOK'
  BY <1>1 DEF Write
<1>2. CASE ProcessGone \/ Deadline \/ SetCancel
  BY <1>2 DEF ProcessGone, Deadline, SetCancel
<1>3. CASE ReadLine
  BY <1>3 DEF ReadLine
<1>4. CASE ReadEnd
  BY <1>4 DEF ReadEnd
<1>5. CASE Check
  BY <1>5 DEF Check, LoopTo, Killed
<1>6. CASE Get
  <2>1. queue # <<>> /\ Head(queue) \in Lines \cup {Sentinel} /\ Tail(queue) \in Seq(Lines \cup {Sentinel})
    BY <1>6 DEF Get
  <2>2. CASE IsEnd(Head(queue))
    BY <1>6, <2>1, <2>2 DEF Get, LoopTo
  <2>3. CASE ~IsEnd(Head(queue))
    <3>1. Head(queue) \in Lines
      BY <2>1, <2>3 DEF IsEnd
    <3> QED
      <4>1. output' = Append(output, Head(queue)) /\ output' \in Seq(Lines)
        <5>1. output \in Seq(Lines) /\ output' = Append(output, Head(queue))
          BY <1>6, <2>3 DEF Get
        <5> QED
          BY <3>1, <5>1
      <4>2. pc' \in {"check", "counted"}
        BY <1>6, <2>3 DEF Get, LoopTo
      <4> QED
        BY <1>6, <2>1, <2>3, <4>1, <4>2 DEF Get, LoopTo
  <2> QED
    BY <2>2, <2>3
<1>7. CASE GetEmpty \/ Poll \/ Counted
  BY <1>7 DEF GetEmpty, Poll, Counted, LoopTo
<1>8. CASE Return
  BY <1>8 DEF Return, LoopTo, Killed
<1>9. CASE UNCHANGED vars
  BY <1>9 DEF vars
<1> QED
  BY <1>1, <1>2, <1>3, <1>4, <1>5, <1>6, <1>7, <1>8, <1>9 DEF Next, Loop

\* Every variable keeps its type: TypeOK of StreamingCommand.
THEOREM TypeCorrect == Spec => []TypeOK
BY TypeInit, TypeStep, PTL DEF Spec

-----------------------------------------------------------------------------
(* No line is lost *)

\* The lines of the queue are q; the sentinel comes after them, once the pipe is
\* at its end and the process gone, and until the loop has taken it.
FlowOf(q) ==
  /\ output \o (q \o pipe) = written
  /\ queue = IF reader = "gone" /\ ~finished THEN Append(q, Sentinel) ELSE q
  /\ reader = "gone" => pipe = <<>> /\ proc = "gone"
  /\ finished => reader = "gone" /\ q = <<>>

Flow == \E q \in Seq(Lines) : FlowOf(q)

\* Only a ping leaves the loop before the sentinel was taken
Left ==
  /\ pc = "counted" => caller = "ping"
  /\ pc = "poll" => finished
  /\ pc = "ended" \/ result = "ended" => finished \/ caller = "ping"
  /\ pc = "ended" => proc = "gone"
  /\ pc \in {"stopped", "expired"} => proc # "running"
  /\ result # "none" => proc # "running" /\ pc = "returned"

\* A ping that is left early has counted all the probes it was asked for, and the process
\* has no more of them to print.
Counting ==
  /\ caller # "command" /\ ~continuous => Probes(written) <= Count
  /\ (pc = "ended" \/ result = "ended") /\ ~finished => ~continuous /\ Enough

IInv == TypeOK /\ Flow /\ Left /\ Counting

\* The invariant is about nothing but these variables.
LEMMA FlowQuiet ==
  ASSUME Flow, UNCHANGED <<written, pipe, reader, queue, finished, output>>, proc = "gone" => proc' = "gone"
  PROVE  Flow'
BY DEF Flow, FlowOf

\* Every step keeps what is known of the process once the call has returned.
LEMMA LeftStep == TypeOK /\ Left /\ [Next]_vars => Left'
<1> SUFFICES ASSUME TypeOK, Left, [Next]_vars PROVE Left'
  OBVIOUS
<1> USE DEF Left, args, ioVars
<1>1. CASE (\E line \in Lines : Write(line)) \/ ReadLine \/ ReadEnd
  BY <1>1 DEF Write, ReadLine, ReadEnd
<1>2. CASE ProcessGone \/ Deadline \/ SetCancel
  BY <1>2 DEF ProcessGone, Deadline, SetCancel
<1>3. CASE Check
  BY <1>3 DEF Check, LoopTo, Killed
<1>4. CASE Get
  BY <1>4 DEF Get, LoopTo
<1>5. CASE GetEmpty \/ Poll \/ Counted
  BY <1>5 DEF GetEmpty, Poll, Counted, LoopTo, PollOnEmpty
<1>6. CASE Return
  BY <1>6 DEF Return, LoopTo, Killed, TypeOK
<1>7. CASE UNCHANGED vars
  BY <1>7 DEF vars
<1> QED
  BY <1>1, <1>2, <1>3, <1>4, <1>5, <1>6, <1>7 DEF Next, Loop

\* Every step keeps what is known of the probes.
LEMMA CountingStep == TypeOK /\ Left /\ Flow /\ Counting /\ [Next]_vars => Counting'
<1> SUFFICES ASSUME TypeOK, Left, Flow, Counting, [Next]_vars PROVE Counting'
  OBVIOUS
<1> USE DEF Counting, Enough, args, ioVars
<1>1. ASSUME NEW line \in Lines, Write(line) PROVE Counting'
  <2>1. /\ written' = Append(written, line) /\ UNCHANGED <<caller, continuous, pc, result, finished, output>>
        /\ caller # "command" /\ ~continuous /\ line = "probe" => Probes(written) < Count
        /\ written \in Seq(Lines)
    BY <1>1 DEF Write, TypeOK
  <2>2. PICK a \in Nat, b \in Nat : a = Probes(written) /\ b = Probes(written')
    <3>1. Append(written, line) \in Seq(Lines)
      BY <2>1, AppendProperties
    <3> QED
      BY <2>1, <3>1, ProbesCount
  <2>3. b = IF line = "probe" THEN a + 1 ELSE a
    BY <2>1, <2>2, ProbesAppend DEF IsProbe
  <2>4. caller # "command" /\ ~continuous => b <= Count
    <3>1. caller # "command" /\ ~continuous => a <= Count /\ (line = "probe" => a < Count)
      BY <2>1, <2>2
    <3> QED
      BY <2>2, <2>3, <3>1, CommandAssumption
  <2> QED
    BY <2>1, <2>2, <2>4
<1>2. CASE ProcessGone \/ Deadline \/ SetCancel \/ ReadLine \/ ReadEnd
  BY <1>2 DEF ProcessGone, Deadline, SetCancel, ReadLine, ReadEnd
<1>3. CASE Check \/ GetEmpty
  BY <1>3 DEF Check, GetEmpty, LoopTo, Left
<1>4. CASE Get
  <2>1. pc' # "ended" /\ result # "ended" /\ result' = result /\ UNCHANGED <<written, caller, continuous>>
    BY <1>4 DEF Get, LoopTo, Left
  <2> QED
    BY <2>1
<1>5. CASE Poll
  BY <1>5 DEF Poll, LoopTo, Left
<1>6. CASE Counted
  BY <1>6 DEF Counted, LoopTo, Left
<1>7. CASE Return
  BY <1>7 DEF Return, LoopTo, Left
<1>8. CASE UNCHANGED vars
  BY <1>8 DEF vars
<1> QED
  BY <1>1, <1>2, <1>3, <1>4, <1>5, <1>6, <1>7, <1>8 DEF Next, Loop

\* Every step keeps the lines in order on their way from the process to the caller.
LEMMA FlowStep == TypeOK /\ Flow /\ [Next]_vars => Flow'
<1> SUFFICES ASSUME TypeOK, NEW q \in Seq(Lines), FlowOf(q), [Next]_vars PROVE Flow'
  BY DEF Flow
<1>1. /\ output \in Seq(Lines) /\ pipe \in Seq(Lines) /\ written \in Seq(Lines)
      /\ finished \in BOOLEAN /\ reader \in {"reading", "gone"} /\ Sentinel \notin Lines
  BY DEF TypeOK, Sentinel, Lines
<1>2. Flow
  BY DEF Flow
<1>3. ASSUME NEW line \in Lines, Write(line) PROVE Flow'
  <2>1. output \o (q \o Append(pipe, line)) = Append(output \o (q \o pipe), line)
    <3>1. q \o Append(pipe, line) = Append(q \o pipe, line) /\ q \o pipe \in Seq(Lines)
      BY <1>1, PutAtEnd
    <3>2. output \o Append(q \o pipe, line) = Append(output \o (q \o pipe), line)
      BY <1>1, <3>1, PutAtEnd
    <3> QED
      BY <3>1, <3>2
  <2>2. FlowOf(q)'
    BY <1>3, <2>1 DEF FlowOf, Write
  <2> QED
    BY <2>2 DEF Flow
<1>4. CASE ReadLine
  <2>1. Head(pipe) \in Lines /\ Append(q, Head(pipe)) \in Seq(Lines)
    BY <1>1, <1>4 DEF ReadLine
  <2>2. Append(q, Head(pipe)) \o Tail(pipe) = q \o pipe
    BY <1>1, <1>4, MoveOne DEF ReadLine
  <2>3. reader # "gone" /\ ~finished
    BY <1>4 DEF ReadLine, FlowOf
  <2>4. /\ queue' = Append(queue, Head(pipe)) /\ pipe' = Tail(pipe)
        /\ UNCHANGED <<output, written, reader, finished>>
    BY <1>4 DEF ReadLine
  <2>5. queue' = Append(q, Head(pipe))
    BY <2>3, <2>4 DEF FlowOf
  <2>6. PICK r \in Seq(Lines) : r = Append(q, Head(pipe))
    BY <2>1
  <2>7. FlowOf(r)'
    BY <2>2, <2>3, <2>4, <2>5, <2>6 DEF FlowOf
  <2> QED
    BY <2>7 DEF Flow
<1>5. CASE ReadEnd
  <2>1. FlowOf(q)'
    BY <1>5 DEF FlowOf, ReadEnd, EndOfFile
  <2> QED
    BY <2>1 DEF Flow
<1>6. CASE Get
  <2>1. CASE IsEnd(Head(queue))
    <3>1. reader = "gone" /\ ~finished /\ q = <<>>
      <4>1. Head(queue) \notin Lines /\ queue # <<>>
        BY <1>1, <1>6, <2>1 DEF Get, IsEnd
      <4>2. q # <<>> => Head(q) \in Lines
        OBVIOUS
      <4>3. queue # q
        BY <4>1, <4>2
      <4>4. queue = Append(q, Sentinel) /\ reader = "gone" /\ ~finished
        BY <4>3 DEF FlowOf
      <4> QED
        BY <4>1, <4>2, <4>4, TakeHead
    <3>2. Tail(queue) = <<>>
      BY <3>1, TakeHead DEF FlowOf
    <3>3. FlowOf(q)'
      BY <1>6, <2>1, <3>1, <3>2 DEF FlowOf, Get, LoopTo
    <3> QED
      BY <3>3 DEF Flow
  <2>2. CASE ~IsEnd(Head(queue))
    <3>1. q # <<>>
      <4> SUFFICES ASSUME q = <<>> PROVE FALSE
        OBVIOUS
      <4>1. queue = Append(q, Sentinel)
        BY <1>6 DEF FlowOf, Get
      <4> QED
        BY <2>2, <4>1, TakeHead DEF IsEnd
    <3>2. Head(q) \in Lines /\ Tail(q) \in Seq(Lines)
      BY <3>1
    <3>3. Head(queue) = Head(q) /\ Tail(queue) = IF reader = "gone" /\ ~finished THEN Append(Tail(q), Sentinel) ELSE Tail(q)
      BY <3>1, TakeHead DEF FlowOf
    <3>4. Append(output, Head(q)) \o (Tail(q) \o pipe) = output \o (q \o pipe)
      BY <1>1, <3>1, MoveAcross, SMTT(30)
    <3>5. ~finished
      BY <3>1 DEF FlowOf
    <3>6. /\ output' = Append(output, Head(q)) /\ queue' = Tail(queue)
          /\ UNCHANGED <<written, pipe, reader, finished, proc>>
      BY <1>6, <2>2, <3>3 DEF Get, LoopTo
    <3>7. FlowOf(Tail(q))'
      BY <3>3, <3>4, <3>5, <3>6 DEF FlowOf
    <3> QED
      BY <3>2, <3>7 DEF Flow
  <2> QED
    BY <2>1, <2>2
<1>7. CASE ProcessGone \/ Deadline \/ SetCancel
  BY <1>2, <1>7, FlowQuiet DEF ProcessGone, Deadline, SetCancel, ioVars
<1>8. CASE Check \/ GetEmpty \/ Poll \/ Counted \/ Return
  BY <1>2, <1>8, FlowQuiet DEF Check, GetEmpty, Poll, Counted, Return, LoopTo, Killed
<1>9. CASE UNCHANGED vars
  BY <1>2, <1>9, FlowQuiet DEF vars
<1> QED
  BY <1>3, <1>4, <1>5, <1>6, <1>7, <1>8, <1>9 DEF Next, Loop

\* The inductive invariant holds when the call starts.
LEMMA IInvInit == Init => IInv
<1> SUFFICES ASSUME Init PROVE IInv
  OBVIOUS
<1>1. FlowOf(<<>>)
  BY DEF Init, FlowOf
<1>2. <<>> \in Seq(Lines)
  OBVIOUS
<1>3. Probes(<<>>) = 0
  <2>1. ProbesOf(<<>>) = {}
    BY DEF ProbesOf
  <2> QED
    BY <2>1, <1>2, ProbesCount, FS_EmptySet
<1>4. Counting
  BY <1>3, CommandAssumption DEF Init, Counting
<1> QED
  BY <1>1, <1>2, <1>4, TypeInit DEF Init, IInv, Flow, Left

\* Every step of the call keeps it.
LEMMA IInvStep == IInv /\ [Next]_vars => IInv'
BY TypeStep, FlowStep, LeftStep, CountingStep DEF IInv

\* Everything written is accounted for, and only a ping leaves the loop without the
\* sentinel: the inductive invariant.
THEOREM Invariance == Spec => []IInv
BY IInvInit, IInvStep, PTL DEF Spec

\* What the invariant says of a call that has returned.
LEMMA CallTellsAll == IInv => NothingLost /\ EveryProbeCounted /\ ProcessStopped
<1>1. IInv => NothingLost
  <2> SUFFICES ASSUME IInv, result = "ended", caller # "ping" PROVE output = written
    BY DEF NothingLost
  <2>1. PICK q \in Seq(Lines) : FlowOf(q)
    BY DEF IInv, Flow
  <2>2. finished
    BY DEF IInv, Left
  <2>3. q = <<>> /\ pipe = <<>> /\ output \o (<<>> \o <<>>) = written
    BY <2>1, <2>2 DEF FlowOf
  <2>4. output \in Seq(Lines)
    BY DEF IInv, TypeOK
  <2> QED
    BY <2>3, <2>4, ConcatEmptySeq, EmptySeq
<1>2. IInv => EveryProbeCounted
  <2> SUFFICES ASSUME IInv, result = "ended" PROVE Probes(output) = Probes(written)
    BY DEF EveryProbeCounted
  <2>1. CASE caller # "ping"
    BY <1>1, <2>1 DEF NothingLost
  <2>2. CASE finished
    <3>1. PICK q \in Seq(Lines) : FlowOf(q)
      BY DEF IInv, Flow
    <3>2. q = <<>> /\ pipe = <<>> /\ output \o (<<>> \o <<>>) = written
      BY <2>2, <3>1 DEF FlowOf
    <3>3. output \in Seq(Lines)
      BY DEF IInv, TypeOK
    <3>4. output = written
      BY <3>2, <3>3, ConcatEmptySeq, EmptySeq
    <3> QED
      BY <3>4
  <2>3. CASE caller = "ping" /\ ~finished
    <3>1. PICK q \in Seq(Lines) : output \o (q \o pipe) = written
      BY DEF IInv, Flow, FlowOf
    <3>2. output \in Seq(Lines) /\ pipe \in Seq(Lines) /\ written \in Seq(Lines)
      BY DEF IInv, TypeOK
    <3>3. q \o pipe \in Seq(Lines)
      BY <3>2, ConcatProperties
    <3>4. Probes(output) <= Probes(written)
      BY <3>1, <3>2, <3>3, ProbesPrefix
    <3>5. Probes(written) <= Count /\ Probes(output) >= Count
      BY <2>3 DEF IInv, Counting, Enough
    <3>6. PICK a \in Nat, b \in Nat : a = Probes(output) /\ b = Probes(written)
      BY <3>2, ProbesCount
    <3>7. a = b
      BY <3>4, <3>5, <3>6, CommandAssumption
    <3> QED
      BY <3>6, <3>7
  <2> QED
    BY <2>1, <2>2, <2>3
<1>3. IInv => ProcessStopped
  BY DEF IInv, Left, ProcessStopped
<1> QED
  BY <1>1, <1>2, <1>3

\* The result of tracert, pathping, iperf3, winget and tcping has every line the
\* process wrote, in order: NothingLost, for any number of lines.
THEOREM NothingIsLost == Spec => []NothingLost
BY CallTellsAll, Invariance, PTL

\* Whatever a call returns or raises, its process has ended or was killed:
\* ProcessStopped.
THEOREM NoProcessIsLeft == Spec => []ProcessStopped
BY CallTellsAll, Invariance, PTL

\* A ping whose loop is left early has still counted every probe it printed:
\* EveryProbeCounted, for any count and any lines between the probes.
THEOREM ProbesAreCounted == Spec => []EveryProbeCounted
BY CallTellsAll, Invariance, PTL

-----------------------------------------------------------------------------
(* The panels: the call inside a background job, its signals in one queue *)

OfRun   == {"line", "result", "error", "finished"}   \* what the job of a run posts
Entries == [what : OfRun \cup {"list", "nothing"}, run : Nat, line : Lines]

PanelShape ==
  /\ panel \in {"iperf", "trace", "none"} /\ job \in {"none", "test", "install", "trace"}
  /\ {begun, returned, running, fetching, disk, available, changed} \subseteq BOOLEAN
  /\ runs \in Nat
  /\ pane \in Seq(Entries) /\ events \in Seq(Entries)
  /\ panel # "none" => caller = "command"

\* The signals of a job are those of the run that goes on; behind "finished" it posts no
\* more, and the buttons are back only when that was delivered.
Posted(q, run, on, ret) ==
  /\ \A i \in DOMAIN q : q[i].what \in OfRun => q[i].run = run /\ on
  /\ \A i \in DOMAIN q : q[i].what = "finished" =>
       /\ ret
       /\ \A j \in DOMAIN q : j > i => q[j].what \notin OfRun

\* Nothing is left of the run before.
NoCall ==
  /\ panel # "none" /\ proc = "gone" /\ reader = "gone" /\ finished
  /\ written = <<>> /\ pipe = <<>> /\ queue = <<>> /\ output = <<>>

Posting ==
  /\ Posted(events, runs, running, returned)
  /\ ~running => returned
  /\ panel # "none" /\ (returned \/ ~begun) => pc = "returned"
  /\ ~begun => ~returned /\ NoCall

\* The pane is of the run, and with the queue it shows the output.
Truth ==
  panel # "none" /\ (\A i \in DOMAIN pane : pane[i].what # "nothing") =>
    /\ Shows(pane \o events, output)
    /\ \A i \in DOMAIN pane : pane[i].run = runs

\* Only an installation from this panel brings iperf3 to the disk.
Found ==
  /\ panel # "iperf" => ~disk /\ ~available /\ job # "install"
  /\ ~running /\ ~changed => available = disk

PanelInv == IInv /\ PanelShape /\ Posting /\ Truth /\ Found

-----------------------------------------------------------------------------
(* What the pane and the queue show *)

\* These places show the lines.
ShownAt(s, lines, place) ==
  /\ place \in [DOMAIN lines -> DOMAIN s]
  /\ \A k, l \in DOMAIN lines : k < l => place[k] < place[l]
  /\ \A i \in DOMAIN s : IsLine(s[i]) <=> \E k \in DOMAIN lines : place[k] = i
  /\ \A k \in DOMAIN lines : s[place[k]].line = lines[k]

\* A line put at the end of both is shown.
LEMMA ShowsLine ==
  ASSUME NEW s \in Seq(Entries), NEW lines \in Seq(Lines), NEW e \in Entries, IsLine(e),
         Shows(s, lines)
  PROVE  Shows(Append(s, e), Append(lines, e.line))
<1>1. PICK place : ShownAt(s, lines, place)
  BY DEF Shows, ShownAt
<1>2. PICK t \in Seq(Entries) : t = Append(s, e)
  BY AppendProperties
<1>3. e.line \in Lines
  BY DEF Entries
<1>4. PICK after \in Seq(Lines) : after = Append(lines, e.line)
  BY <1>3, AppendProperties
<1>5. PICK n \in Nat, m \in Nat : n = Len(s) /\ m = Len(lines)
  OBVIOUS
<1>6. /\ DOMAIN s = 1..n /\ DOMAIN t = 1..(n + 1) /\ t[n + 1] = e /\ \A i \in 1..n : t[i] = s[i]
      /\ DOMAIN lines = 1..m /\ DOMAIN after = 1..(m + 1) /\ after[m + 1] = e.line
      /\ \A k \in 1..m : after[k] = lines[k]
  BY <1>2, <1>3, <1>4, <1>5, AppendProperties
<1>7. PICK new : new = [k \in 1..(m + 1) |-> IF k = m + 1 THEN n + 1 ELSE place[k]]
  OBVIOUS
<1>8. /\ \A i \in 1..(n + 1) : i = n + 1 \/ i \in 1..n
      /\ \A k \in 1..(m + 1) : k = m + 1 \/ k \in 1..m
      /\ n + 1 \in 1..(n + 1) /\ m + 1 \in 1..(m + 1) /\ \A i \in 1..n : i \in 1..(n + 1) /\ i < n + 1
      /\ \A k \in 1..m : k \in 1..(m + 1) /\ k < m + 1 /\ ~(m + 1 < k) /\ k # m + 1
  OBVIOUS
<1>9. \A k \in 1..m : place[k] \in 1..n /\ new[k] = place[k]
  BY <1>1, <1>6, <1>7, <1>8 DEF ShownAt
<1>10. new[m + 1] = n + 1
  BY <1>7, <1>8
<1>11. new \in [1..(m + 1) -> 1..(n + 1)]
  BY <1>7, <1>8, <1>9
<1>12. \A k, l \in 1..(m + 1) : k < l => new[k] < new[l]
  <2>1. \A k, l \in 1..m : k < l => place[k] < place[l]
    BY <1>1, <1>6 DEF ShownAt
  <2> SUFFICES ASSUME NEW k \in 1..(m + 1), NEW l \in 1..(m + 1), k < l PROVE new[k] < new[l]
    OBVIOUS
  <2>2. k \in 1..m
    BY <1>8
  <2>3. CASE l \in 1..m
    BY <1>9, <2>1, <2>2, <2>3
  <2>4. CASE l = m + 1
    <3>1. \A i \in 1..n : i < n + 1
      OBVIOUS
    <3> QED
      BY <1>9, <1>10, <2>2, <2>4, <3>1
  <2> QED
    BY <1>8, <2>3, <2>4
<1>13. ASSUME NEW i \in 1..(n + 1) PROVE IsLine(t[i]) <=> \E k \in 1..(m + 1) : new[k] = i
  <2>1. CASE i = n + 1
    BY <1>6, <1>8, <1>10, <2>1
  <2>2. CASE i \in 1..n
    <3>1. IsLine(s[i]) <=> \E k \in 1..m : place[k] = i
      BY <1>1, <1>6, <2>2 DEF ShownAt
    <3>2. \A k \in 1..(m + 1) : new[k] = i => k \in 1..m
      BY <1>8, <1>10, <2>2
    <3> QED
      BY <1>6, <1>8, <1>9, <2>2, <3>1, <3>2
  <2> QED
    BY <1>8, <2>1, <2>2
<1>14. ASSUME NEW k \in 1..(m + 1) PROVE t[new[k]].line = after[k]
  <2>1. CASE k = m + 1
    BY <1>6, <1>10, <2>1
  <2>2. CASE k \in 1..m
    BY <1>1, <1>6, <1>9, <2>2 DEF ShownAt
  <2> QED
    BY <1>8, <2>1, <2>2
<1>15. ShownAt(t, after, new)
  BY <1>6, <1>11, <1>12, <1>13, <1>14 DEF ShownAt
<1> QED
  BY <1>2, <1>4, <1>15 DEF Shows, ShownAt

\* Any other entry at the end shows no line.
LEMMA ShowsOther ==
  ASSUME NEW s \in Seq(Entries), NEW lines \in Seq(Lines), NEW e \in Entries, ~IsLine(e),
         Shows(s, lines)
  PROVE  Shows(Append(s, e), lines)
<1>1. PICK place : ShownAt(s, lines, place)
  BY DEF Shows, ShownAt
<1>2. PICK t \in Seq(Entries) : t = Append(s, e)
  BY AppendProperties
<1>3. PICK n \in Nat : n = Len(s)
  OBVIOUS
<1>4. DOMAIN s = 1..n /\ DOMAIN t = 1..(n + 1) /\ t[n + 1] = e /\ \A i \in 1..n : t[i] = s[i]
  BY <1>2, <1>3, AppendProperties
<1>5. /\ \A i \in 1..(n + 1) : i = n + 1 \/ i \in 1..n
      /\ \A i \in 1..n : i \in 1..(n + 1) /\ i # n + 1
  OBVIOUS
<1>6. \A k \in DOMAIN lines : place[k] \in 1..n
  BY <1>1, <1>4 DEF ShownAt
<1>7. place \in [DOMAIN lines -> DOMAIN t]
  BY <1>1, <1>4, <1>5, <1>6 DEF ShownAt
<1>8. \A i \in DOMAIN t : IsLine(t[i]) <=> \E k \in DOMAIN lines : place[k] = i
  BY <1>1, <1>4, <1>5, <1>6 DEF ShownAt
<1>9. \A k \in DOMAIN lines : t[place[k]].line = lines[k]
  BY <1>1, <1>4, <1>6 DEF ShownAt
<1>10. ShownAt(t, lines, place)
  BY <1>1, <1>7, <1>8, <1>9 DEF ShownAt
<1> QED
  BY <1>2, <1>10 DEF Shows, ShownAt

\* An entry that is no line can be left out.
LEMMA ShowsWithout ==
  ASSUME NEW s \in Seq(Entries), NEW q \in Seq(Entries), NEW lines \in Seq(Lines),
         q # <<>>, ~IsLine(Head(q)), Shows(s \o q, lines)
  PROVE  Shows(s \o Tail(q), lines)
<1>1. PICK t \in Seq(Entries) : t = s \o q
  BY ConcatProperties
<1>2. PICK r \in Seq(Entries) : r = Tail(q)
  BY HeadTailProperties
<1>3. PICK u \in Seq(Entries) : u = s \o r
  BY ConcatProperties
<1>4. PICK place : ShownAt(t, lines, place)
  BY <1>1 DEF Shows, ShownAt
<1>5. PICK n \in Nat, m \in Nat : n = Len(s) /\ m = Len(r)
  OBVIOUS
<1>6. Len(q) = m + 1 /\ Head(q) = q[1] /\ \A i \in 1..m : r[i] = q[i + 1]
  BY <1>2, <1>5, HeadTailProperties, EmptySeq
<1>7. /\ DOMAIN t = 1..(n + m + 1) /\ DOMAIN u = 1..(n + m)
      /\ \A i \in 1..n : t[i] = s[i] /\ u[i] = s[i]
      /\ t[n + 1] = q[1]
      /\ \A i \in (n + 1)..(n + m) : u[i] = t[i + 1]
  <2>1. /\ Len(t) = n + (m + 1) /\ Len(u) = n + m
        /\ \A i \in 1..(n + (m + 1)) : t[i] = IF i <= n THEN s[i] ELSE q[i - n]
        /\ \A i \in 1..(n + m) : u[i] = IF i <= n THEN s[i] ELSE r[i - n]
    BY <1>1, <1>3, <1>5, <1>6, ConcatProperties
  <2>2. DOMAIN t = 1..Len(t) /\ DOMAIN u = 1..Len(u)
    OBVIOUS
  <2>3. ASSUME NEW i \in 1..n PROVE t[i] = s[i] /\ u[i] = s[i]
    BY <2>1
  <2>4. t[n + 1] = q[1]
    <3>1. n + 1 \in 1..(n + (m + 1)) /\ ~(n + 1 <= n) /\ (n + 1) - n = 1
      OBVIOUS
    <3> QED
      BY <2>1, <3>1
  <2>5. ASSUME NEW i \in (n + 1)..(n + m) PROVE u[i] = t[i + 1]
    <3>1. /\ i \in 1..(n + m) /\ ~(i <= n) /\ i + 1 \in 1..(n + (m + 1)) /\ ~(i + 1 <= n)
          /\ i - n \in 1..m /\ (i + 1) - n = (i - n) + 1
      OBVIOUS
    <3> QED
      BY <1>6, <2>1, <3>1
  <2> QED
    BY <2>1, <2>2, <2>3, <2>4, <2>5
<1>8. \A k \in DOMAIN lines : place[k] \in 1..(n + m + 1) /\ place[k] # n + 1
  <2>1. ~IsLine(t[n + 1]) /\ n + 1 \in DOMAIN t
    BY <1>6, <1>7
  <2> QED
    BY <1>4, <1>7, <2>1 DEF ShownAt
<1>9. PICK new : new = [k \in DOMAIN lines |-> IF place[k] <= n THEN place[k] ELSE place[k] - 1]
  OBVIOUS
<1>10. ASSUME NEW k \in DOMAIN lines
       PROVE  /\ new[k] \in 1..(n + m) /\ u[new[k]] = t[place[k]]
              /\ place[k] = IF new[k] <= n THEN new[k] ELSE new[k] + 1
  <2>1. PICK i \in 1..(n + m + 1) : i = place[k] /\ i # n + 1
    BY <1>8
  <2>2. CASE i <= n
    BY <1>7, <1>9, <2>1, <2>2
  <2>3. CASE ~(i <= n)
    <3>0. i # n + 1
      BY <2>1
    <3>1. i - 1 \in (n + 1)..(n + m) /\ i - 1 \in 1..(n + m) /\ ~(i - 1 <= n) /\ (i - 1) + 1 = i
      BY <2>3, <3>0
    <3>2. new[k] = i - 1
      BY <1>9, <2>1, <2>3
    <3> QED
      BY <1>7, <2>1, <3>1, <3>2
  <2> QED
    BY <2>2, <2>3
<1>11. new \in [DOMAIN lines -> DOMAIN u]
  BY <1>7, <1>9, <1>10
<1>12. ASSUME NEW k \in DOMAIN lines, NEW l \in DOMAIN lines, k < l PROVE new[k] < new[l]
  <2>1. PICK i \in 1..(n + m + 1), j \in 1..(n + m + 1) :
          i = place[k] /\ j = place[l] /\ i # n + 1 /\ j # n + 1
    BY <1>8
  <2>2. i < j
    BY <1>4, <1>12, <2>1 DEF ShownAt
  <2>3. new[k] = (IF i <= n THEN i ELSE i - 1) /\ new[l] = (IF j <= n THEN j ELSE j - 1)
    BY <1>9, <2>1
  <2>4. i # n + 1 /\ j # n + 1
    BY <2>1
  <2>5. (IF i <= n THEN i ELSE i - 1) < (IF j <= n THEN j ELSE j - 1)
    BY <2>2, <2>4
  <2> QED
    BY <2>3, <2>5
<1>13. ASSUME NEW i \in 1..(n + m) PROVE IsLine(u[i]) <=> \E k \in DOMAIN lines : new[k] = i
  <2>1. PICK j \in 1..(n + m + 1) : j = (IF i <= n THEN i ELSE i + 1) /\ u[i] = t[j]
    <3>1. CASE i <= n
      BY <1>7, <3>1
    <3>2. CASE ~(i <= n)
      <4>1. i \in (n + 1)..(n + m) /\ i + 1 \in 1..(n + m + 1)
        BY <3>2
      <4> QED
        BY <1>7, <3>2, <4>1
    <3> QED
      BY <3>1, <3>2
  <2>2. IsLine(t[j]) <=> \E k \in DOMAIN lines : place[k] = j
    BY <1>4, <1>7 DEF ShownAt
  <2>3. ASSUME NEW k \in DOMAIN lines PROVE place[k] = j <=> new[k] = i
    <3>1. PICK h \in 1..(n + m) : h = new[k] /\ place[k] = IF h <= n THEN h ELSE h + 1
      BY <1>10
    <3>2. (IF h <= n THEN h ELSE h + 1) = (IF i <= n THEN i ELSE i + 1) <=> h = i
      OBVIOUS
    <3> QED
      BY <2>1, <3>1, <3>2
  <2> QED
    BY <2>1, <2>2, <2>3
<1>14. \A k \in DOMAIN lines : u[new[k]].line = lines[k]
  BY <1>4, <1>10 DEF ShownAt
<1>15. ShownAt(u, lines, new)
  BY <1>7, <1>11, <1>12, <1>13, <1>14 DEF ShownAt
<1> QED
  BY <1>2, <1>3, <1>15 DEF Shows, ShownAt

\* Entries among which there is no line show none.
LEMMA ShowsNone ==
  ASSUME NEW s \in Seq(Entries), \A i \in DOMAIN s : ~IsLine(s[i])
  PROVE  Shows(s, <<>>)
<1>1. PICK place : place = [k \in {} |-> 0]
  OBVIOUS
<1>2. DOMAIN <<>> = {}
  OBVIOUS
<1>3. place \in [{} -> DOMAIN s]
  BY <1>1
<1>4. ShownAt(s, <<>>, place)
  BY <1>2, <1>3 DEF ShownAt
<1> QED
  BY <1>4 DEF Shows, ShownAt

-----------------------------------------------------------------------------
(* The call below a panel *)

\* Start clears what the call before has left.
LEMMA StartCall ==
  ASSUME IInv, NEW kind \in {"test", "install", "trace"}, Start(kind), caller = "command"
  PROVE  IInv' /\ (panel # "none" => NoCall')
<1>1. /\ proc' = "gone" /\ reader' = "gone" /\ pc' = "returned" /\ result' = "ended"
      /\ written' = <<>> /\ pipe' = <<>> /\ queue' = <<>> /\ output' = <<>>
      /\ finished' = TRUE /\ cancel' = FALSE /\ late' = TRUE
      /\ caller' = caller /\ continuous' = continuous /\ panel' = panel
  BY DEF Start, args
<1>2. <<>> \in Seq(Lines) /\ <<>> \in Seq(Lines \cup {Sentinel})
  BY EmptySeq
<1>3. TypeOK'
  BY <1>1, <1>2 DEF IInv, TypeOK
<1>4. <<>> \o (<<>> \o <<>>) = <<>>
  BY EmptySeq, ConcatEmptySeq
<1>5. FlowOf(<<>>)'
  BY <1>1, <1>4 DEF FlowOf
<1>6. Flow'
  BY <1>2, <1>5 DEF Flow
<1>7. Left' /\ Counting'
  BY <1>1 DEF Left, Counting
<1> QED
  BY <1>1, <1>3, <1>6, <1>7 DEF IInv, NoCall

\* The process is started for a run of which nothing has been seen, as Init does.
LEMMA OpenCall ==
  ASSUME IInv, NoCall, caller = "command", Opens
  PROVE  IInv'
<1>1. /\ proc' = "running" /\ reader' = "reading" /\ pc' = "check" /\ result' = "none"
      /\ written' = <<>> /\ pipe' = <<>> /\ queue' = <<>> /\ output' = <<>>
      /\ finished' = FALSE /\ cancel' = cancel /\ late' = FALSE
      /\ caller' = caller /\ continuous' = continuous
  BY DEF Opens, NoCall, args
<1>2. <<>> \in Seq(Lines) /\ <<>> \in Seq(Lines \cup {Sentinel})
  BY EmptySeq
<1>3. TypeOK'
  BY <1>1, <1>2 DEF IInv, TypeOK
<1>4. <<>> \o (<<>> \o <<>>) = <<>>
  BY EmptySeq, ConcatEmptySeq
<1>5. FlowOf(<<>>)'
  BY <1>1, <1>4 DEF FlowOf
<1>6. Flow'
  BY <1>2, <1>5 DEF Flow
<1>7. Left' /\ Counting'
  BY <1>1 DEF Left, Counting
<1> QED
  BY <1>3, <1>6, <1>7 DEF IInv

\* The panel sets the cancel event at any time of the call, also behind its end.
LEMMA CancelCall == IInv /\ Cancel => IInv'
<1> SUFFICES ASSUME IInv, Cancel PROVE IInv'
  OBVIOUS
<1>1. /\ cancel' = TRUE
      /\ UNCHANGED <<proc, finished, output, pc, late, result, written, pipe, reader, queue, caller, continuous>>
  BY DEF Cancel, ioVars, args
<1>2. TypeOK'
  BY <1>1 DEF IInv, TypeOK
<1>3. Flow'
  BY <1>1, FlowQuiet DEF IInv
<1>4. Left' /\ Counting'
  BY <1>1 DEF IInv, Left, Counting, Enough
<1> QED
  BY <1>2, <1>3, <1>4 DEF IInv

\* What the buttons start.
LEMMA Starts ==
  ASSUME PanelShape, RunTest \/ Install \/ StartTrace
  PROVE  /\ panel # "none" /\ caller = "command"
         /\ \E kind \in {"test", "install", "trace"} :
              Start(kind) /\ (kind = "install" => panel = "iperf")
         /\ disk' = disk
         /\ UNCHANGED <<available, changed>> \/ (available' = disk /\ changed' = FALSE)
<1>1. panel # "none" /\ \E kind \in {"test", "install", "trace"} :
        Start(kind) /\ (kind = "install" => panel = "iperf")
  BY DEF RunTest, Install, StartTrace
<1>2. /\ disk' = disk
      /\ UNCHANGED <<available, changed>> \/ (available' = disk /\ changed' = FALSE)
  BY DEF RunTest, Install, StartTrace, Look, Start
<1> QED
  BY <1>1, <1>2 DEF PanelShape

\* What leaves the jobs, their signals, the pane and the call alone.
LEMMA Asks ==
  ASSUME \/ RunRefused \/ AskInstall \/ NotInstalled \/ LookAgain \/ Looked
         \/ RefreshList \/ WingetInstalls
  PROVE  /\ UNCHANGED <<panel, job, begun, returned, running, runs, pane, events>>
         /\ UNCHANGED <<proc, reader, pc, finished, written, pipe, queue, output, caller>>
         /\ UNCHANGED vars
<1>1. UNCHANGED vars /\ UNCHANGED jobVars /\ UNCHANGED <<panel, pane, events>>
  BY DEF RunRefused, AskInstall, NotInstalled, LookAgain, Looked, RefreshList, WingetInstalls
<1> QED
  BY <1>1 DEF jobVars, vars

\* Each step of a panel is one of the call, or sets the call up anew.
LEMMA CallKept == IInv /\ PanelShape /\ Posting /\ [PanelNext]_allVars => IInv'
<1> SUFFICES ASSUME IInv, PanelShape, Posting, [PanelNext]_allVars PROVE IInv'
  OBVIOUS
<1>1. CASE RunTest \/ Install \/ StartTrace
  BY <1>1, Starts, StartCall
<1>2. CASE Cancel
  BY <1>2, CancelCall
<1>3. CASE Call
  <2>1. Next
    BY <1>3 DEF Call, Next
  <2> QED
    BY <2>1, IInvStep
<1>4. CASE Follow
  <2>1. Next
    BY <1>4 DEF Follow, Next
  <2> QED
    BY <2>1, IInvStep
<1>5. CASE \/ RunRefused \/ AskInstall \/ NotInstalled \/ LookAgain \/ Looked
           \/ RefreshList \/ WingetInstalls \/ NoProcess \/ JobReturns \/ Fetched \/ Deliver
  <2>1. UNCHANGED vars
    BY <1>5, Asks DEF NoProcess, JobReturns, Fetched, Deliver
  <2> QED
    BY <2>1, IInvStep
<1>6. CASE UNCHANGED allVars
  <2>1. UNCHANGED vars
    BY <1>6 DEF allVars
  <2> QED
    BY <2>1, IInvStep
<1>7. CASE Opens
  <2>1. NoCall /\ caller = "command"
    BY <1>7 DEF Posting, Opens, NoCall, PanelShape
  <2> QED
    BY <1>7, <2>1, OpenCall
<1> QED
  BY <1>1, <1>2, <1>3, <1>4, <1>5, <1>6, <1>7 DEF PanelNext, Click

\* A step of the loop puts at most one line into the output, and none when it has returned.
LEMMA LoopPuts ==
  ASSUME IInv, Loop
  PROVE  /\ pc # "returned"
         /\ UNCHANGED <<caller, continuous>>
         /\ output' # output =>
              \E line \in Lines : output' = Append(output, line) /\ output'[Len(output')] = line
<1> USE DEF LoopTo, args
<1>1. CASE Check \/ GetEmpty \/ Poll \/ Counted \/ Return
  BY <1>1 DEF Check, GetEmpty, Poll, Counted, Return
<1>2. CASE Get
  <2>1. pc = "get" /\ UNCHANGED <<caller, continuous>>
    BY <1>2 DEF Get
  <2>2. output \in Seq(Lines) /\ queue \in Seq(Lines \cup {Sentinel}) /\ queue # <<>>
    BY <1>2 DEF IInv, TypeOK, Get
  <2>3. ASSUME output' # output PROVE output' = Append(output, Head(queue)) /\ Head(queue) \in Lines
    <3>1. ~IsEnd(Head(queue)) /\ output' = Append(output, Head(queue))
      BY <1>2, <2>3 DEF Get
    <3>2. Head(queue) \in Lines \cup {Sentinel}
      BY <2>2
    <3> QED
      BY <3>1, <3>2 DEF IsEnd
  <2>4. \A line \in Lines : Append(output, line)[Len(Append(output, line))] = line
    BY <2>2, AppendProperties
  <2> QED
    BY <2>1, <2>3, <2>4
<1> QED
  BY <1>1, <1>2 DEF Loop

\* What a panel posts.
LEMMA Posts ==
  /\ \A line \in Lines : runs \in Nat =>
       /\ Line(line) \in Entries /\ IsLine(Line(line)) /\ Line(line).line = line
       /\ Line(line).what = "line" /\ Line(line).run = runs
  /\ \A what \in OfRun \cup {"list", "nothing"} : runs \in Nat =>
       /\ Signal(what) \in Entries /\ Signal(what).what = what /\ Signal(what).run = runs
BY DEF Line, Signal, Entries, OfRun, IsLine, Lines

\* The function of a job ends with two signals.
LEMMA Outcome ==
  ASSUME runs \in Nat, JobReturns \/ NoProcess
  PROVE  \E a \in Entries, b \in Entries :
           /\ events' = events \o <<a, b>>
           /\ a.what \in {"error", "result"} /\ b.what = "finished" /\ a.run = runs /\ b.run = runs
<1>1. PICK what \in {"error", "result"} : events' = events \o <<Signal(what), Signal("finished")>>
  BY DEF JobReturns, NoProcess, Ends
<1>2. what \in OfRun \cup {"list", "nothing"} /\ "finished" \in OfRun \cup {"list", "nothing"}
  BY DEF OfRun
<1>3. PICK a \in Entries, b \in Entries :
        /\ a = Signal(what) /\ b = Signal("finished")
        /\ a.what = what /\ b.what = "finished" /\ a.run = runs /\ b.run = runs
  BY <1>2, Posts
<1> QED
  BY <1>1, <1>3

\* Two signals are put behind the others one after the other.
LEMMA TwoBehind ==
  ASSUME NEW q \in Seq(Entries), NEW a \in Entries, NEW b \in Entries
  PROVE  q \o <<a, b>> = Append(Append(q, a), b)
OBVIOUS

-----------------------------------------------------------------------------
(* The steps of a panel *)

\* One more signal of the run, or of the download.
LEMMA PostedOne ==
  ASSUME NEW q \in Seq(Entries), NEW e \in Entries, NEW run, NEW on, NEW ret,
         Posted(q, run, on, ret),
         e.what \in OfRun => e.run = run /\ on /\ \A i \in DOMAIN q : q[i].what # "finished",
         e.what = "finished" => ret
  PROVE  /\ Posted(Append(q, e), run, on, ret)
         /\ (\A i \in DOMAIN q : q[i].what # "finished") /\ e.what # "finished" =>
              \A i \in DOMAIN Append(q, e) : Append(q, e)[i].what # "finished"
<1>1. PICK t \in Seq(Entries) : t = Append(q, e)
  BY AppendProperties
<1>2. PICK n \in Nat : n = Len(q)
  OBVIOUS
<1>3. DOMAIN q = 1..n /\ DOMAIN t = 1..(n + 1) /\ t[n + 1] = e /\ \A i \in 1..n : t[i] = q[i]
  BY <1>1, <1>2, AppendProperties
<1>4. /\ \A i \in 1..(n + 1) : i = n + 1 \/ i \in 1..n
      /\ \A j \in 1..(n + 1) : ~(j > n + 1)
  OBVIOUS
<1>5. Posted(t, run, on, ret)
  <2>1. ASSUME NEW i \in 1..(n + 1), t[i].what \in OfRun PROVE t[i].run = run /\ on
    BY <1>3, <1>4, <2>1 DEF Posted
  <2>2. ASSUME NEW i \in 1..(n + 1), t[i].what = "finished"
        PROVE  ret /\ \A j \in 1..(n + 1) : j > i => t[j].what \notin OfRun
    <3>1. CASE i = n + 1
      BY <1>3, <1>4, <2>2, <3>1
    <3>2. CASE i \in 1..n
      <4>1. q[i].what = "finished"
        BY <1>3, <2>2, <3>2
      <4>2. ret /\ \A j \in 1..n : j > i => q[j].what \notin OfRun
        BY <1>3, <3>2, <4>1 DEF Posted
      <4>3. e.what \notin OfRun
        BY <1>3, <3>2, <4>1
      <4> QED
        BY <1>3, <1>4, <4>2, <4>3
    <3> QED
      BY <1>4, <3>1, <3>2
  <2> QED
    BY <1>3, <2>1, <2>2 DEF Posted
<1> QED
  BY <1>1, <1>3, <1>4, <1>5

\* The head of the queue is delivered; when it was "finished" no other of its run is left.
LEMMA PostedRest ==
  ASSUME NEW q \in Seq(Entries), q # <<>>, NEW run, NEW on \in BOOLEAN, NEW ret,
         Posted(q, run, on, ret)
  PROVE  /\ Posted(Tail(q), run, on /\ Head(q).what # "finished", ret)
         /\ Head(q).what \in OfRun => Head(q).run = run
         /\ Head(q).what = "finished" => ret
<1>1. PICK t \in Seq(Entries) : t = Tail(q)
  BY HeadTailProperties
<1>2. PICK n \in Nat : n = Len(t)
  OBVIOUS
<1>3. /\ DOMAIN t = 1..n /\ DOMAIN q = 1..(n + 1) /\ Head(q) = q[1]
      /\ \A i \in 1..n : t[i] = q[i + 1]
  <2>1. Len(q) = n + 1 /\ Head(q) = q[1] /\ \A i \in 1..n : t[i] = q[i + 1]
    BY <1>1, <1>2, HeadTailProperties, EmptySeq
  <2> QED
    BY <1>2, <2>1
<1>4. 1 \in 1..(n + 1) /\ \A i \in 1..n : i + 1 \in 1..(n + 1) /\ i + 1 > 1
  OBVIOUS
<1>5. ASSUME NEW i \in 1..n, t[i].what \in OfRun
      PROVE  t[i].run = run /\ on /\ Head(q).what # "finished"
  <2>1. PICK j \in 1..(n + 1) : j = i + 1 /\ j > 1 /\ t[i] = q[j]
    BY <1>3, <1>4
  <2> QED
    BY <1>3, <1>4, <1>5, <2>1 DEF Posted
<1>6. ASSUME NEW i \in 1..n, t[i].what = "finished", NEW j \in 1..n, j > i
      PROVE  t[j].what \notin OfRun
  <2>1. PICK k \in 1..(n + 1), l \in 1..(n + 1) : l > k /\ t[i] = q[k] /\ t[j] = q[l]
    <3>1. j + 1 > i + 1
      BY <1>6
    <3> QED
      BY <1>3, <1>4, <3>1
  <2> QED
    BY <1>3, <1>6, <2>1 DEF Posted
<1>7. ASSUME NEW i \in 1..n, t[i].what = "finished" PROVE ret
  BY <1>3, <1>4, <1>7 DEF Posted
<1>8. Posted(t, run, on /\ Head(q).what # "finished", ret)
  BY <1>3, <1>5, <1>6, <1>7 DEF Posted
<1> QED
  BY <1>1, <1>3, <1>4, <1>8 DEF Posted

\* The variables of the panels keep their shape.
LEMMA PanelShapeStep == IInv /\ PanelShape /\ [PanelNext]_allVars => PanelShape'
<1> SUFFICES ASSUME IInv, PanelShape, [PanelNext]_allVars PROVE PanelShape'
  OBVIOUS
<1> USE DEF PanelShape
<1>1. CASE RunTest \/ Install \/ StartTrace
  <2>1. PICK kind \in {"test", "install", "trace"} : Start(kind)
    BY <1>1, Starts
  <2>2. disk' = disk /\ available' \in BOOLEAN /\ changed' \in BOOLEAN
    BY <1>1, Starts
  <2>3. /\ panel' = panel /\ job' = kind /\ begun' = FALSE /\ returned' = FALSE /\ running' = TRUE
        /\ runs' = runs + 1 /\ pane' = <<>> /\ events' = events /\ fetching' = fetching
        /\ caller' = caller
    BY <2>1 DEF Start, Cleared, args
  <2>4. pane' \in Seq(Entries)
    BY <2>3, EmptySeq
  <2>5. runs' \in Nat /\ job' \in {"none", "test", "install", "trace"} /\ events' \in Seq(Entries)
    BY <2>3
  <2>6. {begun, returned, running, fetching, disk, available, changed}' \subseteq BOOLEAN
    BY <2>2, <2>3
  <2>7. panel' \in {"iperf", "trace", "none"} /\ (panel' # "none" => caller' = "command")
    BY <2>3
  <2> QED
    BY <2>4, <2>5, <2>6, <2>7
<1>2. CASE Cancel \/ Call
  BY <1>2 DEF Cancel, Call, panelVars, jobVars, iperfVars, args, Write, ProcessGone, ReadLine,
              ReadEnd, Deadline, SetCancel
<1>3. CASE Follow
  <2>1. UNCHANGED <<panel, job, begun, returned, running, runs, pane, fetching, disk, available, changed, caller>>
    BY <1>3, LoopPuts DEF Follow, jobVars, iperfVars
  <2>2. events' \in Seq(Entries)
    <3>1. CASE panel # "none" /\ output' # output
      <4>1. PICK line \in Lines : output'[Len(output')] = line
        BY <1>3, <3>1, LoopPuts DEF Follow
      <4>2. events' = Append(events, Line(line)) /\ Line(line) \in Entries
        BY <1>3, <3>1, <4>1, Posts DEF Follow
      <4> QED
        BY <4>2, AppendProperties
    <3> QED
      BY <1>3, <3>1 DEF Follow
  <2> QED
    BY <2>1, <2>2
<1>4. CASE JobReturns \/ NoProcess
  <2>1. /\ UNCHANGED <<panel, job, running, runs, pane, fetching, disk, available, changed, caller>>
        /\ returned' = TRUE /\ begun' \in BOOLEAN
    BY <1>4 DEF JobReturns, NoProcess, iperfVars, vars
  <2>2. events' \in Seq(Entries)
    <3>1. PICK a \in Entries, b \in Entries : events' = events \o <<a, b>>
      BY <1>4, Outcome
    <3> QED
      BY <3>1, TwoBehind, AppendProperties
  <2> QED
    BY <2>1, <2>2
<1>5. CASE Fetched
  <2>1. PICK a \in Entries : events' = Append(events, a)
    BY <1>5, Posts DEF Fetched
  <2>2. events' \in Seq(Entries)
    BY <2>1, AppendProperties
  <2> QED
    BY <1>5, <2>2 DEF Fetched, jobVars, iperfVars, vars
<1>6. CASE Deliver
  <2>1. PICK e \in Entries : e = Head(events)
    BY <1>6, HeadTailProperties DEF Deliver
  <2>2. events' \in Seq(Entries)
    BY <1>6, HeadTailProperties DEF Deliver
  <2>3. pane' \in Seq(Entries)
    <3>1. Append(pane, e) \in Seq(Entries) /\ <<e>> \in Seq(Entries)
      BY AppendProperties
    <3> QED
      BY <1>6, <2>1, <3>1 DEF Deliver, PaneAfter, IperfPane, TracePane
  <2> QED
    BY <1>6, <2>2, <2>3 DEF Deliver, Look, vars
<1>7. CASE \/ RunRefused \/ AskInstall \/ NotInstalled \/ LookAgain \/ Looked
           \/ RefreshList \/ WingetInstalls
  <2>1. {fetching, disk, available, changed}' \subseteq BOOLEAN
    BY <1>7 DEF RunRefused, AskInstall, NotInstalled, LookAgain, Looked, RefreshList, WingetInstalls,
                Look, iperfVars
  <2> QED
    BY <1>7, <2>1, Asks
<1>8. CASE UNCHANGED allVars
  BY <1>8 DEF allVars, panelVars, jobVars, iperfVars, vars
<1>9. CASE Opens
  BY <1>9 DEF Opens, iperfVars, args
<1> QED
  BY <1>1, <1>2, <1>3, <1>4, <1>5, <1>6, <1>7, <1>8, <1>9 DEF PanelNext, Click

\* iperf3 is looked for when the buttons come back, and only winget changes the disk.
LEMMA FoundStep == PanelShape /\ Found /\ [PanelNext]_allVars => Found'
<1> SUFFICES ASSUME PanelShape, Found, [PanelNext]_allVars PROVE Found'
  OBVIOUS
<1> USE DEF PanelShape, Found
<1>1. CASE RunTest \/ Install \/ StartTrace
  <2>1. PICK kind \in {"test", "install", "trace"} : Start(kind) /\ (kind = "install" => panel = "iperf")
    BY <1>1, Starts
  <2>2. panel' = panel /\ job' = kind /\ running' = TRUE
    BY <2>1 DEF Start
  <2>3. disk' = disk /\ (available' = available \/ available' = disk)
    BY <1>1, Starts
  <2> QED
    BY <2>1, <2>2, <2>3
<1>2. CASE Cancel \/ Call
  BY <1>2 DEF Cancel, Call, panelVars, jobVars, iperfVars
<1>3. CASE Opens \/ NoProcess \/ Follow \/ JobReturns \/ Fetched
  BY <1>3 DEF Opens, NoProcess, Follow, JobReturns, Fetched, jobVars, iperfVars
<1>4. CASE Deliver
  BY <1>4 DEF Deliver, Look
<1>5. CASE RunRefused \/ AskInstall \/ NotInstalled \/ LookAgain \/ Looked \/ RefreshList
  BY <1>5 DEF RunRefused, AskInstall, NotInstalled, LookAgain, Looked, RefreshList, Look, jobVars,
              iperfVars
<1>6. CASE WingetInstalls
  BY <1>6 DEF WingetInstalls, jobVars
<1>7. CASE UNCHANGED allVars
  BY <1>7 DEF allVars, panelVars, jobVars, iperfVars
<1> QED
  BY <1>1, <1>2, <1>3, <1>4, <1>5, <1>6, <1>7 DEF PanelNext, Click

\* The signals stay those of the run.
LEMMA PostingStep == IInv /\ PanelShape /\ Posting /\ [PanelNext]_allVars => Posting'
<1> SUFFICES ASSUME IInv, PanelShape, Posting, [PanelNext]_allVars PROVE Posting'
  OBVIOUS
<1>0. /\ events \in Seq(Entries) /\ running \in BOOLEAN /\ returned \in BOOLEAN /\ runs \in Nat
      /\ Posted(events, runs, running, returned) /\ (~running => returned)
      /\ (panel # "none" /\ (returned \/ ~begun) => pc = "returned")
      /\ begun \in BOOLEAN /\ (~begun => ~returned /\ NoCall)
  BY DEF PanelShape, Posting
<1>1. CASE RunTest \/ Install \/ StartTrace
  <2>1. PICK kind \in {"test", "install", "trace"} : Start(kind)
    BY <1>1, Starts
  <2>2. /\ events' = events /\ running' = TRUE /\ returned' = FALSE /\ ~running
        /\ begun' = FALSE /\ pc' = "returned"
    BY <2>1 DEF Start
  <2>3. \A i \in DOMAIN events : events[i].what \notin OfRun
    BY <1>0, <2>2 DEF Posted
  <2>4. \A i \in DOMAIN events : events[i].what # "finished"
    BY <2>3 DEF OfRun
  <2>5. Posted(events, runs', TRUE, FALSE)
    BY <2>3, <2>4 DEF Posted
  <2>6. NoCall'
    BY <1>1, <2>1, Starts, StartCall
  <2> QED
    BY <2>2, <2>5, <2>6 DEF Posting
<1>2. CASE Cancel \/ Call
  <2>1. UNCHANGED <<events, runs, running, begun, returned, panel, pc>>
    BY <1>2 DEF Cancel, Call, panelVars, jobVars, Write, ProcessGone, ReadLine, ReadEnd, Deadline, SetCancel
  <2>2. NoCall => NoCall'
    BY <1>2 DEF NoCall, Cancel, Call, panelVars, Write, ProcessGone, ReadLine, ReadEnd, Deadline,
                SetCancel, ioVars
  <2> QED
    BY <1>0, <2>1, <2>2 DEF Posting
<1>3. CASE Follow
  <2>1. Loop /\ UNCHANGED <<panel, begun, returned, running, runs>> /\ pc # "returned" /\ begun
    BY <1>0, <1>3, LoopPuts DEF Follow, jobVars, NoCall
  <2>2. Posted(events', runs, running, returned)
    <3>1. CASE panel # "none" /\ output' # output
      <4>1. ~returned /\ running
        BY <1>0, <2>1, <3>1
      <4>2. PICK line \in Lines : output'[Len(output')] = line
        BY <2>1, <3>1, LoopPuts
      <4>3. PICK e \in Entries : e = Line(line) /\ e.what = "line" /\ e.run = runs
        BY <1>0, Posts
      <4>4. events' = Append(events, e)
        BY <1>3, <3>1, <4>2, <4>3 DEF Follow
      <4>5. \A i \in DOMAIN events : events[i].what # "finished"
        BY <1>0, <4>1 DEF Posted
      <4>6. Posted(Append(events, e), runs, running, returned)
        BY <1>0, <4>1, <4>3, <4>5, PostedOne
      <4> QED
        BY <4>4, <4>6
    <3>2. CASE ~(panel # "none" /\ output' # output)
      BY <1>0, <1>3, <3>2 DEF Follow
    <3> QED
      BY <3>1, <3>2
  <2>3. panel # "none" => ~returned
    BY <1>0, <2>1
  <2> QED
    BY <1>0, <2>1, <2>2, <2>3 DEF Posting
<1>4. CASE JobReturns \/ NoProcess
  <2>1. /\ ~returned /\ returned' = TRUE /\ begun' = TRUE /\ running /\ pc = "returned"
        /\ UNCHANGED <<panel, running, runs, pc>>
    BY <1>0, <1>4 DEF JobReturns, NoProcess, vars, IInv, Left, NoCall
  <2>2. PICK a \in Entries, b \in Entries :
          /\ events' = events \o <<a, b>>
          /\ a.what \in {"error", "result"} /\ b.what = "finished" /\ a.run = runs /\ b.run = runs
    BY <1>0, <1>4, Outcome
  <2>3. \A i \in DOMAIN events : events[i].what # "finished"
    BY <1>0, <2>1 DEF Posted
  <2>4. Posted(events, runs, running, TRUE)
    BY <1>0, <2>3 DEF Posted
  <2>5. PICK q : q = Append(events, a)
    OBVIOUS
  <2>6. q \in Seq(Entries)
    BY <1>0, <2>5, AppendProperties
  <2>7. a.what # "finished"
    BY <2>2
  <2>8. /\ Posted(q, runs, running, TRUE)
        /\ \A i \in DOMAIN q : q[i].what # "finished"
    BY <1>0, <2>1, <2>2, <2>3, <2>4, <2>5, <2>7, PostedOne
  <2>9. Posted(Append(q, b), runs, running, TRUE)
    BY <2>1, <2>2, <2>6, <2>8, PostedOne
  <2>10. events' = Append(q, b)
    BY <1>0, <2>2, <2>5, TwoBehind
  <2> QED
    BY <2>1, <2>9, <2>10 DEF Posting
<1>5. CASE Fetched
  <2>1. UNCHANGED <<panel, begun, returned, running, runs, pc>> /\ (NoCall => NoCall')
    BY <1>5 DEF Fetched, jobVars, vars, NoCall
  <2>2. PICK a \in Entries : events' = Append(events, a) /\ a.what \in {"list", "nothing"}
    BY <1>0, <1>5, Posts DEF Fetched
  <2>3. a.what \notin OfRun /\ a.what # "finished"
    BY <2>2 DEF OfRun
  <2>4. Posted(Append(events, a), runs, running, returned)
    BY <1>0, <2>3, PostedOne
  <2> QED
    BY <1>0, <2>1, <2>2, <2>4 DEF Posting
<1>6. CASE Deliver
  <2>1. /\ events # <<>> /\ events' = Tail(events)
        /\ running' = (running /\ Head(events).what # "finished")
        /\ UNCHANGED <<panel, begun, returned, runs, pc>> /\ (NoCall => NoCall')
    BY <1>6 DEF Deliver, vars, NoCall
  <2>2. /\ Posted(Tail(events), runs, running /\ Head(events).what # "finished", returned)
        /\ Head(events).what = "finished" => returned
    BY <1>0, <2>1, PostedRest
  <2> QED
    BY <1>0, <2>1, <2>2 DEF Posting
<1>7. CASE \/ RunRefused \/ AskInstall \/ NotInstalled \/ LookAgain \/ Looked
           \/ RefreshList \/ WingetInstalls
  <2>1. UNCHANGED <<events, runs, running, begun, returned, panel, pc>> /\ (NoCall => NoCall')
    BY <1>7, Asks DEF NoCall
  <2> QED
    BY <1>0, <2>1 DEF Posting
<1>8. CASE UNCHANGED allVars
  <2>1. UNCHANGED <<events, runs, running, begun, returned, panel, pc>> /\ (NoCall => NoCall')
    BY <1>8 DEF allVars, panelVars, jobVars, vars, NoCall
  <2> QED
    BY <1>0, <2>1 DEF Posting
<1>9. CASE Opens
  <2>1. begun' = TRUE /\ UNCHANGED <<events, runs, running, returned, panel>> /\ ~returned
    BY <1>0, <1>9 DEF Opens
  <2> QED
    BY <1>0, <2>1 DEF Posting
<1> QED
  BY <1>1, <1>2, <1>3, <1>4, <1>5, <1>6, <1>7, <1>8, <1>9 DEF PanelNext, Click

\* A signal that puts no line keeps what the panel shows.
LEMMA TruthPosts ==
  ASSUME PanelShape, IInv, Truth, UNCHANGED <<panel, pane, runs, output>>,
         NEW e \in Entries, ~IsLine(e), events' = Append(events, e)
  PROVE  Truth'
<1>1. pane \in Seq(Entries) /\ events \in Seq(Entries) /\ output \in Seq(Lines)
  BY DEF PanelShape, IInv, TypeOK
<1>2. pane \o Append(events, e) = Append(pane \o events, e) /\ pane \o events \in Seq(Entries)
  BY <1>1, PutAtEnd
<1>3. Shows(pane \o events, output) => Shows(pane \o events', output)
  BY <1>1, <1>2, ShowsOther
<1> QED
  BY <1>3 DEF Truth

\* The pane and the queue keep showing the output.
LEMMA TruthStep == IInv /\ PanelShape /\ Posting /\ Truth /\ [PanelNext]_allVars => Truth'
<1> SUFFICES ASSUME IInv, PanelShape, Posting, Truth, [PanelNext]_allVars PROVE Truth'
  OBVIOUS
<1>0. /\ events \in Seq(Entries) /\ pane \in Seq(Entries) /\ output \in Seq(Lines)
      /\ runs \in Nat /\ running \in BOOLEAN /\ Posted(events, runs, running, returned)
  BY DEF PanelShape, Posting, IInv, TypeOK
<1>1. CASE RunTest \/ Install \/ StartTrace
  <2>1. PICK kind \in {"test", "install", "trace"} : Start(kind)
    BY <1>1, Starts
  <2>2. events' = events /\ pane' = <<>> /\ output' = <<>> /\ ~running
    BY <2>1 DEF Start, Cleared
  <2>3. \A i \in DOMAIN events : events[i].what \notin OfRun
    BY <1>0, <2>2 DEF Posted
  <2>4. \A i \in DOMAIN events : ~IsLine(events[i])
    BY <2>3 DEF OfRun, IsLine
  <2>5. <<>> \o events = events
    BY <1>0, ConcatEmptySeq
  <2>6. Shows(<<>> \o events, <<>>)
    BY <1>0, <2>4, <2>5, ShowsNone
  <2>7. DOMAIN <<>> = {}
    OBVIOUS
  <2> QED
    BY <2>2, <2>6, <2>7 DEF Truth
<1>2. CASE Cancel \/ Call
  <2>1. UNCHANGED <<events, pane, runs, panel, output>>
    BY <1>2 DEF Cancel, Call, panelVars, jobVars, Write, ProcessGone, ReadLine, ReadEnd, Deadline, SetCancel
  <2> QED
    BY <2>1 DEF Truth
<1>3. CASE Follow
  <2>1. Loop /\ UNCHANGED <<panel, pane, runs>>
    BY <1>3 DEF Follow, jobVars
  <2>2. CASE panel # "none" /\ output' # output
    <3>1. PICK line \in Lines : output' = Append(output, line) /\ output'[Len(output')] = line
      BY <2>1, <2>2, LoopPuts
    <3>2. PICK e \in Entries : e = Line(line) /\ IsLine(e) /\ e.line = line
      BY <1>0, Posts
    <3>3. events' = Append(events, e)
      BY <1>3, <2>2, <3>1, <3>2 DEF Follow
    <3>4. pane \o Append(events, e) = Append(pane \o events, e) /\ pane \o events \in Seq(Entries)
      BY <1>0, PutAtEnd
    <3>5. Shows(pane \o events, output) => Shows(Append(pane \o events, e), Append(output, e.line))
      BY <1>0, <3>2, <3>4, ShowsLine
    <3>6. Shows(pane \o events, output) => Shows(pane \o events', output')
      BY <3>1, <3>2, <3>3, <3>4, <3>5
    <3> QED
      BY <2>1, <3>6 DEF Truth
  <2>3. CASE ~(panel # "none" /\ output' # output)
    BY <1>3, <2>1, <2>3 DEF Follow, Truth
  <2> QED
    BY <2>2, <2>3
<1>4. CASE JobReturns \/ NoProcess
  <2>1. UNCHANGED <<panel, pane, runs, output>>
    BY <1>4 DEF JobReturns, NoProcess, vars
  <2>2. PICK a \in Entries, b \in Entries :
          events' = events \o <<a, b>> /\ ~IsLine(a) /\ ~IsLine(b)
    <3>1. \A a \in Entries : a.what \in {"error", "result", "finished"} => ~IsLine(a)
      BY DEF IsLine
    <3> QED
      BY <1>0, <1>4, <3>1, Outcome
  <2>3. PICK q \in Seq(Entries) : q = Append(events, a)
    BY <1>0, AppendProperties
  <2>4. events' = Append(q, b)
    BY <1>0, <2>2, <2>3, TwoBehind
  <2>5. pane \o q = Append(pane \o events, a) /\ pane \o events \in Seq(Entries)
    BY <1>0, <2>3, PutAtEnd
  <2>6. pane \o Append(q, b) = Append(pane \o q, b) /\ pane \o q \in Seq(Entries)
    BY <1>0, PutAtEnd
  <2>7. Shows(pane \o events, output) => Shows(pane \o q, output)
    BY <1>0, <2>2, <2>5, ShowsOther
  <2>8. Shows(pane \o q, output) => Shows(Append(pane \o q, b), output)
    BY <1>0, <2>2, <2>6, ShowsOther
  <2>9. Shows(pane \o events, output) => Shows(pane \o events', output)
    BY <2>4, <2>6, <2>7, <2>8
  <2> QED
    BY <2>1, <2>9 DEF Truth
<1>5. CASE Fetched
  <2>1. UNCHANGED <<panel, pane, runs, output>>
    BY <1>5 DEF Fetched, jobVars, vars
  <2>2. PICK a \in Entries : events' = Append(events, a) /\ ~IsLine(a)
    BY <1>0, <1>5, Posts DEF Fetched, IsLine
  <2> QED
    BY <2>1, <2>2, TruthPosts
<1>6. CASE Deliver
  <2>1. PICK e \in Entries : e = Head(events) /\ events # <<>>
    BY <1>0, <1>6, HeadTailProperties DEF Deliver
  <2>2. UNCHANGED <<panel, runs, output>> /\ events' = Tail(events) /\ pane' = PaneAfter(e)
    BY <1>6, <2>1 DEF Deliver, vars
  <2>3. CASE e.what = "nothing"
    <3>1. pane' = <<e>>
      BY <2>2, <2>3 DEF PaneAfter
    <3>2. 1 \in DOMAIN <<e>> /\ <<e>>[1] = e
      OBVIOUS
    <3> QED
      BY <2>3, <3>1, <3>2 DEF Truth
  <2>4. CASE pane' = Append(pane, e) /\ e.what \in {"line", "result"}
    <3>1. pane' \o Tail(events) = pane \o events
      BY <1>0, <2>1, <2>4, MoveOne
    <3>2. e.run = runs
      BY <1>0, <2>1, <2>4, PostedRest DEF OfRun
    <3>3. PICK n \in Nat : n = Len(pane)
      BY <1>0
    <3>4. /\ DOMAIN pane = 1..n /\ DOMAIN pane' = 1..(n + 1) /\ pane'[n + 1] = e
          /\ \A i \in 1..n : pane'[i] = pane[i] /\ i \in 1..(n + 1)
          /\ \A i \in 1..(n + 1) : i = n + 1 \/ i \in 1..n
      BY <1>0, <2>4, <3>3, AppendProperties
    <3>5. (\A i \in DOMAIN pane' : pane'[i].what # "nothing") => \A i \in DOMAIN pane : pane[i].what # "nothing"
      BY <3>4
    <3>6. (\A i \in DOMAIN pane : pane[i].run = runs) => \A i \in DOMAIN pane' : pane'[i].run = runs
      BY <3>2, <3>4
    <3> QED
      BY <2>2, <3>1, <3>5, <3>6 DEF Truth
  <2>5. CASE pane' = pane /\ ~IsLine(e)
    <3>1. Shows(pane \o events, output) => Shows(pane \o Tail(events), output)
      BY <1>0, <2>1, <2>5, ShowsWithout
    <3> QED
      BY <2>2, <2>5, <3>1 DEF Truth
  <2> QED
    BY <2>2, <2>3, <2>4, <2>5 DEF PaneAfter, IperfPane, TracePane, IsLine
<1>7. CASE \/ RunRefused \/ AskInstall \/ NotInstalled \/ LookAgain \/ Looked
           \/ RefreshList \/ WingetInstalls
  <2>1. UNCHANGED <<events, pane, runs, panel, output>>
    BY <1>7, Asks
  <2> QED
    BY <2>1 DEF Truth
<1>8. CASE UNCHANGED allVars
  <2>1. UNCHANGED <<events, pane, runs, panel, output>>
    BY <1>8 DEF allVars, panelVars, jobVars, vars
  <2> QED
    BY <2>1 DEF Truth
<1>9. CASE Opens
  <2>1. UNCHANGED <<events, pane, runs, panel, output>>
    BY <1>9 DEF Opens
  <2> QED
    BY <2>1 DEF Truth
<1> QED
  BY <1>1, <1>2, <1>3, <1>4, <1>5, <1>6, <1>7, <1>8, <1>9 DEF PanelNext, Click

\* A panel starts with nothing to show, or with a call alone.
LEMMA PanelInvInit == PanelInit => PanelInv
<1> SUFFICES ASSUME PanelInit PROVE PanelInv
  OBVIOUS
<1>1. /\ panel \in {"iperf", "trace", "none"} /\ job = "none" /\ begun = TRUE /\ returned = TRUE /\ running = FALSE
      /\ runs = 0 /\ pane = <<>> /\ events = <<>> /\ fetching = FALSE /\ disk \in BOOLEAN
      /\ (panel # "iperf" => ~disk) /\ available = disk /\ changed = FALSE
  BY DEF PanelInit
<1>2. <<>> \in Seq(Entries) /\ DOMAIN <<>> = {} /\ <<>> \in Seq(Lines)
      /\ <<>> \in Seq(Lines \cup {Sentinel})
  BY EmptySeq
<1>3. IInv
  <2>1. CASE panel = "none"
    BY <2>1, IInvInit DEF PanelInit
  <2>2. CASE panel # "none"
    <3>1. /\ proc = "gone" /\ reader = "gone" /\ pc = "returned" /\ result = "ended"
          /\ written = <<>> /\ pipe = <<>> /\ queue = <<>> /\ output = <<>>
          /\ finished = TRUE /\ cancel = FALSE /\ late = TRUE
          /\ caller = "command" /\ continuous = FALSE
      BY <2>2 DEF PanelInit, NoCommand
    <3>2. TypeOK
      BY <1>2, <3>1 DEF TypeOK, Callers
    <3>3. FlowOf(<<>>)
      BY <3>1 DEF FlowOf
    <3>4. Flow
      BY <1>2, <3>3 DEF Flow
    <3>5. Left /\ Counting
      BY <3>1 DEF Left, Counting
    <3> QED
      BY <3>2, <3>4, <3>5 DEF IInv
  <2> QED
    BY <2>1, <2>2
<1>4. PanelShape
  <2>1. pane \in Seq(Entries) /\ events \in Seq(Entries)
    BY <1>1, <1>2
  <2>2. panel # "none" => caller = "command"
    BY DEF PanelInit
  <2> QED
    BY <1>1, <2>1, <2>2 DEF PanelShape
<1>5. Posting
  BY <1>1, <1>2 DEF PanelInit, NoCommand, Posting, Posted
<1>6. Truth
  <2>1. panel # "none" => output = <<>>
    BY DEF PanelInit, NoCommand
  <2>2. <<>> \o <<>> = <<>>
    BY EmptySeq, ConcatEmptySeq
  <2>3. Shows(<<>>, <<>>)
    BY <1>2, ShowsNone
  <2> QED
    BY <1>1, <1>2, <2>1, <2>2, <2>3 DEF Truth
<1> QED
  BY <1>1, <1>3, <1>4, <1>5, <1>6 DEF PanelInv, Found

\* The call below a panel, its signals and what the panel shows agree in every state
\* (iperf.py, trace.py with process_utils.py).
THEOREM PanelInvariance == PanelSpec => []PanelInv
<1>1. PanelInv /\ [PanelNext]_allVars => PanelInv'
  BY CallKept, PanelShapeStep, PostingStep, TruthStep, FoundStep DEF PanelInv
<1> QED
  BY <1>1, PanelInvInit, PTL DEF PanelSpec

\* What holds of a call alone holds of every run of a panel, whatever the runs before it
\* left behind: NothingLost, EveryProbeCounted and ProcessStopped.
THEOREM CallsOfPanels == PanelSpec => [](NothingLost /\ EveryProbeCounted /\ ProcessStopped)
<1>1. PanelInv => NothingLost /\ EveryProbeCounted /\ ProcessStopped
  BY CallTellsAll DEF PanelInv
<1> QED
  BY <1>1, PanelInvariance, PTL

\* The pane with the queue shows what the call has read, of this run alone, and the run
\* button of iperf3 says whether it is there: PanelTellsTruth, for any number of runs.
THEOREM PanelIsTrue == PanelSpec => []PanelTellsTruth
<1>1. PanelInv => PanelTellsTruth
  BY DEF PanelInv, Truth, Found, PanelTellsTruth
<1> QED
  BY <1>1, PanelInvariance, PTL

=============================================================================
