--------------------------- MODULE TempServerProofs ---------------------------
(***************************************************************************)
(* Proofs about the temporary servers, for any number of starts and of     *)
(* client threads and any length of the event queue: one server at a time  *)
(* listens, the panel knows it, and its stop button sets the event of that *)
(* server.  The argument is about the order of the signals: the panel      *)
(* forgets the event with result and is free again with finished, and the  *)
(* job posts these, once and in this order, when the listener is closed.   *)
(***************************************************************************)
EXTENDS TempServer, FiniteSetTheorems, TLAPS

RunPhases    == {"new", "bind", "serve", "loop", "join", "joinError", "settled", "ended", "over"}
ClientPhases == {"none", "new", "in", "tellIn", "open", "shut", "out", "tellOut"}

Counts     == 0..Cardinality(Clients)
RunType    == [kind : {"ftp", "sftp", "scp", "tftp"}, cancelled : BOOLEAN, pc : RunPhases]
ClientType == [run : Runs \cup {NoRun}, seen : Counts, waits : BOOLEAN, pc : ClientPhases]
EventType  == [run : Runs, what : {"count", "result", "error", "finished"}, count : Counts]

-----------------------------------------------------------------------------
(* The inductive invariant *)

\* TypeOK, and threads are about a start
Shape ==
  /\ running \in BOOLEAN /\ cancelEvent \in Runs \cup {NoRun} /\ shown \in Counts
  /\ run \in [Runs -> RunType]
  /\ listening \subseteq Runs
  /\ counter \in [Runs -> Counts]
  /\ client \in [Clients -> ClientType]
  /\ events \in Seq(EventType)
  /\ \A c \in Clients : client[c].pc # "none" => client[c].run \in Runs

\* A start that the panel has not seen the end of
Active(r) == run[r].pc \notin {"new", "over"}

OneServer ==
  /\ \A q, r \in Runs : Active(q) /\ Active(r) => q = r
  /\ \A r \in Runs : Active(r) => running
  /\ \A r \in listening : run[r].pc = "loop" \/ (run[r].pc = "serve" /\ run[r].kind # "tftp")
  /\ \A r \in Runs :
       run[r].pc \in {"bind", "serve", "loop", "join", "joinError"} => cancelEvent = r

\* The signals that change the panel are posted when the listener is closed, and
\* nothing but counts of late threads comes behind finished
InOrder ==
  /\ \A i \in DOMAIN events :
       /\ events[i].what = "result" => run[events[i].run].pc \in {"settled", "ended"}
       /\ events[i].what = "finished" => run[events[i].run].pc = "ended"
  /\ \A i, k \in DOMAIN events :
       i < k /\ events[i].what = "finished" => events[k].what = "count"

\* The threads that have counted themselves in and not out, and those that will
Counted(r) == {c \in Clients : client[c].run = r /\ client[c].pc \in {"in", "tellIn", "open", "shut"}}
Fresh(r)   == {c \in Clients : client[c].run = r /\ client[c].pc = "new"}

\* The counter of a start is exact until its signals are gone; then threads end
\* without counting themselves out, and no more are accepted
Counting ==
  \A r \in Runs : /\ run[r].pc # "over" => counter[r] = Cardinality(Counted(r))
                  /\ counter[r] + Cardinality(Fresh(r)) <= Cardinality(Clients)

IInv == Shape /\ OneServer /\ InOrder /\ Counting

-----------------------------------------------------------------------------
(* Sequences *)

\* What Append does to the elements of a queue.
LEMMA AppendFacts ==
  ASSUME NEW S, NEW q \in Seq(S), NEW e \in S
  PROVE  /\ Append(q, e) \in Seq(S)
         /\ DOMAIN q = 1..Len(q) /\ Len(q) \in Nat
         /\ DOMAIN Append(q, e) = 1..(Len(q) + 1)
         /\ \A i \in 1..Len(q) : Append(q, e)[i] = q[i]
         /\ Append(q, e)[Len(q) + 1] = e
OBVIOUS

\* What Tail does to the elements of a queue.
LEMMA TailFacts ==
  ASSUME NEW S, NEW q \in Seq(S), q # <<>>
  PROVE  /\ Tail(q) \in Seq(S)
         /\ DOMAIN q = 1..Len(q) /\ Len(q) \in Nat \ {0}
         /\ Head(q) = q[1] /\ Head(q) \in S
         /\ DOMAIN Tail(q) = 1..(Len(q) - 1)
         /\ \A i \in 1..(Len(q) - 1) : Tail(q)[i] = q[i + 1]
OBVIOUS

-----------------------------------------------------------------------------
(* Counts *)

\* No client and one client more are counts.
LEMMA CountFacts ==
  Cardinality(Clients) \in Nat /\ 0 \in Counts /\ Counts = {n \in Nat : n <= Cardinality(Clients)}
BY ServerAssumption, FS_CardinalityType DEF Counts

\* Two sets of threads without a common one are together no more than the threads.
LEMMA Apart ==
  ASSUME NEW A \in SUBSET Clients, NEW B \in SUBSET Clients, A \cap B = {}
  PROVE  /\ IsFiniteSet(A) /\ IsFiniteSet(B)
         /\ Cardinality(A) \in Nat /\ Cardinality(B) \in Nat
         /\ Cardinality(A) + Cardinality(B) <= Cardinality(Clients)
<1>1. /\ IsFiniteSet(A) /\ IsFiniteSet(B)
      /\ Cardinality(A \cup B) <= Cardinality(Clients)
  <2>1. A \cup B \in SUBSET Clients
    OBVIOUS
  <2> QED
    BY <2>1, ServerAssumption, FS_Subset
<1>2. /\ Cardinality(A) \in Nat /\ Cardinality(B) \in Nat /\ Cardinality(Clients) \in Nat
  BY <1>1, ServerAssumption, FS_CardinalityType
<1>3. Cardinality(A \cup B) = Cardinality(A) + Cardinality(B) - Cardinality({})
  BY <1>1, FS_Union
<1> QED
  BY <1>1, <1>2, <1>3, FS_EmptySet

-----------------------------------------------------------------------------
(* What a step does to the client threads *)

\* A thread of a start goes on; r is its start.
Threads(c, r) ==
  /\ client' \in [Clients -> ClientType]
  /\ \A d \in Clients \ {c} : client'[d] = client[d]
  /\ client'[c].pc # "none" => client'[c].run = r

\* The connection is accepted.
LEMMA AcceptThread ==
  ASSUME Shape, NEW c \in Clients, NEW r \in Runs, Accept(r, c)
  PROVE  Threads(c, r) /\ client'[c].pc = "new"
<1>1. [run |-> r, pc |-> "new", seen |-> 0, waits |-> FALSE] \in ClientType
  BY CountFacts DEF ClientType, ClientPhases
<1> QED
  BY <1>1 DEF Accept, Shape, Threads

\* The thread counts itself in or out.
LEMMA CountThread ==
  ASSUME Shape, NEW c \in Clients, CountIn(c) \/ CountOut(c)
  PROVE  /\ Threads(c, client[c].run) /\ client[c].run \in Runs
         /\ client'[c].run = client[c].run /\ client'[c].seen = client[c].seen
         /\ client'[c].pc = IF client[c].pc = "new" THEN "in" ELSE "out"
         /\ counter' \in [Runs -> Nat]
         /\ \A r \in Runs \ {client[c].run} : counter'[r] = counter[r]
         /\ counter'[client[c].run] = IF client[c].pc = "new" THEN counter[client[c].run] + 1
                                                              ELSE Down(counter[client[c].run])
<1>1. /\ client \in [Clients -> ClientType] /\ client[c].pc \in {"new", "shut"}
      /\ client[c].run \in Runs /\ counter \in [Runs -> Nat]
  BY CountFacts DEF CountIn, CountOut, Shape
<1>2. Down(counter[client[c].run]) \in Nat
  BY <1>1 DEF Down
<1>3. CASE CountIn(c)
  BY <1>1, <1>3 DEF CountIn, ClientTo, Threads, ClientType, ClientPhases
<1>4. CASE CountOut(c)
  BY <1>1, <1>2, <1>4 DEF CountOut, ClientTo, Threads, ClientType, ClientPhases
<1> QED
  BY <1>3, <1>4

\* The thread reads the counter.
LEMMA ReadThread ==
  ASSUME Shape, NEW c \in Clients, Read(c)
  PROVE  /\ Threads(c, client[c].run) /\ client[c].run \in Runs
         /\ client'[c].run = client[c].run /\ client'[c].seen = counter[client[c].run]
         /\ \/ client[c].pc = "in" /\ client'[c].pc = "tellIn"
            \/ client[c].pc = "out" /\ client'[c].pc = "tellOut"
<1>1. /\ client \in [Clients -> ClientType] /\ client[c].pc \in {"in", "out"}
      /\ client[c].run \in Runs /\ counter[client[c].run] \in Counts
  BY DEF Read, Shape
<1>2. client' = [client EXCEPT ![c].seen = counter[client[c].run],
                               ![c].pc = IF @ = "in" THEN "tellIn" ELSE "tellOut"]
  BY DEF Read
<1>3. /\ client'[c].run = client[c].run /\ client'[c].seen = counter[client[c].run]
      /\ client'[c].pc = IF client[c].pc = "in" THEN "tellIn" ELSE "tellOut"
      /\ \A d \in Clients \ {c} : client'[d] = client[d]
  BY <1>1, <1>2 DEF ClientType
<1>4. client' \in [Clients -> ClientType]
  <2>1. PICK half \in [Clients -> ClientType] : half = [client EXCEPT ![c].seen = counter[client[c].run]]
    BY <1>1 DEF ClientType
  <2>2. half[c].pc = client[c].pc
    BY <1>1, <2>1 DEF ClientType
  <2>3. client' = [half EXCEPT ![c].pc = IF client[c].pc = "in" THEN "tellIn" ELSE "tellOut"]
    BY <1>1, <1>2, <2>1
  <2> QED
    BY <2>2, <2>3 DEF ClientType, ClientPhases
<1> QED
  BY <1>1, <1>3, <1>4 DEF Threads

\* The thread is told on, or ends.
LEMMA TellThread ==
  ASSUME Shape, NEW c \in Clients, Tell(c)
  PROVE  /\ Threads(c, client[c].run) /\ client[c].run \in Runs
         /\ client[c].pc \in {"tellIn", "tellOut"}
         /\ \/ client'[c] = NoClient /\ (client[c].pc = "tellOut" \/ Deleted(client[c].run))
            \/ /\ client[c].pc = "tellIn" /\ client'[c].pc = "open"
               /\ client'[c].run = client[c].run /\ client'[c].seen = client[c].seen
<1>1. /\ client \in [Clients -> ClientType] /\ client[c].pc \in {"tellIn", "tellOut"}
      /\ client[c].run \in Runs
  BY DEF Tell, Shape
<1>2. NoClient \in ClientType /\ NoClient.pc = "none"
  BY CountFacts DEF NoClient, ClientType, ClientPhases
<1>3. \/ /\ client' = [client EXCEPT ![c] = NoClient]
         /\ client[c].pc = "tellOut" \/ Deleted(client[c].run)
      \/ client' = [client EXCEPT ![c].pc = "open"] /\ client[c].pc = "tellIn"
  BY <1>1 DEF Tell
<1> QED
  BY <1>1, <1>2, <1>3 DEF Threads, ClientType, ClientPhases

\* The peer of an SCP copy is waited for, or the client leaves.
LEMMA ServeThread ==
  ASSUME Shape, NEW c \in Clients, PeerWait(c) \/ Leave(c)
  PROVE  /\ Threads(c, client[c].run) /\ client[c].run \in Runs
         /\ client[c].pc = "open" /\ client'[c].pc \in {"open", "shut"}
         /\ client'[c].run = client[c].run /\ client'[c].seen = client[c].seen
<1>1. client \in [Clients -> ClientType] /\ client[c].pc = "open" /\ client[c].run \in Runs
  BY DEF PeerWait, Leave, Shape
<1>2. CASE PeerWait(c)
  BY <1>1, <1>2 DEF PeerWait, Threads, ClientType, ClientPhases
<1>3. CASE Leave(c)
  <2> DEFINE half == [client EXCEPT ![c].pc = "shut"]
  <2>1. half \in [Clients -> ClientType]
    BY <1>1 DEF ClientType, ClientPhases
  <2>2. client' = [half EXCEPT ![c].waits = FALSE]
    BY <1>1, <1>3 DEF Leave
  <2>3. client' \in [Clients -> ClientType]
    BY <2>1, <2>2 DEF ClientType
  <2>4. client'[c].pc = "shut" /\ client'[c].run = client[c].run /\ client'[c].seen = client[c].seen
    BY <1>1, <1>3 DEF Leave, ClientType
  <2> QED
    BY <1>1, <1>3, <2>3, <2>4 DEF Leave, Threads
<1> QED
  BY <1>2, <1>3

\* What the threads of the clients leave alone, and the only signal they post.
LEMMA ThreadSteps ==
  ASSUME Shape, NEW c \in Clients,
         Thread(c) \/ PeerWait(c) \/ Leave(c) \/ EndSession(c) \/ \E r \in Runs : Accept(r, c)
  PROVE  /\ UNCHANGED <<run, listening>> /\ UNCHANGED <<running, cancelEvent, shown>>
         /\ \E r \in Runs : Threads(c, r)
         /\ ~(CountIn(c) \/ CountOut(c)) => UNCHANGED counter
         /\ \/ UNCHANGED events
            \/ \E e \in EventType : e.what = "count" /\ events' = Append(events, e)
<1> USE DEF panelVars
<1>0. counter \in [Runs -> Counts] /\ client \in [Clients -> ClientType]
  BY DEF Shape
<1>1. CASE CountIn(c) \/ CountOut(c)
  BY <1>1, CountThread DEF CountIn, CountOut
<1>2. CASE Read(c)
  BY <1>0, <1>2, ReadThread DEF Read
<1>3. CASE Tell(c)
  <2>1. client[c].run \in Runs /\ client[c].seen \in Counts
    BY <1>0, <1>3, TellThread DEF ClientType
  <2>2. [run |-> client[c].run, what |-> "count", count |-> client[c].seen] \in EventType
    BY <2>1 DEF EventType
  <2> QED
    BY <1>0, <1>3, <2>1, <2>2, TellThread DEF Tell, Post
<1>4. CASE PeerWait(c) \/ Leave(c) \/ EndSession(c)
  BY <1>0, <1>4, ServeThread DEF PeerWait, Leave, EndSession
<1>5. ASSUME NEW r \in Runs, Accept(r, c) PROVE Threads(c, r)
  BY <1>5, AcceptThread
<1>6. CASE \E r \in Runs : Accept(r, c)
  BY <1>0, <1>5, <1>6 DEF Accept
<1> QED
  BY <1>1, <1>2, <1>3, <1>4, <1>6 DEF Thread

-----------------------------------------------------------------------------
(* What a step does to the starts *)

\* A start goes from one phase to the next.
RunGoes(r, from, to) ==
  /\ run[r].pc \in from /\ run'[r].pc \in to
  /\ run' \in [Runs -> RunType]
  /\ run[r].pc # "new" => run'[r].kind = run[r].kind
  /\ \A q \in Runs \ {r} : run'[q] = run[q]

\* RunTo is such a step.
LEMMA RunToGoes ==
  ASSUME Shape, NEW r \in Runs, NEW pc \in RunPhases, RunTo(r, pc)
  PROVE  RunGoes(r, {run[r].pc}, {pc})
BY DEF RunTo, RunGoes, Shape, RunType, RunPhases

\* The listener opens with the port and closes before the threads are joined.
LEMMA ListenerSteps ==
  ASSUME Shape, NEW r \in Runs,
         Bind(r) \/ TftpListen(r) \/ LeaveLoop(r) \/ TftpStop(r) \/ AcceptFails(r)
  PROVE  /\ UNCHANGED <<running, cancelEvent, shown, counter, client, events>>
         /\ \/ /\ RunGoes(r, {"bind", "serve"}, {"serve", "loop"})
               /\ listening' = listening \cup {r} /\ (run[r].kind = "tftp" => run'[r].pc = "loop")
            \/ RunGoes(r, {"serve"}, {"joinError"}) /\ run[r].kind = "tftp" /\ UNCHANGED listening
            \/ RunGoes(r, {"loop"}, {"join", "joinError"}) /\ listening' = listening \ {r}
<1> USE DEF panelVars
<1>1. CASE Bind(r)
  <2>1. RunGoes(r, {run[r].pc}, {"serve"})
    BY <1>1, RunToGoes DEF Bind, RunPhases
  <2> QED
    BY <1>1, <2>1 DEF Bind, RunGoes
<1>2. CASE TftpListen(r)
  <2>1. \/ RunGoes(r, {run[r].pc}, {"loop"}) /\ listening' = listening \cup {r}
        \/ RunGoes(r, {run[r].pc}, {"joinError"}) /\ UNCHANGED listening
    BY <1>2, RunToGoes DEF TftpListen, RunPhases
  <2> QED
    BY <1>2, <2>1 DEF TftpListen, RunGoes
<1>3. CASE LeaveLoop(r) \/ TftpStop(r) \/ AcceptFails(r)
  <2>1. \E pc \in {"join", "joinError"} : RunGoes(r, {run[r].pc}, {pc})
    BY <1>3, RunToGoes DEF LeaveLoop, TftpStop, AcceptFails, RunPhases
  <2> QED
    BY <1>3, <2>1 DEF LeaveLoop, TftpStop, AcceptFails, Closed, RunGoes
<1> QED
  BY <1>1, <1>2, <1>3

\* The signals of a job, and the phases it posts them from.
LEMMA PostingSteps ==
  ASSUME Shape, NEW r \in Runs,
         BindFails(r) \/ Announce(r) \/ TftpAnnounce(r) \/ Settle(r) \/ Finish(r)
  PROVE  /\ UNCHANGED <<running, cancelEvent, shown, counter, client, listening>>
         /\ \E e \in EventType :
              /\ e.run = r /\ events' = Append(events, e)
              /\ \/ e.what = "count" /\ RunGoes(r, {"bind", "serve"}, {"serve", "loop"})
                 \/ e.what = "error" /\ RunGoes(r, {"bind", "join", "joinError"}, {"settled"})
                 \/ e.what = "result" /\ RunGoes(r, {"join"}, {"settled"})
                 \/ e.what = "finished" /\ RunGoes(r, {"settled"}, {"ended"})
<1> USE DEF panelVars
<1>1. ASSUME NEW what \in {"count", "result", "error", "finished"}, NEW count \in Counts
      PROVE  [run |-> r, what |-> what, count |-> count] \in EventType
  BY DEF EventType
<1> USE CountFacts
<1>2. CASE BindFails(r)
  <2>1. RunGoes(r, {"bind"}, {"settled"})
    BY <1>2, RunToGoes DEF BindFails, RunPhases
  <2> QED
    BY <1>1, <1>2, <2>1 DEF BindFails, Post, RunGoes
<1>3. CASE Announce(r)
  <2>1. RunGoes(r, {"serve"}, {"loop"}) /\ counter[r] \in Counts
    BY <1>3, RunToGoes DEF Announce, RunPhases, Shape
  <2> QED
    BY <1>1, <1>3, <2>1 DEF Announce, Post, RunGoes
<1>4. CASE TftpAnnounce(r)
  <2>1. RunGoes(r, {"bind"}, {"serve"})
    BY <1>4, RunToGoes DEF TftpAnnounce, RunPhases
  <2> QED
    BY <1>1, <1>4, <2>1 DEF TftpAnnounce, Post, RunGoes
<1>5. CASE Settle(r)
  <2>1. RunGoes(r, {run[r].pc}, {"settled"})
    BY <1>5, RunToGoes DEF Settle, RunPhases
  <2>2. CASE run[r].pc = "join"
    BY <1>1, <1>5, <2>1, <2>2 DEF Settle, Post, RunGoes
  <2>3. CASE run[r].pc = "joinError"
    BY <1>1, <1>5, <2>1, <2>3 DEF Settle, Post, RunGoes
  <2> QED
    BY <1>5, <2>2, <2>3 DEF Settle
<1>6. CASE Finish(r)
  <2>1. RunGoes(r, {"settled"}, {"ended"})
    BY <1>6, RunToGoes DEF Finish, RunPhases
  <2> QED
    BY <1>1, <1>6, <2>1 DEF Finish, Post, RunGoes
<1> QED
  BY <1>2, <1>3, <1>4, <1>5, <1>6

\* The panel starts a server.
LEMMA StartStep ==
  ASSUME Shape, NEW r \in Runs, Start(r)
  PROVE  /\ ~running /\ running' = TRUE /\ cancelEvent' = r
         /\ RunGoes(r, {"new"}, {"bind"})
         /\ UNCHANGED <<shown, listening, counter, client, events>>
<1>1. PICK kind \in Kinds : run' = [run EXCEPT ![r] = Starting(kind)]
  BY DEF Start
<1>2. Starting(kind) \in RunType /\ Starting(kind).pc = "bind"
  BY ServerAssumption DEF Starting, RunType, RunPhases
<1> QED
  BY <1>1, <1>2 DEF Start, NewEvent, Shape, RunGoes

\* The panel sets the event: no phase changes.
LEMMA StopStep ==
  ASSUME Shape, Stop
  PROVE  /\ run' \in [Runs -> RunType]
         /\ \A q \in Runs : run'[q].pc = run[q].pc /\ run'[q].kind = run[q].kind
         /\ UNCHANGED <<running, cancelEvent, shown, listening, counter, client, events>>
<1>1. cancelEvent \in Runs
  BY DEF Stop, Shape
<1> QED
  BY <1>1 DEF Stop, Shape, RunType, panelVars

\* The panel handles the next signal.
LEMMA DeliverStep ==
  ASSUME Shape, Deliver
  PROVE  /\ events # <<>> /\ Head(events) \in EventType /\ events' = Tail(events)
         /\ cancelEvent' = IF Head(events).what = "result" THEN NoRun ELSE cancelEvent
         /\ Head(events).what # "finished" => run' = run /\ running' = running
         /\ Head(events).what = "finished" =>
              RunGoes(Head(events).run, {run[Head(events).run].pc}, {"over"}) /\ ~running'
         /\ shown' = shown \/ shown' = Head(events).count
         /\ UNCHANGED <<listening, counter, client>>
<1>1. /\ events # <<>> /\ Head(events) \in EventType
      /\ running \in BOOLEAN /\ run \in [Runs -> RunType]
  BY TailFacts DEF Deliver, Shape
<1>2. Head(events).run \in Runs
  BY <1>1 DEF EventType
<1>3. CASE Head(events).what = "finished"
  <2>1. RunTo(Head(events).run, "over") /\ ~running'
    BY <1>3 DEF Deliver, RunningAfter, RunTo
  <2> QED
    BY <1>1, <1>2, <1>3, <2>1, RunToGoes DEF Deliver, EventAfter, Show, RunPhases
<1>4. CASE Head(events).what # "finished"
  <2>1. run' = run /\ running' = running
    BY <1>1, <1>4 DEF Deliver, RunningAfter
  <2> QED
    BY <1>1, <1>4, <2>1 DEF Deliver, EventAfter, Show
<1> QED
  BY <1>3, <1>4

-----------------------------------------------------------------------------
(* The invariant is inductive *)

\* A thread is counted between CountIn and CountOut, and the counter goes along, until
\* the signals of the start are gone.
LEMMA CountingStep == Shape /\ OneServer /\ Counting /\ [Next]_vars => Counting'
<1> SUFFICES ASSUME Shape, OneServer, Counting, [Next]_vars PROVE Counting'
  OBVIOUS
<1>0. /\ counter \in [Runs -> Nat] /\ Cardinality(Clients) \in Nat /\ listening \subseteq Runs
      /\ client \in [Clients -> ClientType]
  BY CountFacts DEF Shape
<1>a. ASSUME NEW r \in Runs
      PROVE  /\ IsFiniteSet(Counted(r)) /\ IsFiniteSet(Fresh(r))
             /\ Cardinality(Counted(r)) \in Nat /\ Cardinality(Fresh(r)) \in Nat
             /\ Cardinality(Counted(r)') \in Nat /\ Cardinality(Fresh(r)') \in Nat
             /\ Cardinality(Counted(r)') + Cardinality(Fresh(r)') <= Cardinality(Clients)
  <2>1. /\ Counted(r) \in SUBSET Clients /\ Fresh(r) \in SUBSET Clients
        /\ Counted(r) \cap Fresh(r) = {}
    BY DEF Counted, Fresh
  <2>2. /\ Counted(r)' \in SUBSET Clients /\ Fresh(r)' \in SUBSET Clients
        /\ Counted(r)' \cap Fresh(r)' = {}
    BY DEF Counted, Fresh
  <2> QED
    BY <2>1, <2>2, Apart
\* the starts go on, the threads wait
<1>1. ASSUME UNCHANGED <<counter, client>>, \A r \in Runs : run[r].pc = "over" => run'[r].pc = "over"
      PROVE  Counting'
  <2>1. \A r : Counted(r)' = Counted(r) /\ Fresh(r)' = Fresh(r)
    BY <1>1 DEF Counted, Fresh
  <2> QED
    BY <1>1, <2>1 DEF Counting
<1>2. ASSUME NEW r \in Runs, NEW from, NEW to, RunGoes(r, from, to), "over" \notin from,
             UNCHANGED <<counter, client>>
      PROVE  Counting'
  BY <1>1, <1>2 DEF RunGoes
<1>3. ASSUME NEW r \in Runs, Start(r) PROVE Counting'
  BY <1>2, <1>3, StartStep
<1>4. CASE Stop
  BY <1>1, <1>4, StopStep
<1>5. ASSUME NEW r \in Runs,
             Bind(r) \/ TftpListen(r) \/ LeaveLoop(r) \/ TftpStop(r) \/ AcceptFails(r)
      PROVE  Counting'
  BY <1>2, <1>5, ListenerSteps
<1>6. ASSUME NEW r \in Runs,
             BindFails(r) \/ Announce(r) \/ TftpAnnounce(r) \/ Settle(r) \/ Finish(r)
      PROVE  Counting'
  BY <1>2, <1>6, PostingSteps
<1>7. CASE Deliver
  BY <1>1, <1>7, DeliverStep DEF RunGoes
\* the threads go on, the starts wait
<1>b. ASSUME NEW c \in Clients, UNCHANGED run,
             \A d \in Clients \ {c} : client'[d] = client[d],
             \A r \in Runs : Counted(r)' = Counted(r) /\ Fresh(r)' = Fresh(r), UNCHANGED counter
      PROVE  Counting'
  BY <1>b DEF Counting
<1>8. ASSUME NEW c \in Clients, NEW r \in Runs, Accept(r, c) PROVE Counting'
  <2>1. /\ client[c].pc = "none" /\ client'[c].pc = "new" /\ client'[c].run = r
        /\ \A d \in Clients \ {c} : client'[d] = client[d]
        /\ UNCHANGED <<run, counter>> /\ run[r].pc # "over"
    BY <1>8, AcceptThread DEF Accept, Accepts, Threads
  <2>2. /\ \A q \in Runs : Counted(q)' = Counted(q)
        /\ \A q \in Runs \ {r} : Fresh(q)' = Fresh(q)
    BY <2>1 DEF Counted, Fresh
  <2>3. /\ Cardinality(Fresh(r)') \in Nat
        /\ Cardinality(Counted(r)') + Cardinality(Fresh(r)') <= Cardinality(Clients)
    BY <1>a
  <2> QED
    BY <1>0, <2>1, <2>2, <2>3 DEF Counting
<1>9. ASSUME NEW c \in Clients, CountIn(c) PROVE Counting'
  <2>0. PICK r \in Runs : r = client[c].run
    BY CountThread, <1>9
  <2>1. /\ client[c].pc = "new" /\ client'[c].pc = "in" /\ client'[c].run = r
        /\ \A d \in Clients \ {c} : client'[d] = client[d]
        /\ UNCHANGED run /\ counter'[r] = counter[r] + 1
        /\ \A q \in Runs \ {r} : counter'[q] = counter[q]
    BY <1>9, <2>0, CountThread DEF CountIn, Threads
  <2>2. /\ Counted(r)' = Counted(r) \cup {c} /\ c \notin Counted(r)
        /\ Fresh(r)' = Fresh(r) \ {c} /\ c \in Fresh(r)
        /\ \A q \in Runs \ {r} : Counted(q)' = Counted(q) /\ Fresh(q)' = Fresh(q)
    BY <2>0, <2>1 DEF Counted, Fresh
  <2>3. /\ Cardinality(Counted(r)') = Cardinality(Counted(r)) + 1
        /\ Cardinality(Fresh(r)') = Cardinality(Fresh(r)) - 1
    <3>1. Cardinality(Counted(r) \cup {c}) = Cardinality(Counted(r)) + 1
      BY <1>a, <2>2, FS_AddElement
    <3>2. Cardinality(Fresh(r) \ {c}) = Cardinality(Fresh(r)) - 1
      BY <1>a, <2>2, FS_RemoveElement
    <3> QED
      BY <2>2, <3>1, <3>2
  <2>4. /\ run'[r].pc # "over" => counter'[r] = Cardinality(Counted(r)')
        /\ counter'[r] + Cardinality(Fresh(r)') <= Cardinality(Clients)
    <3>1. /\ run[r].pc # "over" => counter[r] = Cardinality(Counted(r))
          /\ counter[r] + Cardinality(Fresh(r)) <= Cardinality(Clients)
          /\ counter[r] \in Nat /\ Cardinality(Counted(r)) \in Nat
          /\ Cardinality(Fresh(r)) \in Nat
      BY <1>0, <1>a DEF Counting
    <3>2. run'[r].pc = run[r].pc /\ counter'[r] = counter[r] + 1
      BY <2>1
    <3> QED
      BY <1>0, <2>3, <3>1, <3>2
  <2>5. \A q \in Runs \ {r} :
          /\ run'[q].pc # "over" => counter'[q] = Cardinality(Counted(q)')
          /\ counter'[q] + Cardinality(Fresh(q)') <= Cardinality(Clients)
    BY <2>1, <2>2 DEF Counting
  <2> QED
    BY <2>4, <2>5 DEF Counting
<1>10. ASSUME NEW c \in Clients, CountOut(c) PROVE Counting'
  <2>0. PICK r \in Runs : r = client[c].run
    BY CountThread, <1>10
  <2>1. /\ client[c].pc = "shut" /\ client'[c].pc = "out" /\ client'[c].run = r
        /\ \A d \in Clients \ {c} : client'[d] = client[d]
        /\ UNCHANGED run /\ counter'[r] = Down(counter[r])
        /\ \A q \in Runs \ {r} : counter'[q] = counter[q]
    BY <1>10, <2>0, CountThread DEF CountOut, Threads
  <2>2. /\ Counted(r)' = Counted(r) \ {c} /\ c \in Counted(r)
        /\ Fresh(r)' = Fresh(r)
        /\ \A q \in Runs \ {r} : Counted(q)' = Counted(q) /\ Fresh(q)' = Fresh(q)
    BY <2>0, <2>1 DEF Counted, Fresh
  <2>3. Cardinality(Counted(r)') = Cardinality(Counted(r)) - 1 /\ Cardinality(Counted(r)') \in Nat
    BY <1>a, <2>2, FS_RemoveElement
  <2>4. /\ run'[r].pc # "over" => counter'[r] = Cardinality(Counted(r)')
        /\ counter'[r] + Cardinality(Fresh(r)') <= Cardinality(Clients)
    BY <1>0, <1>a, <2>1, <2>2, <2>3 DEF Counting, Down
  <2> QED
    BY <2>1, <2>2, <2>4, ZenonT(30) DEF Counting
<1>11. ASSUME NEW c \in Clients, Read(c) PROVE Counting'
  <2>1. \A r \in Runs : Counted(r)' = Counted(r) /\ Fresh(r)' = Fresh(r)
    BY <1>11, ReadThread DEF Threads, Counted, Fresh
  <2> QED
    BY <1>b, <1>11, <2>1, ReadThread DEF Read, Threads
<1>12. ASSUME NEW c \in Clients, PeerWait(c) \/ Leave(c) PROVE Counting'
  <2>1. \A r \in Runs : Counted(r)' = Counted(r) /\ Fresh(r)' = Fresh(r)
    BY <1>12, ServeThread DEF Threads, Counted, Fresh
  <2> QED
    BY <1>b, <1>12, <2>1, ServeThread DEF PeerWait, Leave, Threads
\* telling ends a thread, which is still counted only when the start is over
<1>13. ASSUME NEW c \in Clients, Tell(c) PROVE Counting'
  <2>1. \A r \in Runs : Fresh(r)' = Fresh(r)
    BY <1>13, TellThread DEF Threads, Fresh, NoClient
  <2>2. \A r \in Runs : run[r].pc # "over" => Counted(r)' = Counted(r)
    BY <1>13, TellThread DEF Threads, Counted, NoClient, Deleted
  <2>3. UNCHANGED <<run, counter>>
    BY <1>13 DEF Tell
  <2> QED
    BY <2>1, <2>2, <2>3 DEF Counting
<1>14. CASE UNCHANGED vars
  BY <1>1, <1>14 DEF vars
<1> QED
  BY <1>3, <1>4, <1>5, <1>6, <1>7, <1>8, <1>9, <1>10, <1>11, <1>12, <1>13, <1>14
  DEF Next, Job, Thread, EndSession

\* The shape of the state is kept by every step.
LEMMA ShapeStep == Shape /\ Counting' /\ [Next]_vars => Shape'
<1> SUFFICES ASSUME Shape, Counting', [Next]_vars PROVE Shape'
  OBVIOUS
<1>0. /\ running \in BOOLEAN /\ cancelEvent \in Runs \cup {NoRun} /\ shown \in Counts /\ listening \subseteq Runs
      /\ events \in Seq(EventType)
      /\ \A c \in Clients : client[c].pc # "none" => client[c].run \in Runs
  BY DEF Shape
<1>1. ASSUME NEW r \in Runs, Start(r) PROVE Shape'
  BY <1>0, <1>1, StartStep DEF Shape, RunGoes
<1>2. CASE Stop
  BY <1>0, <1>2, StopStep DEF Shape
<1>3. CASE Deliver
  <2>1. events' \in Seq(EventType) /\ cancelEvent' \in Runs \cup {NoRun} /\ running' \in BOOLEAN
    BY <1>0, <1>3, DeliverStep, TailFacts DEF Deliver, RunningAfter
  <2>2. shown' \in Counts
    BY <1>0, <1>3, DeliverStep DEF Shape, EventType
  <2>3. run' \in [Runs -> RunType]
    BY <1>3, DeliverStep DEF Shape, RunGoes
  <2> QED
    BY <1>0, <1>3, <2>1, <2>2, <2>3, DeliverStep DEF Shape
<1>4. ASSUME NEW r \in Runs,
             Bind(r) \/ TftpListen(r) \/ LeaveLoop(r) \/ TftpStop(r) \/ AcceptFails(r)
      PROVE  Shape'
  BY <1>0, <1>4, ListenerSteps DEF Shape, RunGoes
<1>5. ASSUME NEW r \in Runs,
             BindFails(r) \/ Announce(r) \/ TftpAnnounce(r) \/ Settle(r) \/ Finish(r)
      PROVE  Shape'
  <2>1. events' \in Seq(EventType)
    BY <1>0, <1>5, PostingSteps, AppendFacts
  <2> QED
    BY <1>0, <1>5, <2>1, PostingSteps DEF Shape, RunGoes
<1>6. ASSUME NEW c \in Clients,
             Thread(c) \/ PeerWait(c) \/ Leave(c) \/ EndSession(c) \/ \E r \in Runs : Accept(r, c)
      PROVE  Shape'
  <2>1. events' \in Seq(EventType)
    BY <1>0, <1>6, ThreadSteps, AppendFacts
  <2>2. counter' \in [Runs -> Counts]
    <3>1. counter \in [Runs -> Counts]
      BY DEF Shape
    <3>2. CASE CountIn(c) \/ CountOut(c)
      <4>1. counter' \in [Runs -> Nat]
        BY <3>2, CountThread
      <4>2. ASSUME NEW r \in Runs PROVE counter'[r] <= Cardinality(Clients)
        <5>1. Fresh(r)' \in SUBSET Clients
          BY DEF Fresh
        <5>2. Cardinality(Fresh(r)') \in Nat
          BY <5>1, ServerAssumption, FS_Subset, FS_CardinalityType
        <5> QED
          BY <4>1, <5>2, CountFacts DEF Counting
      <4> QED
        BY <4>1, <4>2, CountFacts
    <3> QED
      BY <1>6, <3>1, <3>2, ThreadSteps
  <2> QED
    BY <1>0, <1>6, <2>1, <2>2, ThreadSteps DEF Shape, Threads
<1>7. CASE UNCHANGED vars
  BY <1>7 DEF vars, Shape
<1> QED
  BY <1>1, <1>2, <1>3, <1>4, <1>5, <1>6, <1>7 DEF Next, Job

\* A start is active until finished is delivered, and nothing starts before that.
LEMMA OneServerStep == IInv /\ [Next]_vars => OneServer'
<1> SUFFICES ASSUME IInv, [Next]_vars PROVE OneServer'
  OBVIOUS
<1> USE DEF OneServer, Active
<1>0. Shape /\ OneServer /\ InOrder /\ listening \subseteq Runs
  BY DEF IInv, Shape
<1>1. ASSUME NEW r \in Runs, Start(r) PROVE OneServer'
  <2>1. (\A q \in Runs : run[q].pc \in {"new", "over"}) /\ listening = {}
    <3>1. ~running
      BY <1>1 DEF Start
    <3> QED
      BY <1>0, <3>1
  <2>2. /\ running' = TRUE /\ cancelEvent' = r /\ listening' = listening
        /\ run'[r].pc = "bind" /\ \A q \in Runs \ {r} : run'[q] = run[q]
    BY <1>0, <1>1, StartStep DEF RunGoes
  <2> QED
    BY <2>1, <2>2
<1>2. CASE Stop
  <2>1. /\ UNCHANGED <<running, cancelEvent, listening>>
        /\ \A q \in Runs : run'[q].pc = run[q].pc
        /\ \A q \in listening : run'[q].pc = run[q].pc /\ run'[q].kind = run[q].kind
    BY <1>0, <1>2, StopStep
  <2>2. \A r \in listening : run'[r].pc = "loop" \/ (run'[r].pc = "serve" /\ run'[r].kind # "tftp")
    BY <1>0, <2>1
  <2> QED
    BY <1>0, <2>1, <2>2
<1>3. CASE Deliver
  <2>1. /\ Head(events).run \in Runs /\ Head(events) = events[1] /\ 1 \in DOMAIN events
    BY <1>0, <1>3, DeliverStep, TailFacts DEF Shape, EventType
  <2>2. /\ Head(events).what = "result" => run[Head(events).run].pc \in {"settled", "ended"}
        /\ Head(events).what = "finished" => run[Head(events).run].pc = "ended"
    BY <1>0, <2>1 DEF InOrder
  <2>3. CASE Head(events).what = "finished"
    BY <1>0, <1>3, <2>1, <2>2, <2>3, DeliverStep DEF RunGoes
  <2>4. CASE Head(events).what # "finished"
    BY <1>0, <1>3, <2>1, <2>2, <2>4, DeliverStep
  <2> QED
    BY <2>3, <2>4
<1>4. ASSUME NEW r \in Runs,
             Bind(r) \/ TftpListen(r) \/ LeaveLoop(r) \/ TftpStop(r) \/ AcceptFails(r)
      PROVE  OneServer'
  <2>1. CASE /\ RunGoes(r, {"bind", "serve"}, {"serve", "loop"})
             /\ listening' = listening \cup {r} /\ (run[r].kind = "tftp" => run'[r].pc = "loop")
    BY <1>0, <1>4, <2>1, ListenerSteps DEF RunGoes
  <2>2. CASE /\ RunGoes(r, {"serve"}, {"joinError"}) /\ run[r].kind = "tftp"
             /\ UNCHANGED listening
    BY <1>0, <1>4, <2>2, ListenerSteps DEF RunGoes
  <2>3. CASE RunGoes(r, {"loop"}, {"join", "joinError"}) /\ listening' = listening \ {r}
    BY <1>0, <1>4, <2>3, ListenerSteps DEF RunGoes
  <2> QED
    BY <1>0, <1>4, <2>1, <2>2, <2>3, ListenerSteps
<1>5. ASSUME NEW r \in Runs,
             BindFails(r) \/ Announce(r) \/ TftpAnnounce(r) \/ Settle(r) \/ Finish(r)
      PROVE  OneServer'
  BY <1>0, <1>5, PostingSteps DEF RunGoes
<1>6. ASSUME NEW c \in Clients,
             Thread(c) \/ PeerWait(c) \/ Leave(c) \/ EndSession(c) \/ \E r \in Runs : Accept(r, c)
      PROVE  OneServer'
  BY <1>0, <1>6, ThreadSteps
<1>7. CASE UNCHANGED vars
  BY <1>0, <1>7 DEF vars
<1> QED
  BY <1>1, <1>2, <1>3, <1>4, <1>5, <1>6, <1>7 DEF Next, Job

\* A signal behind the others keeps the order, if what it says of its start is true and
\* the start has not posted finished.
LEMMA PostInOrder ==
  ASSUME Shape, InOrder, NEW e \in EventType, events' = Append(events, e),
         \A i \in DOMAIN events : events[i].what \in {"result", "finished"} =>
           \/ run'[events[i].run] = run[events[i].run]
           \/ events[i].what = "result" /\ run'[events[i].run].pc \in {"settled", "ended"},
         e.what = "result" => run'[e.run].pc = "settled",
         e.what = "finished" => run'[e.run].pc = "ended",
         e.what = "count" \/ \A i \in DOMAIN events : events[i].what # "finished"
  PROVE  InOrder'
<1>1. /\ DOMAIN events' = 1..(Len(events) + 1) /\ DOMAIN events = 1..Len(events) /\ Len(events) \in Nat
      /\ \A i \in 1..Len(events) : events'[i] = events[i]
      /\ events'[Len(events) + 1] = e
  BY AppendFacts DEF Shape
<1>2. ASSUME NEW i \in 1..Len(events)
      PROVE  /\ events[i].what = "result" => run'[events[i].run].pc \in {"settled", "ended"}
             /\ events[i].what = "finished" => run'[events[i].run].pc = "ended"
  BY <1>1, <1>2 DEF InOrder
<1>3. \A i \in DOMAIN events' :
        /\ events'[i].what = "result" => run'[events'[i].run].pc \in {"settled", "ended"}
        /\ events'[i].what = "finished" => run'[events'[i].run].pc = "ended"
  BY <1>1, <1>2
<1>4. \A i, k \in DOMAIN events' :
        i < k /\ events'[i].what = "finished" => events'[k].what = "count"
  <2> SUFFICES ASSUME NEW i \in DOMAIN events', NEW k \in DOMAIN events',
                      i < k, events'[i].what = "finished"
               PROVE  events'[k].what = "count"
    OBVIOUS
  <2>1. i \in DOMAIN events
    BY <1>1
  <2>2. CASE k \in DOMAIN events
    BY <1>1, <2>1, <2>2 DEF InOrder
  <2>3. CASE k = Len(events) + 1
    BY <1>1, <2>1, <2>3
  <2> QED
    BY <1>1, <2>2, <2>3
<1> QED
  BY <1>3, <1>4 DEF InOrder

\* The job posts result or error when it settles, and finished after it, and only one job
\* posts at a time.
LEMMA InOrderStep == IInv /\ [Next]_vars => InOrder'
<1> SUFFICES ASSUME IInv, [Next]_vars PROVE InOrder'
  OBVIOUS
<1>0. /\ Shape /\ OneServer /\ InOrder /\ events \in Seq(EventType) /\ DOMAIN events = 1..Len(events)
      /\ \A i \in DOMAIN events : events[i].run \in Runs
  <2>1. Shape /\ OneServer /\ InOrder /\ events \in Seq(EventType)
    BY DEF IInv, Shape
  <2>2. DOMAIN events = 1..Len(events) /\ \A i \in DOMAIN events : events[i] \in EventType
    BY <2>1
  <2> QED
    BY <2>1, <2>2 DEF EventType
<1>1. ASSUME UNCHANGED events,
             \A i \in DOMAIN events :
               run[events[i].run].pc \in {"settled", "ended"} =>
                 run'[events[i].run].pc = run[events[i].run].pc
      PROVE  InOrder'
  BY <1>0, <1>1 DEF InOrder
<1>2. ASSUME NEW r \in Runs, Start(r) PROVE InOrder'
  BY <1>0, <1>1, <1>2, StartStep DEF RunGoes
<1>3. CASE Stop
  BY <1>0, <1>1, <1>3, StopStep
<1>4. CASE Deliver
  <2>1. /\ DOMAIN events' = 1..(Len(events) - 1) /\ Len(events) \in Nat \ {0}
        /\ \A i \in 1..(Len(events) - 1) : events'[i] = events[i + 1]
        /\ Head(events) = events[1]
    BY <1>0, <1>4, DeliverStep, TailFacts
  <2>2. CASE Head(events).what = "finished"
    <3>1. \A i \in DOMAIN events' : events'[i].what = "count"
      <4> SUFFICES ASSUME NEW i \in DOMAIN events' PROVE events[i + 1].what = "count"
        BY <2>1
      <4>1. 1 \in DOMAIN events /\ i + 1 \in DOMAIN events /\ 1 < i + 1
        BY <1>0, <2>1
      <4> QED
        BY <1>0, <2>1, <2>2, <4>1 DEF InOrder
    <3> QED
      BY <3>1 DEF InOrder
  <2>3. CASE Head(events).what # "finished"
    <3>1. run' = run
      BY <1>0, <1>4, <2>3, DeliverStep
    <3>2. \A i \in DOMAIN events' : i + 1 \in DOMAIN events /\ events'[i] = events[i + 1]
      BY <1>0, <2>1
    <3>3. \A i \in DOMAIN events' :
            /\ events'[i].what = "result" => run'[events'[i].run].pc \in {"settled", "ended"}
            /\ events'[i].what = "finished" => run'[events'[i].run].pc = "ended"
      BY <1>0, <3>1, <3>2 DEF InOrder
    <3>4. \A i, k \in DOMAIN events' : i < k => i + 1 < k + 1
      BY <2>1
    <3>5. \A i, k \in DOMAIN events' :
            i < k /\ events'[i].what = "finished" => events'[k].what = "count"
      BY <1>0, <3>2, <3>4 DEF InOrder
    <3> QED
      BY <3>3, <3>5 DEF InOrder
  <2> QED
    BY <2>2, <2>3
<1>5. ASSUME NEW r \in Runs,
             Bind(r) \/ TftpListen(r) \/ LeaveLoop(r) \/ TftpStop(r) \/ AcceptFails(r)
      PROVE  InOrder'
  BY <1>0, <1>1, <1>5, ListenerSteps DEF RunGoes
<1>6. ASSUME NEW r \in Runs,
             BindFails(r) \/ Announce(r) \/ TftpAnnounce(r) \/ Settle(r) \/ Finish(r)
      PROVE  InOrder'
  <2>1. PICK e \in EventType :
              /\ e.run = r /\ events' = Append(events, e)
              /\ \/ e.what = "count" /\ RunGoes(r, {"bind", "serve"}, {"serve", "loop"})
                 \/ e.what = "error" /\ RunGoes(r, {"bind", "join", "joinError"}, {"settled"})
                 \/ e.what = "result" /\ RunGoes(r, {"join"}, {"settled"})
                 \/ e.what = "finished" /\ RunGoes(r, {"settled"}, {"ended"})
    BY <1>0, <1>6, PostingSteps
  <2>2. Active(r) /\ run[r].pc # "ended"
    BY <2>1 DEF RunGoes, Active
  <2>3. \A i \in DOMAIN events : events[i].what # "finished"
    <3> SUFFICES ASSUME NEW i \in DOMAIN events, events[i].what = "finished" PROVE FALSE
      OBVIOUS
    <3>1. run[events[i].run].pc = "ended" /\ Active(events[i].run)
      BY <1>0 DEF InOrder, Active
    <3> QED
      BY <1>0, <2>2, <3>1 DEF OneServer
  <2>4. \A i \in DOMAIN events : events[i].what = "result" =>
           \/ run'[events[i].run] = run[events[i].run]
           \/ run'[events[i].run].pc \in {"settled", "ended"}
    BY <1>0, <2>1 DEF InOrder, RunGoes
  <2>5. /\ e.what = "result" => run'[e.run].pc = "settled"
        /\ e.what = "finished" => run'[e.run].pc = "ended"
    BY <2>1 DEF RunGoes
  <2> QED
    BY <1>0, <2>1, <2>3, <2>4, <2>5, PostInOrder
<1>7. ASSUME NEW c \in Clients,
             Thread(c) \/ PeerWait(c) \/ Leave(c) \/ EndSession(c) \/ \E r \in Runs : Accept(r, c)
      PROVE  InOrder'
  <2>1. run' = run
    BY <1>0, <1>7, ThreadSteps
  <2>2. CASE UNCHANGED events
    BY <1>0, <1>1, <2>1, <2>2
  <2>3. CASE \E e \in EventType : e.what = "count" /\ events' = Append(events, e)
    BY <1>0, <2>1, <2>3, PostInOrder
  <2> QED
    BY <1>0, <1>7, <2>2, <2>3, ThreadSteps
<1>8. CASE UNCHANGED vars
  BY <1>0, <1>1, <1>8 DEF vars
<1> QED
  BY <1>2, <1>3, <1>4, <1>5, <1>6, <1>7, <1>8 DEF Next, Job

\* The invariant holds before the first start.
LEMMA IInvInit == Init => IInv
<1> SUFFICES ASSUME Init PROVE IInv
  OBVIOUS
<1>1. /\ Idle \in RunType /\ NoClient \in ClientType /\ NoClient.pc = "none" /\ Idle.pc = "new"
      /\ 0 \in Counts
  BY CountFacts DEF Idle, NoClient, RunType, RunPhases, ClientType, ClientPhases
<1>2. Shape
  <2>1. <<>> \in Seq(EventType)
    OBVIOUS
  <2> QED
    BY <1>1, <2>1 DEF Init, Shape
<1>3. OneServer
  BY <1>1 DEF Init, OneServer, Active
<1>4. InOrder
  BY DEF Init, InOrder
<1>5. Counting
  <2>1. Cardinality({}) = 0 /\ Cardinality(Clients) \in Nat
    BY CountFacts, FS_EmptySet
  <2>2. \A r \in Runs : counter[r] = 0 /\ Counted(r) = {} /\ Fresh(r) = {}
    BY <1>1 DEF Init, Counted, Fresh
  <2> QED
    BY <2>1, <2>2 DEF Counting
<1> QED
  BY <1>2, <1>3, <1>4, <1>5 DEF IInv

-----------------------------------------------------------------------------
(* The theorems *)

\* The inductive invariant holds in every reachable state.
THEOREM Invariance == Spec => []IInv
<1>1. IInv /\ [Next]_vars => IInv'
  BY ShapeStep, OneServerStep, InOrderStep, CountingStep DEF IInv
<1> QED
  BY <1>1, IInvInit, PTL DEF Spec

\* The variables of the panel, the jobs and the threads keep their types; that the
\* counts never exceed the threads needs Counting.
THEOREM TypeCorrect == Spec => []TypeOK
<1>1. IInv => TypeOK
  BY DEF IInv, Shape, TypeOK, Counts, RunType, RunPhases, ClientType, ClientPhases, EventType
<1> QED
  BY <1>1, Invariance, PTL

\* session_counter is exact while the signals of the start are there: it is the number of
\* threads that have counted themselves in and not out, and max(0, ...) changes nothing.
THEOREM CountersExact ==
  Spec => [](\A r \in Runs : run[r].pc # "over" => counter[r] = Cardinality(Counted(r)))
<1>1. IInv => \A r \in Runs : run[r].pc # "over" => counter[r] = Cardinality(Counted(r))
  BY DEF IInv, Counting
<1> QED
  BY <1>1, Invariance, PTL

\* The start buttons find the port free: StartFindsPortFree.
THEOREM PortIsFree == Spec => []StartFindsPortFree
<1>1. IInv => StartFindsPortFree
  <2> SUFFICES ASSUME Shape, OneServer PROVE StartFindsPortFree
    BY DEF IInv
  <2>1. ASSUME NEW r \in listening
        PROVE  r \in Runs /\ running /\ run[r].pc \in {"serve", "loop"} /\ Active(r)
    BY DEF Shape, OneServer, Active
  <2>2. \A r \in listening : \A q \in Runs \ {r} : run[q].pc \in {"new", "over"}
    BY <2>1 DEF OneServer, Active
  <2> QED
    BY <2>1, <2>2 DEF StartFindsPortFree
<1> QED
  BY <1>1, Invariance, PTL

\* The stop buttons set the event of the server that listens: StopReachesServer.
THEOREM StopReaches == Spec => []StopReachesServer
<1>1. IInv => StopReachesServer
  <2> SUFFICES ASSUME IInv, NEW r \in listening PROVE running /\ cancelEvent = r
    BY DEF StopReachesServer
  <2>1. r \in Runs /\ Active(r) /\ run[r].pc \in {"serve", "loop"}
    BY DEF IInv, Shape, OneServer, Active
  <2> QED
    BY <2>1 DEF IInv, OneServer
<1> QED
  BY <1>1, Invariance, PTL

=============================================================================
