--------------------------- MODULE ScpTransferProofs ---------------------------
(***************************************************************************)
(* Proofs about a copy between the SCP client and the temporary SCP server, *)
(* for any files, of any number of chunks, and any number of transfers.     *)
(* The argument follows the two streams of the connection the panel uses:   *)
(* what is under way in them is the part of the file between the places of  *)
(* the two ends, as long as the connection stands; once it does not, no     *)
(* reply can be produced any more that the other end would believe.         *)
(***************************************************************************)
EXTENDS ScpTransfer, SequenceTheorems, TLAPS

-----------------------------------------------------------------------------
(* The inductive invariant *)

ClientPcs == {"idle", "connect", "ready", "next", "headerOk", "chunks", "fileOk",
              "header", "data", "unserved", "over"}
ThreadPcs == {"new", "ended", "command", "control", "readControl", "chunks",
              "sessionOk", "headerOk", "send", "finalOk"}
Ops       == {"none", "upload", "download"}
Outcomes  == {"none", "done", "cancelled", "error"}
Headers   == [file : Files, size : Nat]
Tokens    == {Ok, <<"bad", 0>>, <<"text", 0>>} \cup {Data(v) : v \in Values}
             \cup {<<"C", h>> : h \in Headers}

Disks     == [Files -> [there : BOOLEAN, data : Seq(Values)]]
Clients   == [pc : ClientPcs, op : Ops, conn : Conns \cup {0}, left : Seq(Files),
              at : Nat, size : Nat, cancel : BOOLEAN, outcome : Outcomes,
              opened : SUBSET Files, alone : BOOLEAN]
Channels  == [up : Seq(Tokens), down : Seq(Tokens), upOpen : BOOLEAN, downOpen : BOOLEAN]
Threads   == [pc : ThreadPcs, op : Ops, file : Files \cup {"none"}, at : Nat, size : Nat,
              done : SUBSET Files]

Fresh == [up |-> <<>>, down |-> <<>>, upOpen |-> TRUE, downOpen |-> TRUE]

\* The variables keep their shape.
Shape ==
  /\ local \in Disks /\ remote \in Disks
  /\ readOnly \in BOOLEAN /\ stop \in BOOLEAN
  /\ client \in Clients /\ done \in SUBSET Files
  /\ channel \in [Conns -> Channels] /\ server \in [Conns -> Threads]

Thread == server[Here]
Line   == channel[Here]
Next1  == Head(client.left)    \* the file the client is at

Active == client.pc \notin {"idle", "over"}

\* Who plays which part: the pcs of client and thread belong to their operation.
Cast ==
  /\ Here \in Conns <=> client.op # "none"
  /\ client.pc # "idle" => Here \in Conns
  /\ client.op = "upload" =>
       client.pc \in {"idle", "connect", "ready", "next", "headerOk", "chunks", "fileOk", "over"}
  /\ client.op = "download" =>
       client.pc \in {"idle", "connect", "header", "data", "next", "unserved", "over"}
  /\ client.pc \in {"connect", "ready", "headerOk", "chunks", "fileOk", "header", "data"} =>
       client.left # <<>>
  /\ Active => client.outcome = "none"
  /\ Here \in Conns /\ Thread.pc \notin {"new", "ended"} => Thread.op = client.op

\* The connections behind that of the panel are unused, those before it idle if it is alone.
Others ==
  \A c \in Conns :
    /\ c > Here \/ (c = Here /\ client.pc = "connect") =>
         server[c] = NoThread /\ channel[c] = Fresh
    /\ client.alone /\ c # Here => server[c].pc \in {"new", "ended"}

Roles == Cast /\ Others

\* What a thread may still receive, whoever is at the other end: at most one header
\* where a header is due, and behind a header no more than a file and its trailer.
StreamOf(c) ==
  /\ server[c].pc \in {"control", "readControl", "chunks"} => server[c].op = "upload"
  /\ server[c].pc \in {"sessionOk", "headerOk", "send", "finalOk"} =>
       server[c].op = "download" /\ remote[server[c].file].there
  /\ server[c].pc = "command" => server[c].op \in {"upload", "download"}
  /\ server[c].pc \notin {"new", "ended"} => server[c].file \in Files
  /\ server[c].pc \in {"command", "sessionOk", "headerOk"} => server[c].at = 0
  /\ server[c].pc = "command" /\ server[c].op = "upload" => channel[c].up = <<>>
  /\ server[c].pc \in {"control", "readControl"} =>
       \/ channel[c].up = <<>>
       \/ Len(channel[c].up) = 1 /\ \E h \in Headers : channel[c].up[1] = <<"C", h>>
  /\ server[c].pc = "chunks" =>
       /\ server[c].at <= server[c].size
       /\ server[c].at + Len(channel[c].up) <= server[c].size + 1
Streams == \A c \in Conns : StreamOf(c)

\* What the client takes for a reply to the file it has sent.
Answered == Line.down # <<>> /\ Line.down[1] = Ok

\* An upload: how far client and thread can be apart.
Paired ==
  /\ client.pc = "ready" =>
       /\ Thread.pc \in {"command", "control", "readControl", "ended"}
       /\ Thread.pc # "ended" => Line.up = <<>>
       /\ Thread.pc = "command" => Line.down = <<>>
  /\ client.pc = "next" =>
       /\ Thread.pc \in {"control", "readControl", "ended"}
       /\ Thread.pc # "ended" => Line.up = <<>> /\ Line.down = <<>>
       /\ ~Answered
  /\ client.pc = "headerOk" =>
       /\ Thread.pc \in {"control", "readControl", "chunks", "ended"}
       /\ Thread.pc \in {"control", "readControl"} => Line.down = <<>>
       /\ Thread.pc \in {"control", "readControl"} /\ Line.up # <<>> =>
            Line.up[1] = <<"C", [file |-> Next1, size |-> client.size]>>
       /\ Thread.pc = "chunks" => Thread.at = 0 /\ Line.up = <<>>
       /\ client.at = 0
  /\ client.pc = "chunks" =>
       /\ Thread.pc \in {"chunks", "ended"}
       /\ Thread.pc = "chunks" => Line.down = <<>> /\ Thread.at + Len(Line.up) <= client.at
       /\ ~Answered
  /\ client.pc = "fileOk" =>
       /\ Thread.pc \in {"chunks", "control", "readControl", "ended"}
       /\ Thread.pc = "chunks" => Line.down = <<>>
       /\ Thread.pc \in {"control", "readControl"} => Line.up = <<>>
       /\ Answered =>
            /\ Thread.pc # "chunks"
            /\ Next1 \in Thread.done
            /\ client.alone => remote[Next1] = local[Next1]
  /\ client.pc \in {"headerOk", "chunks", "fileOk"} =>
       /\ client.size = Len(local[Next1].data) /\ client.at <= client.size
       /\ Thread.pc = "chunks" => Thread.file = Next1 /\ Thread.size = client.size
  /\ Active => \A i \in DOMAIN Line.down : i > 1 => Line.down[i] # Ok
  /\ Active /\ Thread.pc # "ended" => Len(Line.down) <= 1

\* The file on the server is the part in front of the place of the thread, the stream
\* what is between the two places.
HalfWay ==
  client.alone /\ Line.upOpen /\ Thread.pc = "chunks" /\ client.pc \in {"headerOk", "chunks", "fileOk"} =>
    /\ Thread.at + Len(Line.up) = CASE client.pc = "headerOk" -> 0
                                    [] client.pc = "chunks"   -> client.at
                                    [] client.pc = "fileOk"   -> client.size + 1
    /\ \A i \in DOMAIN Line.up :
         Thread.at + i <= client.size => Line.up[i] = Data(local[Next1].data[Thread.at + i])
    /\ remote[Next1].there /\ Len(remote[Next1].data) = Thread.at
    /\ \A j \in 1..Thread.at : remote[Next1].data[j] = local[Next1].data[j]

Uploading ==
  client.op = "upload" =>
    /\ \A i, j \in DOMAIN client.left :
         /\ client.left[i] \notin done /\ local[client.left[i]].there
         /\ client.left[i] = client.left[j] => i = j
    /\ done \subseteq Thread.done
    /\ Thread.pc \in {"control", "readControl"} /\ Line.up # <<>> => Line.up[1][2].file \notin done
    /\ Thread.pc = "chunks" => Thread.file \notin done
    /\ client.pc # "idle" /\ client.alone => \A f \in done : remote[f] = local[f]
    /\ Paired
    /\ HalfWay

\* A download: the acknowledgements that are under way or were taken.
Taken1 == CASE Thread.pc \in {"command", "sessionOk"} -> 0
            [] Thread.pc = "headerOk" -> 1
            [] OTHER -> 2

Acks ==
  /\ Thread.pc \in {"command", "sessionOk", "headerOk", "send", "finalOk"} /\ Thread.file \notin done =>
       Taken1 + Len(Line.up) <= IF client.pc = "header" THEN 1 ELSE 2
  /\ client.pc \in {"header", "data"} /\ Thread.pc # "ended" => Thread.file = Next1
  /\ client.pc \in {"header", "data"} => Thread.pc # "new"

\* The local file is the part of the file in front of the place of the client.
Prefix ==
  /\ Len(local[Next1].data) = client.at
  /\ \A j \in 1..client.at : local[Next1].data[j] = remote[Next1].data[j]

\* The first k chunks in the stream are the ones behind that place.
DataUpTo(k) == \A j \in 1..k : Line.down[j] = Data(remote[Next1].data[client.at + j])

\* A reply in the stream is behind the whole file: nothing else passes for its end.
Trailers ==
  \A i \in DOMAIN Line.down : Line.down[i] = Ok =>
    client.at + i = Len(remote[Next1].data) + 1 /\ Prefix /\ DataUpTo(i - 1)

\* As long as the connection stands, nothing is missing between the two places.
Unbroken ==
  /\ Thread.at = client.at + Len(Line.down) /\ Thread.at <= Len(remote[Next1].data)
  /\ Prefix /\ DataUpTo(Len(Line.down))

Received ==
  /\ client.pc = "header" =>
       /\ Thread.pc \in {"command", "sessionOk"} => Line.down = <<>>
       /\ Thread.pc \in {"command", "sessionOk", "headerOk", "ended"}
       /\ Line.down # <<>> /\ Line.down[1][1] = "C" =>
            /\ Len(Line.down) = 1 /\ Thread.pc \in {"headerOk", "ended"}
            /\ remote[Next1].there
            /\ client.alone => Line.down[1][2].size = Len(remote[Next1].data)
  /\ client.pc = "data" =>
       /\ Thread.pc \in {"headerOk", "send", "finalOk", "ended"}
       /\ Thread.pc = "headerOk" => Line.down = <<>>
       /\ remote[Next1].there /\ local[Next1].there
       /\ client.alone =>
            /\ client.size = Len(remote[Next1].data)
            /\ Trailers
            /\ Line.upOpen /\ Thread.pc \in {"headerOk", "send"} => Unbroken

Downloading ==
  client.op = "download" =>
    /\ client.pc \in {"connect", "header", "data"} => done = {}
    /\ client.pc \in {"connect", "header"} => client.opened = {}
    /\ client.pc = "data" => client.opened \subseteq {Next1}
    /\ client.pc \in {"next", "unserved"} => client.opened \subseteq done
    /\ client.pc = "over" /\ client.outcome = "cancelled" =>
         \A f \in client.opened : f \in done \/ ~local[f].there
    /\ client.pc # "idle" => Thread.done \subseteq done
    /\ client.pc # "idle" /\ client.alone => \A f \in done : local[f] = remote[f]
    /\ Acks
    /\ Received

IInv == Shape /\ Roles /\ Streams /\ Uploading /\ Downloading

-----------------------------------------------------------------------------
(* The contents of files *)

\* The bytes that a hole and an error leave, and the chunks of all files, are values.
LEMMA ValuesHold ==
  /\ Hole \in Values /\ Garbage \in Values
  /\ \A f \in Files : {Local0[f], Edited[f], Remote0[f]} \subseteq Seq(Values)
<1> DEFINE Chunks == {{s[f][i] : i \in DOMAIN s[f]} : s \in {Local0, Edited, Remote0}, f \in Files}
<1>1. Values = {Hole, Garbage} \cup UNION Chunks
  BY DEF Values
<1>2. ASSUME NEW f \in Files, NEW s \in {Local0, Edited, Remote0}
      PROVE  s[f] \in Seq(Values)
  <2>1. {s[f][i] : i \in DOMAIN s[f]} \in Chunks
    OBVIOUS
  <2>2. \A i \in DOMAIN s[f] : s[f][i] \in Values
    <3> HIDE DEF Chunks
    <3> QED
      BY <1>1, <2>1
  <2>3. PICK q \in Seq(Nat) : q = s[f]
    BY TransferAssumption
  <2>4. DOMAIN q = 1..Len(q) /\ Len(q) \in Nat /\ q = [i \in 1..Len(q) |-> q[i]]
    BY <2>3
  <2>5. q \in Seq(Values)
    BY <2>2, <2>3, <2>4, SMTT(30)
  <2> QED
    BY <2>3, <2>5
<1>3. Hole \in Values /\ Garbage \in Values
  <2> HIDE DEF Chunks
  <2> QED
    BY <1>1
<1> QED
  BY <1>2, <1>3

-----------------------------------------------------------------------------
(* What the updates of the model do to their records *)

\* The client goes on.
LEMMA ClientGoes ==
  ASSUME NEW c \in Clients, NEW p \in ClientPcs, NEW d, d = [c EXCEPT !.pc = p]
  PROVE  /\ d \in Clients
         /\ d.pc = p /\ d.op = c.op /\ d.conn = c.conn /\ d.left = c.left /\ d.at = c.at
         /\ d.size = c.size /\ d.outcome = c.outcome /\ d.opened = c.opened /\ d.alone = c.alone
BY DEF Clients

\* Its place in the file moves.
LEMMA ClientAt ==
  ASSUME NEW c \in Clients, NEW k \in Nat, NEW d, d = [c EXCEPT !.at = k]
  PROVE  /\ d \in Clients
         /\ d.pc = c.pc /\ d.op = c.op /\ d.conn = c.conn /\ d.left = c.left /\ d.at = k
         /\ d.size = c.size /\ d.outcome = c.outcome /\ d.opened = c.opened /\ d.alone = c.alone
BY DEF Clients

\* The user has cancelled.
LEMMA ClientCancelled ==
  ASSUME NEW c \in Clients, NEW d, d = [c EXCEPT !.cancel = TRUE]
  PROVE  /\ d \in Clients
         /\ d.pc = c.pc /\ d.op = c.op /\ d.conn = c.conn /\ d.left = c.left /\ d.at = c.at
         /\ d.size = c.size /\ d.outcome = c.outcome /\ d.opened = c.opened /\ d.alone = c.alone
BY DEF Clients

\* NextFile, upload: a new file.
WithNext(c, p, s, k) == [c EXCEPT !.pc = p, !.size = s, !.at = k]

\* The client is at a new file, and keeps the rest.
LEMMA ClientNext ==
  ASSUME NEW c \in Clients, NEW p \in ClientPcs, NEW k \in Nat, NEW s \in Nat
  PROVE  LET d == WithNext(c, p, s, k) IN
         /\ d \in Clients
         /\ d.pc = p /\ d.op = c.op /\ d.conn = c.conn /\ d.left = c.left /\ d.at = k
         /\ d.size = s /\ d.outcome = c.outcome /\ d.opened = c.opened /\ d.alone = c.alone
<1>1. PICK e : e = [c EXCEPT !.pc = p]
  OBVIOUS
<1>2. PICK f : f = [e EXCEPT !.size = s]
  OBVIOUS
<1>3. PICK d : d = [f EXCEPT !.at = k]
  OBVIOUS
<1>4. d = WithNext(c, p, s, k)
  BY <1>1, <1>2, <1>3 DEF WithNext
<1>5. /\ d \in Clients
      /\ d.pc = p /\ d.op = c.op /\ d.conn = c.conn /\ d.left = c.left /\ d.at = k
      /\ d.size = s /\ d.outcome = c.outcome /\ d.opened = c.opened /\ d.alone = c.alone
  BY <1>1, <1>2, <1>3 DEF Clients
<1> QED
  BY <1>4, <1>5

\* FileDone.
WithLeft(c, p, l) == [c EXCEPT !.pc = p, !.left = l]

\* The client has one file less to copy, and keeps the rest.
LEMMA ClientDone ==
  ASSUME NEW c \in Clients, NEW p \in ClientPcs, NEW l \in Seq(Files)
  PROVE  LET d == WithLeft(c, p, l) IN
         /\ d \in Clients
         /\ d.pc = p /\ d.op = c.op /\ d.conn = c.conn /\ d.left = l /\ d.at = c.at
         /\ d.size = c.size /\ d.outcome = c.outcome /\ d.opened = c.opened /\ d.alone = c.alone
<1>1. PICK e : e = [c EXCEPT !.pc = p]
  OBVIOUS
<1>2. PICK d : d = [e EXCEPT !.left = l]
  OBVIOUS
<1>3. d = WithLeft(c, p, l)
  BY <1>1, <1>2 DEF WithLeft
<1>4. /\ d \in Clients
      /\ d.pc = p /\ d.op = c.op /\ d.conn = c.conn /\ d.left = l /\ d.at = c.at
      /\ d.size = c.size /\ d.outcome = c.outcome /\ d.opened = c.opened /\ d.alone = c.alone
  BY <1>1, <1>2 DEF Clients
<1> QED
  BY <1>3, <1>4

\* Header: the local file is opened.
WithOpened(c, p, k, s, l) == [c EXCEPT !.pc = p, !.at = k, !.size = s, !.opened = l]

\* The client has opened a file of this size, and keeps the rest.
LEMMA ClientOpens ==
  ASSUME NEW c \in Clients, NEW p \in ClientPcs, NEW k \in Nat, NEW s \in Nat,
         NEW l \in SUBSET Files
  PROVE  LET d == WithOpened(c, p, k, s, l) IN
         /\ d \in Clients
         /\ d.pc = p /\ d.op = c.op /\ d.conn = c.conn /\ d.left = c.left /\ d.at = k
         /\ d.size = s /\ d.outcome = c.outcome /\ d.opened = l /\ d.alone = c.alone
<1>1. PICK e : e = [c EXCEPT !.pc = p]
  OBVIOUS
<1>2. PICK f : f = [e EXCEPT !.at = k]
  OBVIOUS
<1>3. PICK g : g = [f EXCEPT !.size = s]
  OBVIOUS
<1>4. PICK d : d = [g EXCEPT !.opened = l]
  OBVIOUS
<1>5. d = WithOpened(c, p, k, s, l)
  BY <1>1, <1>2, <1>3, <1>4 DEF WithOpened
<1>6. /\ d \in Clients
      /\ d.pc = p /\ d.op = c.op /\ d.conn = c.conn /\ d.left = c.left /\ d.at = k
      /\ d.size = s /\ d.outcome = c.outcome /\ d.opened = l /\ d.alone = c.alone
  BY <1>1, <1>2, <1>3, <1>4 DEF Clients
<1> QED
  BY <1>5, <1>6

\* Ends: of the transfer only the operation, what it has opened and its outcome are left.
Over(c, o) == [NoTransfer EXCEPT !.pc = "over", !.op = c.op, !.conn = c.conn, !.outcome = o,
                                 !.opened = c.opened, !.alone = c.alone]

\* What is left of the client is a client.
LEMMA ClientEnds ==
  ASSUME NEW c \in Clients, NEW o \in Outcomes
  PROVE  LET d == Over(c, o) IN
         /\ d \in Clients
         /\ d.pc = "over" /\ d.op = c.op /\ d.conn = c.conn /\ d.left = <<>>
         /\ d.outcome = o /\ d.opened = c.opened /\ d.alone = c.alone
<1>0. NoTransfer \in Clients /\ NoTransfer.left = <<>>
  BY DEF NoTransfer, Clients, ClientPcs, Ops, Outcomes
<1>1. PICK e : e = [NoTransfer EXCEPT !.pc = "over"]
  OBVIOUS
<1>2. PICK f : f = [e EXCEPT !.op = c.op]
  OBVIOUS
<1>3. PICK g : g = [f EXCEPT !.conn = c.conn]
  OBVIOUS
<1>4. PICK h : h = [g EXCEPT !.outcome = o]
  OBVIOUS
<1>5. PICK k : k = [h EXCEPT !.opened = c.opened]
  OBVIOUS
<1>6. PICK d : d = [k EXCEPT !.alone = c.alone]
  OBVIOUS
<1>7. d = Over(c, o)
  BY <1>1, <1>2, <1>3, <1>4, <1>5, <1>6 DEF Over
<1>8. "over" \in ClientPcs
  BY DEF ClientPcs
<1>9. /\ d \in Clients
      /\ d.pc = "over" /\ d.op = c.op /\ d.conn = c.conn /\ d.left = <<>>
      /\ d.outcome = o /\ d.opened = c.opened /\ d.alone = c.alone
  BY <1>0, <1>1, <1>2, <1>3, <1>4, <1>5, <1>6, <1>8 DEF Clients
<1> QED
  BY <1>7, <1>9

\* Start: a new transfer.
Started(o, n, l, a) ==
  [NoTransfer EXCEPT !.pc = "connect", !.op = o, !.conn = n, !.left = l, !.alone = a]

\* A new transfer has ended nothing and opened nothing.
LEMMA ClientStarts ==
  ASSUME NEW o \in {"upload", "download"}, NEW n \in Conns, NEW l \in Seq(Files), NEW a \in BOOLEAN
  PROVE  LET d == Started(o, n, l, a) IN
         /\ d \in Clients
         /\ d.pc = "connect" /\ d.op = o /\ d.conn = n /\ d.left = l
         /\ d.outcome = "none" /\ d.opened = {} /\ d.alone = a
<1>0. NoTransfer \in Clients /\ NoTransfer.opened = {} /\ NoTransfer.outcome = "none"
  BY DEF NoTransfer, Clients, ClientPcs, Ops, Outcomes
<1>1. PICK e : e = [NoTransfer EXCEPT !.pc = "connect"]
  OBVIOUS
<1>2. PICK f : f = [e EXCEPT !.op = o]
  OBVIOUS
<1>3. PICK g : g = [f EXCEPT !.conn = n]
  OBVIOUS
<1>4. PICK h : h = [g EXCEPT !.left = l]
  OBVIOUS
<1>5. PICK d : d = [h EXCEPT !.alone = a]
  OBVIOUS
<1>6. d = Started(o, n, l, a)
  BY <1>1, <1>2, <1>3, <1>4, <1>5 DEF Started
<1>7. "connect" \in ClientPcs /\ o \in Ops
  BY DEF ClientPcs, Ops
<1>8. /\ d \in Clients
      /\ d.pc = "connect" /\ d.op = o /\ d.conn = n /\ d.left = l
      /\ d.outcome = "none" /\ d.opened = {} /\ d.alone = a
  BY <1>0, <1>1, <1>2, <1>3, <1>4, <1>5, <1>7 DEF Clients
<1> QED
  BY <1>6, <1>8

\* A channel with these contents, closed by its client, or closed by its thread.
Holding(ch, c, u, w) == [ch EXCEPT ![c].up = u, ![c].down = w]
ClosedUp(ch, c)      == [ch EXCEPT ![c].upOpen = FALSE, ![c].down = <<>>]
ClosedDown(ch, c, w) == [ch EXCEPT ![c].up = <<>>, ![c].down = w, ![c].downOpen = FALSE]

\* The contents change.
LEMMA ChannelHolds ==
  ASSUME NEW ch \in [Conns -> Channels], NEW c \in Conns,
         NEW u \in Seq(Tokens), NEW w \in Seq(Tokens)
  PROVE  LET d == Holding(ch, c, u, w) IN
         /\ d \in [Conns -> Channels]
         /\ d[c].up = u /\ d[c].down = w
         /\ d[c].upOpen = ch[c].upOpen /\ d[c].downOpen = ch[c].downOpen
         /\ \A x \in Conns \ {c} : d[x] = ch[x]
<1>0. PICK k \in Channels : k = ch[c]
  OBVIOUS
<1>1. PICK r : r = [k EXCEPT !.up = u]
  OBVIOUS
<1>2. PICK q : q = [r EXCEPT !.down = w]
  OBVIOUS
<1>3. /\ q \in Channels /\ q.up = u /\ q.down = w
      /\ q.upOpen = k.upOpen /\ q.downOpen = k.downOpen
  BY <1>1, <1>2 DEF Channels
<1>4. Holding(ch, c, u, w) = [ch EXCEPT ![c] = q]
  BY <1>0, <1>1, <1>2 DEF Holding, Channels
<1> QED
  BY <1>0, <1>3, <1>4

\* The order of the two updates does not matter.
LEMMA SameHolding ==
  ASSUME NEW ch \in [Conns -> Channels], NEW c \in Conns, NEW u, NEW w
  PROVE  [ch EXCEPT ![c].down = w, ![c].up = u] = Holding(ch, c, u, w)
BY DEF Holding, Channels

\* One of the two changes.
WithUp(ch, c, u)   == [ch EXCEPT ![c].up = u]
WithDown(ch, c, w) == [ch EXCEPT ![c].down = w]

\* One stream of one channel changes, the other and the ends stay.
LEMMA UpBecomes ==
  ASSUME NEW ch \in [Conns -> Channels], NEW c \in Conns, NEW u \in Seq(Tokens)
  PROVE  LET d == WithUp(ch, c, u) IN
         /\ d \in [Conns -> Channels]
         /\ d[c].up = u /\ d[c].down = ch[c].down
         /\ d[c].upOpen = ch[c].upOpen /\ d[c].downOpen = ch[c].downOpen
         /\ \A x \in Conns \ {c} : d[x] = ch[x]
BY DEF WithUp, Channels

\* The same for the stream to the client.
LEMMA DownBecomes ==
  ASSUME NEW ch \in [Conns -> Channels], NEW c \in Conns, NEW w \in Seq(Tokens)
  PROVE  LET d == WithDown(ch, c, w) IN
         /\ d \in [Conns -> Channels]
         /\ d[c].up = ch[c].up /\ d[c].down = w
         /\ d[c].upOpen = ch[c].upOpen /\ d[c].downOpen = ch[c].downOpen
         /\ \A x \in Conns \ {c} : d[x] = ch[x]
BY DEF WithDown, Channels

\* The client closes the connection.
LEMMA ClientCloses ==
  ASSUME NEW ch \in [Conns -> Channels], NEW c \in Conns
  PROVE  LET d == ClosedUp(ch, c) IN
         /\ d \in [Conns -> Channels]
         /\ d[c].up = ch[c].up /\ d[c].down = <<>>
         /\ ~d[c].upOpen /\ d[c].downOpen = ch[c].downOpen
         /\ \A x \in Conns \ {c} : d[x] = ch[x]
<1>0. PICK k \in Channels : k = ch[c]
  OBVIOUS
<1>a. PICK no \in BOOLEAN : no = FALSE
  OBVIOUS
<1>b. PICK e \in Seq(Tokens) : e = <<>>
  BY EmptySeq
<1>1. PICK r : r = [k EXCEPT !.upOpen = no]
  OBVIOUS
<1>2. PICK q : q = [r EXCEPT !.down = e]
  OBVIOUS
<1>3. /\ q \in Channels /\ q.up = k.up /\ q.down = e
      /\ q.upOpen = no /\ q.downOpen = k.downOpen
  BY <1>1, <1>2 DEF Channels
<1>4. ClosedUp(ch, c) = [ch EXCEPT ![c] = q]
  BY <1>0, <1>a, <1>b, <1>1, <1>2 DEF ClosedUp, Channels
<1> QED
  BY <1>0, <1>a, <1>b, <1>3, <1>4

\* The thread closes it.
LEMMA ThreadCloses ==
  ASSUME NEW ch \in [Conns -> Channels], NEW c \in Conns, NEW w \in Seq(Tokens)
  PROVE  LET d == ClosedDown(ch, c, w) IN
         /\ d \in [Conns -> Channels]
         /\ d[c].up = <<>> /\ d[c].down = w
         /\ \A x \in Conns \ {c} : d[x] = ch[x]
<1>0. PICK k \in Channels : k = ch[c]
  OBVIOUS
<1>a. PICK no \in BOOLEAN : no = FALSE
  OBVIOUS
<1>b. PICK e \in Seq(Tokens) : e = <<>>
  BY EmptySeq
<1>1. PICK r : r = [k EXCEPT !.up = e]
  OBVIOUS
<1>2. PICK q : q = [r EXCEPT !.down = w]
  OBVIOUS
<1>3. PICK p : p = [q EXCEPT !.downOpen = no]
  OBVIOUS
<1>4. /\ p \in Channels /\ p.up = e /\ p.down = w
      /\ p.upOpen = k.upOpen /\ p.downOpen = no
  BY <1>1, <1>2, <1>3 DEF Channels
<1>5. ClosedDown(ch, c, w) = [ch EXCEPT ![c] = p]
  BY <1>0, <1>a, <1>b, <1>1, <1>2, <1>3 DEF ClosedDown, Channels
<1> QED
  BY <1>0, <1>a, <1>b, <1>4, <1>5

\* A thread at another place of its code, file and work.
Doing(th, c, p, f, s, k)  == [th EXCEPT ![c].pc = p, ![c].file = f, ![c].size = s, ![c].at = k]
Reporting(th, c, p, fs)   == [th EXCEPT ![c].pc = p, ![c].done = fs]
Sized(th, c, p, s)        == [th EXCEPT ![c].pc = p, ![c].size = s]
Gone(th, c, fs)           == [th EXCEPT ![c] = [NoThread EXCEPT !.pc = "ended", !.done = fs]]
Serving(th, c, o, f)      == [th EXCEPT ![c] = [NoThread EXCEPT !.pc = "command", !.op = o, !.file = f]]

\* A thread goes on.
LEMMA ThreadGoes ==
  ASSUME NEW th \in [Conns -> Threads], NEW c \in Conns, NEW p \in ThreadPcs,
         NEW d, d = [th EXCEPT ![c].pc = p]
  PROVE  /\ d \in [Conns -> Threads]
         /\ d[c].pc = p /\ d[c].op = th[c].op /\ d[c].file = th[c].file
         /\ d[c].at = th[c].at /\ d[c].size = th[c].size /\ d[c].done = th[c].done
         /\ \A x \in Conns \ {c} : d[x] = th[x]
BY DEF Threads

\* Its place in the file moves.
LEMMA ThreadAt ==
  ASSUME NEW th \in [Conns -> Threads], NEW c \in Conns, NEW k \in Nat,
         NEW d, d = [th EXCEPT ![c].at = k]
  PROVE  /\ d \in [Conns -> Threads]
         /\ d[c].pc = th[c].pc /\ d[c].op = th[c].op /\ d[c].file = th[c].file
         /\ d[c].at = k /\ d[c].size = th[c].size /\ d[c].done = th[c].done
         /\ \A x \in Conns \ {c} : d[x] = th[x]
BY DEF Threads

\* FileHeader: a new file.
LEMMA ThreadOpens ==
  ASSUME NEW th \in [Conns -> Threads], NEW c \in Conns,
         NEW p \in ThreadPcs, NEW f \in Files, NEW s \in Nat, NEW k \in Nat
  PROVE  LET d == Doing(th, c, p, f, s, k) IN
         /\ d \in [Conns -> Threads]
         /\ d[c].pc = p /\ d[c].op = th[c].op /\ d[c].file = f
         /\ d[c].at = k /\ d[c].size = s /\ d[c].done = th[c].done
         /\ \A x \in Conns \ {c} : d[x] = th[x]
<1>0. PICK t \in Threads : t = th[c]
  OBVIOUS
<1>1. PICK r : r = [t EXCEPT !.pc = p]
  OBVIOUS
<1>2. PICK q : q = [r EXCEPT !.file = f]
  OBVIOUS
<1>3. PICK o : o = [q EXCEPT !.size = s]
  OBVIOUS
<1>4. PICK n : n = [o EXCEPT !.at = k]
  OBVIOUS
<1>5. /\ n \in Threads /\ n.pc = p /\ n.op = t.op /\ n.file = f /\ n.at = k /\ n.size = s
      /\ n.done = t.done
  BY <1>1, <1>2, <1>3, <1>4 DEF Threads
<1>6. Doing(th, c, p, f, s, k) = [th EXCEPT ![c] = n]
  <2>1. PICK t1 : t1 = [th EXCEPT ![c].pc = p]
    OBVIOUS
  <2>2. PICK t2 : t2 = [t1 EXCEPT ![c].file = f]
    OBVIOUS
  <2>3. PICK t3 : t3 = [t2 EXCEPT ![c].size = s]
    OBVIOUS
  <2>4. Doing(th, c, p, f, s, k) = [t3 EXCEPT ![c].at = k]
    BY <2>1, <2>2, <2>3 DEF Doing
  <2>5. t1 = [th EXCEPT ![c] = r]
    BY <1>0, <1>1, <2>1
  <2>6. t2 = [th EXCEPT ![c] = q]
    BY <1>2, <2>2, <2>5
  <2>7. t3 = [th EXCEPT ![c] = o]
    BY <1>3, <2>3, <2>6
  <2> QED
    BY <1>4, <2>4, <2>7
<1> QED
  BY <1>0, <1>5, <1>6

\* UploadTrailer: the file is reported.
LEMMA ThreadReports ==
  ASSUME NEW th \in [Conns -> Threads], NEW c \in Conns,
         NEW p \in ThreadPcs, NEW fs \in SUBSET Files
  PROVE  LET d == Reporting(th, c, p, fs) IN
         /\ d \in [Conns -> Threads]
         /\ d[c].pc = p /\ d[c].op = th[c].op /\ d[c].file = th[c].file
         /\ d[c].at = th[c].at /\ d[c].size = th[c].size /\ d[c].done = fs
         /\ \A x \in Conns \ {c} : d[x] = th[x]
<1>0. PICK t \in Threads : t = th[c]
  OBVIOUS
<1>1. PICK r : r = [t EXCEPT !.pc = p]
  OBVIOUS
<1>2. PICK q : q = [r EXCEPT !.done = fs]
  OBVIOUS
<1>3. /\ q \in Threads /\ q.pc = p /\ q.op = t.op /\ q.file = t.file /\ q.at = t.at
      /\ q.size = t.size /\ q.done = fs
  BY <1>1, <1>2 DEF Threads
<1>4. Reporting(th, c, p, fs) = [th EXCEPT ![c] = q]
  BY <1>0, <1>1, <1>2 DEF Reporting, Threads
<1> QED
  BY <1>0, <1>3, <1>4

\* SendHeader: the size is known.
LEMMA ThreadSized ==
  ASSUME NEW th \in [Conns -> Threads], NEW c \in Conns, NEW p \in ThreadPcs, NEW s \in Nat
  PROVE  LET d == Sized(th, c, p, s) IN
         /\ d \in [Conns -> Threads]
         /\ d[c].pc = p /\ d[c].op = th[c].op /\ d[c].file = th[c].file
         /\ d[c].at = th[c].at /\ d[c].size = s /\ d[c].done = th[c].done
         /\ \A x \in Conns \ {c} : d[x] = th[x]
<1>0. PICK t \in Threads : t = th[c]
  OBVIOUS
<1>1. PICK r : r = [t EXCEPT !.pc = p]
  OBVIOUS
<1>2. PICK q : q = [r EXCEPT !.size = s]
  OBVIOUS
<1>3. /\ q \in Threads /\ q.pc = p /\ q.op = t.op /\ q.file = t.file /\ q.at = t.at
      /\ q.size = s /\ q.done = t.done
  BY <1>1, <1>2 DEF Threads
<1>4. Sized(th, c, p, s) = [th EXCEPT ![c] = q]
  BY <1>0, <1>1, <1>2 DEF Sized, Threads
<1> QED
  BY <1>0, <1>3, <1>4

\* A thread ends, and keeps what it has reported.
LEMMA ThreadGone ==
  ASSUME NEW th \in [Conns -> Threads], NEW c \in Conns, NEW fs \in SUBSET Files
  PROVE  LET d == Gone(th, c, fs) IN
         /\ d \in [Conns -> Threads]
         /\ d[c].pc = "ended" /\ d[c].done = fs
         /\ \A x \in Conns \ {c} : d[x] = th[x]
<1>0. NoThread \in Threads
  BY DEF NoThread, Threads, ThreadPcs, Ops
<1>a. "ended" \in ThreadPcs
  BY DEF ThreadPcs
<1>1. PICK r : r = [NoThread EXCEPT !.pc = "ended"]
  OBVIOUS
<1>2. PICK q : q = [r EXCEPT !.done = fs]
  OBVIOUS
<1>3. q \in Threads /\ q.pc = "ended" /\ q.done = fs
  BY <1>0, <1>a, <1>1, <1>2 DEF Threads
<1>4. Gone(th, c, fs) = [th EXCEPT ![c] = q]
  BY <1>1, <1>2 DEF Gone
<1> QED
  BY <1>3, <1>4

\* Connect: the thread of the connection gets its command.
LEMMA ThreadServes ==
  ASSUME NEW th \in [Conns -> Threads], NEW c \in Conns, NEW o \in Ops, NEW f \in Files
  PROVE  LET d == Serving(th, c, o, f) IN
         /\ d \in [Conns -> Threads]
         /\ d[c].pc = "command" /\ d[c].op = o /\ d[c].file = f /\ d[c].at = 0 /\ d[c].done = {}
         /\ \A x \in Conns \ {c} : d[x] = th[x]
<1>0. NoThread \in Threads /\ NoThread.done = {} /\ NoThread.at = 0
  BY DEF NoThread, Threads, ThreadPcs, Ops
<1>a. "command" \in ThreadPcs
  BY DEF ThreadPcs
<1>1. PICK r : r = [NoThread EXCEPT !.pc = "command"]
  OBVIOUS
<1>2. PICK q : q = [r EXCEPT !.op = o]
  OBVIOUS
<1>3. PICK n : n = [q EXCEPT !.file = f]
  OBVIOUS
<1>4. n \in Threads /\ n.pc = "command" /\ n.op = o /\ n.file = f /\ n.at = 0 /\ n.done = {}
  BY <1>0, <1>a, <1>1, <1>2, <1>3 DEF Threads
<1>5. Serving(th, c, o, f) = [th EXCEPT ![c] = n]
  BY <1>1, <1>2, <1>3 DEF Serving
<1> QED
  BY <1>4, <1>5

-----------------------------------------------------------------------------
(* The steps of the client *)

\* The panel has a connection.
LEMMA Located ==
  ASSUME Shape, Roles, client.pc # "idle"
  PROVE  /\ Here \in Conns /\ Here \in Nat /\ client.op \in {"upload", "download"}
         /\ Thread \in Threads /\ Line \in Channels
         /\ Line.up \in Seq(Tokens) /\ Line.down \in Seq(Tokens)
BY TransferAssumption DEF Shape, Roles, Cast, Others, Thread, Line, Here, Clients, Ops, Channels

\* The other connections are as they were when only c was used.
LEMMA OthersKeep ==
  ASSUME Shape, Others, NEW c \in Conns, Here \in Nat,
         \A x \in Conns \ {c} : channel'[x] = channel[x] /\ server'[x] = server[x],
         client'.conn = client.conn, client'.alone = client.alone,
         \/ server[c].pc \notin {"new", "ended"} /\ client'.pc = client.pc
         \/ c = Here /\ client'.pc # "connect"
  PROVE  Others'
<1>1. NoThread.pc = "new" /\ \A x \in Conns : x \in Nat
  BY TransferAssumption DEF NoThread
<1> QED
  BY <1>1 DEF Others, Here

\* So are the streams of their threads.
LEMMA StreamsKeep ==
  ASSUME Shape, Streams, NEW c \in Conns,
         \A x \in Conns \ {c} : channel'[x] = channel[x] /\ server'[x] = server[x],
         \A f \in Files : remote[f].there => remote'[f].there,
         StreamOf(c)'
  PROVE  Streams'
<1>1. ASSUME NEW x \in Conns \ {c} PROVE StreamOf(x)'
  <2>1. StreamOf(x) /\ channel'[x] = channel[x] /\ server'[x] = server[x]
    BY <1>1 DEF Streams
  <2>2. server[x].pc \notin {"new", "ended"} => server[x].file \in Files
    BY <2>1 DEF StreamOf
  <2> QED
    BY <2>1, <2>2 DEF StreamOf
<1> QED
  BY <1>1 DEF Streams

\* Receive: the head of what has arrived is taken.
LEMMA Receives ==
  ASSUME Shape, Here \in Conns, Receive
  PROVE  /\ channel' \in [Conns -> Channels]
         /\ channel'[Here].down = Tail(Line.down) /\ channel'[Here].up = Line.up
         /\ channel'[Here].upOpen = Line.upOpen
         /\ Line.down # <<>> /\ Head(Line.down) = Line.down[1] /\ Len(Line.down) >= 1
         /\ Len(Tail(Line.down)) = Len(Line.down) - 1
         /\ \A i \in 1..(Len(Line.down) - 1) : Tail(Line.down)[i] = Line.down[i + 1]
         /\ \A x \in Conns \ {Here} : channel'[x] = channel[x]
<1>1. Line.down \in Seq(Tokens)
  BY DEF Shape, Channels, Line
<1>2. Line.down # <<>>
  BY DEF Receive, Incoming, Line
<1>3. Tail(Line.down) \in Seq(Tokens) /\ Len(Tail(Line.down)) = Len(Line.down) - 1
      /\ Len(Line.down) \in Nat \ {0}
      /\ \A i \in 1..(Len(Line.down) - 1) : Tail(Line.down)[i] = Line.down[i + 1]
  BY <1>1, <1>2, HeadTailProperties, EmptySeq
<1>4. PICK w \in Seq(Tokens) : w = Tail(Line.down)
  BY <1>3
<1>5. channel \in [Conns -> Channels]
  BY DEF Shape
<1>6. channel' = WithDown(channel, Here, w)
  BY <1>4 DEF Receive, Line, WithDown
<1>7. /\ channel' \in [Conns -> Channels]
      /\ channel'[Here].down = w /\ channel'[Here].up = channel[Here].up
      /\ channel'[Here].upOpen = channel[Here].upOpen
      /\ \A x \in Conns \ {Here} : channel'[x] = channel[x]
  BY <1>5, <1>6, DownBecomes
<1> QED
  BY <1>1, <1>2, <1>3, <1>4, <1>7 DEF Line

\* Send: one more token is under way.
LEMMA Sends ==
  ASSUME Shape, Here \in Conns, NEW t \in Tokens, Send(t)
  PROVE  /\ channel' \in [Conns -> Channels]
         /\ channel'[Here].up = Append(Line.up, t) /\ channel'[Here].down = Line.down
         /\ channel'[Here].upOpen = Line.upOpen
         /\ Len(Append(Line.up, t)) = Len(Line.up) + 1
         /\ \A i \in 1..Len(Line.up) : Append(Line.up, t)[i] = Line.up[i]
         /\ Append(Line.up, t)[Len(Line.up) + 1] = t
         /\ \A x \in Conns \ {Here} : channel'[x] = channel[x]
<1>1. Line.up \in Seq(Tokens)
  BY DEF Shape, Channels, Line
<1>2. /\ Append(Line.up, t) \in Seq(Tokens)
      /\ Len(Append(Line.up, t)) = Len(Line.up) + 1
      /\ \A i \in 1..Len(Line.up) : Append(Line.up, t)[i] = Line.up[i]
      /\ Append(Line.up, t)[Len(Line.up) + 1] = t
  BY <1>1, AppendProperties
<1>3. PICK u \in Seq(Tokens) : u = Append(Line.up, t)
  BY <1>2
<1>4. channel \in [Conns -> Channels]
  BY DEF Shape
<1>5. channel' = WithUp(channel, Here, u)
  BY <1>3 DEF Send, Line, WithUp
<1>6. /\ channel' \in [Conns -> Channels]
      /\ channel'[Here].up = u /\ channel'[Here].down = channel[Here].down
      /\ channel'[Here].upOpen = channel[Here].upOpen
      /\ \A x \in Conns \ {Here} : channel'[x] = channel[x]
  BY <1>4, <1>5, UpBecomes
<1> QED
  BY <1>2, <1>3, <1>6 DEF Line

\* Ready: the server has accepted the upload.
LEMMA ReadyStep == IInv /\ Ready => IInv'
<1> SUFFICES ASSUME IInv, Ready PROVE IInv'
  OBVIOUS
<1> USE DEF Here
<1>1. /\ Here \in Conns /\ client.op = "upload" /\ client.pc = "ready"
      /\ Thread \in Threads /\ Line \in Channels
  BY Located DEF IInv, Ready, Roles, Cast, Others
<1>2. /\ client' \in Clients
      /\ client'.pc = "next" /\ client'.op = client.op /\ client'.conn = client.conn
      /\ client'.left = client.left /\ client'.at = client.at
      /\ client'.size = client.size
      /\ client'.outcome = client.outcome
      /\ client'.opened = client.opened /\ client'.alone = client.alone
  BY ClientGoes DEF IInv, Shape, Ready, To, ClientPcs
<1>3. /\ channel' \in [Conns -> Channels]
      /\ channel'[Here].down = Tail(Line.down) /\ channel'[Here].up = Line.up
      /\ channel'[Here].upOpen = Line.upOpen
      /\ Line.down # <<>> /\ Len(Line.down) >= 1
      /\ Len(Tail(Line.down)) = Len(Line.down) - 1
      /\ \A i \in 1..(Len(Line.down) - 1) : Tail(Line.down)[i] = Line.down[i + 1]
      /\ \A x \in Conns \ {Here} : channel'[x] = channel[x]
  BY <1>1, Receives DEF IInv, Ready
<1>4. UNCHANGED <<local, remote, readOnly, stop, done, server>>
  BY DEF Ready, ServerSide, Disk
<1>5. Shape'
  BY <1>2, <1>3, <1>4 DEF IInv, Shape
<1>6. Roles'
  BY <1>1, <1>2, <1>3, <1>4, TransferAssumption DEF IInv, Roles, Cast, Others, Thread, Active
<1>7. Streams'
  BY <1>1, <1>3, <1>4 DEF IInv, Streams, StreamOf, Line
<1>8. Uploading'
  <2>1. Uploading /\ client.op = "upload"
    BY <1>1 DEF IInv
  <2>2. Paired'
    BY <1>1, <1>2, <1>3, <1>4, <2>1 DEF Uploading, Paired, Thread, Line, Active, Answered
  <2>3. HalfWay'
    BY <1>2 DEF HalfWay
  <2> QED
    BY <1>1, <1>2, <1>3, <1>4, <2>1, <2>2, <2>3 DEF Uploading, Thread, Line
<1>9. Downloading'
  BY <1>1, <1>2 DEF Downloading
<1> QED
  BY <1>5, <1>6, <1>7, <1>8, <1>9 DEF IInv

\* Whatever ends a transfer: the thread may still have something to read.
LEMMA EndsKeeps ==
  ASSUME IInv, Active, NEW o \in Outcomes, Ends(o),
         UNCHANGED <<remote, readOnly, stop, done, server>>,
         local' \in Disks, \A f \in done : local'[f] = local[f],
         client.op = "upload" => local' = local,
         client.op = "download" /\ o = "cancelled" =>
           \A f \in client.opened : f \in done \/ ~local'[f].there
  PROVE  IInv'
<1> USE DEF Here
<1>1. /\ Here \in Conns /\ client.op \in {"upload", "download"} /\ client.pc # "idle"
      /\ Thread \in Threads /\ Line \in Channels /\ Line.up \in Seq(Tokens)
  BY Located DEF IInv, Active
<1>2. client' = Over(client, o) /\ client \in Clients
  BY DEF Ends, Over, IInv, Shape
<1>3. /\ client' \in Clients
      /\ client'.pc = "over" /\ client'.op = client.op /\ client'.conn = client.conn
      /\ client'.left = <<>>
      /\ client'.outcome = o /\ client'.opened = client.opened /\ client'.alone = client.alone
  BY <1>2, ClientEnds
<1>4. channel' = ClosedUp(channel, Here) /\ channel \in [Conns -> Channels]
  BY DEF Ends, ClosedUp, IInv, Shape
<1>5. /\ channel' \in [Conns -> Channels]
      /\ channel'[Here].up = Line.up /\ channel'[Here].down = <<>>
      /\ ~channel'[Here].upOpen
      /\ \A x \in Conns \ {Here} : channel'[x] = channel[x]
  BY <1>1, <1>4, ClientCloses DEF Line
<1>6. DOMAIN <<>> = {}
  OBVIOUS
<1>7. Shape'
  BY <1>3, <1>5 DEF IInv, Shape
<1>8. Roles'
  <2>1. Cast'
    BY <1>1, <1>3 DEF IInv, Roles, Cast, Thread, Active
  <2>2. Others'
    <3>1. /\ Shape /\ Others /\ Here \in Conns /\ Here \in Nat
          /\ client'.pc # "connect" /\ client'.conn = client.conn /\ client'.alone = client.alone
          /\ \A x \in Conns \ {Here} : channel'[x] = channel[x] /\ server'[x] = server[x]
      BY <1>1, <1>3, <1>5, TransferAssumption DEF IInv, Roles
    <3> QED
      BY <3>1, OthersKeep
  <2> QED
    BY <2>1, <2>2 DEF Roles
<1>9. Streams'
  BY <1>1, <1>5 DEF IInv, Streams, StreamOf, Line
<1>10. Uploading'
  <2>1. Uploading
    BY DEF IInv
  <2>2. Paired'
    BY <1>3 DEF Paired, Active
  <2>3. HalfWay'
    BY <1>3 DEF HalfWay
  <2> QED
    BY <1>1, <1>3, <1>5, <1>6, <2>1, <2>2, <2>3 DEF Uploading, Thread, Line
<1>11. Downloading'
  <2>0. Taken1' = Taken1 /\ Taken1 \in {0, 1, 2} /\ Len(Line.up) \in Nat
    BY <1>1, <1>3 DEF Taken1, Thread
  <2>1. client.op = "download" => Acks'
    BY <1>1, <1>3, <1>5, <2>0 DEF IInv, Downloading, Acks, Thread, Line
  <2>2. Received'
    BY <1>3 DEF Received
  <2> QED
    BY <1>1, <1>3, <2>1, <2>2 DEF IInv, Downloading, Active, Thread
<1> QED
  BY <1>7, <1>8, <1>9, <1>10, <1>11 DEF IInv

\* The ways a transfer ends that touch no file.
LEMMA EndSteps ==
  ASSUME IInv, ConnectFails \/ TimesOut \/ Breaks \/ LocalFails \/ AllFilesDone \/ Cancelled
  PROVE  IInv'
<1>1. PICK o \in {"error", "done", "cancelled"} :
        /\ Ends(o) /\ Active
        /\ UNCHANGED <<local, remote, readOnly, stop, done, server>>
        /\ o = "cancelled" => client.pc \in {"chunks", "next"}
  BY DEF ConnectFails, TimesOut, Breaks, LocalFails, AllFilesDone, Cancelled, ServerSide, Disk,
         Active, Receiving, AllReceived
<1>2. o \in Outcomes /\ local' \in Disks
  BY <1>1 DEF Outcomes, IInv, Shape
<1>3. client.op = "download" /\ o = "cancelled" =>
        \A f \in client.opened : f \in done \/ ~local'[f].there
  BY <1>1 DEF IInv, Roles, Cast, Others, Downloading
<1> QED
  BY <1>1, <1>2, <1>3, EndsKeeps

\* CancelDownload: the part that has arrived is deleted.
LEMMA CancelDownloadStep == IInv /\ CancelDownload => IInv'
<1> SUFFICES ASSUME IInv, CancelDownload PROVE IInv'
  OBVIOUS
<1>1. /\ client.pc = "data" /\ Active /\ Ends("cancelled") /\ client.op = "download"
      /\ UNCHANGED <<remote, readOnly, stop, done, server>>
      /\ local' = [local EXCEPT ![Next1] = Absent]
  BY Located DEF CancelDownload, Active, ServerSide, Unlinked, Next1, IInv, Roles, Cast, Others
<1>2. client.left # <<>> /\ client.left \in Seq(Files) /\ local \in Disks
  BY <1>1 DEF IInv, Roles, Cast, Others, Shape, Clients
<1>3. Next1 \in Files
  BY <1>2, HeadTailProperties DEF Next1
<1>4. Absent \in [there : BOOLEAN, data : Seq(Values)] /\ ~Absent.there
  BY EmptySeq DEF Absent
<1>5. local' \in Disks /\ ~local'[Next1].there
  BY <1>1, <1>2, <1>3, <1>4 DEF Disks
<1>6. done = {} /\ client.opened \subseteq {Next1}
  BY <1>1 DEF IInv, Downloading
<1> QED
  BY <1>1, <1>5, <1>6, EndsKeeps DEF Outcomes

\* Cancel: the event is set.
LEMMA CancelStep == IInv /\ (Cancel \/ StopServer) => IInv'
<1> SUFFICES ASSUME IInv, Cancel \/ StopServer PROVE IInv'
  OBVIOUS
<1>1. /\ client' \in Clients
      /\ client'.pc = client.pc /\ client'.op = client.op /\ client'.conn = client.conn
      /\ client'.left = client.left /\ client'.at = client.at
      /\ client'.size = client.size
      /\ client'.outcome = client.outcome
      /\ client'.opened = client.opened /\ client'.alone = client.alone
  BY ClientCancelled DEF IInv, Shape, Cancel, StopServer
<1>2. UNCHANGED <<local, remote, readOnly, done, server, channel>> /\ stop' \in BOOLEAN
  BY DEF Cancel, StopServer, IInv, Shape
<1> USE DEF Here
<1>3. Shape'
  BY <1>1, <1>2 DEF IInv, Shape
<1>4. Roles'
  BY <1>1, <1>2 DEF IInv, Roles, Cast, Others, Thread, Active
<1>5. Streams'
  BY <1>2 DEF IInv, Streams, StreamOf
<1>6. Uploading'
  <2>1. Uploading
    BY DEF IInv
  <2>2. Thread' = Thread /\ Line' = Line /\ Next1' = Next1
    BY <1>1, <1>2 DEF Thread, Line, Next1
  <2> HIDE DEF Here
  <2>3. client.op = "upload" => Paired'
    BY <1>1, <1>2, <2>1, <2>2 DEF Uploading, Paired, Active, Answered
  <2>4. client.op = "upload" => HalfWay'
    BY <1>1, <1>2, <2>1, <2>2 DEF Uploading, HalfWay
  <2> QED
    BY <1>1, <1>2, <2>1, <2>2, <2>3, <2>4 DEF Uploading
<1>7. Downloading'
  <2>1. Acks' <=> Acks
    BY <1>1, <1>2 DEF Acks, Taken1, Thread, Line, Next1
  <2>2. Trailers' <=> Trailers
    BY <1>1, <1>2 DEF Trailers, Prefix, DataUpTo, Line, Next1
  <2>3. Unbroken' <=> Unbroken
    BY <1>1, <1>2 DEF Unbroken, Prefix, DataUpTo, Thread, Line, Next1
  <2>4. Received' <=> Received
    BY <1>1, <1>2, <2>2, <2>3 DEF Received, Thread, Line, Next1
  <2> QED
    BY <1>1, <1>2, <2>1, <2>4 DEF IInv, Downloading, Thread, Next1
<1> QED
  BY <1>3, <1>4, <1>5, <1>6, <1>7 DEF IInv

\* Finished: the panel gets its buttons back.
LEMMA FinishedStep == IInv /\ Finished => IInv'
<1> SUFFICES ASSUME IInv, Finished PROVE IInv'
  OBVIOUS
<1>1. /\ client' \in Clients /\ client.pc = "over"
      /\ client'.pc = "idle" /\ client'.op = client.op /\ client'.conn = client.conn
      /\ client'.left = client.left /\ client'.at = client.at
      /\ client'.size = client.size
      /\ client'.outcome = client.outcome
      /\ client'.opened = client.opened /\ client'.alone = client.alone
  BY ClientGoes DEF IInv, Shape, Finished, ClientPcs
<1>2. UNCHANGED <<local, remote, readOnly, stop, done, server, channel>>
  BY DEF Finished
<1> USE DEF Here
<1>3. Shape'
  BY <1>1, <1>2 DEF IInv, Shape
<1>4. Roles'
  BY <1>1, <1>2 DEF IInv, Roles, Cast, Others, Thread, Active
<1>5. Streams'
  BY <1>2 DEF IInv, Streams, StreamOf
<1>6. Uploading'
  <2>1. Uploading
    BY DEF IInv
  <2>2. Thread' = Thread /\ Line' = Line /\ Next1' = Next1
    BY <1>1, <1>2 DEF Thread, Line, Next1
  <2> HIDE DEF Here
  <2>3. client.op = "upload" => Paired'
    BY <1>1, <1>2, <2>1, <2>2 DEF Uploading, Paired, Active, Answered
  <2>4. client.op = "upload" => HalfWay'
    BY <1>1, <1>2, <2>1, <2>2 DEF Uploading, HalfWay
  <2> QED
    BY <1>1, <1>2, <2>1, <2>2, <2>3, <2>4 DEF Uploading
<1>7. Downloading'
  BY <1>1, <1>2 DEF IInv, Downloading, Acks, Taken1, Received, Trailers, Unbroken, Prefix, DataUpTo,
                    Thread, Line, Active, Next1
<1> QED
  BY <1>3, <1>4, <1>5, <1>6, <1>7 DEF IInv

\* Start: a new transfer on a connection that was not used before.
LEMMA StartStep ==
  ASSUME IInv, NEW c \in Conns, NEW op \in {"upload", "download"}, NEW list \in Lists[c],
         Start(c, op, list)
  PROVE  IInv'
<1>1. PICK a \in BOOLEAN : a = \A d \in Conns : server[d].pc \in {"new", "ended"}
  OBVIOUS
<1>2. list \in Seq(Files) /\ list # <<>>
  BY TransferAssumption
<1>3. client' = Started(op, c, list, a)
  BY <1>1 DEF Start, Started
<1>4. /\ client' \in Clients
      /\ client'.pc = "connect" /\ client'.op = op /\ client'.conn = c /\ client'.left = list
      /\ client'.outcome = "none" /\ client'.opened = {} /\ client'.alone = a
  BY <1>2, <1>3, ClientStarts
<1>5. UNCHANGED <<local, remote, readOnly, stop, channel, server>> /\ done' = {}
  BY DEF Start
<1>6. c > Here /\ Here \in Nat /\ server[c] = NoThread /\ channel[c] = Fresh
  BY TransferAssumption DEF Start, IInv, Shape, Roles, Cast, Others, Here, Clients
<1>7. /\ NoThread.pc = "new" /\ NoThread.done = {}
      /\ Fresh.down = <<>> /\ DOMAIN <<>> = {} /\ Len(<<>>) = 0
  BY DEF NoThread, Fresh
<1> USE DEF Here
<1>8. Shape'
  BY <1>4, <1>5 DEF IInv, Shape
<1>9. Roles'
  BY <1>1, <1>2, <1>4, <1>5, <1>6, <1>7, TransferAssumption DEF IInv, Roles, Cast, Others, Thread, Active
<1>10. Streams'
  BY <1>5 DEF IInv, Streams, StreamOf
<1>11. Uploading'
  BY <1>2, <1>4, <1>5, <1>6, <1>7
     DEF Start, Uploading, Paired, HalfWay, Thread, Line, Active, Answered, Next1
<1>12. Downloading'
  BY <1>4, <1>5, <1>6, <1>7 DEF Downloading, Acks, Received, Thread, Line, Next1
<1> QED
  BY <1>8, <1>9, <1>10, <1>11, <1>12 DEF IInv

\* Edit: between two transfers.
LEMMA EditStep == ASSUME IInv, NEW f \in Files, Edit(f) PROVE IInv'
<1>1. /\ client.pc = "idle" /\ UNCHANGED <<remote, readOnly, stop, client, done, channel, server>>
      /\ local' = [local EXCEPT ![f] = File(Edited[f])]
  BY DEF Edit
<1>2. File(Edited[f]) \in [there : BOOLEAN, data : Seq(Values)] /\ File(Edited[f]).there
  BY ValuesHold DEF File
<1>3. /\ local' \in Disks
      /\ \A g \in Files : local[g].there => local'[g].there
  BY <1>1, <1>2 DEF IInv, Shape, Disks
<1> USE DEF Here
<1>4. Shape'
  BY <1>1, <1>3 DEF IInv, Shape
<1>5. Roles'
  BY <1>1 DEF IInv, Roles, Cast, Others, Thread, Active
<1>6. Streams'
  BY <1>1 DEF IInv, Streams, StreamOf
<1>7. Uploading'
  <2>1. \A i \in DOMAIN client.left : client.left[i] \in Files
    BY ElementOfSeq DEF IInv, Shape, Clients
  <2> QED
    BY <1>1, <1>3, <2>1 DEF IInv, Uploading, Paired, HalfWay, Thread, Line, Active, Answered, Next1
<1>8. Downloading'
  BY <1>1 DEF IInv, Downloading, Acks, Taken1, Received, Thread, Line, Next1
<1> QED
  BY <1>4, <1>5, <1>6, <1>7, <1>8 DEF IInv

\* Connect: the thread of the server gets the command.
LEMMA ConnectStep == IInv /\ Connect => IInv'
<1> SUFFICES ASSUME IInv, Connect PROVE IInv'
  OBVIOUS
<1>1. /\ Here \in Conns /\ client.op \in {"upload", "download"} /\ client.pc = "connect"
      /\ client \in Clients /\ server \in [Conns -> Threads] /\ channel \in [Conns -> Channels]
      /\ UNCHANGED <<local, remote, readOnly, stop, done>>
  BY Located DEF IInv, Connect, Shape, Disk
<1>2. server[Here] = NoThread /\ channel[Here] = Fresh /\ client.left # <<>>
  BY <1>1 DEF IInv, Roles, Cast, Others
<1>3. /\ NoThread.pc = "new" /\ NoThread.done = {}
      /\ Fresh.down = <<>> /\ Fresh.up = <<>> /\ DOMAIN <<>> = {} /\ Len(<<>>) = 0
  BY DEF NoThread, Fresh
<1>4. Next1 \in Files /\ client.left \in Seq(Files)
  BY <1>1, <1>2, HeadTailProperties DEF Next1, Clients
<1> USE DEF Here
<1>5. CASE client.op = "upload"
  <2>1. client' = [client EXCEPT !.pc = "ready"] /\ channel' = channel
        /\ server' = Serving(server, Here, client.op, Next1)
    BY <1>5 DEF Connect, To, Serving, Next1
  <2>2. /\ client' \in Clients
        /\ client'.pc = "ready" /\ client'.op = client.op /\ client'.conn = client.conn
        /\ client'.left = client.left
        /\ client'.outcome = client.outcome
        /\ client'.opened = client.opened /\ client'.alone = client.alone
    BY <1>1, <2>1, ClientGoes DEF ClientPcs
  <2>3. /\ server' \in [Conns -> Threads]
        /\ server'[Here].pc = "command" /\ server'[Here].op = client.op
        /\ server'[Here].file = Next1 /\ server'[Here].at = 0 /\ server'[Here].done = {}
        /\ \A x \in Conns \ {Here} : server'[x] = server[x]
    BY <1>1, <1>4, <2>1, ThreadServes DEF Ops
  <2>4. Shape'
    BY <1>1, <2>1, <2>2, <2>3 DEF IInv, Shape
  <2>5. Roles'
    <3>1. Cast'
      BY <1>1, <1>2, <1>5, <2>2, <2>3 DEF IInv, Roles, Cast, Thread, Active
    <3>2. Others'
      BY <1>1, <2>1, <2>2, <2>3, TransferAssumption DEF IInv, Roles, Others
    <3> QED
      BY <3>1, <3>2 DEF Roles
  <2>6. Streams'
    BY <1>1, <1>2, <1>3, <1>4, <1>5, <2>1, <2>3 DEF IInv, Streams, StreamOf
  <2>7. Uploading'
    <3>1. Uploading
      BY DEF IInv
    <3>2. Paired'
      BY <1>1, <1>2, <1>3, <1>5, <2>1, <2>2, <2>3, <3>1 DEF Uploading, Paired, Thread, Line, Active, Answered
    <3>3. HalfWay'
      BY <2>2 DEF HalfWay
    <3> QED
      BY <1>1, <1>2, <1>3, <1>5, <2>1, <2>2, <2>3, <3>1, <3>2, <3>3 DEF Uploading, Thread, Line
  <2>8. Downloading'
    BY <1>5, <2>2 DEF Downloading
  <2> QED
    BY <2>4, <2>5, <2>6, <2>7, <2>8 DEF IInv
<1>6. CASE client.op = "download" /\ ~client.cancel
  <2>1. /\ client' = [client EXCEPT !.pc = "header"] /\ Send(Ok)
        /\ server' = Serving(server, Here, client.op, Next1)
    BY <1>6 DEF Connect, To, Serving, Next1
  <2>2. /\ client' \in Clients
        /\ client'.pc = "header" /\ client'.op = client.op /\ client'.conn = client.conn
        /\ client'.left = client.left
        /\ client'.outcome = client.outcome
        /\ client'.opened = client.opened /\ client'.alone = client.alone
    BY <1>1, <2>1, ClientGoes DEF ClientPcs
  <2>3. /\ server' \in [Conns -> Threads]
        /\ server'[Here].pc = "command" /\ server'[Here].op = client.op
        /\ server'[Here].file = Next1 /\ server'[Here].at = 0 /\ server'[Here].done = {}
        /\ \A x \in Conns \ {Here} : server'[x] = server[x]
    BY <1>1, <1>4, <2>1, ThreadServes DEF Ops
  <2>4. /\ channel' \in [Conns -> Channels]
        /\ Len(channel'[Here].up) = 1 /\ channel'[Here].down = <<>>
        /\ \A x \in Conns \ {Here} : channel'[x] = channel[x]
    <3>1. Ok \in Tokens
      BY DEF Tokens
    <3>2. /\ channel' \in [Conns -> Channels]
          /\ channel'[Here].up = Append(Line.up, Ok) /\ channel'[Here].down = Line.down
          /\ Len(Append(Line.up, Ok)) = Len(Line.up) + 1
          /\ \A x \in Conns \ {Here} : channel'[x] = channel[x]
      BY <1>1, <2>1, <3>1, Sends DEF IInv
    <3> QED
      BY <1>2, <1>3, <3>2 DEF Line
  <2>5. Shape'
    BY <1>1, <2>2, <2>3, <2>4 DEF IInv, Shape
  <2>6. Roles'
    <3>1. Cast'
      BY <1>1, <1>2, <1>6, <2>2, <2>3 DEF IInv, Roles, Cast, Thread, Active
    <3>2. Others'
      BY <1>1, <2>2, <2>3, <2>4, TransferAssumption DEF IInv, Roles, Others
    <3> QED
      BY <3>1, <3>2 DEF Roles
  <2>7. Streams'
    BY <1>1, <1>4, <1>6, <2>3, <2>4 DEF IInv, Streams, StreamOf
  <2>8. Uploading'
    BY <1>6, <2>2 DEF Uploading
  <2>9. Downloading'
    BY <1>1, <1>2, <1>3, <1>6, <2>2, <2>3, <2>4
       DEF IInv, Downloading, Acks, Taken1, Received, Thread, Line, Next1
  <2> QED
    BY <2>5, <2>6, <2>7, <2>8, <2>9 DEF IInv
<1>7. CASE client.op = "download" /\ client.cancel
  <2>0. Active /\ client.pc \notin {"idle", "over"}
    BY <1>1 DEF Active
  <2>1. client' = Over(client, "cancelled") /\ channel' = ClosedUp(channel, Here)
    BY <1>7 DEF Connect, Ends, Over, ClosedUp
  <2>2. PICK r : r = [NoThread EXCEPT !.pc = "ended"]
    OBVIOUS
  <2>3. r \in Threads /\ r.pc = "ended" /\ r.done = {} /\ server' = [server EXCEPT ![Here] = r]
    BY <1>7, <2>2 DEF Connect, NoThread, Threads, ThreadPcs, Ops
  <2>4. /\ client' \in Clients
        /\ client'.pc = "over" /\ client'.op = client.op /\ client'.conn = client.conn
        /\ client'.left = <<>>
        /\ client'.opened = client.opened /\ client'.alone = client.alone
    BY <1>1, <2>1, ClientEnds DEF Outcomes
  <2>5. /\ channel' \in [Conns -> Channels]
        /\ channel'[Here].up = <<>> /\ channel'[Here].down = <<>>
        /\ \A x \in Conns \ {Here} : channel'[x] = channel[x]
    BY <1>1, <1>2, <1>3, <2>1, ClientCloses
  <2>6. /\ server' \in [Conns -> Threads]
        /\ server'[Here].pc = "ended" /\ server'[Here].done = {}
        /\ \A x \in Conns \ {Here} : server'[x] = server[x]
    BY <1>1, <2>3
  <2>7. Shape'
    BY <1>1, <2>4, <2>5, <2>6 DEF IInv, Shape
  <2>8. Roles'
    <3>1. Cast'
      BY <1>1, <1>7, <2>4, <2>6 DEF IInv, Roles, Cast, Thread, Active
    <3>2. Others'
      BY <1>1, <2>4, <2>5, <2>6, TransferAssumption DEF IInv, Roles, Others
    <3> QED
      BY <3>1, <3>2 DEF Roles
  <2>9. Streams'
    BY <1>1, <2>5, <2>6 DEF IInv, Streams, StreamOf
  <2>10. Uploading'
    BY <1>7, <2>4 DEF Uploading
  <2>11. Downloading'
    BY <1>1, <1>2, <1>3, <1>7, <2>4, <2>5, <2>6
       DEF IInv, Downloading, Acks, Taken1, Received, Thread, Line, Next1
  <2> QED
    BY <2>7, <2>8, <2>9, <2>10, <2>11 DEF IInv
<1> QED
  BY <1>1, <1>5, <1>6, <1>7

\* NextFile: the header of the next file is sent; a download of a second file gets no thread.
LEMMA NextFileStep == IInv /\ NextFile => IInv'
<1> SUFFICES ASSUME IInv, NextFile PROVE IInv'
  OBVIOUS
<1> USE DEF Here
<1>1. /\ Here \in Conns /\ client.op \in {"upload", "download"} /\ client.pc = "next"
      /\ client \in Clients /\ Line.up \in Seq(Tokens)
      /\ client.left \in Seq(Files) /\ client.left # <<>>
      /\ UNCHANGED <<local, remote, readOnly, stop, done, server>>
  BY Located DEF IInv, NextFile, Shape, Disk, ServerSide, Clients
<1>2. /\ Next1 \in Files /\ Next1 = client.left[1] /\ 1 \in DOMAIN client.left
  BY <1>1, HeadTailProperties DEF Next1
<1>3. Len(local[Next1].data) \in Nat
  BY <1>2 DEF IInv, Shape, Disks
<1>4. CASE client.op = "upload"
  <2>1. PICK h \in Headers : h = [file |-> Next1, size |-> Len(local[Next1].data)]
    BY <1>2, <1>3 DEF Headers
  <2>2. h.file = Next1 /\ h.size = Len(local[Next1].data)
    BY <2>1
  <2>3. PICK t \in Tokens : t = <<"C", h>>
    BY DEF Tokens
  <2>4. t[2] = h
    BY <2>3
  <2>5. /\ client' = WithNext(client, "headerOk", Len(local[Next1].data), 0)
        /\ Send(t)
    BY <1>4, <2>1, <2>3 DEF NextFile, WithNext, Size, Next1
  <2>6. /\ client' \in Clients
        /\ client'.pc = "headerOk" /\ client'.op = client.op /\ client'.conn = client.conn
        /\ client'.left = client.left /\ client'.at = 0 /\ client'.size = h.size
        /\ client'.outcome = client.outcome
        /\ client'.opened = client.opened /\ client'.alone = client.alone
    <3>1. h.size \in Nat /\ 0 \in Nat /\ "headerOk" \in ClientPcs
      BY <1>3, <2>2 DEF ClientPcs
    <3>2. client \in Clients /\ client' = WithNext(client, "headerOk", h.size, 0)
      BY <1>1, <2>2, <2>5
    <3> HIDE DEF Here
    <3> QED
      BY <3>1, <3>2, ClientNext
  <2>7. /\ channel' \in [Conns -> Channels]
        /\ channel'[Here].up = Append(Line.up, t) /\ channel'[Here].down = Line.down
        /\ Len(Append(Line.up, t)) = Len(Line.up) + 1
        /\ Append(Line.up, t)[Len(Line.up) + 1] = t
        /\ \A x \in Conns \ {Here} : channel'[x] = channel[x]
    BY <1>1, <2>5, Sends DEF IInv
  <2>8. /\ Thread.pc \in {"control", "readControl", "ended"}
        /\ Thread.pc # "ended" => Line.up = <<>> /\ Line.down = <<>>
    BY <1>1, <1>4 DEF IInv, Uploading, Paired
  <2>9. Thread.pc # "ended" => Len(channel'[Here].up) = 1 /\ channel'[Here].up[1] = t
    <3> Len(<<>>) = 0
      OBVIOUS
    <3> QED
      BY <2>7, <2>8
  <2>10. Shape'
    BY <1>1, <2>6, <2>7 DEF IInv, Shape
  <2>11. Roles'
    <3>1. Cast'
      BY <1>1, <1>4, <2>6 DEF IInv, Roles, Cast, Thread, Active
    <3>2. Others'
      <4>1. Shape /\ Others /\ server' = server /\ Here \in Conns /\ Here \in Nat
        BY <1>1, TransferAssumption DEF IInv, Roles
      <4> QED
        BY <4>1, <2>6, <2>7, OthersKeep
    <3> QED
      BY <3>1, <3>2 DEF Roles
  <2>12. Streams'
    BY <1>1, <2>3, <2>7, <2>8, <2>9, ZenonT(30) DEF IInv, Streams, StreamOf, Thread
  <2>13. Uploading'
    <3>0. t = <<"C", [file |-> Next1', size |-> client'.size]>> /\ client'.size = Len(local[Next1].data)
      BY <2>1, <2>2, <2>3, <2>6 DEF Next1
    <3>1. Paired'
      <4>1. \A i \in DOMAIN Line.down : i > 1 => Line.down[i] # Ok
        BY <1>1, <1>4 DEF IInv, Uploading, Paired, Active
      <4>2. Len(<<>>) = 0
        OBVIOUS
      <4>3. Next1' = Next1 /\ Thread' = Thread /\ Line'.down = Line.down
        BY <1>1, <2>6, <2>7 DEF Next1, Thread, Line
      <4>4. Thread.pc # "ended" => Len(Line'.up) = 1 /\ Line'.up[1] = t
        BY <2>6, <2>9 DEF Thread, Line
      <4>5. Thread.pc \in {"control", "readControl", "ended"} /\ (Thread.pc # "ended" => Line'.down = <<>>)
        BY <2>8, <4>3
      <4>6. 0 <= client'.size
        BY <1>3, <3>0
      <4> QED
        BY <1>1, <2>6, <3>0, <4>1, <4>2, <4>3, <4>4, <4>5, <4>6 DEF Paired, Active
    <3>2. HalfWay'
      BY <1>1, <2>6, <2>8 DEF HalfWay, Thread
    <3>3. Next1 \notin done
      BY <1>2, <1>4 DEF IInv, Uploading
    <3> QED
      BY <1>1, <1>4, <2>2, <2>4, <2>6, <2>8, <2>9, <3>1, <3>2, <3>3 DEF IInv, Uploading, Thread, Line
  <2>14. Downloading'
    BY <1>4, <2>6 DEF Downloading
  <2> QED
    BY <2>10, <2>11, <2>12, <2>13, <2>14 DEF IInv
<1>5. CASE client.op = "download"
  <2>1. client' = [client EXCEPT !.pc = "unserved"] /\ channel' = channel
    BY <1>5 DEF NextFile, To
  <2>2. /\ client' \in Clients
        /\ client'.pc = "unserved" /\ client'.op = client.op /\ client'.conn = client.conn
        /\ client'.left = client.left
        /\ client'.outcome = client.outcome
        /\ client'.opened = client.opened /\ client'.alone = client.alone
    BY <1>1, <2>1, ClientGoes DEF ClientPcs
  <2>3. Shape'
    BY <1>1, <2>1, <2>2 DEF IInv, Shape
  <2>4. Roles'
    <3>1. Cast'
      BY <1>1, <1>5, <2>1, <2>2 DEF IInv, Roles, Cast, Thread, Active
    <3>2. Others'
      BY <1>1, <2>1, <2>2 DEF IInv, Roles, Others
    <3> QED
      BY <3>1, <3>2 DEF Roles
  <2>5. Streams'
    BY <1>1, <2>1 DEF IInv, Streams, StreamOf
  <2>6. Uploading'
    BY <1>5, <2>2 DEF Uploading
  <2>7. Downloading'
    <3>0. Taken1' = Taken1 /\ Taken1 \in {0, 1, 2} /\ Len(Line.up) \in Nat
      BY <1>1, <2>2 DEF Taken1, Thread
    <3>1. Acks'
      BY <1>1, <1>5, <2>1, <2>2, <3>0 DEF IInv, Downloading, Acks, Thread, Line
    <3>2. Received'
      BY <2>2 DEF Received
    <3> QED
      BY <1>1, <1>5, <2>2, <3>1, <3>2 DEF IInv, Downloading, Thread
  <2> QED
    BY <2>3, <2>4, <2>5, <2>6, <2>7 DEF IInv
<1> QED
  BY <1>1, <1>4, <1>5

\* HeaderOk: the file is sent now.
LEMMA HeaderOkStep == IInv /\ HeaderOk => IInv'
<1> SUFFICES ASSUME IInv, HeaderOk PROVE IInv'
  OBVIOUS
<1> USE DEF Here
<1>1. /\ Here \in Conns /\ client.op = "upload" /\ client.pc = "headerOk"
      /\ Thread \in Threads /\ Line \in Channels
      /\ UNCHANGED <<local, remote, readOnly, stop, done, server>>
  BY Located DEF IInv, HeaderOk, Roles, Cast, ServerSide, Disk
<1>2. /\ client' \in Clients
      /\ client'.pc = "chunks" /\ client'.op = client.op /\ client'.conn = client.conn
      /\ client'.left = client.left /\ client'.at = client.at
      /\ client'.size = client.size
      /\ client'.outcome = client.outcome
      /\ client'.opened = client.opened /\ client'.alone = client.alone
  BY ClientGoes DEF IInv, Shape, HeaderOk, To, ClientPcs
<1>3. /\ channel' \in [Conns -> Channels]
      /\ channel'[Here].down = Tail(Line.down) /\ channel'[Here].up = Line.up
      /\ channel'[Here].upOpen = Line.upOpen
      /\ Line.down # <<>> /\ Len(Line.down) >= 1
      /\ Len(Tail(Line.down)) = Len(Line.down) - 1
      /\ \A i \in 1..(Len(Line.down) - 1) : Tail(Line.down)[i] = Line.down[i + 1]
      /\ \A x \in Conns \ {Here} : channel'[x] = channel[x]
  BY <1>1, Receives DEF IInv, HeaderOk
<1>4. Thread.pc # "ended" => Thread.pc = "chunks" /\ Len(Line.down) <= 1
  BY <1>1, <1>3 DEF IInv, Uploading, Paired, Active
<1>5. Shape'
  BY <1>1, <1>2, <1>3 DEF IInv, Shape
<1>6. Roles'
  <2>1. Cast'
    BY <1>1, <1>2 DEF IInv, Roles, Cast, Thread, Active
  <2>2. Others'
    <3>1. Shape /\ Others /\ server' = server /\ Here \in Conns /\ Here \in Nat
      BY <1>1, TransferAssumption DEF IInv, Roles
    <3> QED
      BY <1>2, <1>3, <3>1, OthersKeep
  <2> QED
    BY <2>1, <2>2 DEF Roles
<1>7. Streams'
  BY <1>1, <1>3 DEF IInv, Streams, StreamOf, Line
<1>8. Uploading'
  <2>1. Thread.pc # "ended" => Tail(Line.down) = <<>>
    <3>1. Tail(Line.down) \in Seq(Tokens)
      BY <1>1, <1>3, HeadTailProperties DEF Channels
    <3> QED
      BY <1>3, <1>4, <3>1, EmptySeq
  <2>2. Paired'
    <3>1. /\ client.at = 0 /\ (Thread.pc = "chunks" => Thread.at = 0 /\ Line.up = <<>>)
          /\ client.size = Len(local[Next1].data) /\ client.at <= client.size
          /\ Thread.pc = "chunks" => Thread.file = Next1 /\ Thread.size = client.size
          /\ \A i \in DOMAIN Line.down : i > 1 => Line.down[i] # Ok
      BY <1>1 DEF IInv, Uploading, Paired, Active
    <3>2. /\ Thread' = Thread /\ Next1' = Next1 /\ Line'.up = Line.up /\ Line'.down = Tail(Line.down)
          /\ client'.pc = "chunks" /\ client'.at = client.at /\ client'.size = client.size
      BY <1>1, <1>2, <1>3 DEF Thread, Next1, Line
    <3>3. /\ Line'.down \in Seq(Tokens) /\ Len(Line'.down) = Len(Line.down) - 1
          /\ \A i \in DOMAIN Line'.down : Line'.down[i] = Line.down[i + 1] /\ i + 1 \in DOMAIN Line.down
      BY <1>1, <1>3, <3>2, HeadTailProperties DEF Channels
    <3>4. \A i \in DOMAIN Line'.down : Line'.down[i] # Ok
      BY <1>1, <3>1, <3>3 DEF Channels
    <3>5. ~Answered'
      BY <3>3, <3>4 DEF Answered
    <3>6. Len(<<>>) = 0
      OBVIOUS
    <3> QED
      BY <1>1, <1>4, <2>1, <3>1, <3>2, <3>4, <3>5, <3>6 DEF Paired, Active
  <2>3. HalfWay'
    <3>1. client.at = 0 /\ (Thread.pc = "chunks" => Thread.at = 0 /\ Line.up = <<>>)
      BY <1>1 DEF IInv, Uploading, Paired
    <3>2. DOMAIN <<>> = {} /\ Len(<<>>) = 0
      OBVIOUS
    <3>3. HalfWay
      BY <1>1 DEF IInv, Uploading
    <3>4. client.alone /\ Line.upOpen /\ Thread.pc = "chunks" =>
            remote[Next1].there /\ Len(remote[Next1].data) = 0
      BY <1>1, <3>1, <3>3 DEF HalfWay
    <3>5. /\ Thread' = Thread /\ Next1' = Next1 /\ remote' = remote
          /\ Line'.up = Line.up /\ Line'.upOpen = Line.upOpen
      BY <1>1, <1>2, <1>3 DEF Thread, Line, Next1
    <3> HIDE DEF Here
    <3> QED
      BY <1>2, <3>1, <3>2, <3>4, <3>5 DEF HalfWay
  <2> QED
    BY <1>1, <1>2, <1>3, <1>4, <2>2, <2>3 DEF IInv, Uploading, Thread, Line
<1>9. Downloading'
  BY <1>1, <1>2 DEF Downloading
<1> QED
  BY <1>5, <1>6, <1>7, <1>8, <1>9 DEF IInv

\* Behind the reply that is taken there is no other.
LEMMA OneReply ==
  ASSUME Shape, Here \in Conns, Line.down # <<>>,
         \A i \in DOMAIN Line.down : i > 1 => Line.down[i] # Ok
  PROVE  /\ \A i \in DOMAIN Tail(Line.down) : Tail(Line.down)[i] # Ok
         /\ ~(Tail(Line.down) # <<>> /\ Tail(Line.down)[1] = Ok)
         /\ Len(Line.down) <= 1 => Tail(Line.down) = <<>>
<1>1. Line.down \in Seq(Tokens)
  BY DEF Shape, Channels, Line
<1>2. Tail(Line.down) \in Seq(Tokens) /\ Len(Tail(Line.down)) = Len(Line.down) - 1
      /\ Len(Line.down) \in Nat \ {0}
      /\ \A i \in 1..(Len(Line.down) - 1) : Tail(Line.down)[i] = Line.down[i + 1]
  BY <1>1, HeadTailProperties, EmptySeq
<1>3. \A i \in DOMAIN Tail(Line.down) : Tail(Line.down)[i] # Ok
  BY <1>1, <1>2
<1>4. Len(Line.down) <= 1 => Tail(Line.down) = <<>>
  BY <1>2, EmptySeq
<1>5. Tail(Line.down) # <<>> => 1 \in DOMAIN Tail(Line.down)
  BY <1>2, EmptySeq
<1> QED
  BY <1>3, <1>4, <1>5

\* The files that are left when the first one is done.
LEMMA OthersLeft ==
  ASSUME Shape, client.left # <<>>
  PROVE  /\ Next1 \in Files /\ Next1 = client.left[1] /\ 1 \in DOMAIN client.left
         /\ Tail(client.left) \in Seq(Files)
         /\ \A i \in DOMAIN Tail(client.left) :
              /\ i + 1 \in DOMAIN client.left /\ Tail(client.left)[i] = client.left[i + 1]
              /\ i \in Nat \ {0}
<1>1. client.left \in Seq(Files)
  BY DEF Shape, Clients
<1>2. /\ Tail(client.left) \in Seq(Files) /\ Len(Tail(client.left)) = Len(client.left) - 1
      /\ Len(client.left) \in Nat \ {0}
      /\ \A i \in 1..(Len(client.left) - 1) : Tail(client.left)[i] = client.left[i + 1]
      /\ Head(client.left) \in Files /\ Head(client.left) = client.left[1]
  BY <1>1, HeadTailProperties, EmptySeq
<1> QED
  BY <1>1, <1>2 DEF Next1

\* FileOk: the server has the file, and the transfer reports it.
LEMMA FileOkStep == IInv /\ FileOk => IInv'
<1> SUFFICES ASSUME IInv, FileOk PROVE IInv'
  OBVIOUS
<1> USE DEF Here
<1>1. /\ Here \in Conns /\ Here \in Nat /\ client.op = "upload" /\ client.pc = "fileOk"
      /\ Thread \in Threads /\ Line \in Channels /\ client \in Clients
      /\ UNCHANGED <<local, remote, readOnly, stop, server>>
      /\ client.left # <<>> /\ Shape /\ Streams /\ Others /\ done \in SUBSET Files
  BY Located DEF IInv, FileOk, Roles, Cast, ServerSide, Shape
<1>2. /\ Next1 \in Files /\ Next1 = client.left[1] /\ 1 \in DOMAIN client.left
      /\ Tail(client.left) \in Seq(Files)
      /\ \A i \in DOMAIN Tail(client.left) :
           /\ i + 1 \in DOMAIN client.left /\ Tail(client.left)[i] = client.left[i + 1]
           /\ i \in Nat \ {0}
  BY <1>1, OthersLeft
<1>3. done' = done \cup {Next1} /\ client' = WithLeft(client, "next", Tail(client.left))
  BY DEF FileOk, FileDone, WithLeft, Next1
<1>4. /\ client' \in Clients
      /\ client'.pc = "next" /\ client'.op = client.op /\ client'.conn = client.conn
      /\ client'.left = Tail(client.left)
      /\ client'.outcome = client.outcome
      /\ client'.opened = client.opened /\ client'.alone = client.alone
  <2>1. "next" \in ClientPcs
    BY DEF ClientPcs
  <2> QED
    <3>1. PICK l \in Seq(Files) : l = Tail(client.left)
      BY <1>2
    <3>2. client' = WithLeft(client, "next", l) /\ client \in Clients
      BY <1>1, <1>3, <3>1
    <3> HIDE DEF Here
    <3> QED
      BY <2>1, <3>1, <3>2, ClientDone, ZenonT(30)
<1>5. /\ channel' \in [Conns -> Channels]
      /\ channel'[Here].down = Tail(Line.down) /\ channel'[Here].up = Line.up
      /\ channel'[Here].upOpen = Line.upOpen
      /\ Line.down # <<>> /\ Head(Line.down) = Line.down[1]
      /\ \A x \in Conns \ {Here} : channel'[x] = channel[x]
  BY <1>1, Receives DEF FileOk
<1>6. Answered
  BY <1>5 DEF FileOk, IsOk, Incoming, Line, Answered
<1>7. /\ Thread.pc \in {"control", "readControl", "ended"}
      /\ Thread.pc \in {"control", "readControl"} => Line.up = <<>> /\ Len(Line.down) <= 1
      /\ Next1 \in Thread.done
      /\ client.alone => remote[Next1] = local[Next1]
      /\ \A i \in DOMAIN Line.down : i > 1 => Line.down[i] # Ok
  BY <1>1, <1>6 DEF IInv, Uploading, Paired, Active
<1>8. /\ \A i \in DOMAIN Tail(Line.down) : Tail(Line.down)[i] # Ok
      /\ ~(Tail(Line.down) # <<>> /\ Tail(Line.down)[1] = Ok)
      /\ Len(Line.down) <= 1 => Tail(Line.down) = <<>>
  BY <1>1, <1>5, <1>7, OneReply
<1>9. Shape'
  BY <1>1, <1>2, <1>3, <1>4, <1>5 DEF Shape
<1>10. Roles'
  <2>1. Cast'
    BY <1>1, <1>4 DEF IInv, Roles, Cast, Thread, Active
  <2>2. Others'
    BY <1>1, <1>4, <1>5, OthersKeep
  <2> QED
    BY <2>1, <2>2 DEF Roles
<1>11. Streams'
  BY <1>1, <1>5 DEF Streams, StreamOf, Line
<1>12. Uploading'
  <2>1. /\ Thread' = Thread /\ Line'.up = Line.up /\ Line'.down = Tail(Line.down)
    BY <1>1, <1>4, <1>5 DEF Thread, Line
  <2>2. Len(<<>>) = 0
    OBVIOUS
  <2>3. Paired'
    BY <1>4, <1>7, <1>8, <2>1, <2>2 DEF Paired, Answered
  <2>4. HalfWay'
    BY <1>4 DEF HalfWay
  <2>5. \A i, j \in DOMAIN client.left :
          /\ client.left[i] \notin done /\ local[client.left[i]].there
          /\ client.left[i] = client.left[j] => i = j
    BY <1>1 DEF IInv, Uploading
  <2>6. \A i, j \in DOMAIN client'.left :
          /\ client'.left[i] \notin done' /\ local[client'.left[i]].there
          /\ client'.left[i] = client'.left[j] => i = j
    <3>1. PICK l : l = Tail(client.left)
      OBVIOUS
    <3>2. ASSUME NEW i \in DOMAIN l
          PROVE  /\ l[i] \notin done \cup {Next1} /\ local[l[i]].there
                 /\ \A j \in DOMAIN l : l[i] = l[j] => i = j
      <4>1. i + 1 \in DOMAIN client.left /\ l[i] = client.left[i + 1] /\ i \in Nat \ {0}
        BY <1>2, <3>1, <3>2
      <4>2. l[i] \notin done /\ local[l[i]].there
        BY <2>5, <4>1
      <4>3. l[i] # Next1
        BY <1>2, <2>5, <4>1
      <4>4. ASSUME NEW j \in DOMAIN l, l[i] = l[j] PROVE i = j
        <5>1. j + 1 \in DOMAIN client.left /\ l[j] = client.left[j + 1] /\ j \in Nat \ {0}
          BY <1>2, <3>1, <4>4
        <5>2. i + 1 = j + 1
          BY <2>5, <4>1, <4>4, <5>1
        <5> QED
          BY <4>1, <5>1, <5>2
      <4> QED
        BY <4>2, <4>3, <4>4
    <3>3. client'.left = l /\ done' = done \cup {Next1}
      BY <1>3, <1>4, <3>1
    <3>4. \A i, j \in DOMAIN l :
            /\ l[i] \notin done \cup {Next1} /\ local[l[i]].there
            /\ l[i] = l[j] => i = j
      BY <3>2
    <3> QED
      BY <3>3, <3>4
  <2>7. done \subseteq Thread.done /\ (client.alone => \A f \in done : remote[f] = local[f])
    BY <1>1 DEF IInv, Uploading
  <2> QED
    BY <1>1, <1>3, <1>4, <1>7, <2>1, <2>3, <2>4, <2>6, <2>7 DEF Uploading
<1>13. Downloading'
  BY <1>1, <1>4 DEF Downloading
<1> QED
  BY <1>9, <1>10, <1>11, <1>12, <1>13 DEF IInv

\* SendChunk: a chunk, or behind the last one the byte that ends the file.
LEMMA SendChunkStep == IInv /\ SendChunk => IInv'
<1> SUFFICES ASSUME IInv, SendChunk PROVE IInv'
  OBVIOUS
<1> USE DEF Here
<1>1. /\ Here \in Conns /\ Here \in Nat /\ client.op = "upload" /\ client.pc = "chunks"
      /\ Thread \in Threads /\ Line \in Channels /\ client \in Clients
      /\ client.at \in Nat /\ client.size \in Nat
      /\ UNCHANGED <<local, remote, readOnly, stop, done, server>>
      /\ client.left # <<>> /\ Shape /\ Streams /\ Others
  BY Located DEF IInv, SendChunk, Roles, Cast, ServerSide, Disk, Shape, Clients
<1>2. Next1 \in Files /\ local[Next1].data \in Seq(Values)
  BY <1>1, OthersLeft DEF Shape, Disks
<1>3. /\ Thread.pc \in {"chunks", "ended"} /\ ~Answered
      /\ Thread.pc = "chunks" => Line.down = <<>> /\ Thread.at + Len(Line.up) <= client.at
      /\ client.size = Len(local[Next1].data) /\ client.at <= client.size
      /\ Thread.pc = "chunks" => Thread.file = Next1 /\ Thread.size = client.size
      /\ \A i \in DOMAIN Line.down : i > 1 => Line.down[i] # Ok
  BY <1>1 DEF IInv, Uploading, Paired, Active
<1>4. PICK t \in Tokens, p \in {"chunks", "fileOk"}, k \in Nat :
        /\ Send(t) /\ client'.pc = p /\ client'.at = k
        /\ client' \in Clients
        /\ client'.op = client.op /\ client'.conn = client.conn
        /\ client'.left = client.left /\ client'.size = client.size
        /\ client'.outcome = client.outcome
        /\ client'.opened = client.opened /\ client'.alone = client.alone
        /\ \/ /\ p = "chunks" /\ k = client.at + 1 /\ k <= client.size
              /\ t = Data(local[Next1].data[k])
           \/ p = "fileOk" /\ k = client.at /\ k = client.size
  <2>1. CASE client.at < client.size
    <3>1. PICK k \in Nat : k = client.at + 1
      BY <1>1
    <3>2. local[Next1].data[k] \in Values
      BY <1>1, <1>2, <1>3, <2>1, <3>1
    <3>3. PICK t \in Tokens : t = Data(local[Next1].data[k])
      BY <3>2 DEF Tokens
    <3>4. Send(t) /\ client' = [client EXCEPT !.at = k]
      BY <2>1, <3>1, <3>3 DEF SendChunk, Next1
    <3>5. /\ client' \in Clients
          /\ client'.pc = client.pc /\ client'.op = client.op /\ client'.conn = client.conn
          /\ client'.left = client.left /\ client'.at = k
          /\ client'.size = client.size /\ client'.outcome = client.outcome
          /\ client'.opened = client.opened /\ client'.alone = client.alone
      BY <1>1, <3>4, ClientAt
    <3> QED
      BY <1>1, <2>1, <3>1, <3>3, <3>4, <3>5
  <2>2. CASE ~(client.at < client.size)
    <3>1. PICK t \in Tokens : t = Ok
      BY DEF Tokens
    <3>2. Send(t) /\ client' = [client EXCEPT !.pc = "fileOk"]
      BY <2>2, <3>1 DEF SendChunk, To
    <3>3. /\ client' \in Clients
          /\ client'.pc = "fileOk" /\ client'.op = client.op /\ client'.conn = client.conn
          /\ client'.left = client.left /\ client'.at = client.at
          /\ client'.size = client.size /\ client'.outcome = client.outcome
          /\ client'.opened = client.opened /\ client'.alone = client.alone
      BY <1>1, <3>2, ClientGoes DEF ClientPcs
    <3> QED
      BY <1>1, <1>3, <2>2, <3>2, <3>3
  <2> QED
    BY <2>1, <2>2
<1>5. /\ channel' \in [Conns -> Channels]
      /\ channel'[Here].up = Append(Line.up, t) /\ channel'[Here].down = Line.down
      /\ channel'[Here].upOpen = Line.upOpen
      /\ Len(Append(Line.up, t)) = Len(Line.up) + 1
      /\ \A i \in 1..Len(Line.up) : Append(Line.up, t)[i] = Line.up[i]
      /\ Append(Line.up, t)[Len(Line.up) + 1] = t
      /\ \A x \in Conns \ {Here} : channel'[x] = channel[x]
  BY <1>1, <1>4, Sends
<1>6. Shape'
  BY <1>1, <1>4, <1>5 DEF Shape
<1>7. Roles'
  <2>1. Cast'
    BY <1>1, <1>4 DEF IInv, Roles, Cast, Thread, Active
  <2>2. Others'
    BY <1>1, <1>4, <1>5, OthersKeep
  <2> QED
    BY <2>1, <2>2 DEF Roles
<1>8. /\ Thread' = Thread /\ Line'.up = Append(Line.up, t) /\ Line'.down = Line.down
      /\ Line'.upOpen = Line.upOpen /\ Next1' = Next1 /\ Len(Line.up) \in Nat /\ Thread.at \in Nat
  BY <1>1, <1>4, <1>5 DEF Thread, Line, Next1, Channels, Threads
<1>9. Streams'
  <2>1. StreamOf(Here)
    BY <1>1 DEF Streams
  <2>2. Thread.pc = "chunks" => Thread.at + Len(Append(Line.up, t)) <= Thread.size + 1
    <3>1. Thread.pc = "chunks" =>
            /\ Thread.size = client.size
            /\ Thread.at + Len(Line.up) <= client.at /\ client.at <= client.size
      BY <1>3
    <3> QED
      BY <1>1, <1>5, <1>8, <3>1
  <2>3. \A c \in Conns \ {Here} : StreamOf(c)'
    BY <1>1, <1>5 DEF Streams, StreamOf
  <2>4. ASSUME NEW c \in Conns, c = Here PROVE StreamOf(c)'
    BY ZenonT(30), <1>1, <1>3, <1>5, <2>1, <2>2, <2>4 DEF StreamOf, Thread
  <2> QED
    BY <2>3, <2>4 DEF Streams
<1>10. Uploading'
  <2>1. Paired'
    BY <1>1, <1>3, <1>4, <1>5, <1>8 DEF Paired, Answered, Active
  <2>2. HalfWay'
    <3> SUFFICES ASSUME client.alone, Line.upOpen, Thread.pc = "chunks"
                 PROVE  HalfWay'
      BY <1>4, <1>8 DEF HalfWay
    <3>0. Thread.at \in Nat /\ Len(Line.up) \in Nat /\ client.at \in Nat
      BY <1>1, <1>8
    <3>1. /\ Thread.at + Len(Line.up) = client.at
          /\ \A i \in DOMAIN Line.up :
               Thread.at + i <= client.size => Line.up[i] = Data(local[Next1].data[Thread.at + i])
          /\ remote[Next1].there /\ Len(remote[Next1].data) = Thread.at
          /\ \A j \in 1..Thread.at : remote[Next1].data[j] = local[Next1].data[j]
      BY <1>1 DEF IInv, Uploading, HalfWay
    <3>2. DOMAIN Line'.up = 1..(Len(Line.up) + 1) /\ DOMAIN Line.up = 1..Len(Line.up)
      BY <1>1, <1>4, <1>5, <1>8, AppendProperties DEF Channels
    <3>3. \A i \in DOMAIN Line'.up :
            Thread.at + i <= client.size => Line'.up[i] = Data(local[Next1].data[Thread.at + i])
      <4>1. ASSUME NEW i \in 1..Len(Line.up) PROVE Line'.up[i] = Line.up[i]
        BY <1>5, <1>8, <4>1
      <4>2. ASSUME Thread.at + (Len(Line.up) + 1) <= client.size
            PROVE  Line'.up[Len(Line.up) + 1] = Data(local[Next1].data[Thread.at + (Len(Line.up) + 1)])
        <5>1. Thread.at + (Len(Line.up) + 1) = client.at + 1
          BY <3>0, <3>1
        <5>2. t = Data(local[Next1].data[client.at + 1])
          BY <1>1, <1>4, <4>2, <5>1
        <5> QED
          BY <1>5, <1>8, <5>1, <5>2
      <4>3. \A i \in 1..(Len(Line.up) + 1) : i \in 1..Len(Line.up) \/ i = Len(Line.up) + 1
        BY <1>8
      <4> QED
        BY <3>1, <3>2, <4>1, <4>2, <4>3
    <3>4. Thread.at + Len(Line'.up) = CASE client'.pc = "headerOk" -> 0
                                        [] client'.pc = "chunks"   -> client'.at
                                        [] client'.pc = "fileOk"   -> client'.size + 1
      <4>1. Len(Line'.up) = Len(Line.up) + 1
        BY <1>5, <1>8
      <4>2. Thread.at + Len(Line'.up) = client.at + 1
        <5>1. Thread.at + (Len(Line.up) + 1) = client.at + 1
          BY <3>0, <3>1
        <5> QED
          BY <4>1, <5>1
      <4>3. \/ p = "chunks" /\ client'.at = client.at + 1
            \/ p = "fileOk" /\ client'.size = client.at
        BY <1>4
      <4>4. client'.pc = p
        BY <1>4
      <4> QED
        BY <4>2, <4>3, <4>4
    <3> QED
      BY <1>1, <1>4, <1>8, <3>1, <3>3, <3>4 DEF HalfWay
  <2> QED
    BY <1>1, <1>3, <1>4, <1>8, <2>1, <2>2 DEF IInv, Uploading
<1>11. Downloading'
  BY <1>1, <1>4 DEF Downloading
<1> QED
  BY <1>6, <1>7, <1>9, <1>10, <1>11 DEF IInv

\* The head of what has arrived is taken and acknowledged.
LEMMA Acknowledges ==
  ASSUME Shape, Here \in Conns, Line.down # <<>>,
         channel' = [channel EXCEPT ![Here].down = Tail(@), ![Here].up = Append(@, Ok)]
  PROVE  /\ channel' \in [Conns -> Channels]
         /\ channel'[Here].down = Tail(Line.down) /\ channel'[Here].up = Append(Line.up, Ok)
         /\ channel'[Here].upOpen = Line.upOpen
         /\ Len(Append(Line.up, Ok)) = Len(Line.up) + 1
         /\ Head(Line.down) = Line.down[1] /\ 1 \in DOMAIN Line.down
         /\ Len(Tail(Line.down)) = Len(Line.down) - 1
         /\ \A x \in Conns \ {Here} : channel'[x] = channel[x]
<1>1. Line.down \in Seq(Tokens) /\ Line.up \in Seq(Tokens) /\ channel \in [Conns -> Channels]
  BY DEF Shape, Channels, Line
<1>2. Tail(Line.down) \in Seq(Tokens) /\ Len(Tail(Line.down)) = Len(Line.down) - 1
      /\ Head(Line.down) = Line.down[1] /\ 1 \in DOMAIN Line.down
  BY <1>1, HeadTailProperties, EmptySeq
<1>3. Ok \in Tokens
  BY DEF Tokens
<1>4. Append(Line.up, Ok) \in Seq(Tokens) /\ Len(Append(Line.up, Ok)) = Len(Line.up) + 1
  BY <1>1, <1>3, AppendProperties
<1>5. PICK u \in Seq(Tokens), w \in Seq(Tokens) : u = Append(Line.up, Ok) /\ w = Tail(Line.down)
  BY <1>2, <1>4
<1>6. channel' = Holding(channel, Here, u, w)
  <2>1. channel' = [channel EXCEPT ![Here].down = w, ![Here].up = u]
    BY <1>5 DEF Line
  <2> QED
    BY <1>1, <2>1, SameHolding
<1>7. /\ channel' \in [Conns -> Channels]
      /\ channel'[Here].up = u /\ channel'[Here].down = w
      /\ channel'[Here].upOpen = channel[Here].upOpen
      /\ \A x \in Conns \ {Here} : channel'[x] = channel[x]
  <2>1. channel \in [Conns -> Channels] /\ Here \in Conns
    BY <1>1
  <2>2. PICK c \in Conns : c = Here
    BY <2>1
  <2>3. channel' = Holding(channel, c, u, w)
    BY <1>6, <2>2
  <2>4. LET d == Holding(channel, c, u, w) IN
        /\ d \in [Conns -> Channels]
        /\ d[c].up = u /\ d[c].down = w
        /\ d[c].upOpen = channel[c].upOpen /\ d[c].downOpen = channel[c].downOpen
        /\ \A x \in Conns \ {c} : d[x] = channel[x]
    BY <2>1, ChannelHolds
  <2> QED
    BY <2>2, <2>3, <2>4
<1> QED
  BY <1>2, <1>4, <1>5, <1>7 DEF Line

\* The thread of a download is at no place of an upload.
LEMMA DownloadThread ==
  ASSUME IInv, client.op = "download", client.pc # "idle", UNCHANGED <<remote, server>>,
         client'.conn = client.conn,
         \A x \in Conns \ {Here} : channel'[x] = channel[x]
  PROVE  Streams'
<1>1. Here \in Conns /\ Streams
  BY Located DEF IInv
<1>2. Thread.pc \notin {"new", "ended"} => Thread.op = "download"
  BY <1>1 DEF IInv, Roles, Cast
<1>3. StreamOf(Here)
  BY <1>1 DEF Streams
<1>4. ASSUME NEW c \in Conns, c = Here PROVE StreamOf(c)'
  BY <1>2, <1>3, <1>4 DEF StreamOf, Thread
<1>5. ASSUME NEW c \in Conns, c # Here PROVE StreamOf(c)'
  BY <1>1, <1>5 DEF Streams, StreamOf
<1> QED
  BY <1>4, <1>5 DEF Streams

\* The shape of the header is that of its place.
LEMMA HeaderTokens ==
  ASSUME NEW t \in Tokens
  PROVE  /\ t[1] = "C" => t[2] \in Headers /\ t[2].size \in Nat /\ t[2].file \in Files
         /\ AsData(t) \in Values
         /\ \A v \in Values : t = Data(v) => AsData(t) = v
BY ValuesHold DEF Tokens, Headers, AsData, Data, Ok

\* Header: the local file is opened.
LEMMA HeaderStep == IInv /\ Header => IInv'
<1> SUFFICES ASSUME IInv, Header PROVE IInv'
  OBVIOUS
<1>1. /\ Here \in Conns /\ Here \in Nat /\ client.op = "download" /\ client.pc = "header"
      /\ Thread \in Threads /\ Line \in Channels /\ client \in Clients
      /\ Line.up \in Seq(Tokens) /\ Line.down \in Seq(Tokens)
      /\ UNCHANGED <<remote, readOnly, stop, done, server>>
      /\ client.left # <<>> /\ Shape /\ Others /\ local \in Disks /\ client.opened \in SUBSET Files
      /\ Line.down # <<>>
  BY Located DEF IInv, Header, Roles, Cast, ServerSide, Shape, Clients, Incoming, Line
<1>2. Next1 \in Files
  BY <1>1, OthersLeft
<1>3. /\ channel' \in [Conns -> Channels]
      /\ channel'[Here].down = Tail(Line.down) /\ channel'[Here].up = Append(Line.up, Ok)
      /\ channel'[Here].upOpen = Line.upOpen
      /\ Len(Append(Line.up, Ok)) = Len(Line.up) + 1
      /\ Head(Line.down) = Line.down[1] /\ 1 \in DOMAIN Line.down
      /\ Len(Tail(Line.down)) = Len(Line.down) - 1
      /\ \A x \in Conns \ {Here} : channel'[x] = channel[x]
  BY <1>1, Acknowledges DEF Header
<1>4. Line.down[1][1] = "C" /\ Line.down[1][2].size \in Nat
  <2>1. Line.down[1] \in Tokens
    BY <1>1, <1>3
  <2>2. Line.down[1][1] = "C"
    BY <1>3 DEF Header, Incoming, Line
  <2> QED
    BY <2>1, <2>2, HeaderTokens
<1>5. PICK s \in Nat : s = Line.down[1][2].size
  BY <1>4
<1>6. PICK l \in SUBSET Files : l = client.opened \cup {Next1}
  BY <1>1, <1>2
<1>7. client' = WithOpened(client, "data", 0, s, l)
  BY <1>3, <1>5, <1>6 DEF Header, WithOpened, Next1, Incoming, Line
<1>8. /\ client' \in Clients
      /\ client'.pc = "data" /\ client'.op = client.op /\ client'.conn = client.conn
      /\ client'.left = client.left /\ client'.at = 0 /\ client'.size = s
      /\ client'.outcome = client.outcome /\ client'.opened = l /\ client'.alone = client.alone
  <2>1. "data" \in ClientPcs /\ 0 \in Nat
    BY DEF ClientPcs
  <2> QED
    BY <1>1, <1>7, <2>1, ClientOpens
<1>9. /\ local' \in Disks /\ local'[Next1].there /\ local'[Next1].data = <<>>
  <2>1. File(<<>>) \in [there : BOOLEAN, data : Seq(Values)] /\ File(<<>>).there
        /\ File(<<>>).data = <<>>
    BY EmptySeq DEF File
  <2>2. local' = [local EXCEPT ![Next1] = File(<<>>)]
    BY DEF Header, Next1
  <2> QED
    BY <1>1, <1>2, <2>1, <2>2 DEF Disks
<1>10. /\ Len(Line.down) = 1 /\ Thread.pc \in {"headerOk", "ended"}
       /\ remote[Next1].there
       /\ client.alone => s = Len(remote[Next1].data)
       /\ done = {} /\ client.opened = {} /\ Thread.done \subseteq done
       /\ Thread.pc # "ended" => Thread.file = Next1
       /\ Thread.pc = "headerOk" /\ Thread.file \notin done => 1 + Len(Line.up) <= 1
  BY <1>1, <1>4, <1>5 DEF IInv, Downloading, Acks, Received, Taken1
<1>11. Shape'
  BY <1>1, <1>3, <1>8, <1>9 DEF Shape
<1>12. Roles'
  <2>1. Cast'
    BY <1>1, <1>8 DEF IInv, Roles, Cast, Thread, Active, Here
  <2>2. Others'
    BY <1>1, <1>3, <1>8, OthersKeep
  <2> QED
    BY <2>1, <2>2 DEF Roles
<1>13. Streams'
  BY <1>1, <1>3, <1>8, DownloadThread
<1>14. Uploading'
  BY <1>1, <1>8 DEF Uploading
<1>15. Downloading'
  <2>1. /\ Thread' = Thread /\ Line'.up = Append(Line.up, Ok) /\ Line'.down = Tail(Line.down)
        /\ Next1' = Next1
    BY <1>1, <1>3, <1>8 DEF Thread, Line, Next1, Here
  <2>2. Tail(Line.down) = <<>> /\ Len(<<>>) = 0 /\ DOMAIN <<>> = {}
    <3>1. Tail(Line.down) \in Seq(Tokens)
      BY <1>1, HeadTailProperties
    <3>2. Len(Tail(Line.down)) = 0
      BY <1>3, <1>10
    <3>3. Len(<<>>) = 0 /\ DOMAIN <<>> = {}
      OBVIOUS
    <3> QED
      BY <3>1, <3>2, <3>3, EmptySeq
  <2>3. Acks'
    <3>1. Thread.pc = "headerOk" => Taken1' = 1
      BY <2>1 DEF Taken1
    <3>2. Thread.pc = "headerOk" => Len(Line'.up) = 1
      <4>1. Len(Line.up) \in Nat
        BY <1>1
      <4> QED
        BY <1>3, <1>10, <2>1, <4>1
    <3> QED
      BY <1>8, <1>10, <2>1, <3>1, <3>2 DEF Acks
  <2>4. Received'
    <3>1. Thread.pc = "headerOk" => Thread.at = 0
      BY <1>1 DEF IInv, Streams, StreamOf, Thread
    <3>2. Prefix' /\ Trailers'
      BY <1>8, <1>9, <2>1, <2>2 DEF Prefix, Trailers
    <3>3. Thread.pc = "headerOk" => Unbroken'
      <4>1. Len(remote[Next1].data) \in Nat
        BY <1>1, <1>2 DEF Shape, Disks
      <4> QED
        BY <1>1, <1>8, <2>1, <2>2, <3>1, <3>2, <4>1, SMTT(30) DEF Unbroken, DataUpTo
    <3> QED
      BY <1>1, <1>8, <1>9, <1>10, <2>1, <2>2, <3>2, <3>3 DEF Received
  <2> QED
    BY <1>1, <1>6, <1>8, <1>10, <2>1, <2>3, <2>4 DEF Downloading
<1> QED
  BY <1>11, <1>12, <1>13, <1>14, <1>15 DEF IInv

\* ReceiveChunk: the head of the stream is written behind what has arrived.
LEMMA ReceiveChunkStep == IInv /\ ReceiveChunk => IInv'
<1> SUFFICES ASSUME IInv, ReceiveChunk PROVE IInv'
  OBVIOUS
<1>1. /\ Here \in Conns /\ Here \in Nat /\ client.op = "download" /\ client.pc = "data"
      /\ Thread \in Threads /\ Line \in Channels /\ client \in Clients
      /\ Line.down \in Seq(Tokens) /\ client.at \in Nat
      /\ UNCHANGED <<remote, readOnly, stop, done, server>>
      /\ client.left # <<>> /\ Shape /\ Others /\ local \in Disks /\ remote \in Disks
  BY Located DEF IInv, ReceiveChunk, Roles, Cast, ServerSide, Shape, Clients, AllReceived
<1>2. Next1 \in Files
  BY <1>1, OthersLeft
<1>3. /\ channel' \in [Conns -> Channels]
      /\ channel'[Here].down = Tail(Line.down) /\ channel'[Here].up = Line.up
      /\ channel'[Here].upOpen = Line.upOpen
      /\ Line.down # <<>> /\ Head(Line.down) = Line.down[1] /\ Len(Line.down) >= 1
      /\ Len(Tail(Line.down)) = Len(Line.down) - 1
      /\ \A i \in 1..(Len(Line.down) - 1) : Tail(Line.down)[i] = Line.down[i + 1]
      /\ \A x \in Conns \ {Here} : channel'[x] = channel[x]
  BY <1>1, Receives DEF ReceiveChunk
<1>4. PICK k \in Nat : k = client.at + 1
  BY <1>1
<1>5. client' = [client EXCEPT !.at = k]
  BY <1>4 DEF ReceiveChunk
<1>6. /\ client' \in Clients
      /\ client'.pc = "data" /\ client'.op = client.op /\ client'.conn = client.conn
      /\ client'.left = client.left /\ client'.at = k /\ client'.size = client.size
      /\ client'.outcome = client.outcome /\ client'.opened = client.opened
      /\ client'.alone = client.alone
  BY <1>1, <1>5, ClientAt
<1>7. PICK v \in Values : v = AsData(Line.down[1]) /\ \A n \in Values : Line.down[1] = Data(n) => v = n
  <2>1. Line.down[1] \in Tokens
    BY <1>1, <1>3
  <2> QED
    BY <2>1, HeaderTokens
<1>8. PICK d \in Seq(Values) : d = Append(local[Next1].data, v)
  <2>1. local[Next1].data \in Seq(Values)
    BY <1>1, <1>2 DEF Disks
  <2> QED
    BY <2>1, AppendProperties
<1>9. /\ local' \in Disks /\ local'[Next1].there /\ local'[Next1].data = d
  <2>1. File(d) \in [there : BOOLEAN, data : Seq(Values)] /\ File(d).there /\ File(d).data = d
    BY DEF File
  <2>2. local' = [local EXCEPT ![Next1] = File(d)]
    BY <1>3, <1>7, <1>8 DEF ReceiveChunk, Next1, Incoming, Line
  <2> QED
    BY <1>1, <1>2, <2>1, <2>2 DEF Disks
<1>10. /\ Len(local[Next1].data) \in Nat /\ Len(d) = Len(local[Next1].data) + 1
       /\ \A j \in 1..Len(local[Next1].data) : d[j] = local[Next1].data[j]
       /\ d[Len(local[Next1].data) + 1] = v
       /\ Len(remote[Next1].data) \in Nat
       /\ \A j \in 1..Len(remote[Next1].data) : remote[Next1].data[j] \in Values
  <2>1. local[Next1].data \in Seq(Values) /\ remote[Next1].data \in Seq(Values)
    BY <1>1, <1>2 DEF Disks
  <2> QED
    <3>1. PICK m \in Seq(Values) : m = local[Next1].data
      BY <2>1
    <3>2. /\ Len(m) \in Nat /\ Len(Append(m, v)) = Len(m) + 1
          /\ \A j \in 1..Len(m) : Append(m, v)[j] = m[j]
          /\ Append(m, v)[Len(m) + 1] = v
      BY <1>7, AppendProperties
    <3>3. PICK q \in Seq(Values) : q = remote[Next1].data
      BY <2>1
    <3>4. Len(q) \in Nat /\ \A j \in 1..Len(q) : q[j] \in Values
      OBVIOUS
    <3> QED
      BY <1>8, <3>1, <3>2, <3>3, <3>4
<1>11. /\ Thread.pc \in {"headerOk", "send", "finalOk", "ended"}
       /\ Thread.pc = "headerOk" => Line.down = <<>>
       /\ remote[Next1].there /\ local[Next1].there
       /\ client.alone => client.size = Len(remote[Next1].data) /\ Trailers
       /\ client.alone /\ Line.upOpen /\ Thread.pc \in {"headerOk", "send"} => Unbroken
       /\ done = {} /\ Thread.done \subseteq done /\ client.opened \subseteq {Next1} /\ Acks
  BY <1>1 DEF IInv, Downloading, Received
<1>12. Shape'
  BY <1>1, <1>3, <1>6, <1>9 DEF Shape
<1>13. Roles'
  <2>1. Cast'
    BY <1>1, <1>6 DEF IInv, Roles, Cast, Thread, Active, Here
  <2>2. Others'
    BY <1>1, <1>3, <1>6, OthersKeep
  <2> QED
    BY <2>1, <2>2 DEF Roles
<1>14. Streams'
  BY <1>1, <1>3, <1>6, DownloadThread
<1>15. Uploading'
  BY <1>1, <1>6 DEF Uploading
<1>16. Downloading'
  <2>1. /\ Thread' = Thread /\ Line'.up = Line.up /\ Line'.down = Tail(Line.down)
        /\ Line'.upOpen = Line.upOpen /\ Next1' = Next1
    BY <1>1, <1>3, <1>6 DEF Thread, Line, Next1, Here
  <2>2. Acks'
    <3>1. Taken1' = Taken1
      BY <2>1 DEF Taken1
    <3> QED
      BY <1>1, <1>6, <1>11, <2>1, <3>1 DEF Acks
  <2>3. /\ DOMAIN Tail(Line.down) = 1..(Len(Line.down) - 1) /\ DOMAIN Line.down = 1..Len(Line.down)
        /\ Len(Line.down) \in Nat \ {0} /\ Len(Line.down) \in 1..Len(Line.down)
    <3>1. Tail(Line.down) \in Seq(Tokens) /\ Len(Line.down) \in Nat
      BY <1>1, <1>3, HeadTailProperties
    <3> QED
      BY <1>1, <1>3, <3>1
  <2>a. client.at \in Nat /\ k = client.at + 1 /\ Len(remote[Next1].data) \in Nat /\ Thread.at \in Nat
    BY <1>1, <1>4, <1>10 DEF Threads
  \* If the first n tokens are data of the file then the first n - 1 of the rest are, and
  \* what was written is the prefix of the file.
  <2>4. ASSUME NEW n \in 1..Len(Line.down), client.at + n <= Len(remote[Next1].data),
               Prefix, DataUpTo(n)
        PROVE  Prefix' /\ DataUpTo(n - 1)'
    <3>1. Line.down[1] = Data(remote[Next1].data[k]) /\ remote[Next1].data[k] \in Values
      <4>1. 1 \in 1..n /\ k \in 1..Len(remote[Next1].data)
        BY <1>1, <1>4, <1>10, <2>3, <2>4, SMTT(30)
      <4> QED
        BY <1>4, <1>10, <2>4, <4>1 DEF DataUpTo
    <3>2. v = remote[Next1].data[k]
      BY <1>7, <3>1
    <3>3. Prefix'
      <4>1. Len(d) = k
        BY <1>4, <1>10, <2>4 DEF Prefix
      <4>2. ASSUME NEW j \in 1..k PROVE d[j] = remote[Next1].data[j]
        <5>1. CASE j = k
          BY <1>4, <1>10, <2>4, <3>2, <5>1 DEF Prefix
        <5>2. CASE j # k
          <6>1. j \in 1..client.at
            BY <1>1, <1>4, <5>2
          <6> QED
            BY <1>10, <2>4, <6>1 DEF Prefix
        <5> QED
          BY <5>1, <5>2
      <4> QED
        BY <1>1, <1>6, <1>9, <2>1, <4>1, <4>2 DEF Prefix
    <3>4. DataUpTo(n - 1)'
      <4>1. ASSUME NEW j \in 1..(n - 1)
            PROVE  Tail(Line.down)[j] = Data(remote[Next1].data[k + j])
        <5>1. j \in 1..(Len(Line.down) - 1) /\ j + 1 \in 1..n
          BY <2>3, <2>4
        <5>2. Line.down[j + 1] = Data(remote[Next1].data[client.at + (j + 1)])
          BY <2>4, <5>1 DEF DataUpTo
        <5>3. client.at + (j + 1) = k + j
          BY <1>1, <1>4
        <5> QED
          BY <1>3, <5>1, <5>2, <5>3
      <4> QED
        BY <1>1, <1>6, <2>1, <4>1 DEF DataUpTo
    <3> QED
      BY <3>3, <3>4
  <2>5. ASSUME client.alone PROVE Trailers'
    <3> SUFFICES ASSUME NEW i \in 1..(Len(Line.down) - 1), Tail(Line.down)[i] = Ok
                 PROVE  k + i = Len(remote[Next1].data) + 1 /\ Prefix' /\ DataUpTo(i - 1)'
      BY <1>1, <1>6, <2>1, <2>3 DEF Trailers
    <3>1. i + 1 \in DOMAIN Line.down /\ Line.down[i + 1] = Ok /\ i \in 1..Len(Line.down) /\ (i + 1) - 1 = i
      BY <1>3, <2>3
    <3>2. client.at + (i + 1) = Len(remote[Next1].data) + 1 /\ Prefix /\ DataUpTo(i)
      BY <1>11, <2>5, <3>1 DEF Trailers
    <3>3. client.at + i <= Len(remote[Next1].data) /\ k + i = Len(remote[Next1].data) + 1
      <4>1. i \in Nat
        BY <2>3
      <4>2. PICK r \in Nat : r = Len(remote[Next1].data)
        BY <2>a
      <4>3. PICK a \in Nat : a = client.at
        BY <2>a
      <4>4. a + (i + 1) = r + 1 /\ k = a + 1
        BY <2>a, <3>2, <4>2, <4>3
      <4>5. a + i <= r /\ k + i = r + 1
        BY <4>1, <4>4
      <4> QED
        BY <4>2, <4>3, <4>5
    <3> QED
      BY <2>4, <3>1, <3>2, <3>3
  <2>6. ASSUME client.alone, Line.upOpen, Thread.pc \in {"headerOk", "send"} PROVE Unbroken'
    <3>1. Unbroken
      BY <1>11, <2>6
    <3>2. /\ Thread.at = client.at + Len(Line.down) /\ Thread.at <= Len(remote[Next1].data)
          /\ Prefix /\ DataUpTo(Len(Line.down))
      BY <3>1 DEF Unbroken
    <3>3. PICK n \in 1..Len(Line.down) : n = Len(Line.down)
      BY <2>3
    <3>4. client.at + n <= Len(remote[Next1].data) /\ Prefix /\ DataUpTo(n)
      BY <3>2, <3>3
    <3>5. Prefix' /\ DataUpTo(n - 1)'
      BY <2>4, <3>4
    <3>6. Len(Line'.down) = n - 1
      BY <1>3, <2>1, <3>3
    <3>7. DataUpTo(Len(Line.down))'
      BY <3>5, <3>6 DEF DataUpTo
    <3>8. Thread.at = k + (n - 1)
      <4>1. PICK a \in Nat : a = client.at
        BY <2>a
      <4>2. Thread.at = a + n /\ k = a + 1
        BY <2>a, <3>2, <3>3, <4>1
      <4>3. a + n = k + (n - 1)
        <5>1. n \in Nat
          BY <2>3
        <5> QED
          BY <4>2, <5>1
      <4> QED
        BY <4>2, <4>3
    <3>9. remote' = remote /\ client'.at = k
      BY <1>1, <1>6
    <3> QED
      BY <2>1, <3>2, <3>5, <3>6, <3>7, <3>8, <3>9 DEF Unbroken
  <2>7. Received'
    <3>1. Thread.pc # "headerOk"
      BY <1>3, <1>11
    <3> QED
      BY <1>1, <1>6, <1>9, <1>11, <2>1, <2>5, <2>6, <3>1 DEF Received
  <2> QED
    BY <1>1, <1>6, <1>11, <2>1, <2>2, <2>7 DEF Downloading
<1> QED
  BY <1>12, <1>13, <1>14, <1>15, <1>16 DEF IInv

\* Trailer: the byte behind the file has arrived, and the transfer reports the file.
LEMMA TrailerStep == IInv /\ Trailer => IInv'
<1> SUFFICES ASSUME IInv, Trailer PROVE IInv'
  OBVIOUS
<1>1. /\ Here \in Conns /\ Here \in Nat /\ client.op = "download" /\ client.pc = "data"
      /\ client.at = client.size
      /\ Thread \in Threads /\ Line \in Channels /\ client \in Clients
      /\ UNCHANGED <<local, remote, readOnly, stop, server>>
      /\ client.left # <<>> /\ Shape /\ Others /\ local \in Disks /\ remote \in Disks
      /\ Line.down # <<>> /\ client.at \in Nat
  BY Located DEF IInv, Trailer, Roles, Cast, ServerSide, Shape, Clients, AllReceived, Incoming, Line
<1>2. Next1 \in Files /\ Tail(client.left) \in Seq(Files)
  BY <1>1, OthersLeft
<1>3. /\ channel' \in [Conns -> Channels]
      /\ Head(Line.down) = Line.down[1] /\ 1 \in DOMAIN Line.down
      /\ \A x \in Conns \ {Here} : channel'[x] = channel[x]
  BY <1>1, Acknowledges DEF Trailer
<1>4. done' = done \cup {Next1} /\ client' = WithLeft(client, "next", Tail(client.left))
  BY DEF Trailer, FileDone, WithLeft, Next1
<1>5. /\ client' \in Clients
      /\ client'.pc = "next" /\ client'.op = client.op /\ client'.conn = client.conn
      /\ client'.outcome = client.outcome /\ client'.opened = client.opened
      /\ client'.alone = client.alone
  <2>1. "next" \in ClientPcs
    BY DEF ClientPcs
  <2>2. PICK l \in Seq(Files) : l = Tail(client.left)
    BY <1>2
  <2> QED
    BY <1>1, <1>4, <2>1, <2>2, ClientDone, ZenonT(30)
<1>6. Line.down[1] = Ok
  BY <1>3 DEF Trailer, IsOk, Incoming, Line
<1>7. /\ Thread.pc # "new" /\ (Thread.pc # "ended" => Thread.file = Next1)
      /\ remote[Next1].there /\ local[Next1].there
      /\ done = {} /\ Thread.done \subseteq done /\ client.opened \subseteq {Next1}
      /\ client.alone => Trailers
  BY <1>1 DEF IInv, Downloading, Acks, Received
<1>8. client.alone => local[Next1] = remote[Next1]
  <2> SUFFICES ASSUME client.alone PROVE local[Next1] = remote[Next1]
    OBVIOUS
  <2>1. client.at + 1 = Len(remote[Next1].data) + 1 /\ Prefix
    BY <1>3, <1>6, <1>7 DEF Trailers
  <2>2. local[Next1].data \in Seq(Values) /\ remote[Next1].data \in Seq(Values)
    BY <1>1, <1>2 DEF Disks
  <2>3. Len(local[Next1].data) = Len(remote[Next1].data)
        /\ \A i \in 1..Len(local[Next1].data) : local[Next1].data[i] = remote[Next1].data[i]
    BY <1>1, <2>1, <2>2, SMTT(30) DEF Prefix
  <2>4. local[Next1].data = remote[Next1].data
    BY <2>2, <2>3, SeqEqual
  <2>5. local[Next1] \in [there : BOOLEAN, data : Seq(Values)]
        /\ remote[Next1] \in [there : BOOLEAN, data : Seq(Values)]
    BY <1>1, <1>2 DEF Disks
  <2> QED
    BY <1>7, <2>4, <2>5
<1>9. Shape'
  BY <1>1, <1>2, <1>3, <1>4, <1>5 DEF Shape
<1>10. Roles'
  <2>1. Cast'
    BY <1>1, <1>5 DEF IInv, Roles, Cast, Thread, Active, Here
  <2>2. Others'
    BY <1>1, <1>3, <1>5, OthersKeep
  <2> QED
    BY <2>1, <2>2 DEF Roles
<1>11. Streams'
  BY <1>1, <1>3, <1>5, DownloadThread
<1>12. Uploading'
  BY <1>1, <1>5 DEF Uploading
<1>13. Downloading'
  <2>1. Thread' = Thread /\ done' = {Next1}
    BY <1>1, <1>4, <1>5, <1>7 DEF Thread, Here
  <2>2. Acks'
    BY <1>5, <1>7, <2>1 DEF Acks
  <2>3. Received'
    BY <1>5 DEF Received
  <2> QED
    BY <1>1, <1>5, <1>7, <1>8, <2>1, <2>2, <2>3 DEF Downloading
<1> QED
  BY <1>9, <1>10, <1>11, <1>12, <1>13 DEF IInv

-----------------------------------------------------------------------------
(* The steps of a thread *)

\* A step of a thread changes its own connection, and the files of the server; what is
\* left to show is what it means for the panel if the connection is that of the panel.
LEMMA ThreadKeeps ==
  ASSUME IInv, NEW c \in Conns, server[c].pc \notin {"new", "ended"}, ClientSide,
         remote' \in Disks, channel' \in [Conns -> Channels], server' \in [Conns -> Threads],
         \A x \in Conns \ {c} : channel'[x] = channel[x] /\ server'[x] = server[x],
         \A f \in Files : remote[f].there => remote'[f].there,
         StreamOf(c)',
         server'[c].pc # "ended" => server'[c].op = server[c].op,
         c = Here => Uploading' /\ Downloading'
  PROVE  IInv'
<1>1. /\ UNCHANGED <<local, readOnly, stop, client, done>> /\ Shape /\ Streams /\ Others /\ Cast
      /\ client \in Clients /\ Here \in Nat
  <2>1. Shape /\ Streams /\ Others /\ Cast
    BY DEF IInv, Roles
  <2>2. client \in Clients
    BY <2>1 DEF Shape
  <2>3. Here \in Nat
    BY <2>2, TransferAssumption DEF Clients, Here
  <2> QED
    BY <2>1, <2>2, <2>3 DEF ClientSide
<1>2. Shape'
  BY <1>1 DEF Shape
<1>3. Cast'
  BY <1>1 DEF Cast, Thread, Active, Here
<1>4. Others'
  <2>1. client'.conn = client.conn /\ client'.alone = client.alone /\ client'.pc = client.pc
    BY <1>1
  <2> QED
    BY <1>1, <2>1, OthersKeep
<1>5. Streams'
  BY <1>1, StreamsKeep
<1>6. CASE c # Here /\ Here \in Conns
  <2>1. ~client.alone
    BY <1>1, <1>6 DEF Others
  <2>2. Thread' = Thread /\ Line' = Line /\ Next1' = Next1 /\ Active' = Active
    BY <1>1, <1>6 DEF Thread, Line, Next1, Active, Here
  <2>3. Uploading'
    <3>1. client.op = "upload" => Paired'
      <4> SUFFICES ASSUME client.op = "upload" PROVE Paired'
        OBVIOUS
      <4>1. Paired
        BY DEF IInv, Uploading
      <4>2. client' = client /\ local' = local /\ Answered' = Answered
        BY <1>1, <2>2 DEF Answered
      <4> QED
        BY <2>1, <2>2, <4>1, <4>2 DEF Paired
    <3>2. HalfWay'
      BY <1>1, <2>1 DEF HalfWay
    <3> QED
      BY <1>1, <2>1, <2>2, <3>1, <3>2 DEF IInv, Uploading
  <2>4. Downloading'
    <3>1. client.op = "download" => Acks'
      <4>1. Taken1' = Taken1
        BY <2>2 DEF Taken1
      <4> QED
        BY <1>1, <2>2, <4>1 DEF IInv, Downloading, Acks
    <3>2. client.op = "download" => Received'
      <4>1. client.pc \in {"header", "data"} => Next1 \in Files
        BY <1>1, OthersLeft DEF Cast
      <4> QED
        BY <1>1, <2>1, <2>2, <4>1 DEF IInv, Downloading, Received
    <3> QED
      BY <1>1, <2>1, <2>2, <3>1, <3>2 DEF IInv, Downloading
  <2> QED
    BY <1>2, <1>3, <1>4, <1>5, <2>3, <2>4 DEF IInv, Roles
<1>7. CASE Here \notin Conns
  <2>1. client'.op = "none"
    BY <1>1, <1>7 DEF Cast, Clients, Ops
  <2> QED
    BY <1>2, <1>3, <1>4, <1>5, <2>1 DEF IInv, Roles, Uploading, Downloading
<1>8. CASE c = Here
  BY <1>2, <1>3, <1>4, <1>5, <1>8 DEF IInv, Roles
<1> QED
  BY <1>6, <1>7, <1>8

\* The thread closes the connection.
LEMMA ThreadClosed ==
  ASSUME Shape, NEW c \in Conns, NEW w \in Seq(Tokens), channel' = ClosedDown(channel, c, w)
  PROVE  /\ channel' \in [Conns -> Channels] /\ channel'[c].up = <<>> /\ channel'[c].down = w
         /\ \A x \in Conns \ {c} : channel'[x] = channel[x]
<1>1. channel \in [Conns -> Channels]
  BY DEF Shape
<1> QED
  BY <1>1, ThreadCloses

WithError(d) == d \o Error

\* An error behind what is under way.
LEMMA ErrorBehind ==
  ASSUME NEW d \in Seq(Tokens)
  PROVE  LET w == WithError(d) IN
         /\ w \in Seq(Tokens)
         /\ \A i \in DOMAIN w : w[i] = Ok => i \in DOMAIN d /\ d[i] = Ok
         /\ \A i \in DOMAIN d : i \in DOMAIN w => w[i] = d[i]
         /\ 1 \in DOMAIN w /\ (\A i \in DOMAIN w : i \in Nat)
         /\ d = <<>> => w[1] = <<"bad", 0>>
<1>1. <<"bad", 0>> \in Tokens /\ <<"text", 0>> \in Tokens
  BY DEF Tokens
<1>2. PICK e : e = << <<"bad", 0>>, <<"text", 0>> >>
  OBVIOUS
<1>3. /\ e \in Seq(Tokens) /\ Len(e) = 2 /\ e[1] = <<"bad", 0>> /\ e[2] = <<"text", 0>>
      /\ e[1] # Ok /\ e[2] # Ok
  BY <1>1, <1>2 DEF Ok
<1>4. PICK w : w = WithError(d)
  OBVIOUS
<1>a. w = d \o e
  BY <1>2, <1>4 DEF Error, WithError
<1>5. PICK n \in Nat : n = Len(d)
  OBVIOUS
<1>6. /\ w \in Seq(Tokens) /\ Len(w) = n + 2
      /\ \A i \in 1..(n + 2) : w[i] = IF i <= n THEN d[i] ELSE e[i - n]
  <2> HIDE <1>2
  <2>1. /\ d \o e \in Seq(Tokens) /\ Len(d \o e) = Len(d) + Len(e)
        /\ \A i \in 1..(Len(d) + Len(e)) : (d \o e)[i] = IF i <= Len(d) THEN d[i] ELSE e[i - Len(d)]
    BY <1>3, ConcatProperties
  <2> QED
    BY <1>3, <1>a, <1>5, <2>1
<1>7. DOMAIN w = 1..(n + 2) /\ DOMAIN d = 1..n
  BY <1>5, <1>6
<1>8. ASSUME NEW i \in 1..(n + 2)
      PROVE  (i \in 1..n => w[i] = d[i]) /\ (w[i] = Ok => i \in 1..n)
  <2>1. CASE i <= n
    BY <1>6, <2>1
  <2>2. CASE ~(i <= n)
    <3>1. i - n = 1 \/ i - n = 2
      BY <2>2
    <3>2. w[i] = e[i - n]
      BY <1>6, <2>2
    <3> QED
      BY <1>3, <2>2, <3>1, <3>2
  <2> QED
    BY <2>1, <2>2
<1>9. d = <<>> => w[1] = e[1]
  <2>1. d = <<>> => n = 0
    BY <1>5
  <2> QED
    BY <1>6, <2>1
<1> QED
  BY <1>3, <1>4, <1>6, <1>7, <1>8, <1>9

\* What ends a thread in the middle of a stream is taken for no reply.
LEMMA EndedKeeps ==
  ASSUME IInv, NEW c \in Conns, server[c].pc \notin {"new", "ended"}, ClientSide,
         UNCHANGED remote, NEW fs \in SUBSET Files, server' = Gone(server, c, fs),
         NEW w \in Seq(Tokens), channel' = ClosedDown(channel, c, w),
         \/ w = <<>> \/ w = channel[c].down
         \/ w = WithError(channel[c].down) /\ server[c].pc \in {"command", "control", "send"},
         \/ fs = server[c].done
         \/ server[c].op = "download" /\ (c = Here /\ client.pc # "idle" => fs \subseteq done)
  PROVE  IInv'
<1>1. /\ server' \in [Conns -> Threads] /\ server'[c].pc = "ended" /\ server'[c].done = fs
      /\ \A x \in Conns \ {c} : server'[x] = server[x]
  BY ThreadGone DEF IInv, Shape
<1>2. /\ channel' \in [Conns -> Channels] /\ channel'[c].up = <<>> /\ channel'[c].down = w
      /\ \A x \in Conns \ {c} : channel'[x] = channel[x]
  BY ThreadClosed DEF IInv
<1>3. /\ UNCHANGED <<local, readOnly, stop, client, done, remote>> /\ Shape /\ remote \in Disks
      /\ channel[c].down \in Seq(Tokens)
  BY DEF ClientSide, IInv, Shape, Channels
<1>4. StreamOf(c)'
  BY <1>1 DEF StreamOf
<1>5. /\ \A i \in DOMAIN w : w[i] = Ok => i \in DOMAIN channel[c].down /\ channel[c].down[i] = Ok
      /\ \A i \in DOMAIN channel[c].down : i \in DOMAIN w => w[i] = channel[c].down[i]
      /\ w # <<>> => 1 \in DOMAIN w
      /\ \A i \in DOMAIN w : i \in Nat
  <2>1. DOMAIN <<>> = {}
    OBVIOUS
  <2>2. CASE w = WithError(channel[c].down)
    <3>1. PICK d \in Seq(Tokens) : d = channel[c].down
      BY <1>3
    <3>2. w = WithError(d)
      BY <2>2, <3>1
    <3>3. /\ \A i \in DOMAIN w : w[i] = Ok => i \in DOMAIN d /\ d[i] = Ok
          /\ \A i \in DOMAIN d : i \in DOMAIN w => w[i] = d[i]
          /\ 1 \in DOMAIN w /\ (\A i \in DOMAIN w : i \in Nat)
      BY <3>2, ErrorBehind
    <3> QED
      BY <3>1, <3>3
  <2>3. CASE w = <<>>
    BY <2>1, <2>3
  <2>4. CASE w = channel[c].down
    BY <1>3, <2>4, EmptySeq
  <2> QED
    BY <2>2, <2>3, <2>4
<1>6. ASSUME c = Here PROVE Uploading' /\ Downloading'
  <2>1. /\ Line \in Channels /\ Thread \in Threads /\ Thread = server[c] /\ Line = channel[c]
        /\ Thread'.pc = "ended" /\ Thread'.done = fs /\ Line'.up = <<>> /\ Line'.down = w
        /\ Next1' = Next1 /\ Active' = Active
    BY <1>1, <1>2, <1>3, <1>6 DEF Thread, Line, Next1, Active, Here, Shape
  <2>2. Answered' => Answered
    <3>1. w # <<>> /\ w[1] = Ok => channel[c].down # <<>> /\ channel[c].down[1] = Ok
      BY <1>3, <1>5
    <3> QED
      BY <2>1, <3>1 DEF Answered
  <2>3. Uploading'
    <3> SUFFICES ASSUME client.op = "upload" PROVE Uploading'
      BY <1>3 DEF Uploading
    <3>1. fs = Thread.done
      BY <1>6, <2>1 DEF IInv, Roles, Cast
    <3>2. Paired'
      <4>1. Active => \A i \in DOMAIN w : i > 1 => w[i] # Ok
        BY <1>5, <2>1 DEF IInv, Uploading, Paired
      <4> QED
        BY <1>3, <2>1, <2>2, <3>1, <4>1 DEF IInv, Uploading, Paired
    <3>3. HalfWay'
      BY <2>1 DEF HalfWay
    <3> QED
      BY <1>3, <2>1, <3>1, <3>2, <3>3 DEF IInv, Uploading
  <2>4. Downloading'
    <3> SUFFICES ASSUME client.op = "download" PROVE Downloading'
      BY <1>3 DEF Downloading
    <3>1. client.pc # "idle" => fs \subseteq done
      BY <1>6, <2>1 DEF IInv, Downloading
    <3>2. Acks'
      BY <2>1 DEF Acks
    <3>3. Received'
      <4>1. ASSUME client.pc = "header", w # <<>>, w[1][1] = "C"
            PROVE  w = channel[c].down
        <5>1. CASE w = WithError(channel[c].down) /\ server[c].pc \in {"command", "control", "send"}
          <6>1. channel[c].down = <<>>
            BY <2>1, <4>1, <5>1 DEF IInv, Downloading, Received
          <6>2. w[1] = <<"bad", 0>>
            BY <1>3, <5>1, <6>1, ErrorBehind
          <6> QED
            BY <4>1, <6>2
        <5> QED
          BY <4>1, <5>1
      <4>2. ASSUME client.pc = "data", client.alone PROVE Trailers'
        <5>1. Trailers
          BY <4>2 DEF IInv, Downloading, Received
        <5> SUFFICES ASSUME NEW i \in DOMAIN w, w[i] = Ok
                     PROVE  client.at + i = Len(remote[Next1].data) + 1 /\ Prefix' /\ DataUpTo(i - 1)'
          BY <1>3, <2>1 DEF Trailers
        <5>2. i \in DOMAIN channel[c].down /\ channel[c].down[i] = Ok
          BY <1>5
        <5>3. client.at + i = Len(remote[Next1].data) + 1 /\ Prefix /\ DataUpTo(i - 1)
          BY <2>1, <5>1, <5>2 DEF Trailers
        <5>4. Prefix'
          BY <1>3, <2>1, <5>3 DEF Prefix
        <5>5. DataUpTo(i - 1)'
          <6>1. PICK m \in Nat, n \in Nat : DOMAIN w = 1..m /\ DOMAIN channel[c].down = 1..n
            BY <1>3
          <6>2. ASSUME NEW j \in 1..(i - 1) PROVE w[j] = channel[c].down[j]
            <7>1. i \in Nat /\ i <= m /\ i <= n
              BY <5>2, <6>1
            <7>2. j \in 1..m /\ j \in 1..n
              BY <7>1
            <7> QED
              BY <1>5, <6>1, <7>2
          <6> QED
            BY <1>3, <2>1, <5>3, <6>2 DEF DataUpTo
        <5> QED
          BY <5>3, <5>4, <5>5
      <4> QED
        BY <1>3, <2>1, <4>1, <4>2 DEF IInv, Downloading, Received
    <3> QED
      BY <1>3, <2>1, <3>1, <3>2, <3>3 DEF IInv, Downloading
  <2> QED
    BY <2>3, <2>4
<1> QED
  BY <1>1, <1>2, <1>3, <1>4, <1>6, ThreadKeeps

\* ThreadEnds, whatever the reason.
LEMMA ThreadEndsKeeps ==
  ASSUME IInv, NEW c \in Conns, server[c].pc \notin {"new", "ended"}, ClientSide,
         UNCHANGED remote, NEW tokens, ThreadEnds(c, tokens),
         \/ tokens = <<>>
         \/ tokens = Error /\ server[c].pc \in {"command", "control", "send"}
  PROVE  IInv'
<1>1. channel[c].down \in Seq(Tokens) /\ server[c].done \in SUBSET Files
  BY DEF IInv, Shape, Channels, Threads
<1>2. server' = Gone(server, c, server[c].done)
  BY DEF ThreadEnds, Gone
<1>3. PICK w \in Seq(Tokens) :
        /\ w = Sent(c, tokens)
        /\ \/ w = <<>> \/ w = channel[c].down
           \/ w = WithError(channel[c].down) /\ server[c].pc \in {"command", "control", "send"}
  <2>1. channel[c].down \o <<>> = channel[c].down
    BY <1>1, ConcatEmptySeq
  <2>2. WithError(channel[c].down) \in Seq(Tokens)
    BY <1>1, ErrorBehind
  <2>3. <<>> \in Seq(Tokens)
    BY EmptySeq
  <2> QED
    BY <1>1, <2>1, <2>2, <2>3 DEF Sent, WithError
<1>4. channel' = ClosedDown(channel, c, w)
  BY <1>3 DEF ThreadEnds, ClosedDown
<1> QED
  BY <1>1, <1>2, <1>3, <1>4, EndedKeeps

\* The steps in which a thread ends without a file of its own to report.
LEMMA ThreadEndSteps ==
  ASSUME IInv, NEW c \in Conns,
         \/ ThreadFails(c) \/ NoMoreFiles(c)
         \/ Command(c) /\ Refused(c)
         \/ Control(c) /\ stop
         \/ SendFile(c) /\ stop
  PROVE  IInv'
<1>1. CASE ThreadFails(c) \/ NoMoreFiles(c)
  <2>1. server[c].pc \notin {"new", "ended"} /\ ThreadEnds(c, <<>>) /\ UNCHANGED remote /\ ClientSide
    BY <1>1 DEF ThreadFails, NoMoreFiles
  <2> QED
    BY <2>1, ThreadEndsKeeps
<1>2. CASE Command(c) /\ Refused(c)
  <2>1. server[c].pc = "command" /\ server[c].op \in {"upload", "download"}
    BY <1>2 DEF Command, IInv, Streams, StreamOf
  <2>2. ThreadEnds(c, Error) /\ UNCHANGED remote /\ ClientSide
    BY <1>2, <2>1 DEF Command, Writable, Refused
  <2> QED
    BY <2>1, <2>2, ThreadEndsKeeps
<1>3. CASE Control(c) /\ stop
  <2>1. /\ server[c].pc = "control" /\ ThreadEnds(c, Error) /\ UNCHANGED remote /\ ClientSide
    BY <1>3 DEF Control
  <2> QED
    BY <2>1, ThreadEndsKeeps
<1>4. CASE SendFile(c) /\ stop
  <2>1. /\ server[c].pc = "send" /\ ThreadEnds(c, Error) /\ UNCHANGED remote /\ ClientSide
    BY <1>4 DEF SendFile
  <2> QED
    BY <2>1, ThreadEndsKeeps
<1> QED
  BY <1>1, <1>2, <1>3, <1>4

\* DownloadDone: the last acknowledgement counts the file as sent, and the client has it.
LEMMA DownloadDoneStep == ASSUME IInv, NEW c \in Conns, DownloadDone(c) PROVE IInv'
<1>1. /\ server[c].pc = "finalOk" /\ channel[c].up # <<>> /\ UNCHANGED remote /\ ClientSide
  BY DEF DownloadDone, Arrived
<1>2. server[c].op = "download" /\ server[c].file \in Files
  BY <1>1 DEF IInv, Streams, StreamOf
<1>3. PICK fs \in SUBSET Files : fs = {server[c].file}
  BY <1>2
<1>4. server' = Gone(server, c, fs)
  BY <1>3 DEF DownloadDone, Gone
<1>5. PICK w \in Seq(Tokens) : w = channel[c].down
  BY DEF IInv, Shape, Channels
<1>6. channel' = ClosedDown(channel, c, w)
  <2>1. channel \in [Conns -> Channels]
    BY DEF IInv, Shape
  <2>2. channel' = [channel EXCEPT ![c].up = <<>>, ![c].downOpen = FALSE]
    BY DEF DownloadDone
  <2>3. w = channel[c].down
    BY <1>5
  <2> QED
    BY <2>1, <2>2, <2>3 DEF ClosedDown, Channels
<1>7. ASSUME c = Here, client.pc # "idle" PROVE fs \subseteq done
  <2>1. client.op = "download"
    BY <1>1, <1>2, <1>7 DEF IInv, Roles, Cast, Thread
  <2>2. Acks /\ Thread.pc = "finalOk" /\ Taken1 = 2 /\ Len(Line.up) >= 1 /\ Len(Line.up) \in Nat
    <3>1. channel[c].up \in Seq(Tokens)
      BY DEF IInv, Shape, Channels
    <3>2. Len(channel[c].up) \in Nat /\ Len(channel[c].up) # 0
      BY <1>1, <3>1, EmptySeq
    <3> QED
      BY <1>1, <1>7, <2>1, <3>2 DEF IInv, Downloading, Thread, Line, Taken1
  <2>3. Thread.file \in done
    BY <2>2 DEF Acks
  <2> QED
    BY <1>3, <1>7, <2>3 DEF Thread
<1> QED
  BY <1>1, <1>2, <1>4, <1>5, <1>6, <1>7, EndedKeeps

\* Sent: a client that is gone receives nothing.
LEMMA SentOne ==
  ASSUME Shape, NEW c \in Conns, NEW t \in Tokens
  PROVE  /\ Sent(c, <<t>>) \in Seq(Tokens)
         /\ channel[c].upOpen =>
              /\ Len(Sent(c, <<t>>)) = Len(channel[c].down) + 1
              /\ \A i \in 1..Len(channel[c].down) : Sent(c, <<t>>)[i] = channel[c].down[i]
              /\ Sent(c, <<t>>)[Len(channel[c].down) + 1] = t
         /\ ~channel[c].upOpen => Sent(c, <<t>>) = <<>>
         /\ channel[c].down = <<>> /\ Sent(c, <<t>>) # <<>> =>
              Len(Sent(c, <<t>>)) = 1 /\ Sent(c, <<t>>)[1] = t /\ channel[c].upOpen
<1>1. PICK d \in Seq(Tokens) : d = channel[c].down
  BY DEF Shape, Channels
<1>2. PICK w : w = Append(d, t)
  OBVIOUS
<1>3. /\ w \in Seq(Tokens) /\ Len(w) = Len(d) + 1
      /\ \A i \in 1..Len(d) : w[i] = d[i]
      /\ w[Len(d) + 1] = t /\ w = d \o <<t>>
  BY <1>2, AppendProperties, AppendIsConcat
<1>4. /\ channel[c].upOpen => Sent(c, <<t>>) = w
      /\ ~channel[c].upOpen => Sent(c, <<t>>) = <<>>
  BY <1>1, <1>3 DEF Sent
<1>5. d = <<>> => Len(d) = 0
  OBVIOUS
<1>6. <<>> \in Seq(Tokens)
  BY EmptySeq
<1>7. CASE channel[c].upOpen
  <2>1. PICK n \in Nat : n = Len(d)
    OBVIOUS
  <2>2. Sent(c, <<t>>) = w
    BY <1>4, <1>7
  <2>3. d = <<>> => Len(w) = 1 /\ w[1] = t
    BY <1>3, <1>5, <2>1
  <2> QED
    BY <1>1, <1>3, <1>7, <2>2, <2>3
<1>8. CASE ~channel[c].upOpen
  BY <1>4, <1>6, <1>8
<1> QED
  BY <1>7, <1>8

\* Reply: the thread sends a token.
LEMMA Replies ==
  ASSUME Shape, NEW c \in Conns, NEW t \in Tokens, Reply(c, <<t>>)
  PROVE  /\ channel' \in [Conns -> Channels]
         /\ channel'[c].up = channel[c].up /\ channel'[c].down = Sent(c, <<t>>)
         /\ channel'[c].upOpen = channel[c].upOpen
         /\ \A x \in Conns \ {c} : channel'[x] = channel[x]
<1>1. PICK w \in Seq(Tokens) : w = Sent(c, <<t>>)
  BY SentOne
<1>2. channel \in [Conns -> Channels] /\ channel' = WithDown(channel, c, w)
  BY <1>1 DEF Shape, Reply, WithDown
<1> QED
  BY <1>1, <1>2, DownBecomes

\* The thread takes the head of what has arrived.
LEMMA Takes ==
  ASSUME Shape, NEW c \in Conns, Arrived(c) # <<>>
  PROVE  /\ channel[c].up \in Seq(Tokens) /\ Taken(c) \in Seq(Tokens)
         /\ Len(channel[c].up) \in Nat \ {0}
         /\ Len(Taken(c)) = Len(channel[c].up) - 1
         /\ \A i \in 1..(Len(channel[c].up) - 1) : Taken(c)[i] = channel[c].up[i + 1]
         /\ Head(channel[c].up) = channel[c].up[1] /\ channel[c].up[1] \in Tokens
         /\ Len(channel[c].up) = 1 => Taken(c) = <<>>
<1>1. PICK u \in Seq(Tokens) : u = channel[c].up /\ u # <<>>
  BY DEF Shape, Channels, Arrived
<1>2. /\ Tail(u) \in Seq(Tokens) /\ Len(Tail(u)) = Len(u) - 1 /\ Len(u) \in Nat \ {0}
      /\ \A i \in 1..(Len(u) - 1) : Tail(u)[i] = u[i + 1]
      /\ Head(u) = u[1] /\ u[1] \in Tokens
  BY <1>1, HeadTailProperties, EmptySeq
<1>3. Len(u) = 1 => Tail(u) = <<>>
  <2>1. PICK v \in Seq(Tokens) : v = Tail(u)
    BY <1>2
  <2>2. Len(u) = 1 => Len(v) = 0
    BY <1>2, <2>1
  <2> QED
    BY <2>1, <2>2, EmptySeq
<1> QED
  BY <1>1, <1>2, <1>3 DEF Taken

\* It takes it and sends nothing.
LEMMA TakesOne ==
  ASSUME Shape, NEW c \in Conns, Arrived(c) # <<>>, channel' = [channel EXCEPT ![c].up = Taken(c)]
  PROVE  /\ channel' \in [Conns -> Channels]
         /\ channel'[c].up = Taken(c) /\ channel'[c].down = channel[c].down
         /\ channel'[c].upOpen = channel[c].upOpen
         /\ \A x \in Conns \ {c} : channel'[x] = channel[x]
<1>1. PICK u \in Seq(Tokens) : u = Taken(c)
  BY Takes
<1>2. channel \in [Conns -> Channels] /\ channel' = WithUp(channel, c, u)
  BY <1>1 DEF Shape, WithUp
<1> QED
  BY <1>1, <1>2, UpBecomes

\* TakeAndReply: it takes it and sends a token.
LEMMA TakesAndReplies ==
  ASSUME Shape, NEW c \in Conns, Arrived(c) # <<>>, NEW t \in Tokens, TakeAndReply(c, <<t>>)
  PROVE  /\ channel' \in [Conns -> Channels]
         /\ channel'[c].up = Taken(c) /\ channel'[c].down = Sent(c, <<t>>)
         /\ channel'[c].upOpen = channel[c].upOpen
         /\ \A x \in Conns \ {c} : channel'[x] = channel[x]
<1>1. PICK u \in Seq(Tokens), w \in Seq(Tokens) : u = Taken(c) /\ w = Sent(c, <<t>>)
  BY Takes, SentOne
<1>2. channel \in [Conns -> Channels] /\ channel' = Holding(channel, c, u, w)
  BY <1>1 DEF Shape, TakeAndReply, Holding
<1>3. LET d == Holding(channel, c, u, w) IN
        /\ d \in [Conns -> Channels]
        /\ d[c].up = u /\ d[c].down = w
        /\ d[c].upOpen = channel[c].upOpen /\ d[c].downOpen = channel[c].downOpen
        /\ \A x \in Conns \ {c} : d[x] = channel[x]
  BY <1>2, ChannelHolds
<1> QED
  BY <1>1, <1>2, <1>3

\* ConnectionLost: nothing is sent any more, and what was under way may be gone.
LEMMA LostStep == ASSUME IInv, NEW c \in Conns, ConnectionLost(c) PROVE IInv'
<1>1. /\ server[c].pc \notin {"new", "ended"}
      /\ UNCHANGED <<local, remote, readOnly, stop, client, done, server>>
      /\ Shape /\ channel[c].up \in Seq(Tokens) /\ channel[c].down \in Seq(Tokens)
      /\ ClientSide /\ remote \in Disks /\ server \in [Conns -> Threads]
  BY DEF ConnectionLost, IInv, Shape, Channels, ClientSide
<1>2. PICK u \in Seq(Tokens), w \in Seq(Tokens) :
        /\ u = <<>> \/ u = channel[c].up
        /\ w = <<>> \/ w = channel[c].down
        /\ channel' = [channel EXCEPT ![c] = [up |-> u, down |-> w, upOpen |-> FALSE, downOpen |-> FALSE]]
  BY <1>1, EmptySeq DEF ConnectionLost
<1>3. PICK r \in Channels : /\ r = [up |-> u, down |-> w, upOpen |-> FALSE, downOpen |-> FALSE]
                            /\ r.up = u /\ r.down = w /\ ~r.upOpen
  <2>1. PICK no \in BOOLEAN : no = FALSE
    OBVIOUS
  <2>2. PICK r : r = [up |-> u, down |-> w, upOpen |-> no, downOpen |-> no]
    OBVIOUS
  <2>3. r \in Channels /\ r.up = u /\ r.down = w /\ r.upOpen = no
    BY <2>2 DEF Channels
  <2> QED
    BY <2>1, <2>2, <2>3
<1>4. /\ channel' \in [Conns -> Channels] /\ channel'[c].up = u /\ channel'[c].down = w
      /\ ~channel'[c].upOpen
      /\ \A x \in Conns \ {c} : channel'[x] = channel[x]
  BY <1>1, <1>2, <1>3 DEF Shape
<1>5. DOMAIN <<>> = {} /\ Len(<<>>) = 0
  OBVIOUS
<1>6. Len(u) \in Nat /\ Len(channel[c].up) \in Nat /\ Len(u) <= Len(channel[c].up)
      /\ Len(w) \in Nat /\ Len(channel[c].down) \in Nat /\ Len(w) <= Len(channel[c].down)
  BY <1>1, <1>2, <1>5
<1>7. StreamOf(c)'
  <2>1. StreamOf(c) /\ server[c].at \in Nat /\ server[c].size \in Nat
    BY <1>1 DEF IInv, Streams, Threads
  <2>2. server[c].pc = "chunks" => server[c].at + Len(u) <= server[c].size + 1
    <3>1. PICK m \in Nat, n \in Nat : m = Len(u) /\ n = Len(channel[c].up) /\ m <= n
      BY <1>6
    <3>2. server[c].pc = "chunks" => server[c].at + n <= server[c].size + 1
      BY <2>1, <3>1 DEF StreamOf
    <3> QED
      BY <2>1, <3>1, <3>2, SMTT(30)
  <2> QED
    BY <1>1, <1>2, <1>4, <2>1, <2>2 DEF StreamOf
<1>8. ASSUME c = Here PROVE Uploading' /\ Downloading'
  <2>1. /\ Thread' = Thread /\ Line = channel[c] /\ Line'.up = u /\ Line'.down = w /\ ~Line'.upOpen
        /\ Next1' = Next1 /\ Active' = Active /\ Thread \in Threads
    BY <1>1, <1>4, <1>8 DEF Thread, Line, Next1, Active, Here
  <2>2. Answered' => Answered
    BY <1>2, <2>1 DEF Answered
  <2>3. Uploading'
    <3>1. client.op = "upload" => Paired'
      <4> SUFFICES ASSUME client.op = "upload" PROVE Paired'
        OBVIOUS
      <4>1. Paired
        BY DEF IInv, Uploading
      <4>2. /\ Thread.pc # "ended" /\ Active => Len(w) <= 1
            /\ Active => \A i \in DOMAIN w : i > 1 => w[i] # Ok
        BY <1>2, <1>5, <1>6, <2>1, <4>1 DEF Paired
      <4>3. client.pc = "chunks" /\ Thread.pc = "chunks" => Thread.at + Len(u) <= client.at
        <5>1. client.at \in Nat /\ Thread.at \in Nat
          BY <1>1, <2>1 DEF Shape, Clients, Threads
        <5> QED
          BY <1>6, <2>1, <4>1, <5>1 DEF Paired
      <4> QED
        BY <1>1, <1>2, <2>1, <2>2, <4>1, <4>2, <4>3 DEF Paired
    <3>2. HalfWay'
      BY <2>1 DEF HalfWay
    <3> QED
      BY <1>1, <1>2, <2>1, <3>1, <3>2 DEF IInv, Uploading
  <2>4. Downloading'
    <3> SUFFICES ASSUME client.op = "download" PROVE Downloading'
      BY <1>1 DEF Downloading
    <3>1. Acks'
      <4>1. Taken1' = Taken1 /\ Taken1 \in {0, 1, 2}
        BY <2>1 DEF Taken1
      <4> QED
        BY <1>1, <1>6, <2>1, <4>1 DEF IInv, Downloading, Acks
    <3>2. Trailers => Trailers'
      BY <1>1, <1>2, <1>5, <2>1 DEF Trailers, Prefix, DataUpTo
    <3>3. Received'
      BY <1>1, <1>2, <2>1, <3>2 DEF IInv, Downloading, Received
    <3> QED
      BY <1>1, <2>1, <3>1, <3>3 DEF IInv, Downloading
  <2> QED
    BY <2>3, <2>4
<1> QED
  BY <1>1, <1>4, <1>7, <1>8, ThreadKeeps

\* Command, accepted: an upload waits for headers, a download for the first acknowledgement.
LEMMA CommandStep == ASSUME IInv, NEW c \in Conns, Command(c), ~Refused(c) PROVE IInv'
<1>1. /\ server[c].pc = "command" /\ UNCHANGED <<local, remote, readOnly, stop, client, done>>
      /\ ClientSide /\ Shape /\ remote \in Disks /\ server \in [Conns -> Threads] /\ StreamOf(c)
      /\ server[c].pc \notin {"new", "ended"}
  BY DEF Command, ClientSide, IInv, Shape, Streams
<1>2. server[c].op \in {"upload", "download"} /\ server[c].file \in Files
  BY <1>1 DEF StreamOf
<1>3. ASSUME server[c].op = "upload" PROVE IInv'
  <2>1. Reply(c, <<Ok>>) /\ server' = [server EXCEPT ![c].pc = "control"]
    BY <1>3 DEF Command, ThreadTo
  <2>2. /\ server' \in [Conns -> Threads] /\ server'[c].pc = "control"
        /\ server'[c].op = server[c].op /\ server'[c].done = server[c].done
        /\ server'[c].file = server[c].file
        /\ \A x \in Conns \ {c} : server'[x] = server[x]
    BY <1>1, <2>1, ThreadGoes DEF ThreadPcs
  <2>3. Ok \in Tokens
    BY DEF Tokens
  <2>4. /\ channel' \in [Conns -> Channels]
        /\ channel'[c].up = channel[c].up /\ channel'[c].down = Sent(c, <<Ok>>)
        /\ \A x \in Conns \ {c} : channel'[x] = channel[x]
    BY <1>1, <2>1, <2>3, Replies
  <2>5. channel[c].up = <<>>
    BY <1>1, <1>3 DEF StreamOf
  <2>6. StreamOf(c)'
    BY <1>2, <1>3, <2>2, <2>4, <2>5 DEF StreamOf
  <2>7. ASSUME c = Here PROVE Uploading' /\ Downloading'
    <3>1. /\ Thread = server[c] /\ Line = channel[c] /\ Line'.up = <<>> /\ Line'.down = Sent(c, <<Ok>>)
          /\ Thread'.pc = "control" /\ Thread'.done = Thread.done
          /\ Next1' = Next1 /\ Active' = Active /\ client.op = "upload"
      BY <1>1, <1>3, <2>2, <2>4, <2>5, <2>7 DEF Thread, Line, Next1, Active, Here, IInv, Roles, Cast
    <3>2. /\ client.pc \in {"ready", "idle", "over"}
          /\ client.pc = "ready" => channel[c].down = <<>>
      <4>1. client.pc # "connect"
        <5>1. NoThread.pc = "new"
          BY DEF NoThread
        <5> QED
          BY <1>1, <2>7, <5>1 DEF IInv, Roles, Others
      <4> QED
        BY <1>1, <3>1, <4>1 DEF IInv, Roles, Cast, Uploading, Paired
    <3>3. client.pc = "ready" =>
            /\ Sent(c, <<Ok>>) # <<>> => Len(Sent(c, <<Ok>>)) = 1
            /\ Sent(c, <<Ok>>) \in Seq(Tokens)
      BY <1>1, <2>3, <3>2, SentOne
    <3>4. Paired'
      <4>1. client.pc = "ready" => Len(Sent(c, <<Ok>>)) <= 1
        <5> SUFFICES ASSUME client.pc = "ready" PROVE Len(Sent(c, <<Ok>>)) <= 1
          OBVIOUS
        <5>1. CASE Sent(c, <<Ok>>) = <<>>
          <6>1. Len(<<>>) = 0
            OBVIOUS
          <6>2. Len(Sent(c, <<Ok>>)) = 0
            BY <5>1, <6>1
          <6> QED
            BY <6>2
        <5>2. CASE Len(Sent(c, <<Ok>>)) = 1
          BY <5>2, SMTT(30)
        <5> QED
          BY <3>3, <5>1, <5>2
      <4>2. client.pc = "ready" => \A i \in DOMAIN Sent(c, <<Ok>>) : ~(i > 1)
        BY <3>3, <4>1
      <4> QED
        BY <1>1, <3>1, <3>2, <4>1, <4>2 DEF Paired, Active
    <3>5. HalfWay'
      BY <1>1, <3>2 DEF HalfWay
    <3> QED
      BY <1>1, <3>1, <3>4, <3>5 DEF IInv, Uploading, Downloading
  <2> QED
    BY <1>1, <2>2, <2>4, <2>6, <2>7, ThreadKeeps
<1>4. ASSUME server[c].op = "download" PROVE IInv'
  <2>1. channel' = channel /\ server' = [server EXCEPT ![c].pc = "sessionOk"]
    BY <1>4 DEF Command, ThreadTo, Writable
  <2>2. /\ server' \in [Conns -> Threads] /\ server'[c].pc = "sessionOk"
        /\ server'[c].op = server[c].op /\ server'[c].done = server[c].done
        /\ server'[c].file = server[c].file /\ server'[c].at = server[c].at
        /\ \A x \in Conns \ {c} : server'[x] = server[x]
    BY <1>1, <2>1, ThreadGoes DEF ThreadPcs
  <2>3. remote[server[c].file].there
    BY <1>4 DEF Refused
  <2>4. StreamOf(c)'
    BY <1>1, <1>2, <1>4, <2>1, <2>2, <2>3 DEF StreamOf
  <2>5. ASSUME c = Here PROVE Uploading' /\ Downloading'
    <3>1. /\ Thread = server[c] /\ Line' = Line
          /\ Thread'.pc = "sessionOk" /\ Thread'.done = Thread.done /\ Thread'.file = Thread.file
          /\ Next1' = Next1 /\ client.op = "download" /\ Line.up \in Seq(Tokens)
      BY <1>1, <1>4, <2>1, <2>2, <2>5 DEF Thread, Line, Next1, Here, IInv, Roles, Cast, Shape, Channels
    <3>2. Acks'
      <4>1. Taken1' = 0 /\ Taken1 = 0
        BY <1>1, <3>1 DEF Taken1
      <4> QED
        BY <1>1, <3>1, <4>1 DEF IInv, Downloading, Acks
    <3>3. Received'
      BY <1>1, <3>1 DEF IInv, Downloading, Received
    <3> QED
      BY <1>1, <3>1, <3>2, <3>3 DEF IInv, Uploading, Downloading
  <2>6. channel' \in [Conns -> Channels] /\ \A x \in Conns \ {c} : channel'[x] = channel[x]
    BY <1>1, <2>1 DEF Shape
  <2> QED
    BY <1>1, <2>2, <2>4, <2>5, <2>6, ThreadKeeps
<1> QED
  BY <1>2, <1>3, <1>4

\* Control: the thread waits for the next header.
LEMMA ControlStep == ASSUME IInv, NEW c \in Conns, Control(c), ~stop PROVE IInv'
<1>1. /\ server[c].pc = "control" /\ UNCHANGED <<local, remote, readOnly, stop, client, done, channel>>
      /\ ClientSide /\ Shape /\ remote \in Disks /\ server \in [Conns -> Threads] /\ StreamOf(c)
      /\ server[c].pc \notin {"new", "ended"} /\ channel' \in [Conns -> Channels]
      /\ server' = [server EXCEPT ![c].pc = "readControl"]
  BY DEF Control, ThreadTo, ClientSide, IInv, Shape, Streams
<1>2. /\ server' \in [Conns -> Threads] /\ server'[c].pc = "readControl"
      /\ server'[c].op = server[c].op /\ server'[c].done = server[c].done
      /\ server'[c].file = server[c].file
      /\ \A x \in Conns \ {c} : server'[x] = server[x]
  BY <1>1, ThreadGoes DEF ThreadPcs
<1>3. StreamOf(c)'
  BY <1>1, <1>2 DEF StreamOf
<1>4. ASSUME c = Here PROVE Uploading' /\ Downloading'
  <2>1. /\ Thread = server[c] /\ Line' = Line
        /\ Thread'.pc = "readControl" /\ Thread'.done = Thread.done
        /\ Next1' = Next1 /\ Active' = Active /\ client.op = "upload"
    BY <1>1, <1>2, <1>4 DEF Thread, Line, Next1, Active, Here, IInv, Roles, Cast, StreamOf
  <2>2. Paired'
    <3>1. Paired
      BY <2>1 DEF IInv, Uploading
    <3>2. Answered' = Answered
      BY <2>1 DEF Answered
    <3> QED
      BY <1>1, <2>1, <3>1, <3>2 DEF Paired
  <2>3. HalfWay'
    BY <2>1 DEF HalfWay
  <2> QED
    BY <1>1, <2>1, <2>2, <2>3 DEF IInv, Uploading, Downloading
<1> QED
  BY <1>1, <1>2, <1>3, <1>4, ThreadKeeps

\* SendHeader: the client gets the name and the size.
LEMMA SendHeaderStep == ASSUME IInv, NEW c \in Conns, SendHeader(c) PROVE IInv'
<1>1. /\ server[c].pc = "sessionOk" /\ UNCHANGED <<local, remote, readOnly, stop, client, done>>
      /\ ClientSide /\ Shape /\ remote \in Disks /\ server \in [Conns -> Threads] /\ StreamOf(c)
      /\ server[c].pc \notin {"new", "ended"} /\ Arrived(c) # <<>>
  BY DEF SendHeader, ClientSide, IInv, Shape, Streams
<1>2. /\ server[c].op = "download" /\ server[c].file \in Files
      /\ remote[server[c].file].there /\ server[c].at = 0
  BY <1>1 DEF StreamOf
<1>3. PICK s \in Nat : s = Len(remote[server[c].file].data)
  BY <1>1, <1>2 DEF Disks
<1>4. PICK h \in Headers : h = [file |-> server[c].file, size |-> s]
  BY <1>2 DEF Headers
<1>5. PICK t \in Tokens : t = <<"C", h>>
  BY DEF Tokens
<1>6. t[1] = "C" /\ t[2].size = s
  BY <1>4, <1>5
<1>7. TakeAndReply(c, <<t>>) /\ server' = Sized(server, c, "headerOk", s)
  BY <1>3, <1>4, <1>5 DEF SendHeader, Sized, Size
<1>8. /\ server' \in [Conns -> Threads] /\ server'[c].pc = "headerOk"
      /\ server'[c].op = server[c].op /\ server'[c].done = server[c].done
      /\ server'[c].file = server[c].file /\ server'[c].at = server[c].at
      /\ \A x \in Conns \ {c} : server'[x] = server[x]
  <2>1. "headerOk" \in ThreadPcs
    BY DEF ThreadPcs
  <2> QED
    BY <1>1, <1>7, <2>1, ThreadSized
<1>9. /\ channel' \in [Conns -> Channels]
      /\ channel'[c].up = Taken(c) /\ channel'[c].down = Sent(c, <<t>>)
      /\ channel'[c].upOpen = channel[c].upOpen
      /\ \A x \in Conns \ {c} : channel'[x] = channel[x]
  BY <1>1, <1>7, TakesAndReplies
<1>10. StreamOf(c)'
  BY <1>1, <1>2, <1>8 DEF StreamOf
<1>11. ASSUME c = Here PROVE Uploading' /\ Downloading'
  <2>1. /\ Thread = server[c] /\ Line = channel[c] /\ Line'.up = Taken(c) /\ Line'.down = Sent(c, <<t>>)
        /\ Thread'.pc = "headerOk" /\ Thread'.done = Thread.done /\ Thread'.file = Thread.file
        /\ Next1' = Next1 /\ client.op = "download"
    BY <1>1, <1>2, <1>8, <1>9, <1>11 DEF Thread, Line, Next1, Here, IInv, Roles, Cast
  <2>2. Acks'
    <3>1. Taken1' = 1 /\ Taken1 = 0
      BY <1>1, <2>1 DEF Taken1
    <3>2. PICK n \in Nat : n = Len(channel[c].up) /\ Len(Taken(c)) = n - 1
      BY <1>1, Takes
    <3>3. 0 + n = 1 + (n - 1)
      OBVIOUS
    <3> QED
      BY <1>1, <2>1, <3>1, <3>2, <3>3 DEF IInv, Downloading, Acks
  <2>3. Received'
    <3>1. client.pc # "data"
      BY <1>1, <2>1 DEF IInv, Downloading, Received
    <3>2. client.pc = "header" => channel[c].down = <<>> /\ Thread.file = Next1
      BY <1>1, <2>1 DEF IInv, Downloading, Acks, Received
    <3>3. client.pc = "header" /\ Sent(c, <<t>>) # <<>> =>
            Len(Sent(c, <<t>>)) = 1 /\ Sent(c, <<t>>)[1] = t
      BY <1>1, <3>2, SentOne
    <3> QED
      BY <1>1, <1>2, <1>3, <1>6, <2>1, <3>1, <3>2, <3>3 DEF Received
  <2> QED
    BY <1>1, <2>1, <2>2, <2>3 DEF IInv, Uploading, Downloading
<1> QED
  BY <1>1, <1>8, <1>9, <1>10, <1>11, ThreadKeeps

\* ClientTakesHeader: the client waits for data, at its beginning.
LEMMA ClientTakesHeaderStep == ASSUME IInv, NEW c \in Conns, ClientTakesHeader(c) PROVE IInv'
<1>1. /\ server[c].pc = "headerOk" /\ UNCHANGED <<local, remote, readOnly, stop, client, done>>
      /\ ClientSide /\ Shape /\ remote \in Disks /\ server \in [Conns -> Threads] /\ StreamOf(c)
      /\ server[c].pc \notin {"new", "ended"} /\ Arrived(c) # <<>>
      /\ server' = [server EXCEPT ![c].pc = "send"]
      /\ channel' = [channel EXCEPT ![c].up = Taken(c)]
  BY DEF ClientTakesHeader, ThreadTo, ClientSide, IInv, Shape, Streams
<1>2. /\ server' \in [Conns -> Threads] /\ server'[c].pc = "send"
      /\ server'[c].op = server[c].op /\ server'[c].done = server[c].done
      /\ server'[c].file = server[c].file /\ server'[c].at = server[c].at
      /\ \A x \in Conns \ {c} : server'[x] = server[x]
  BY <1>1, ThreadGoes DEF ThreadPcs
<1>3. /\ channel' \in [Conns -> Channels]
      /\ channel'[c].up = Taken(c) /\ channel'[c].down = channel[c].down
      /\ channel'[c].upOpen = channel[c].upOpen
      /\ \A x \in Conns \ {c} : channel'[x] = channel[x]
  BY <1>1, TakesOne
<1>4. server[c].op = "download" /\ StreamOf(c)'
  BY <1>1, <1>2 DEF StreamOf
<1>5. ASSUME c = Here PROVE Uploading' /\ Downloading'
  <2>1. /\ Thread = server[c] /\ Line = channel[c] /\ Line'.up = Taken(c) /\ Line'.down = Line.down
        /\ Line'.upOpen = Line.upOpen
        /\ Thread'.pc = "send" /\ Thread'.done = Thread.done /\ Thread'.file = Thread.file
        /\ Thread'.at = Thread.at
        /\ Next1' = Next1 /\ client.op = "download"
    BY <1>1, <1>2, <1>3, <1>4, <1>5 DEF Thread, Line, Next1, Here, IInv, Roles, Cast
  <2>2. PICK n \in Nat \ {0} : n = Len(channel[c].up) /\ Len(Taken(c)) = n - 1
    BY <1>1, Takes
  <2>3. Taken1' = 2 /\ Taken1 = 1
    BY <1>1, <2>1 DEF Taken1
  <2>4. Acks'
    <3>1. 1 + n = 2 + (n - 1)
      OBVIOUS
    <3> QED
      BY <1>1, <2>1, <2>2, <2>3, <3>1 DEF IInv, Downloading, Acks
  <2>5. client.pc # "header"
    <3> SUFFICES ASSUME client.pc = "header" PROVE FALSE
      OBVIOUS
    <3>1. done = {} /\ Acks
      BY <2>1 DEF IInv, Downloading
    <3>2. 1 + n <= 1
      BY <1>1, <2>1, <2>2, <2>3, <3>1 DEF Acks
    <3> QED
      BY <3>2
  <2>6. Received'
    <3>1. Trailers' <=> Trailers
      BY <1>1, <2>1 DEF Trailers, Prefix, DataUpTo
    <3>2. Unbroken' <=> Unbroken
      BY <1>1, <2>1 DEF Unbroken, Prefix, DataUpTo
    <3> QED
      BY <1>1, <2>1, <2>5, <3>1, <3>2 DEF IInv, Downloading, Received
  <2> QED
    BY <1>1, <2>1, <2>4, <2>6 DEF IInv, Uploading, Downloading
<1> QED
  BY <1>1, <1>2, <1>3, <1>4, <1>5, ThreadKeeps

\* SendFile: the next chunk, or behind the last one the byte that ends the file.
LEMMA SendFileStep == ASSUME IInv, NEW c \in Conns, SendFile(c), ~stop PROVE IInv'
<1>1. /\ server[c].pc = "send" /\ UNCHANGED <<local, remote, readOnly, stop, client, done>>
      /\ ClientSide /\ Shape /\ remote \in Disks /\ server \in [Conns -> Threads] /\ StreamOf(c)
      /\ server[c].pc \notin {"new", "ended"}
  BY DEF SendFile, ClientSide, IInv, Shape, Streams
<1>2. /\ server[c].op = "download" /\ server[c].file \in Files /\ remote[server[c].file].there
      /\ server[c].at \in Nat
  BY <1>1 DEF StreamOf, Threads
<1>3. PICK data \in Seq(Values) : data = remote[server[c].file].data
  BY <1>1, <1>2 DEF Disks
<1>4. PICK t \in Tokens, p \in {"send", "finalOk"}, k \in Nat :
        /\ Reply(c, <<t>>)
        /\ server' \in [Conns -> Threads] /\ server'[c].pc = p
        /\ server'[c].op = server[c].op /\ server'[c].done = server[c].done
        /\ server'[c].file = server[c].file /\ server'[c].at = k
        /\ \A x \in Conns \ {c} : server'[x] = server[x]
        /\ \/ p = "send" /\ k = server[c].at + 1 /\ k <= Len(data) /\ t = Data(data[k]) /\ t # Ok
           \/ p = "finalOk" /\ k = server[c].at /\ k >= Len(data) /\ t = Ok
  <2>1. CASE server[c].at < Len(data)
    <3>1. PICK k \in Nat : k = server[c].at + 1
      BY <1>2
    <3>2. data[k] \in Values /\ k <= Len(data)
      BY <1>2, <2>1, <3>1
    <3>3. PICK t \in Tokens : t = Data(data[k])
      BY <3>2 DEF Tokens
    <3>4. Reply(c, <<t>>) /\ server' = [server EXCEPT ![c].at = k]
      BY <1>3, <2>1, <3>1, <3>3 DEF SendFile
    <3>5. /\ server' \in [Conns -> Threads] /\ server'[c].pc = server[c].pc
          /\ server'[c].op = server[c].op /\ server'[c].done = server[c].done
          /\ server'[c].file = server[c].file /\ server'[c].at = k
          /\ \A x \in Conns \ {c} : server'[x] = server[x]
      BY <1>1, <3>4, ThreadAt
    <3>6. t # Ok
      BY <3>3 DEF Data, Ok
    <3> QED
      BY <1>1, <3>1, <3>2, <3>3, <3>4, <3>5, <3>6
  <2>2. CASE ~(server[c].at < Len(data))
    <3>1. PICK t \in Tokens : t = Ok
      BY DEF Tokens
    <3>2. Reply(c, <<t>>) /\ server' = [server EXCEPT ![c].pc = "finalOk"]
      BY <1>3, <2>2, <3>1 DEF SendFile, ThreadTo
    <3>3. /\ server' \in [Conns -> Threads] /\ server'[c].pc = "finalOk"
          /\ server'[c].op = server[c].op /\ server'[c].done = server[c].done
          /\ server'[c].file = server[c].file /\ server'[c].at = server[c].at
          /\ \A x \in Conns \ {c} : server'[x] = server[x]
      BY SMTT(30), <1>1, <3>2, ThreadGoes DEF ThreadPcs
    <3>4. server[c].at >= Len(data)
      BY <1>2, <2>2
    <3> QED
      BY <1>2, <3>1, <3>2, <3>3, <3>4
  <2> QED
    BY <2>1, <2>2
<1>5. /\ channel' \in [Conns -> Channels]
      /\ channel'[c].up = channel[c].up /\ channel'[c].down = Sent(c, <<t>>)
      /\ channel'[c].upOpen = channel[c].upOpen
      /\ \A x \in Conns \ {c} : channel'[x] = channel[x]
  BY <1>1, <1>4, Replies
<1>6. StreamOf(c)'
  BY <1>1, <1>2, <1>4, <1>5 DEF StreamOf
<1>7. ASSUME c = Here PROVE Uploading' /\ Downloading'
  <2>1. /\ Thread = server[c] /\ Line = channel[c] /\ Line'.up = Line.up /\ Line'.down = Sent(c, <<t>>)
        /\ Line'.upOpen = Line.upOpen /\ Line.down \in Seq(Tokens) /\ Line.up \in Seq(Tokens)
        /\ Thread'.pc = p /\ Thread'.done = Thread.done /\ Thread'.file = Thread.file
        /\ Thread'.at = k
        /\ Next1' = Next1 /\ client.op = "download" /\ client.at \in Nat
    BY <1>1, <1>2, <1>4, <1>5, <1>7
       DEF Thread, Line, Next1, Here, IInv, Roles, Cast, Shape, Channels, Clients
  <2>2. Acks'
    <3>1. Taken1' = 2 /\ Taken1 = 2
      BY <1>1, <1>4, <2>1 DEF Taken1
    <3> QED
      BY <1>1, <2>1, <3>1 DEF IInv, Downloading, Acks
  <2>3. client.pc # "header"
    BY <1>1, <2>1 DEF IInv, Downloading, Received
  <2>4. PICK n \in Nat : n = Len(Line.down)
    <3>1. Line.down \in Seq(Tokens)
      BY <2>1
    <3>2. Len(Line.down) \in Nat
      BY <3>1
    <3> QED
      BY <3>2
  <2>a. PICK a \in Nat, m \in Nat : a = client.at /\ m = Len(data)
    <3>1. client.at \in Nat /\ Len(data) \in Nat
      BY <2>1
    <3> QED
      BY <3>1
  <2>5. ASSUME client.pc = "data", client.alone, Line.upOpen
        PROVE  Trailers' /\ (p = "send" => Unbroken')
    <3>1. Unbroken /\ Trailers /\ Thread.file = Next1
      BY <1>1, <2>1, <2>5 DEF IInv, Downloading, Received, Acks
    <3>2. /\ server[c].at = client.at + n /\ server[c].at <= Len(data)
          /\ Prefix /\ \A j \in 1..n : Line.down[j] = Data(data[client.at + j])
          /\ data = remote[Next1].data
      BY <1>3, <2>1, <2>4, <3>1 DEF Unbroken, DataUpTo
    <3>3. /\ Len(Line'.down) = n + 1 /\ Line'.down[n + 1] = t
          /\ \A j \in 1..n : Line'.down[j] = Line.down[j]
          /\ DOMAIN Line'.down = 1..(n + 1)
      <4>1. PICK w \in Seq(Tokens) : w = Sent(c, <<t>>)
        BY <1>1, SentOne
      <4>2. /\ Len(w) = Len(channel[c].down) + 1
            /\ \A i \in 1..Len(channel[c].down) : w[i] = channel[c].down[i]
            /\ w[Len(channel[c].down) + 1] = t
        BY <1>1, <2>1, <2>5, <4>1, SentOne
      <4>3. Len(w) = n + 1 /\ w[n + 1] = t /\ \A j \in 1..n : w[j] = Line.down[j]
        BY <2>1, <2>4, <4>2
      <4>4. DOMAIN w = 1..(n + 1)
        BY <4>3
      <4> QED
        BY <2>1, <4>1, <4>3, <4>4
    <3>4. Prefix'
      BY <1>1, <2>1, <3>2 DEF Prefix
    <3>5. \A j \in 1..n : Line'.down[j] = Data(data[client.at + j])
      BY <3>2, <3>3
    <3>6. Trailers'
      <4> SUFFICES ASSUME NEW i \in 1..(n + 1), Line'.down[i] = Ok
                   PROVE  client.at + i = Len(data) + 1 /\ Prefix' /\ DataUpTo(i - 1)'
        BY <1>1, <2>1, <3>2, <3>3 DEF Trailers
      <4>1. i = n + 1
        <5> SUFFICES ASSUME i # n + 1 PROVE FALSE
          OBVIOUS
        <5>1. i \in 1..n
          OBVIOUS
        <5>2. Data(data[client.at + i]) = Ok
          BY <3>5, <5>1
        <5> QED
          BY <5>2 DEF Data, Ok
      <4>2. p = "finalOk" /\ server[c].at >= Len(data)
        BY <1>4, <3>3, <4>1
      <4>3. client.at + i = Len(data) + 1
        <5>1. server[c].at = a + n /\ server[c].at <= m /\ server[c].at >= m
          BY <2>a, <3>2, <4>2
        <5>2. a + n = m
          BY <5>1
        <5>3. a + (n + 1) = m + 1
          BY <5>2
        <5> QED
          BY <2>a, <4>1, <5>3
      <4>4. DataUpTo(i - 1)'
        <5>1. i - 1 = n
          BY <4>1
        <5> QED
          BY <1>1, <2>1, <3>2, <3>5, <5>1 DEF DataUpTo
      <4> QED
        BY <3>4, <4>3, <4>4
    <3>7. ASSUME p = "send" PROVE Unbroken'
      <4>1. k = client.at + (n + 1) /\ k <= Len(data) /\ t = Data(data[k])
        <5>1. k = server[c].at + 1 /\ k <= Len(data) /\ t = Data(data[k])
          BY <1>4, <3>7
        <5>2. server[c].at = a + n
          BY <2>a, <3>2
        <5>3. k = a + (n + 1)
          BY <5>1, <5>2
        <5> QED
          BY <2>a, <5>1, <5>3
      <4>2. \A j \in 1..(n + 1) : Line'.down[j] = Data(data[client.at + j])
        <5>1. \A j \in 1..(n + 1) : j \in 1..n \/ j = n + 1
          OBVIOUS
        <5> QED
          BY <3>3, <3>5, <4>1, <5>1
      <4>3. DataUpTo(Len(Line.down))'
        BY <1>1, <2>1, <3>2, <3>3, <4>2 DEF DataUpTo
      <4> QED
        BY <1>1, <2>1, <3>2, <3>3, <3>4, <4>1, <4>3 DEF Unbroken
    <3> QED
      BY <3>6, <3>7
  <2>6. ~Line.upOpen => Trailers'
    <3>1. ~Line.upOpen => Sent(c, <<t>>) = <<>>
      BY <1>1, <2>1, SentOne
    <3>2. DOMAIN <<>> = {}
      OBVIOUS
    <3> QED
      BY <2>1, <3>1, <3>2 DEF Trailers
  <2>7. Received'
    BY <1>1, <1>4, <2>1, <2>3, <2>5, <2>6 DEF IInv, Downloading, Received
  <2> QED
    BY <1>1, <2>1, <2>2, <2>7 DEF IInv, Uploading, Downloading
<1> QED
  BY <1>1, <1>4, <1>5, <1>6, <1>7, ThreadKeeps

\* FileHeader: the file on the server is opened, which empties it.
LEMMA FileHeaderStep == ASSUME IInv, NEW c \in Conns, FileHeader(c) PROVE IInv'
<1>1. /\ server[c].pc = "readControl" /\ UNCHANGED <<local, readOnly, stop, client, done>>
      /\ ClientSide /\ Shape /\ remote \in Disks /\ server \in [Conns -> Threads] /\ StreamOf(c)
      /\ server[c].pc \notin {"new", "ended"} /\ Arrived(c) # <<>> /\ TakeAndReply(c, <<Ok>>)
  BY DEF FileHeader, ClientSide, IInv, Shape, Streams
<1>2. PICK h \in Headers : channel[c].up[1] = <<"C", h>> /\ Len(channel[c].up) = 1
  BY <1>1 DEF StreamOf, Arrived
<1>3. channel[c].up[1][2] = h /\ h.file \in Files /\ h.size \in Nat /\ server[c].op = "upload"
  BY <1>1, <1>2 DEF Headers, StreamOf
<1>4. Head(channel[c].up) = channel[c].up[1] /\ Taken(c) = <<>>
  BY <1>1, <1>2, Takes
<1>5. PICK z \in Nat : z = 0
  OBVIOUS
<1>6. /\ server' = Doing(server, c, "chunks", h.file, h.size, z)
      /\ remote' = [remote EXCEPT ![h.file] = File(<<>>)]
  BY <1>3, <1>4, <1>5 DEF FileHeader, Doing, Arrived, Emptied
<1>7. /\ server' \in [Conns -> Threads] /\ server'[c].pc = "chunks"
      /\ server'[c].op = server[c].op /\ server'[c].file = h.file
      /\ server'[c].at = 0 /\ server'[c].size = h.size /\ server'[c].done = server[c].done
      /\ \A x \in Conns \ {c} : server'[x] = server[x]
  <2>1. "chunks" \in ThreadPcs
    BY DEF ThreadPcs
  <2>2. LET d == Doing(server, c, "chunks", h.file, h.size, z) IN
         /\ d \in [Conns -> Threads]
         /\ d[c].pc = "chunks" /\ d[c].op = server[c].op /\ d[c].file = h.file
         /\ d[c].at = z /\ d[c].size = h.size /\ d[c].done = server[c].done
         /\ \A x \in Conns \ {c} : d[x] = server[x]
    BY <1>1, <1>3, <2>1, ThreadOpens
  <2> QED
    BY <1>5, <1>6, <2>2
<1>8. Ok \in Tokens
  BY DEF Tokens
<1>9. /\ channel' \in [Conns -> Channels]
      /\ channel'[c].up = <<>> /\ channel'[c].down = Sent(c, <<Ok>>)
      /\ channel'[c].upOpen = channel[c].upOpen
      /\ \A x \in Conns \ {c} : channel'[x] = channel[x]
  BY <1>1, <1>4, <1>8, TakesAndReplies
<1>10. /\ remote' \in Disks /\ remote'[h.file].there /\ remote'[h.file].data = <<>>
       /\ \A f \in Files \ {h.file} : remote'[f] = remote[f]
  <2>1. File(<<>>) \in [there : BOOLEAN, data : Seq(Values)] /\ File(<<>>).there
        /\ File(<<>>).data = <<>>
    BY EmptySeq DEF File
  <2> QED
    BY <1>1, <1>3, <1>6, <2>1 DEF Disks
<1>11. \A f \in Files : remote[f].there => remote'[f].there
  BY <1>10
<1>12. StreamOf(c)'
  <2>1. Len(<<>>) = 0 /\ 0 + 0 <= h.size + 1 /\ 0 <= h.size
    BY <1>3
  <2> QED
    BY <1>3, <1>7, <1>9, <2>1 DEF StreamOf
<1>13. ASSUME c = Here PROVE Uploading' /\ Downloading'
  <2>1. /\ Thread = server[c] /\ Line = channel[c] /\ Line'.up = <<>> /\ Line'.down = Sent(c, <<Ok>>)
        /\ Thread'.pc = "chunks" /\ Thread'.file = h.file /\ Thread'.at = 0
        /\ Thread'.size = h.size /\ Thread'.done = Thread.done
        /\ Next1' = Next1 /\ Active' = Active /\ client.op = "upload" /\ Line.up # <<>>
    BY <1>1, <1>3, <1>7, <1>9, <1>13
       DEF Thread, Line, Next1, Active, Here, IInv, Roles, Cast, Arrived
  <2>2. /\ client.pc \in {"headerOk", "idle", "over"}
        /\ client.pc = "headerOk" =>
             /\ channel[c].down = <<>>
             /\ channel[c].up[1] = <<"C", [file |-> Next1, size |-> client.size]>>
             /\ client.at = 0
             /\ client.size = Len(local[Next1].data) /\ client.at <= client.size
    <3>1. client.pc # "connect"
      <4>1. NoThread.pc = "new"
        BY DEF NoThread
      <4> QED
        BY <1>1, <1>13, <4>1 DEF IInv, Roles, Others
    <3> QED
      BY <1>1, <2>1, <3>1 DEF IInv, Roles, Cast, Uploading, Paired
  <2>3. client.pc = "headerOk" => h.file = Next1 /\ h.size = client.size
    BY <1>3, <2>2
  <2>4. h.file \notin done
    BY <1>1, <1>3, <2>1 DEF IInv, Uploading
  <2>5. Paired'
    <3>1. PICK w \in Seq(Tokens) : w = Sent(c, <<Ok>>)
      BY <1>1, <1>8, SentOne
    <3>2. client.pc = "headerOk" /\ w # <<>> => Len(w) = 1
      BY <1>1, <1>8, <2>2, <3>1, SentOne
    <3>3. client.pc = "headerOk" => Len(w) <= 1
      <4>1. w = <<>> => Len(w) = 0
        OBVIOUS
      <4>2. client.pc = "headerOk" => Len(w) = 0 \/ Len(w) = 1
        BY <3>2, <4>1
      <4>3. 0 <= 1 /\ 1 <= 1
        OBVIOUS
      <4> QED
        BY <4>2, <4>3
    <3>4. client.pc = "headerOk" => \A i \in DOMAIN w : ~(i > 1)
      BY <3>3
    <3> QED
      BY <1>1, <2>1, <2>2, <2>3, <3>1, <3>3, <3>4 DEF Paired, Active
  <2>6. HalfWay'
    <3>1. Len(<<>>) = 0 /\ DOMAIN <<>> = {} /\ 0 + 0 = 0
      OBVIOUS
    <3> QED
      BY <1>1, <1>10, <2>1, <2>2, <2>3, <3>1 DEF HalfWay
  <2>7. \A f \in done : f \in Files
    BY <1>1 DEF Shape
  <2> QED
    BY <1>1, <1>10, <2>1, <2>4, <2>5, <2>6, <2>7 DEF IInv, Uploading, Downloading
<1> QED
  BY <1>1, <1>7, <1>9, <1>10, <1>11, <1>12, <1>13, ThreadKeeps

\* What a write at place k, the end of the file, makes of it.
Appended(data, k, v, w) ==
  /\ w \in Seq(Values)
  /\ k = Len(data) + 1 => Len(w) = k /\ w[k] = v /\ \A j \in 1..Len(data) : w[j] = data[j]

\* Write: at the end of the file it appends.
LEMMA WriteAppends ==
  ASSUME NEW data \in Seq(Values), NEW k \in Nat, NEW v \in Values, k >= 1
  PROVE  Appended(data, k, v, Write(data, k, v))
<1>1. PICK n \in Nat : n = IF k > Len(data) THEN k ELSE Len(data)
  OBVIOUS
<1>2. PICK w : w = [j \in 1..n |-> IF j = k THEN v ELSE IF j <= Len(data) THEN data[j] ELSE Hole]
  OBVIOUS
<1>3. w = Write(data, k, v)
  BY <1>1, <1>2 DEF Write
<1>4. \A j \in 1..n : w[j] \in Values
  BY <1>2, ValuesHold
<1>5. w \in [1..n -> Values]
  BY <1>2, <1>4
<1>6. w \in Seq(Values) /\ Len(w) = n
  BY <1>5
<1>7. ASSUME k = Len(data) + 1
      PROVE  n = k /\ w[k] = v /\ \A j \in 1..Len(data) : w[j] = data[j]
  BY <1>1, <1>2, <1>7
<1> QED
  BY <1>3, <1>6, <1>7 DEF Appended

\* WriteChunk: the head of the stream is written at the place of the thread.
LEMMA WriteChunkStep == ASSUME IInv, NEW c \in Conns, WriteChunk(c) PROVE IInv'
<1>1. /\ server[c].pc = "chunks" /\ UNCHANGED <<local, readOnly, stop, client, done>>
      /\ ClientSide /\ Shape /\ remote \in Disks /\ server \in [Conns -> Threads] /\ StreamOf(c)
      /\ server[c].pc \notin {"new", "ended"} /\ Arrived(c) # <<>>
      /\ server[c].at # server[c].size
      /\ channel' = [channel EXCEPT ![c].up = Taken(c)]
  BY DEF WriteChunk, AllWritten, ClientSide, IInv, Shape, Streams
<1>2. /\ server[c].op = "upload" /\ server[c].file \in Files
      /\ server[c].at \in Nat /\ server[c].size \in Nat
      /\ server[c].at <= server[c].size
      /\ server[c].at + Len(channel[c].up) <= server[c].size + 1
  BY <1>1 DEF StreamOf, Threads
<1>3. PICK k \in Nat : k = server[c].at + 1
  BY <1>2
<1>4. PICK n \in Nat \ {0} : /\ n = Len(channel[c].up) /\ Len(Taken(c)) = n - 1
                             /\ \A i \in 1..(n - 1) : Taken(c)[i] = channel[c].up[i + 1]
                             /\ DOMAIN channel[c].up = 1..n /\ DOMAIN Taken(c) = 1..(n - 1)
  <2>1. PICK u \in Seq(Tokens), w \in Seq(Tokens) : u = channel[c].up /\ w = Taken(c)
    BY <1>1, Takes
  <2>2. /\ Len(u) \in Nat \ {0} /\ Len(w) = Len(u) - 1
        /\ \A i \in 1..(Len(u) - 1) : w[i] = u[i + 1]
    BY <1>1, <2>1, Takes
  <2>3. DOMAIN u = 1..Len(u) /\ DOMAIN w = 1..Len(w)
    OBVIOUS
  <2> QED
    BY <2>1, <2>2, <2>3
<1>5. PICK v \in Values : /\ v = AsData(channel[c].up[1])
                          /\ \A x \in Values : channel[c].up[1] = Data(x) => v = x
  <2>1. channel[c].up[1] \in Tokens
    BY <1>1, Takes
  <2> QED
    BY <2>1, HeaderTokens
<1>6. PICK data \in Seq(Values) : data = remote[server[c].file].data
  BY <1>1, <1>2 DEF Disks
<1>7. PICK d \in Seq(Values) : /\ d = Write(data, k, v)
                               /\ k = Len(data) + 1 =>
                                    /\ Len(d) = k /\ d[k] = v /\ \A j \in 1..Len(data) : d[j] = data[j]
  <2>1. k >= 1
    BY <1>2, <1>3
  <2>2. Appended(data, k, v, Write(data, k, v))
    BY <2>1, WriteAppends
  <2> QED
    BY <2>2 DEF Appended
<1>8. /\ server' = [server EXCEPT ![c].at = k]
      /\ remote' = [remote EXCEPT ![server[c].file] = File(d)]
  <2>1. AsData(Head(Arrived(c))) = v
    BY <1>1, <1>5, Takes DEF Arrived
  <2>2. Write(remote[server[c].file].data, server[c].at + 1, AsData(Head(Arrived(c)))) = d
    BY <1>3, <1>6, <1>7, <2>1
  <2>3. remote' = [remote EXCEPT ![server[c].file] =
                     File(Write(remote[server[c].file].data, server[c].at + 1, AsData(Head(Arrived(c)))))]
    BY DEF WriteChunk
  <2>4. server' = [server EXCEPT ![c].at = k]
    BY <1>3 DEF WriteChunk
  <2> QED
    BY <2>2, <2>3, <2>4
<1>9. /\ server' \in [Conns -> Threads] /\ server'[c].pc = "chunks"
      /\ server'[c].op = server[c].op /\ server'[c].file = server[c].file
      /\ server'[c].at = k /\ server'[c].size = server[c].size /\ server'[c].done = server[c].done
      /\ \A x \in Conns \ {c} : server'[x] = server[x]
  <2>1. server \in [Conns -> Threads] /\ server' = [server EXCEPT ![c].at = k]
    BY <1>1, <1>8
  <2>2. /\ server' \in [Conns -> Threads]
        /\ server'[c].pc = server[c].pc
        /\ server'[c].op = server[c].op /\ server'[c].file = server[c].file
        /\ server'[c].at = k /\ server'[c].size = server[c].size /\ server'[c].done = server[c].done
        /\ \A x \in Conns \ {c} : server'[x] = server[x]
    BY <2>1, ThreadAt
  <2> QED
    BY <1>1, <2>2
<1>10. /\ channel' \in [Conns -> Channels]
       /\ channel'[c].up = Taken(c) /\ channel'[c].down = channel[c].down
       /\ channel'[c].upOpen = channel[c].upOpen
       /\ \A x \in Conns \ {c} : channel'[x] = channel[x]
  BY <1>1, TakesOne
<1>11. /\ remote' \in Disks /\ remote'[server[c].file].there /\ remote'[server[c].file].data = d
       /\ \A f \in Files \ {server[c].file} : remote'[f] = remote[f]
  <2>1. File(d) \in [there : BOOLEAN, data : Seq(Values)] /\ File(d).there /\ File(d).data = d
    BY DEF File
  <2> QED
    BY <1>1, <1>2, <1>8, <2>1 DEF Disks
<1>12. \A f \in Files : remote[f].there => remote'[f].there
  BY <1>11
<1>13. k <= server[c].size /\ k + (n - 1) = server[c].at + n /\ k + (n - 1) <= server[c].size + 1
  <2>1. PICK a \in Nat, z \in Nat : a = server[c].at /\ z = server[c].size
    BY <1>2
  <2>2. a + n <= z + 1 /\ a <= z /\ a # z /\ k = a + 1
    BY <1>1, <1>2, <1>3, <1>4, <2>1
  <2>3. k <= z /\ k + (n - 1) = a + n /\ k + (n - 1) <= z + 1
    BY <2>2
  <2> QED
    BY <2>1, <2>3
<1>14. StreamOf(c)'
  BY <1>2, <1>4, <1>9, <1>10, <1>13 DEF StreamOf
<1>15. ASSUME c = Here PROVE Uploading' /\ Downloading'
  <2>1. /\ Thread = server[c] /\ Line = channel[c] /\ Line'.up = Taken(c) /\ Line'.down = Line.down
        /\ Line'.upOpen = Line.upOpen
        /\ Thread'.pc = "chunks" /\ Thread'.file = Thread.file /\ Thread'.at = k
        /\ Thread'.size = Thread.size /\ Thread'.done = Thread.done
        /\ Next1' = Next1 /\ Active' = Active /\ client.op = "upload" /\ Line.up # <<>>
    BY <1>1, <1>2, <1>9, <1>10, <1>15
       DEF Thread, Line, Next1, Active, Here, IInv, Roles, Cast, Arrived
  <2>2. /\ client.pc \in {"chunks", "fileOk", "idle", "over"}
        /\ Thread.file \notin done
        /\ client.pc \in {"chunks", "fileOk"} =>
             Thread.file = Next1 /\ Thread.size = client.size /\ Line.down = <<>>
    <3>1. client.pc # "connect"
      <4>1. NoThread.pc = "new"
        BY DEF NoThread
      <4> QED
        BY <1>1, <1>15, <4>1 DEF IInv, Roles, Others
    <3> QED
      BY <1>1, <2>1, <3>1 DEF IInv, Roles, Cast, Uploading, Paired
  <2>3. Paired'
    <3>1. Paired
      BY <2>1 DEF IInv, Uploading
    <3>2. Answered' = Answered
      BY <2>1 DEF Answered
    <3>3. client.pc = "chunks" => k + Len(Taken(c)) <= client.at
      <4>1. client.pc = "chunks" => server[c].at + n <= client.at
        BY <1>1, <1>4, <2>1, <3>1 DEF Paired
      <4> QED
        BY <1>4, <1>13, <4>1
    <3> QED
      BY <1>1, <2>1, <2>2, <3>1, <3>2, <3>3 DEF Paired
  <2>4. HalfWay'
    <3> SUFFICES ASSUME client.alone, Line.upOpen, client.pc \in {"chunks", "fileOk"} PROVE HalfWay'
      BY <1>1, <2>1, <2>2 DEF HalfWay
    <3>1. /\ Thread.at + Len(Line.up) = CASE client.pc = "headerOk" -> 0
                                          [] client.pc = "chunks"   -> client.at
                                          [] client.pc = "fileOk"   -> client.size + 1
          /\ \A i \in DOMAIN Line.up :
               Thread.at + i <= client.size => Line.up[i] = Data(local[Next1].data[Thread.at + i])
          /\ remote[Next1].there /\ Len(remote[Next1].data) = Thread.at
          /\ \A j \in 1..Thread.at : remote[Next1].data[j] = local[Next1].data[j]
      BY <1>1, <2>1 DEF IInv, Uploading, HalfWay
    <3>2. k + Len(Taken(c)) = CASE client.pc = "headerOk" -> 0
                                [] client.pc = "chunks"   -> client.at
                                [] client.pc = "fileOk"   -> client.size + 1
      <4>1. server[c].at + n = CASE client.pc = "headerOk" -> 0
                                [] client.pc = "chunks"   -> client.at
                                [] client.pc = "fileOk"   -> client.size + 1
        BY <1>4, <2>1, <3>1
      <4> QED
        BY <1>4, <1>13, <4>1
    <3>3. ASSUME NEW i \in 1..(n - 1), k + i <= client.size
          PROVE  Taken(c)[i] = Data(local[Next1].data[k + i])
      <4>1. PICK a \in Nat : a = server[c].at
        BY <1>2
      <4>2. k = a + 1
        BY <1>3, <4>1
      <4>3. i \in Nat /\ i + 1 \in 1..n /\ a + (i + 1) = k + i
        BY <4>2
      <4>4. \A l \in 1..n : a + l <= client.size =>
              channel[c].up[l] = Data(local[Next1].data[a + l])
        BY <1>4, <2>1, <3>1, <4>1
      <4>5. PICK l \in 1..n : l = i + 1
        BY <4>3
      <4>6. a + l = k + i
        BY <4>3, <4>5
      <4>7. channel[c].up[l] = Data(local[Next1].data[k + i])
        BY <3>3, <4>4, <4>6
      <4> QED
        BY <1>4, <4>5, <4>7
    <3>4. Len(d) = k /\ d[k] = v /\ \A j \in 1..server[c].at : d[j] = data[j]
      <4>1. Len(data) = server[c].at
        BY <1>6, <2>1, <2>2, <3>1
      <4>2. k = Len(data) + 1
        BY <1>3, <4>1
      <4> QED
        BY <1>7, <4>1, <4>2
    <3>5. v = local[Next1].data[k]
      <4>1. k <= client.size /\ 1 \in 1..n
        BY <1>13, <2>1, <2>2
      <4>2. channel[c].up[1] = Data(local[Next1].data[k])
        BY <1>3, <1>4, <2>1, <3>1, <4>1
      <4>3. Next1 \in Files /\ client.size = Len(local[Next1].data)
        BY <1>2, <2>1, <2>2 DEF IInv, Uploading, Paired
      <4>4. local[Next1].data \in Seq(Values)
        BY <1>1, <4>3 DEF Shape, Disks
      <4>5. local[Next1].data[k] \in Values
        <5>1. k \in 1..Len(local[Next1].data)
          BY <1>2, <1>3, <4>1, <4>3
        <5> QED
          BY <4>4, <5>1
      <4> QED
        BY <1>5, <4>2, <4>5
    <3>6. \A j \in 1..k : d[j] = local[Next1].data[j]
      <4>1. \A j \in 1..k : j = k \/ j \in 1..server[c].at
        BY <1>2, <1>3
      <4>2. \A j \in 1..server[c].at : d[j] = local[Next1].data[j]
        BY <1>6, <2>1, <2>2, <3>1, <3>4
      <4> QED
        BY <3>4, <3>5, <4>1, <4>2
    <3>7. remote'[Next1].there /\ remote'[Next1].data = d
      BY <1>11, <2>1, <2>2
    <3>8. /\ Thread'.at + Len(Line'.up) = CASE client'.pc = "headerOk" -> 0
                                             [] client'.pc = "chunks"   -> client'.at
                                             [] client'.pc = "fileOk"   -> client'.size + 1
          /\ client' = client /\ local' = local
      BY <1>1, <2>1, <3>2
    <3>9. \A i \in DOMAIN Line'.up : Thread'.at + i <= client'.size =>
            Line'.up[i] = Data(local'[Next1'].data[Thread'.at + i])
      BY <1>4, <2>1, <3>3, <3>8
    <3>10. Len(d) = Thread'.at
      BY <2>1, <3>4
    <3>11. \A j \in 1..Thread'.at : remote'[Next1'].data[j] = local'[Next1'].data[j]
      BY <2>1, <3>6, <3>7, <3>8
    <3> QED
      BY <2>1, <3>7, <3>8, <3>9, <3>10, <3>11 DEF HalfWay
  <2>5. \A f \in done : f \in Files \ {server[c].file}
    BY <1>1, <2>1, <2>2 DEF Shape
  <2> QED
    BY <1>1, <1>11, <2>1, <2>2, <2>3, <2>4, <2>5 DEF IInv, Uploading, Downloading
<1> QED
  BY <1>1, <1>9, <1>10, <1>11, <1>12, <1>14, <1>15, ThreadKeeps

\* UploadTrailer: the thread reports the file, which is the one the client waits for.
LEMMA UploadTrailerStep == ASSUME IInv, NEW c \in Conns, UploadTrailer(c) PROVE IInv'
<1>1. /\ server[c].pc = "chunks" /\ UNCHANGED <<local, remote, readOnly, stop, client, done>>
      /\ ClientSide /\ Shape /\ remote \in Disks /\ local \in Disks
      /\ server \in [Conns -> Threads] /\ StreamOf(c)
      /\ server[c].pc \notin {"new", "ended"} /\ Arrived(c) # <<>>
      /\ server[c].at = server[c].size /\ TakeAndReply(c, <<Ok>>)
  BY DEF UploadTrailer, AllWritten, ClientSide, IInv, Shape, Streams
<1>2. /\ server[c].op = "upload" /\ server[c].file \in Files
      /\ server[c].at \in Nat /\ server[c].size \in Nat
      /\ server[c].at + Len(channel[c].up) <= server[c].size + 1
  BY <1>1 DEF StreamOf, Threads
<1>3. Len(channel[c].up) = 1 /\ Taken(c) = <<>>
  <2>1. PICK n \in Nat \ {0} : n = Len(channel[c].up)
    BY <1>1, Takes
  <2>2. PICK a \in Nat : a = server[c].at
    BY <1>2
  <2>3. a + n <= a + 1
    BY <1>1, <1>2, <2>1, <2>2
  <2>4. n = 1
    BY <2>3
  <2> QED
    BY <1>1, <2>1, <2>4, Takes
<1>4. PICK fs \in SUBSET Files : fs = server[c].done \cup {server[c].file}
  BY <1>1, <1>2 DEF Threads
<1>5. /\ server' \in [Conns -> Threads]
      /\ server'[c].pc = "control" /\ server'[c].op = "upload" /\ server'[c].file = server[c].file
      /\ server'[c].done = fs
      /\ \A x \in Conns \ {c} : server'[x] = server[x]
  <2>1. server' = Reporting(server, c, "control", fs)
    BY <1>4 DEF UploadTrailer, Reporting
  <2>2. "control" \in ThreadPcs
    BY DEF ThreadPcs
  <2> QED
    BY <1>1, <1>2, <2>1, <2>2, ThreadReports
<1>6. Ok \in Tokens
  BY DEF Tokens
<1>7. /\ channel' \in [Conns -> Channels]
      /\ channel'[c].up = <<>> /\ channel'[c].down = Sent(c, <<Ok>>)
      /\ channel'[c].upOpen = channel[c].upOpen
      /\ \A x \in Conns \ {c} : channel'[x] = channel[x]
  BY <1>1, <1>3, <1>6, TakesAndReplies
<1>8. StreamOf(c)'
  BY <1>2, <1>5, <1>7 DEF StreamOf
<1>9. ASSUME c = Here PROVE Uploading' /\ Downloading'
  <2>1. /\ Thread = server[c] /\ Line = channel[c] /\ Line'.up = <<>> /\ Line'.down = Sent(c, <<Ok>>)
        /\ Thread'.pc = "control" /\ Thread'.file = Thread.file /\ Thread'.done = fs
        /\ Next1' = Next1 /\ Active' = Active /\ client.op = "upload"
        /\ Len(Line.up) = 1 /\ Line.up # <<>>
    BY <1>1, <1>2, <1>3, <1>5, <1>7, <1>9
       DEF Thread, Line, Next1, Active, Here, IInv, Roles, Cast, Arrived
  <2>2. Paired /\ HalfWay
    BY <2>1 DEF IInv, Uploading
  <2>3. client.pc # "chunks"
    <3> SUFFICES ASSUME client.pc = "chunks" PROVE FALSE
      OBVIOUS
    <3>1. Thread.at + Len(Line.up) <= client.at /\ client.at <= client.size
          /\ Thread.size = client.size
      BY <1>1, <2>1, <2>2 DEF Paired
    <3>2. PICK a \in Nat, b \in Nat : a = Thread.at /\ b = client.at
      BY <1>1, <1>2, <2>1 DEF Shape, Clients
    <3>3. a + 1 <= b /\ b <= a
      BY <1>1, <2>1, <3>1, <3>2
    <3> QED
      BY <3>3
  <2>4. /\ client.pc \in {"fileOk", "idle", "over"}
        /\ client.pc = "fileOk" =>
             /\ Line.down = <<>> /\ Thread.file = Next1 /\ Thread.size = client.size
             /\ client.size = Len(local[Next1].data) /\ client.at <= client.size
    <3>1. client.pc # "connect"
      <4>1. NoThread.pc = "new"
        BY DEF NoThread
      <4> QED
        BY <1>1, <1>9, <4>1 DEF IInv, Roles, Others
    <3> QED
      BY <1>1, <2>1, <2>2, <2>3, <3>1 DEF IInv, Roles, Cast, Paired
  <2>5. ASSUME client.pc = "fileOk", client.alone, Line.upOpen PROVE remote[Next1] = local[Next1]
    <3>1. /\ remote[Next1].there /\ Len(remote[Next1].data) = Thread.at
          /\ \A j \in 1..Thread.at : remote[Next1].data[j] = local[Next1].data[j]
      BY <1>1, <2>1, <2>2, <2>5 DEF HalfWay
    <3>2. Next1 \in Files /\ local[Next1].there
      <4>1. PICK l \in Seq(Files) : l = client.left /\ l # <<>>
        BY <1>1, <2>5 DEF IInv, Roles, Cast, Shape, Clients
      <4>2. 1 \in DOMAIN l /\ Head(l) = l[1] /\ l[1] \in Files
        BY <4>1
      <4>3. local[client.left[1]].there
        BY <2>1, <4>1, <4>2 DEF IInv, Uploading
      <4> QED
        BY <4>1, <4>2, <4>3 DEF Next1
    <3>3. local[Next1].data \in Seq(Values) /\ remote[Next1].data \in Seq(Values)
      BY <1>1, <3>2 DEF Disks
    <3>4. /\ Len(remote[Next1].data) = Len(local[Next1].data)
          /\ \A j \in 1..Len(remote[Next1].data) : remote[Next1].data[j] = local[Next1].data[j]
      BY <1>1, <2>1, <2>4, <2>5, <3>1
    <3>5. remote[Next1].data = local[Next1].data
      BY <3>3, <3>4, SeqEqual
    <3>6. local[Next1] \in [there : BOOLEAN, data : Seq(Values)]
          /\ remote[Next1] \in [there : BOOLEAN, data : Seq(Values)]
      BY <1>1, <3>2 DEF Disks
    <3> QED
      BY <3>1, <3>2, <3>5, <3>6
  <2>6. Paired'
    <3>1. PICK w \in Seq(Tokens) : w = Sent(c, <<Ok>>)
      BY <1>1, <1>6, SentOne
    <3>2. client.pc = "fileOk" /\ w # <<>> => Len(w) = 1 /\ Line.upOpen
      BY <1>1, <1>6, <2>1, <2>4, <3>1, SentOne
    <3>3. client.pc = "fileOk" => Len(w) <= 1
      <4>1. w = <<>> => Len(w) = 0
        OBVIOUS
      <4>2. client.pc = "fileOk" => Len(w) = 0 \/ Len(w) = 1
        BY <3>2, <4>1
      <4>3. 0 <= 1 /\ 1 <= 1
        OBVIOUS
      <4> QED
        BY <4>2, <4>3
    <3>4. client.pc = "fileOk" => \A i \in DOMAIN w : ~(i > 1)
      BY <3>3
    <3>5. client.pc = "fileOk" /\ Answered' =>
            Next1 \in fs /\ (client.alone => remote[Next1] = local[Next1])
      BY <1>4, <2>1, <2>4, <2>5, <3>1, <3>2 DEF Answered
    <3> QED
      BY <1>1, <2>1, <2>4, <3>1, <3>3, <3>4, <3>5 DEF Paired, Active
  <2>7. HalfWay'
    BY <2>1 DEF HalfWay
  <2> QED
    BY <1>1, <1>4, <2>1, <2>6, <2>7 DEF IInv, Uploading, Downloading
<1> QED
  BY <1>1, <1>5, <1>7, <1>8, <1>9, <1>2, ThreadKeeps

-----------------------------------------------------------------------------
(* The theorems *)

\* Before the first transfer nothing is under way.
LEMMA IInvInit == Init => IInv
<1> SUFFICES ASSUME Init PROVE IInv
  OBVIOUS
<1>1. /\ client = NoTransfer /\ client.pc = "idle" /\ client.op = "none" /\ client.conn = 0
      /\ client.outcome = "none" /\ client.alone = TRUE /\ client.opened = {} /\ done = {}
      /\ Here \notin Conns
  BY TransferAssumption DEF Init, NoTransfer, Here
<1>2. client \in Clients
  <2>1. <<>> \in Seq(Files)
    BY EmptySeq
  <2> QED
    BY <1>1, <2>1 DEF Clients, NoTransfer, ClientPcs, Ops, Outcomes
<1>3. \A c \in Conns : server[c] = NoThread /\ channel[c] = Fresh
  BY DEF Init, Fresh
<1>4. NoThread \in Threads /\ NoThread.pc = "new" /\ Fresh \in Channels
  <2>1. <<>> \in Seq(Tokens)
    BY EmptySeq
  <2> QED
    BY <2>1 DEF NoThread, Threads, ThreadPcs, Ops, Fresh, Channels
<1>5. local \in Disks /\ remote \in Disks
  <2>1. \A f \in Files : Local0[f] \in Seq(Values) /\ Remote0[f] \in Seq(Values)
    BY ValuesHold
  <2>2. \A data \in Seq(Values) : File(data) \in [there : BOOLEAN, data : Seq(Values)]
    BY DEF File
  <2>3. Absent \in [there : BOOLEAN, data : Seq(Values)]
    BY EmptySeq DEF Absent
  <2> QED
    BY <2>1, <2>2, <2>3 DEF Init, Disks
<1>6. Shape
  BY <1>1, <1>2, <1>4, <1>5 DEF Shape, Init, Fresh
<1>7. Roles
  BY <1>1, <1>3, <1>4 DEF Roles, Cast, Others, Active
<1>8. Streams
  BY <1>3, <1>4 DEF Streams, StreamOf
<1> QED
  BY <1>1, <1>6, <1>7, <1>8 DEF IInv, Uploading, Downloading

\* A step that changes nothing.
LEMMA StutterStep == IInv /\ UNCHANGED vars => IInv'
<1> SUFFICES ASSUME IInv, UNCHANGED vars PROVE IInv'
  OBVIOUS
<1>1. /\ local' = local /\ remote' = remote /\ readOnly' = readOnly /\ stop' = stop
      /\ client' = client /\ done' = done /\ channel' = channel /\ server' = server
  BY DEF vars
<1>2. Shape'
  BY <1>1 DEF IInv, Shape
<1>3. Roles'
  BY <1>1 DEF IInv, Roles, Cast, Others, Active, Thread, Here
<1>4. Streams'
  BY <1>1 DEF IInv, Streams, StreamOf
<1>5. Uploading'
  BY <1>1 DEF IInv, Uploading, Paired, HalfWay, Answered, Active, Thread, Line, Here, Next1
<1>6. Downloading'
  <2>1. Downloading
    BY DEF IInv
  <2>2. /\ Thread' = Thread /\ Line' = Line /\ Next1' = Next1
    BY <1>1 DEF Thread, Line, Here, Next1
  <2>3. Acks' = Acks
    BY <1>1, <2>2 DEF Acks, Taken1
  <2>4. Trailers' = Trailers /\ Unbroken' = Unbroken
    BY <1>1, <2>2 DEF Trailers, Unbroken, Prefix, DataUpTo
  <2>5. Received' = Received
    BY <1>1, <2>2, <2>4 DEF Received
  <2> QED
    BY <1>1, <2>1, <2>2, <2>3, <2>5 DEF Downloading
<1> QED
  BY <1>2, <1>3, <1>4, <1>5, <1>6 DEF IInv

\* A step of the client.
LEMMA ClientStepKeeps == IInv /\ ClientStep => IInv'
<1> SUFFICES ASSUME IInv, ClientStep PROVE IInv'
  OBVIOUS
<1>1. CASE Breaks \/ AllFilesDone \/ Cancelled
  BY <1>1, EndSteps
<1>2. CASE Connect \/ Ready \/ NextFile
  BY <1>2, ConnectStep, ReadyStep, NextFileStep
<1>3. CASE HeaderOk \/ SendChunk \/ FileOk
  BY <1>3, HeaderOkStep, SendChunkStep, FileOkStep
<1>4. CASE Header \/ ReceiveChunk \/ CancelDownload \/ Trailer
  BY <1>4, HeaderStep, ReceiveChunkStep, CancelDownloadStep, TrailerStep
<1>5. CASE Finished
  BY <1>5, FinishedStep
<1> QED
  BY <1>1, <1>2, <1>3, <1>4, <1>5 DEF ClientStep

\* A step of the thread of a connection.
LEMMA ThreadStepKeeps == ASSUME IInv, NEW c \in Conns, ThreadStep(c) PROVE IInv'
<1>1. CASE Command(c)
  <2>1. CASE Refused(c)
    BY <1>1, <2>1, ThreadEndSteps
  <2>2. CASE ~Refused(c)
    BY <1>1, <2>2, CommandStep
  <2> QED
    BY <2>1, <2>2
<1>2. CASE Control(c)
  BY <1>2, ThreadEndSteps, ControlStep
<1>3. CASE SendFile(c)
  BY <1>3, ThreadEndSteps, SendFileStep
<1>4. CASE NoMoreFiles(c)
  BY <1>4, ThreadEndSteps
<1> QED
  BY <1>1, <1>2, <1>3, <1>4, FileHeaderStep, WriteChunkStep, UploadTrailerStep, SendHeaderStep,
     ClientTakesHeaderStep, DownloadDoneStep DEF ThreadStep

\* The invariant is inductive.
LEMMA IInvNext == IInv /\ [Next]_vars => IInv'
<1> SUFFICES ASSUME IInv, [Next]_vars PROVE IInv'
  OBVIOUS
<1>1. CASE UNCHANGED vars
  BY <1>1, StutterStep
<1>2. CASE ClientStep
  BY <1>2, ClientStepKeeps
<1>3. CASE ConnectFails \/ TimesOut \/ LocalFails
  BY <1>3, EndSteps
<1>4. CASE Cancel \/ StopServer
  BY <1>4, CancelStep
<1>5. CASE \E f \in Files : Edit(f)
  BY <1>5, EditStep
<1>6. CASE \E c \in Conns : ThreadStep(c)
  BY <1>6, ThreadStepKeeps
<1>7. CASE \E c \in Conns : ThreadFails(c)
  BY <1>7, ThreadEndSteps
<1>8. CASE \E c \in Conns : ConnectionLost(c)
  BY <1>8, LostStep
<1>9. CASE \E c \in Conns : \E op \in {"upload", "download"}, list \in Lists[c] : Start(c, op, list)
  BY <1>9, StartStep
<1> QED
  BY <1>1, <1>2, <1>3, <1>4, <1>5, <1>6, <1>7, <1>8, <1>9 DEF Next

\* The two ends of a copy, and the two streams between them, agree in every state
\* (scp_client_service.py and scp_server_service.py together).
THEOREM Invariance == Spec => []IInv
<1>1. Init => IInv
  BY IInvInit
<1>2. IInv /\ [Next]_vars => IInv'
  BY IInvNext
<1> QED
  BY <1>1, <1>2, PTL DEF Spec

\* The place of the client is in its file, or at its end.
InFile == client.at <= client.size

\* The place only moves while the file has not ended, and a new file starts at its beginning.
LEMMA InFileStep == IInv /\ InFile /\ IInv' /\ [Next]_vars => InFile'
<1> SUFFICES ASSUME IInv, InFile, IInv', [Next]_vars PROVE InFile'
  OBVIOUS
<1>1. /\ client \in Clients /\ client' \in Clients
      /\ client.at \in Nat /\ client.size \in Nat /\ client'.at \in Nat /\ client'.size \in Nat
  BY DEF IInv, Shape, Clients
<1>2. ASSUME NEW o, Ends(o) PROVE InFile'
  <2>1. client'.at = 0 /\ client'.size = 0
    BY <1>2 DEF Ends, NoTransfer
  <2> QED
    BY <2>1 DEF InFile
<1>3. ASSUME NEW p, To(p) PROVE InFile'
  <2>1. client'.at = client.at /\ client'.size = client.size
    BY <1>1, <1>3 DEF To, Clients
  <2> QED
    BY <2>1 DEF InFile
<1>4. ASSUME UNCHANGED client PROVE InFile'
  BY <1>4 DEF InFile
<1>5. ASSUME FileDone PROVE InFile'
  <2>1. client'.at = client.at /\ client'.size = client.size
    BY <1>1, <1>5 DEF FileDone, Clients
  <2> QED
    BY <2>1 DEF InFile
<1>6. ASSUME client'.at = 0 PROVE InFile'
  BY <1>1, <1>6 DEF InFile
<1>7. ASSUME client' = [client EXCEPT !.at = @ + 1], client.at # client.size PROVE InFile'
  <2>1. client'.at = client.at + 1 /\ client'.size = client.size
    BY <1>1, <1>7 DEF Clients
  <2> QED
    BY <1>1, <1>7, <2>1 DEF InFile
<1>8. CASE Connect
  BY <1>2, <1>3, <1>8 DEF Connect
<1>9. CASE NextFile
  <2>1. CASE client.op = "upload"
    <3>1. client'.at = 0
      BY <1>1, <1>9, <2>1 DEF NextFile, Clients
    <3> QED
      BY <1>6, <3>1
  <2> QED
    BY <1>3, <1>9, <2>1 DEF NextFile
<1>10. CASE SendChunk
  <2>1. CASE client.at < client.size
    BY <1>1, <1>7, <1>10, <2>1 DEF SendChunk
  <2> QED
    BY <1>3, <1>10, <2>1 DEF SendChunk
<1>11. CASE Header
  <2>1. client'.at = 0
    BY <1>1, <1>11 DEF Header, Clients
  <2> QED
    BY <1>6, <2>1
<1>12. CASE ReceiveChunk
  BY <1>7, <1>12 DEF ReceiveChunk, AllReceived
<1>13. CASE Breaks \/ AllFilesDone \/ Cancelled \/ CancelDownload \/ ConnectFails \/ TimesOut \/ LocalFails
  BY <1>2, <1>13 DEF Breaks, AllFilesDone, Cancelled, CancelDownload, ConnectFails, TimesOut, LocalFails
<1>14. CASE Ready \/ HeaderOk \/ FileOk \/ Trailer
  BY <1>3, <1>5, <1>14 DEF Ready, HeaderOk, FileOk, Trailer
<1>15. CASE Finished
  <2>1. To("idle")
    BY <1>15 DEF Finished, To
  <2> QED
    BY <1>3, <2>1
<1>16. CASE Cancel
  <2>1. client'.at = client.at /\ client'.size = client.size
    BY <1>1, <1>16 DEF Cancel, Clients
  <2> QED
    BY <2>1 DEF InFile
<1>17. ASSUME NEW c \in Conns, NEW op, NEW list, Start(c, op, list) PROVE InFile'
  <2>1. client'.at = 0
    BY <1>17 DEF Start, NoTransfer
  <2> QED
    BY <1>6, <2>1
<1>18. ASSUME NEW c \in Conns, ThreadStep(c) \/ ThreadFails(c) \/ ConnectionLost(c) PROVE InFile'
  <2>1. UNCHANGED client
    BY <1>18 DEF ThreadStep, ThreadFails, ConnectionLost, ClientSide, Command, Control, NoMoreFiles,
         FileHeader, WriteChunk, UploadTrailer, SendHeader, ClientTakesHeader, SendFile, DownloadDone
  <2> QED
    BY <1>4, <2>1
<1>19. CASE StopServer \/ (\E f \in Files : Edit(f)) \/ UNCHANGED vars
  BY <1>4, <1>19 DEF StopServer, Edit, vars
<1> QED
  BY <1>8, <1>9, <1>10, <1>11, <1>12, <1>13, <1>14, <1>15, <1>16, <1>17, <1>18, <1>19 DEF Next, ClientStep

\* The variables keep their types: what is on a disk is chunks of files, holes and what an
\* error was taken for.
THEOREM TypeCorrect == Spec => []TypeOK
<1>1. Init => IInv /\ InFile
  BY IInvInit DEF Init, NoTransfer, InFile
<1>2. IInv /\ InFile /\ [Next]_vars => (IInv /\ InFile)'
  BY IInvNext, InFileStep
<1>3. IInv /\ InFile => TypeOK
  <2> SUFFICES ASSUME Shape, InFile PROVE TypeOK
    BY DEF IInv
  <2>1. client \in Clients /\ server \in [Conns -> Threads] /\ local \in Disks /\ remote \in Disks
    BY DEF Shape
  <2>2. \A disk \in {local, remote} : \A f \in Files :
          disk[f].there \in BOOLEAN /\ disk[f].data \in Seq(Values)
    BY <2>1 DEF Disks
  <2>3. client.at \in 0..client.size
    BY <2>1 DEF Clients, InFile
  <2>4. client.opened \cup done \subseteq Files
    BY <2>1 DEF Clients, Shape
  <2>5. \A c \in Conns : server[c].at \in Nat /\ server[c].done \subseteq Files
    BY <2>1 DEF Threads
  <2> QED
    BY <2>2, <2>3, <2>4, <2>5 DEF TypeOK
<1> QED
  BY <1>1, <1>2, <1>3, PTL DEF Spec

\* A download that is reported as complete is the file of the server, whatever was lost,
\* stopped or cancelled, and the server reports no file as sent that the client does not
\* have (download_files, _send_file of the server).
THEOREM DownloadIsWhole == Spec => []DownloadsComplete
<1>1. IInv => DownloadsComplete
  BY DEF IInv, Downloading, DownloadsComplete, Thread
<1> QED
  BY <1>1, Invariance, PTL

\* An upload that is reported as complete is on the disk of the server, which has reported
\* it too (upload_files, _handle_upload_request).
THEOREM UploadIsWhole == Spec => []UploadsComplete
<1>1. IInv => UploadsComplete
  BY DEF IInv, Uploading, UploadsComplete, Thread
<1> QED
  BY <1>1, Invariance, PTL

\* A cancelled download leaves no part of a file (_receive_file unlinks it).
THEOREM NoPartIsLeft == Spec => []CancelLeavesNoPart
<1>1. IInv => CancelLeavesNoPart
  BY DEF IInv, Roles, Cast, Active, Downloading, CancelLeavesNoPart
<1> QED
  BY <1>1, Invariance, PTL

=============================================================================
