------------------------------ MODULE ScpTransfer ------------------------------
(***************************************************************************)
(* A copy between the SCP client and the temporary SCP server: the client  *)
(* half of the panel (app/ui/tabs/diagnostics/scp.py), ScpClientService    *)
(* (app/services/scp_client_service.py) and the thread that serves one     *)
(* connection in ScpServerService (app/services/scp_server_service.py).    *)
(*                                                                         *)
(* The two ends share two streams.  Replies and data are bytes of the same *)
(* stream: a reply "\x00" and an error "\x02text\n" are told from file     *)
(* data by their place alone.  A token stands for a reply, for a header    *)
(* line, for the first byte of an error, for the rest of it, or for a      *)
(* chunk of a file.                                                        *)
(*                                                                         *)
(* The panel runs one transfer at a time.  The thread of a cancelled one   *)
(* goes on with what it has received while the next transfer runs.         *)
(***************************************************************************)
EXTENDS Naturals, Sequences

CONSTANTS
  Conns,      \* the connections, one for each transfer (bound): 1..n
  Files,      \* base names, the same on both sides
  Lists,      \* what each transfer may be asked to copy: sequences of files
  Local0,     \* the files of the local folder: a sequence of chunks each
  Edited,     \* what the user may put in their place between two transfers
  Remote0,    \* the files below the root of the server
  Shared      \* the names that exist below the root

ASSUME TransferAssumption ==
  /\ Conns \subseteq Nat \ {0}
  /\ Local0 \in [Files -> Seq(Nat)] /\ Edited \in [Files -> Seq(Nat)] /\ Remote0 \in [Files -> Seq(Nat)]
  /\ Shared \subseteq Files /\ Lists \in [Conns -> SUBSET (Seq(Files) \ {<<>>})]

VARIABLES
  local,      \* the local folder
  remote,     \* the folder the server shares
  readOnly,   \* runtime.read_only
  stop,       \* the cancel event of the server
  client,     \* the transfer of the panel
  done,       \* files the transfer has reported as "완료"
  channel,    \* the SSH channel of each connection
  server      \* the thread of each connection

vars == <<local, remote, readOnly, stop, client, done, channel, server>>

Absent      == [there |-> FALSE, data |-> <<>>]
File(data)  == [there |-> TRUE, data |-> data]
Size(file)  == Len(file.data)
Hole        == 0   \* what reads as zeros: a place no one wrote
Garbage     == 1   \* error bytes that were taken for file data

Ok       == <<"ok", 0>>
Error    == << <<"bad", 0>>, <<"text", 0>> >>
Data(v)  == <<"data", v>>
AsData(token) == IF token[1] = "data" THEN token[2] ELSE Garbage

\* handle.write at the offset of this handle
Write(data, at, v) ==
  [j \in 1..(IF at > Len(data) THEN at ELSE Len(data)) |->
     IF j = at THEN v ELSE IF j <= Len(data) THEN data[j] ELSE Hole]

-----------------------------------------------------------------------------
NoTransfer == [pc |-> "idle", op |-> "none", conn |-> 0, left |-> <<>>, at |-> 0, size |-> 0,
               cancel |-> FALSE, outcome |-> "none", opened |-> {}, alone |-> TRUE]
NoThread   == [pc |-> "new", op |-> "none", file |-> "none", at |-> 0, size |-> 0, done |-> {}]

Init ==
  /\ local = [f \in Files |-> File(Local0[f])]
  /\ remote = [f \in Files |-> IF f \in Shared THEN File(Remote0[f]) ELSE Absent]
  /\ readOnly \in BOOLEAN
  /\ stop = FALSE
  /\ client = NoTransfer /\ done = {}
  /\ channel = [c \in Conns |-> [up |-> <<>>, down |-> <<>>, upOpen |-> TRUE, downOpen |-> TRUE]]
  /\ server = [c \in Conns |-> NoThread]

Here == client.conn

-----------------------------------------------------------------------------
(* The panel *)

\* _upload_scp_files, _download_scp_files: the buttons are disabled while busy.  The file
\* dialog returns files that exist, each once; the lines of a download are typed in.
Start(c, op, list) ==
  /\ client.pc = "idle"
  /\ server[c].pc = "new" /\ c > Here
  /\ op = "upload" => \A i, j \in DOMAIN list :
                         local[list[i]].there /\ (list[i] = list[j] => i = j)
  /\ client' = [NoTransfer EXCEPT !.pc = "connect", !.op = op, !.conn = c, !.left = list,
                                  !.alone = \A d \in Conns : server[d].pc \in {"new", "ended"}]
  /\ done' = {}
  /\ UNCHANGED <<local, remote, readOnly, stop, channel, server>>

\* _cancel_scp_client_job
Cancel ==
  /\ client.pc \notin {"idle", "over"} /\ ~client.cancel
  /\ client' = [client EXCEPT !.cancel = TRUE]
  /\ UNCHANGED <<local, remote, readOnly, stop, done, channel, server>>

\* _finish_scp_client_job or the error box, then on_finished: _set_scp_client_busy(False)
Finished ==
  /\ client.pc = "over"
  /\ client' = [client EXCEPT !.pc = "idle"]
  /\ UNCHANGED <<local, remote, readOnly, stop, done, channel, server>>

\* The user changes a local file between two transfers
Edit(f) ==
  /\ client.pc = "idle" /\ local[f] # File(Edited[f]) /\ client.op # "none"
  /\ local' = [local EXCEPT ![f] = File(Edited[f])]
  /\ UNCHANGED <<remote, readOnly, stop, client, done, channel, server>>

\* _stop_scp_server
StopServer ==
  /\ ~stop /\ stop' = TRUE
  /\ UNCHANGED <<local, remote, readOnly, client, done, channel, server>>

-----------------------------------------------------------------------------
(* The client: upload_files, download_files *)

To(pc)     == client' = [client EXCEPT !.pc = pc]
Send(t)    == channel' = [channel EXCEPT ![Here].up = Append(@, t)]
Incoming   == channel[Here].down
Receive    == Incoming # <<>> /\ channel' = [channel EXCEPT ![Here].down = Tail(@)]

\* finally: client.close()
Ends(outcome) ==
  /\ client' = [NoTransfer EXCEPT !.pc = "over", !.op = client.op, !.conn = Here, !.outcome = outcome,
                                  !.opened = client.opened, !.alone = client.alone]
  /\ channel' = [channel EXCEPT ![Here].upOpen = FALSE, ![Here].down = <<>>]

ServerSide == UNCHANGED <<remote, readOnly, stop, server>>
Disk       == UNCHANGED <<local, done>>

\* client.connect, open_session and exec_command; a download looks at its event before
\* the session, and a thread without one ends
Connect ==
  /\ client.pc = "connect" /\ ~stop
  /\ IF client.op = "upload" THEN To("ready") /\ UNCHANGED channel
     ELSE IF client.cancel THEN Ends("cancelled")
     ELSE To("header") /\ Send(Ok)
  /\ server' = [server EXCEPT ![Here] =
                  IF client.op = "download" /\ client.cancel THEN [NoThread EXCEPT !.pc = "ended"]
                  ELSE [NoThread EXCEPT !.pc = "command", !.op = client.op, !.file = Head(client.left)]]
  /\ UNCHANGED <<remote, readOnly, stop>> /\ Disk

\* No server there, or it does not accept the user
ConnectFails ==
  /\ client.pc = "connect"
  /\ Ends("error")
  /\ ServerSide /\ Disk

\* mutant: any reply is taken for a success
AnyReply(t) == TRUE

\* _expect_ok
IsOk(t) == t = Ok

\* while transferred < size
AllReceived == client.pc = "data" /\ client.at = client.size

Receiving == client.pc \in {"ready", "headerOk", "fileOk", "header", "data", "unserved"}

\* mutant: the channel has no timeout
NoTimeout == FALSE

\* channel.settimeout(validated_timeout)
Timeout == TRUE

TimesOut ==
  /\ Timeout
  /\ Receiving /\ Incoming = <<>> /\ channel[Here].downOpen
  /\ Ends("error")
  /\ ServerSide /\ Disk

\* A receive or a send finds the channel closed; an error or a wrong byte is read
Breaks ==
  /\ \/ Receiving /\ Incoming = <<>> /\ ~channel[Here].downOpen
     \/ /\ client.pc \in {"ready", "headerOk", "fileOk"} \/ AllReceived
        /\ Incoming # <<>> /\ ~IsOk(Head(Incoming))
     \/ client.pc = "header" /\ Incoming # <<>> /\ Head(Incoming)[1] # "C"
     \/ client.pc \in {"next", "chunks"} /\ ~channel[Here].downOpen
  /\ Ends("error")
  /\ ServerSide /\ Disk

\* The local file cannot be opened, read or written
LocalFails ==
  /\ client.pc \in {"header", "chunks", "data"}
  /\ Ends("error")
  /\ ServerSide /\ Disk

\* upload_files: _expect_ok after the command
Ready ==
  /\ client.pc = "ready" /\ Receive /\ IsOk(Head(Incoming))
  /\ To("next")
  /\ ServerSide /\ Disk

\* The top of both loops over the files
NextFile ==
  /\ client.pc = "next" /\ client.left # <<>> /\ ~client.cancel
  /\ LET f == Head(client.left)
     IN IF client.op = "upload"
        THEN /\ client' = [client EXCEPT !.pc = "headerOk", !.size = Size(local[f]), !.at = 0]
             /\ Send(<<"C", [file |-> f, size |-> Size(local[f])]>>)
        ELSE To("unserved") /\ UNCHANGED channel  \* open_session once more
  /\ ServerSide /\ Disk

AllFilesDone ==
  /\ client.pc = "next" /\ client.left = <<>>
  /\ Ends("done")
  /\ ServerSide /\ Disk

Cancelled ==
  /\ client.cancel
  /\ client.pc = "chunks" \/ (client.pc = "next" /\ client.left # <<>>)
  /\ Ends("cancelled")
  /\ ServerSide /\ Disk

\* _send_file
HeaderOk ==
  /\ client.pc = "headerOk" /\ Receive /\ IsOk(Head(Incoming))
  /\ To("chunks")
  /\ ServerSide /\ Disk

SendChunk ==
  /\ client.pc = "chunks" /\ ~client.cancel
  /\ IF client.at < client.size
     THEN /\ Send(Data(local[Head(client.left)].data[client.at + 1]))
          /\ client' = [client EXCEPT !.at = @ + 1]
     ELSE Send(Ok) /\ To("fileOk")
  /\ ServerSide /\ Disk

FileDone ==
  /\ done' = done \cup {Head(client.left)}
  /\ client' = [client EXCEPT !.pc = "next", !.left = Tail(@)]

FileOk ==
  /\ client.pc = "fileOk" /\ Receive /\ IsOk(Head(Incoming))
  /\ FileDone
  /\ ServerSide /\ UNCHANGED local

\* _receive_file: the header opens the local file, which empties it
Header ==
  /\ client.pc = "header" /\ Incoming # <<>> /\ Head(Incoming)[1] = "C"
  /\ channel' = [channel EXCEPT ![Here].down = Tail(@), ![Here].up = Append(@, Ok)]
  /\ local' = [local EXCEPT ![Head(client.left)] = File(<<>>)]
  /\ client' = [client EXCEPT !.pc = "data", !.at = 0, !.size = Head(Incoming)[2].size,
                              !.opened = @ \cup {Head(client.left)}]
  /\ ServerSide /\ UNCHANGED done

ReceiveChunk ==
  /\ client.pc = "data" /\ ~AllReceived /\ ~client.cancel
  /\ Receive
  /\ local' = [local EXCEPT ![Head(client.left)] = File(Append(@.data, AsData(Head(Incoming))))]
  /\ client' = [client EXCEPT !.at = @ + 1]
  /\ ServerSide /\ UNCHANGED done

\* mutant: the part that has arrived stays
Kept(file) == file

\* local_path.unlink(missing_ok=True)
Unlinked(file) == Absent

CancelDownload ==
  /\ client.pc = "data" /\ ~AllReceived /\ client.cancel
  /\ local' = [local EXCEPT ![Head(client.left)] = Unlinked(@)]
  /\ Ends("cancelled")
  /\ ServerSide /\ UNCHANGED done

Trailer ==
  /\ AllReceived /\ Incoming # <<>> /\ IsOk(Head(Incoming))
  /\ channel' = [channel EXCEPT ![Here].down = Tail(@), ![Here].up = Append(@, Ok)]
  /\ FileDone
  /\ ServerSide /\ UNCHANGED local

-----------------------------------------------------------------------------
(* The thread of a connection: handle_client, _handle_command *)

ThreadTo(c, pc) == server' = [server EXCEPT ![c].pc = pc]
Arrived(c)      == channel[c].up
Taken(c)        == Tail(channel[c].up)

\* sendall: with the client gone nobody reads it
Sent(c, tokens) == IF channel[c].upOpen THEN channel[c].down \o tokens ELSE <<>>
Reply(c, tokens) == channel' = [channel EXCEPT ![c].down = Sent(c, tokens)]
TakeAndReply(c, tokens) == channel' = [channel EXCEPT ![c].up = Taken(c), ![c].down = Sent(c, tokens)]

\* the end of handle_client: transport.close()
ThreadEnds(c, tokens) ==
  /\ server' = [server EXCEPT ![c] = [NoThread EXCEPT !.pc = "ended", !.done = server[c].done]]
  /\ channel' = [channel EXCEPT ![c].up = <<>>, ![c].down = Sent(c, tokens), ![c].downOpen = FALSE]

ClientSide == UNCHANGED <<local, readOnly, stop, client, done>>

Writable(c) == ~readOnly /\ server[c].op = "upload"
Refused(c)  == IF server[c].op = "upload" THEN readOnly ELSE ~remote[server[c].file].there

\* _handle_upload_request, _handle_download_request up to the first reply
Command(c) ==
  /\ server[c].pc = "command"
  /\ \/ Refused(c) /\ ThreadEnds(c, Error)
     \/ Writable(c) /\ Reply(c, <<Ok>>) /\ ThreadTo(c, "control")
     \/ ~Refused(c) /\ server[c].op = "download" /\ ThreadTo(c, "sessionOk") /\ UNCHANGED channel
  /\ UNCHANGED remote /\ ClientSide

\* Anything that raises: a path out of the root, mkdir, the disk, the end of the stream
\* where bytes are due, a reply to a client that is gone
ThreadFails(c) ==
  /\ \/ server[c].pc \in {"command", "chunks", "send"}
     \/ server[c].pc \in {"sessionOk", "headerOk", "finalOk"} /\ Arrived(c) = <<>> /\ ~channel[c].upOpen
  /\ ThreadEnds(c, <<>>)
  /\ UNCHANGED remote /\ ClientSide

\* The top of the upload loop looks at the event, then waits for a header
Control(c) ==
  /\ server[c].pc = "control"
  /\ IF stop THEN ThreadEnds(c, Error) ELSE ThreadTo(c, "readControl") /\ UNCHANGED channel
  /\ UNCHANGED remote /\ ClientSide

\* control == "": the client is done
NoMoreFiles(c) ==
  /\ server[c].pc = "readControl" /\ Arrived(c) = <<>> /\ ~channel[c].upOpen
  /\ ThreadEnds(c, <<>>)
  /\ UNCHANGED remote /\ ClientSide

\* mutant: opened without emptying it ("r+b")
Overwritten(file) == IF file.there THEN file ELSE File(<<>>)

\* local_path.open("wb")
Emptied(file) == File(<<>>)

\* control == "C": the file is opened, which empties it
FileHeader(c) ==
  /\ server[c].pc = "readControl" /\ Arrived(c) # <<>>
  /\ LET header == Head(Arrived(c))[2]
     IN /\ server' = [server EXCEPT ![c].pc = "chunks", ![c].file = header.file, ![c].size = header.size, ![c].at = 0]
        /\ remote' = [remote EXCEPT ![header.file] = Emptied(@)]
  /\ TakeAndReply(c, <<Ok>>)
  /\ ClientSide

\* while transferred < size
AllWritten(c) == server[c].at = server[c].size

WriteChunk(c) ==
  /\ server[c].pc = "chunks" /\ ~AllWritten(c) /\ Arrived(c) # <<>>
  /\ remote' = [remote EXCEPT ![server[c].file] =
                   File(Write(@.data, server[c].at + 1, AsData(Head(Arrived(c)))))]
  /\ server' = [server EXCEPT ![c].at = @ + 1]
  /\ channel' = [channel EXCEPT ![c].up = Taken(c)]
  /\ ClientSide

\* The byte behind the file.  The end of the stream is accepted in its place, but then
\* the client is gone and the reply raises: ThreadFails
UploadTrailer(c) ==
  /\ server[c].pc = "chunks" /\ AllWritten(c) /\ Arrived(c) # <<>> /\ IsOk(Head(Arrived(c)))
  /\ TakeAndReply(c, <<Ok>>)
  /\ server' = [server EXCEPT ![c].pc = "control", ![c].done = @ \cup {server[c].file}]
  /\ UNCHANGED remote /\ ClientSide

\* _expect_client_ack twice, the header between
SendHeader(c) ==
  /\ server[c].pc = "sessionOk" /\ Arrived(c) # <<>>
  /\ LET f == server[c].file
     IN /\ TakeAndReply(c, <<<<"C", [file |-> f, size |-> Size(remote[f])]>>>>)
        /\ server' = [server EXCEPT ![c].pc = "headerOk", ![c].size = Size(remote[f])]
  /\ UNCHANGED remote /\ ClientSide

ClientTakesHeader(c) ==
  /\ server[c].pc = "headerOk" /\ Arrived(c) # <<>>
  /\ channel' = [channel EXCEPT ![c].up = Taken(c)]
  /\ ThreadTo(c, "send")
  /\ UNCHANGED remote /\ ClientSide

\* The loop over the chunks, until the file ends; then the trailing byte
SendFile(c) ==
  /\ server[c].pc = "send"
  /\ LET data == remote[server[c].file].data
     IN IF stop THEN ThreadEnds(c, Error)  \* in the place of file data
        ELSE IF server[c].at < Len(data)
        THEN /\ Reply(c, <<Data(data[server[c].at + 1])>>)
             /\ server' = [server EXCEPT ![c].at = @ + 1]
        ELSE Reply(c, <<Ok>>) /\ ThreadTo(c, "finalOk")
  /\ UNCHANGED remote /\ ClientSide

DownloadDone(c) ==
  /\ server[c].pc = "finalOk" /\ Arrived(c) # <<>>
  /\ server' = [server EXCEPT ![c] = [NoThread EXCEPT !.pc = "ended", !.done = {server[c].file}]]
  /\ channel' = [channel EXCEPT ![c].up = <<>>, ![c].downOpen = FALSE]
  /\ UNCHANGED remote /\ ClientSide

\* The connection is lost: what was under way in either direction arrives or does not
ConnectionLost(c) ==
  /\ server[c].pc \notin {"new", "ended"} /\ channel[c].upOpen /\ channel[c].downOpen
  /\ \E up \in {<<>>, channel[c].up}, down \in {<<>>, channel[c].down} :
       channel' = [channel EXCEPT ![c] = [up |-> up, down |-> down, upOpen |-> FALSE, downOpen |-> FALSE]]
  /\ UNCHANGED <<local, remote, readOnly, stop, client, done, server>>

-----------------------------------------------------------------------------
ClientStep ==
  \/ Connect \/ Breaks \/ Ready \/ NextFile \/ AllFilesDone \/ Cancelled \/ HeaderOk \/ SendChunk \/ FileOk
  \/ Header \/ ReceiveChunk \/ CancelDownload \/ Trailer \/ Finished

ThreadStep(c) ==
  \/ Command(c) \/ Control(c) \/ NoMoreFiles(c) \/ FileHeader(c) \/ WriteChunk(c)
  \/ UploadTrailer(c) \/ SendHeader(c) \/ ClientTakesHeader(c) \/ SendFile(c) \/ DownloadDone(c)

Next ==
  \/ ClientStep \/ ConnectFails \/ TimesOut \/ LocalFails \/ Cancel \/ StopServer
  \/ \E f \in Files : Edit(f)
  \/ \E c \in Conns : \/ ThreadStep(c) \/ ThreadFails(c) \/ ConnectionLost(c)
                      \/ \E op \in {"upload", "download"}, list \in Lists[c] : Start(c, op, list)

Spec == Init /\ [][Next]_vars

\* Both ends run and time passes.  Nothing needs to fail, nobody needs to cancel.
Fairness ==
  /\ WF_vars(ClientStep) /\ WF_vars(ConnectFails) /\ WF_vars(TimesOut)
  /\ \A c \in Conns : WF_vars(ThreadStep(c)) /\ WF_vars(Arrived(c) = <<>> /\ ThreadFails(c))

FairSpec == Spec /\ Fairness

-----------------------------------------------------------------------------
Values == {Hole, Garbage} \cup UNION {{s[f][i] : i \in DOMAIN s[f]} : s \in {Local0, Edited, Remote0}, f \in Files}

TypeOK ==
  /\ \A disk \in {local, remote} : \A f \in Files :
       disk[f].there \in BOOLEAN /\ disk[f].data \in Seq(Values)
  /\ client.at \in 0..client.size /\ client.opened \cup done \subseteq Files
  /\ \A c \in Conns : server[c].at \in Nat /\ server[c].done \subseteq Files

\* A download that the client reports as complete is the file of the server, byte for
\* byte: neither a stopped server, whose error text is read as file data, nor a lost
\* connection passes for the end of a file.  And the server reports a file as sent only
\* if the client has it.  (A thread of an earlier upload may still be writing the file:
\* then there is no one content to compare with.)
DownloadsComplete ==
  client.op = "download" /\ client.pc # "idle" =>
    /\ client.alone => \A f \in done : local[f] = remote[f]
    /\ server[Here].done \subseteq done

\* An upload that the client reports as complete is on the disk of the server, and the
\* server has reported it too.
UploadsComplete ==
  client.op = "upload" /\ client.pc # "idle" =>
    /\ client.alone => \A f \in done : remote[f] = local[f]
    /\ done \subseteq server[Here].done

\* A cancelled download leaves no part of a file.
CancelLeavesNoPart ==
  client.outcome = "cancelled" /\ client.op = "download" =>
    \A f \in client.opened : f \in done \/ client.pc = "idle" \/ ~local[f].there

\* Neither end waits for ever for the other, whatever is refused, stopped, lost or changed
\* on the disk in between: the panel gets its buttons back, and the thread of the server,
\* whose receives have no timeout, ends.  (Without the timeout of the client both can wait:
\* a thread of an earlier upload shortens the file whose size was sent.)
NoEndHangs ==
  /\ client.pc # "idle" ~> client.pc = "idle"
  /\ \A c \in Conns : server[c].pc = "command" ~> server[c].pc = "ended"

=============================================================================
