---------------------------- MODULE UpdateSession ----------------------------
(***************************************************************************)
(* One server process and the clients that connect to it to be updated:    *)
(* NetworkManager::UpdateServer and UpdateClient, the FileCB callbacks     *)
(* RakNet runs inside Receive(), and the detached threads in which         *)
(* FileManager reads a client's manifest and the server fills fileList.    *)
(*                                                                         *)
(*   server                               client                           *)
(*     ID_SENDFILE(set)          ----->                                    *)
(*                               <-----   FileStructure.txt, ID_SENDFILE   *)
(*     (reader: diff, fileList)                                            *)
(*     ID_CLIENTCANFILESBESENT   ----->   delete, SetupReceive             *)
(*                               <-----   ID_CLIENTFILESEND(set)           *)
(*     header, files, ID_FILESFINISHED                                     *)
(*                               ----->   CloseConnection                  *)
(*                                                                         *)
(* Every Send is RELIABLE_ORDERED on channel 0: one FIFO queue in each     *)
(* direction of a connection.                                              *)
(***************************************************************************)
EXTENDS HashFiles, Naturals, Sequences, FiniteSets

CONSTANTS Client,          \* client processes, each runs once
          Ip, IpOf,        \* the address a client connects from, port removed
          ClientExe,       \* \Client.exe
          ServerExe,       \* \Server.exe
          Hole,            \* a slot of fileList that was never written
          MaxConnections,  \* SetMaximumIncomingConnections
          ServerDisks,     \* what the server's directory may hold
          ClientDisks      \* what the clients' directories may hold

ASSUME UpdateSessionAssumption ==
    /\ IpOf \in [Client -> Ip]
    /\ ClientExe \in Path /\ ServerExe \in Path
    /\ Hole \notin Path \X Content
    /\ MaxConnections \in Nat \ {0}
    /\ ServerDisks \subseteq Disk
    /\ ClientDisks \subseteq [Client -> Disk]

VARIABLES
    client,               \* each client process, see Init
    link,                 \* the connection of each client
    toServer,             \* packets the server has yet to Receive, per client
    toClient,             \* packets each client has yet to Receive
    serverDisk,           \* the server's directory
    serverHashes,         \* externalFileArr / returnArr: hashed at start-up
    serverStructure,      \* the server's own FileStructure.txt exists
    manifests,            \* FileStructure<ip>.txt files of the server
    server,               \* where UpdateServer is
    finishedDownloading,  \* NetworkManager::finishedDownloading (server)
    nextSet,              \* FileListTransfer's next set id (server)
    serverReceiver,       \* set the server receives from each client
    reader,               \* the detached thread started for each client
    fileList,             \* slots of the server's fileList that were written
    fileCount             \* list_size of the server's fileList

queues   == <<toServer, toClient>>
hostVars == <<serverDisk, serverHashes, serverStructure>>
sets     == <<nextSet, serverReceiver>>
listVars == <<fileList, fileCount>>
vars == <<client, link, queues, hostVars, manifests, server,
          finishedDownloading, sets, reader, listVars>>

-----------------------------------------------------------------------------
(* Packets.  Set ids are unsigned shorts.                                  *)

SetId == {n \in Nat : n < 65536}
NoReceiver == 65536
FirstSet == 0              \* a FileListTransfer numbers its sets from 0
Entry == Path \X Content   \* a file read into fileList

NewConnection        == [type |-> "new"]
Disconnected         == [type |-> "disconnected"]
ConnectionLost       == [type |-> "lost"]
FileStructure(s, hs) == [type |-> "fileStructure", set |-> s, hashes |-> hs]
ClientReady          == [type |-> "sendFile"]
ClientFileSend(id)   == [type |-> "clientFileSend", sendID |-> id]
SendFile(s)          == [type |-> "sendFile", set |-> s]
CanFilesBeSent(hs)   == [type |-> "canFilesBeSent", hashes |-> hs]
Header(s, n)         == [type |-> "header", set |-> s, count |-> n]
File(s, e)           == [type |-> "file", set |-> s, entry |-> e]
FilesFinished        == [type |-> "filesFinished"]

ServerPacket ==
    {NewConnection, Disconnected, ConnectionLost, ClientReady}
        \cup [type : {"fileStructure"}, set : SetId, hashes : SUBSET Hash]
        \cup [type : {"clientFileSend"}, sendID : SetId]

ClientPacket ==
    {Disconnected, ConnectionLost, FilesFinished}
        \cup [type : {"sendFile"}, set : SetId]
        \cup [type : {"canFilesBeSent"}, hashes : SUBSET Hash]
        \cup [type : {"header"}, set : SetId, count : Nat]
        \cup [type : {"file"}, set : SetId, entry : Entry \cup {Hole}]

\* A Send to an address that is not connected is dropped by RakNet.
Sent(queue, c, packets) ==
    IF link[c] = "up" THEN [queue EXCEPT ![c] = @ \o packets] ELSE queue

\* What a broken connection leaves of a queue: packets in flight are lost, the
\* last ones first; RakNet has already told the server of the connection.
Surviving(queue) ==
    {SubSeq(queue, 1, k) : k \in {n \in 0 .. Len(queue) :
                            n = 0 /\ queue # <<>> => queue[1] # NewConnection}}

\* The slot i of fileList as Send or AddFile finds it.
Slot(i) == IF i <= Len(fileList) THEN fileList[i] ELSE Hole

\* A FileStructure<ip>.txt; a file that cannot be opened reads as an empty list.
Manifest(hashes) == [exists |-> TRUE, hashes |-> hashes]
NoManifest == [exists |-> FALSE, hashes |-> {}]

IdleReader == [at |-> "idle", toAdd |-> {}, toDelete |-> {}, count |-> 0]
Receiving  == [at |-> "receive"]
NoDownload == [at |-> "none", set |-> NoReceiver, left |-> 0]

Init ==
    /\ \E disks \in ClientDisks :
          client = [c \in Client |->
                      [at        |-> "off",       \* the main thread
                       disk      |-> disks[c],    \* the client's directory
                       hashes    |-> {},          \* FileStructure.txt, fileList
                       structure |-> FALSE,       \* FileStructure.txt exists
                       download  |-> NoDownload]] \* FileListTransfer's receiver
    /\ link = [c \in Client |-> "none"]
    /\ toServer = [c \in Client |-> <<>>]
    /\ toClient = [c \in Client |-> <<>>]
    /\ serverDisk \in ServerDisks
    /\ serverHashes = CreateAllHashFiles(serverDisk)
    /\ serverStructure = TRUE
    /\ manifests = [ip \in Ip |-> NoManifest]
    /\ server = Receiving
    /\ finishedDownloading = FALSE
    /\ nextSet = FirstSet
    /\ serverReceiver = [c \in Client |-> NoReceiver]
    /\ reader = [c \in Client |-> IdleReader]
    /\ fileList = <<>>
    /\ fileCount = 0

-----------------------------------------------------------------------------
(* Connections: RakNet, the network, and processes that end.               *)

Connections == {c \in Client : link[c] = "up"}

\* The server's RakNet accepts a connection while it has a free slot ...
Accept(c) ==
    /\ client[c].at = "connecting" /\ link[c] = "none"
    /\ Cardinality(Connections) < MaxConnections
    /\ link' = [link EXCEPT ![c] = "up"]
    /\ toServer' = [toServer EXCEPT ![c] = Append(@, NewConnection)]
    /\ UNCHANGED <<client, toClient, hostVars, manifests, server,
                   finishedDownloading, sets, reader, listVars>>

\* ... and refuses it for good when it has none: Connect is not called again.
Refuse(c) ==
    /\ client[c].at = "connecting" /\ link[c] = "none"
    /\ Cardinality(Connections) >= MaxConnections
    /\ link' = [link EXCEPT ![c] = "refused"]
    /\ UNCHANGED <<client, queues, hostVars, manifests, server,
                   finishedDownloading, sets, reader, listVars>>

\* The connection of c breaks and the server is told.
Breaks(c) ==
    /\ link' = [link EXCEPT ![c] = "lost"]
    /\ \E queue \in Surviving(toServer[c]) :
          toServer' = [toServer EXCEPT ![c] = Append(queue, ConnectionLost)]

\* The network fails under a client that goes on running.
LinkLost(c) ==
    /\ link[c] = "up" /\ Breaks(c)
    /\ \E queue \in Surviving(toClient[c]) :
          toClient' = [toClient EXCEPT ![c] = Append(queue, ConnectionLost)]
    /\ UNCHANGED <<client, hostVars, manifests, server, finishedDownloading,
                   sets, reader, listVars>>

\* The process of c ends without closing its connection.
ProcessEnds(c, how) ==
    /\ client' = [client EXCEPT ![c].at = how]
    /\ toClient' = [toClient EXCEPT ![c] = <<>>]
    /\ IF link[c] = "up" THEN Breaks(c) ELSE UNCHANGED <<link, toServer>>
    /\ UNCHANGED <<hostVars, manifests, server, finishedDownloading, sets,
                   reader, listVars>>

ClientDies(c) == client[c].at \in {"connecting", "run"} /\ ProcessEnds(c, "dead")

-----------------------------------------------------------------------------
(* The client before its message loop.                                     *)

\* main: hash the directory, write FileStructure.txt, start connecting.
ClientStart(c) ==
    /\ client[c].at = "off"
    /\ client' = [client EXCEPT ![c].at = "connecting",
                                ![c].hashes = CreateAllHashFiles(client[c].disk),
                                ![c].structure = TRUE]
    /\ UNCHANGED <<link, queues, hostVars, manifests, server,
                   finishedDownloading, sets, reader, listVars>>

\* The polling loop sees IS_CONNECTED: fileList is loaded, UpdateClient runs.
ClientConnected(c) ==
    /\ client[c].at = "connecting" /\ link[c] = "up"
    /\ client' = [client EXCEPT ![c].at = "run"]
    /\ UNCHANGED <<link, queues, hostVars, manifests, server,
                   finishedDownloading, sets, reader, listVars>>

\* The fifth timeout of three seconds: main returns, whatever RakNet achieved
\* since the loop last looked.
GiveUp(c) == client[c].at = "connecting" /\ ProcessEnds(c, "failed")

-----------------------------------------------------------------------------
(* UpdateServer: one packet at a time, on one thread.                      *)

ServerReceives(c, type) ==
    /\ server = Receiving
    /\ toServer[c] # <<>> /\ Head(toServer[c]).type = type
    /\ toServer' = [toServer EXCEPT ![c] = Tail(@)]
    /\ UNCHANGED <<client, link, hostVars, listVars>>

\* ID_NEW_INCOMING_CONNECTION.  SetupReceive refuses an address that is no
\* longer connected.
ServerNewConnection(c) ==
    /\ ServerReceives(c, "new")
    /\ toClient' = Sent(toClient, c, <<SendFile(nextSet)>>)
    /\ IF link[c] = "up"
       THEN /\ serverReceiver' = [serverReceiver EXCEPT ![c] = nextSet]
            /\ nextSet' = (nextSet + 1) % 65536
       ELSE UNCHANGED sets
    /\ UNCHANGED <<manifests, server, finishedDownloading, reader>>

\* FileCB::OnFile and OnDownloadComplete: the one file of the client's list.
ServerFileStructure(c) ==
    /\ ServerReceives(c, "fileStructure")
    /\ LET packet == Head(toServer[c]) IN
       IF packet.set = serverReceiver[c]
       THEN /\ manifests' = [manifests EXCEPT ![IpOf[c]] = Manifest(packet.hashes)]
            /\ finishedDownloading' = TRUE
            /\ serverReceiver' = [serverReceiver EXCEPT ![c] = NoReceiver]
       ELSE UNCHANGED <<manifests, finishedDownloading, serverReceiver>>
    /\ UNCHANGED <<toClient, server, nextSet, reader>>

\* ID_SENDFILE: start the thread that reads the manifest and detach it.
ServerSendFile(c) ==
    /\ ServerReceives(c, "sendFile")
    /\ reader' = [reader EXCEPT ![c] = [IdleReader EXCEPT !.at = "read"]]
    /\ UNCHANGED <<toClient, manifests, server, finishedDownloading, sets>>

\* Mutant: the character '0' is read.
ReadSetIdDigit(sendID) == 48

\* What bsIn.Read(msg) makes of the std::string the client wrote with bs.Write:
\* bytes of the string object, not its digits, and they read as zero.
ReadSetId(sendID) == 0

\* Mutant: the flag is reset before the thread waits for it.
ServerFileSendReset(c) ==
    /\ ServerReceives(c, "clientFileSend")
    /\ LET set == ReadSetId(Head(toServer[c]).sendID) IN
       /\ toClient' = Sent(toClient, c, <<Header(set, fileCount)>>)
       /\ server' = [at |-> "send", client |-> c, set |-> set, next |-> 1]
    /\ finishedDownloading' = FALSE
    /\ UNCHANGED <<manifests, sets, reader>>

\* ID_CLIENTFILESEND, first part: FileListTransfer::Send announces the list ...
ServerFileSend(c) ==
    /\ ServerReceives(c, "clientFileSend")
    /\ LET set == ReadSetId(Head(toServer[c]).sendID) IN
       /\ toClient' = Sent(toClient, c, <<Header(set, fileCount)>>)
       /\ server' = [at |-> "send", client |-> c, set |-> set, next |-> 1]
    /\ UNCHANGED <<manifests, finishedDownloading, sets, reader>>

\* ... and sends one file after the other, up to the size it finds; ...
ServerSendNext ==
    /\ server.at = "send" /\ server.next <= fileCount
    /\ toClient' = Sent(toClient, server.client,
                        <<File(server.set, Slot(server.next))>>)
    /\ server' = [server EXCEPT !.next = @ + 1]
    /\ UNCHANGED <<client, link, toServer, hostVars, manifests,
                   finishedDownloading, sets, reader, listVars>>

\* Mutant: the last file is not waited for.
ServerSentShort ==
    /\ server.at = "send" /\ server.next >= fileCount
    /\ manifests' = [manifests EXCEPT ![IpOf[server.client]] = NoManifest]
    /\ server' = [at |-> "wait", client |-> server.client]
    /\ UNCHANGED <<client, link, queues, hostVars, finishedDownloading, sets,
                   reader, listVars>>

\* ... the client's manifest is deleted and the waiting thread joined, ...
ServerSent ==
    /\ server.at = "send" /\ server.next > fileCount
    /\ manifests' = [manifests EXCEPT ![IpOf[server.client]] = NoManifest]
    /\ server' = [at |-> "wait", client |-> server.client]
    /\ UNCHANGED <<client, link, queues, hostVars, finishedDownloading, sets,
                   reader, listVars>>

\* ... which finds the flag set, sends ID_FILESFINISHED and returns.
ServerWaited ==
    /\ server.at = "wait" /\ finishedDownloading
    /\ toClient' = Sent(toClient, server.client, <<FilesFinished>>)
    /\ server' = Receiving
    /\ UNCHANGED <<client, link, toServer, hostVars, manifests,
                   finishedDownloading, sets, reader, listVars>>

\* ID_DISCONNECTION_NOTIFICATION and ID_CONNECTION_LOST: printed; Receive()
\* drops the receivers of the address.
ServerClosed(c) ==
    /\ ServerReceives(c, "disconnected") \/ ServerReceives(c, "lost")
    /\ serverReceiver' = [serverReceiver EXCEPT ![c] = NoReceiver]
    /\ UNCHANGED <<toClient, manifests, server, finishedDownloading, nextSet,
                   reader>>

-----------------------------------------------------------------------------
(* The detached thread: reads the manifest, fills the shared fileList.     *)

ReaderStep(c, at) ==
    /\ reader[c].at = at
    /\ UNCHANGED <<client, link, toServer, serverDisk, serverHashes, manifests,
                   server, finishedDownloading, sets>>

ReaderRead(c) ==
    /\ ReaderStep(c, "read")
    /\ LET hashList == manifests[IpOf[c]].hashes
           missing  == FindMissingFiles(hashList, serverHashes)
       IN reader' = [reader EXCEPT ![c] =
              [at       |-> "add",
               toAdd    |-> {h[1] : h \in missing} \ {ServerExe},
               toDelete |-> FindFilesToDelete(hashList, serverHashes),
               count    |-> 0]]
    /\ UNCHANGED <<toClient, serverStructure, listVars>>

\* AddFile: nothing for a file that cannot be opened or is already in the list;
\* otherwise List::Insert stores it in the slot after the last one ...
ReaderAdd(c) ==
    /\ ReaderStep(c, "add")
    /\ \E p \in reader[c].toAdd :
          LET entry == <<p, serverDisk[p]>>
              slot  == fileCount + 1
              last  == IF slot > Len(fileList) THEN slot ELSE Len(fileList)
          IN IF serverDisk[p] = Absent \/ \E i \in 1 .. fileCount : Slot(i) = entry
             THEN /\ reader' = [reader EXCEPT ![c].toAdd = @ \ {p}]
                  /\ UNCHANGED fileList
             ELSE /\ reader' = [reader EXCEPT ![c].toAdd = @ \ {p},
                                              ![c].at = "inserted"]
                  /\ fileList' = [i \in 1 .. last |->
                                    IF i = slot THEN entry ELSE Slot(i)]
    /\ UNCHANGED <<toClient, serverStructure, fileCount>>

\* ... and ++list_size loads the size and stores it incremented.
ReaderLoad(c) ==
    /\ ReaderStep(c, "inserted")
    /\ reader' = [reader EXCEPT ![c].at = "counted", ![c].count = fileCount]
    /\ UNCHANGED <<toClient, serverStructure, listVars>>

ReaderStore(c) ==
    /\ ReaderStep(c, "counted")
    /\ fileCount' = reader[c].count + 1
    /\ reader' = [reader EXCEPT ![c].at = "add"]
    /\ UNCHANGED <<toClient, serverStructure, fileList>>

\* Mutant: the reply leaves before the files are in.
ReaderReplyEarly(c) ==
    /\ ReaderStep(c, "add")
    /\ toClient' = Sent(toClient, c, <<CanFilesBeSent(reader[c].toDelete)>>)
    /\ serverStructure' = FALSE
    /\ reader' = [reader EXCEPT ![c] = IdleReader]
    /\ UNCHANGED listVars

\* Mutant: no message for a client that has nothing to delete.
ReaderReplyUnlessEmpty(c) ==
    /\ ReaderStep(c, "add") /\ reader[c].toAdd = {}
    /\ toClient' = IF reader[c].toDelete = {} THEN toClient
                   ELSE Sent(toClient, c, <<CanFilesBeSent(reader[c].toDelete)>>)
    /\ serverStructure' = FALSE
    /\ reader' = [reader EXCEPT ![c] = IdleReader]
    /\ UNCHANGED listVars

\* All files are in: the hashes to delete go out, the server's own
\* FileStructure.txt is deleted, the thread ends.
ReaderReply(c) ==
    /\ ReaderStep(c, "add") /\ reader[c].toAdd = {}
    /\ toClient' = Sent(toClient, c, <<CanFilesBeSent(reader[c].toDelete)>>)
    /\ serverStructure' = FALSE
    /\ reader' = [reader EXCEPT ![c] = IdleReader]
    /\ UNCHANGED listVars

-----------------------------------------------------------------------------
(* UpdateClient.                                                           *)

ClientReceives(c, type) ==
    /\ client[c].at = "run"
    /\ toClient[c] # <<>> /\ Head(toClient[c]).type = type
    /\ UNCHANGED <<hostVars, manifests, server, finishedDownloading, sets,
                   reader, listVars>>

ClientPops(c) == toClient' = [toClient EXCEPT ![c] = Tail(@)]

\* Mutant: ID_SENDFILE overtakes the file.
UploadReversed(s, hashes) == <<ClientReady, FileStructure(s, hashes)>>

\* fileListTransfer.Send of the list, then ID_SENDFILE, on one ordered channel.
Upload(s, hashes) == <<FileStructure(s, hashes), ClientReady>>

\* ID_SENDFILE: the manifest on the set the server named, then ID_SENDFILE.
ClientSendFile(c) ==
    /\ ClientReceives(c, "sendFile") /\ ClientPops(c)
    /\ toServer' = Sent(toServer, c,
                        Upload(Head(toClient[c]).set, client[c].hashes))
    /\ UNCHANGED <<client, link>>

\* ID_CLIENTCANFILESBESENT: delete, set up the download, tell the server.
ClientCanFilesBeSent(c) ==
    /\ ClientReceives(c, "canFilesBeSent") /\ ClientPops(c)
    /\ \E hashes \in ReadDeleteList(Head(toClient[c]).hashes) :
          client' = [client EXCEPT
              ![c].disk = DeleteFiles(@, hashes, ClientExe),
              ![c].download = IF link[c] = "up"
                              THEN [at |-> "header", set |-> FirstSet, left |-> 0]
                              ELSE @]
    /\ toServer' = Sent(toServer, c, <<ClientFileSend(FirstSet)>>)
    /\ UNCHANGED link

\* A download with n files to go.
Awaiting(download, n) ==
    [download EXCEPT !.left = n, !.at = IF n = 0 THEN "complete" ELSE "files"]

\* FileListTransfer: the header of a set the client has a receiver for.
ClientHeader(c) ==
    /\ ClientReceives(c, "header") /\ ClientPops(c)
    /\ LET packet == Head(toClient[c]) IN
       IF client[c].download.at = "header" /\ packet.set = client[c].download.set
       THEN client' = [client EXCEPT ![c].download = Awaiting(@, packet.count)]
       ELSE UNCHANGED client
    /\ UNCHANGED <<link, toServer>>

\* Mutant: the running executable can be opened for writing.
WrittenAny(disk, entry) ==
    IF entry = Hole THEN disk ELSE [disk EXCEPT ![entry[1]] = entry[2]]

\* FileCB::OnFile.  A Hole has no file name and the running executable cannot
\* be opened for writing: nothing is written for either.
Written(disk, entry) ==
    IF entry = Hole \/ entry[1] = ClientExe
    THEN disk ELSE [disk EXCEPT ![entry[1]] = entry[2]]

\* Mutant: OnDownloadComplete keeps the receiver of a set that is complete.
ClientFileKept(c) ==
    /\ ClientReceives(c, "file") /\ ClientPops(c)
    /\ LET packet == Head(toClient[c]) IN
       IF packet.set = client[c].download.set
       THEN client' = [client EXCEPT ![c].disk = Written(@, packet.entry),
                                     ![c].download = Awaiting(@, @.left - 1)]
       ELSE UNCHANGED client
    /\ UNCHANGED <<link, toServer>>

\* OnFile for each file of the set; after the last one OnDownloadComplete gives
\* the receiver up.
ClientFile(c) ==
    /\ ClientReceives(c, "file") /\ ClientPops(c)
    /\ LET packet == Head(toClient[c]) IN
       IF client[c].download.at = "files" /\ packet.set = client[c].download.set
       THEN client' = [client EXCEPT ![c].disk = Written(@, packet.entry),
                                     ![c].download = Awaiting(@, @.left - 1)]
       ELSE UNCHANGED client
    /\ UNCHANGED <<link, toServer>>

\* Mutant: the connection is left open.
ClientFilesFinishedOpen(c) ==
    /\ ClientReceives(c, "filesFinished") /\ ClientPops(c)
    /\ client' = [client EXCEPT ![c].structure = FALSE]
    /\ UNCHANGED <<link, toServer>>

\* ID_FILESFINISHED: delete FileStructure.txt and close the connection; both
\* ends will read of it.  The loop goes on until this end has.
ClientFilesFinished(c) ==
    /\ ClientReceives(c, "filesFinished")
    /\ client' = [client EXCEPT ![c].structure = FALSE]
    /\ toServer' = Sent(toServer, c, <<Disconnected>>)
    /\ toClient' = Sent([toClient EXCEPT ![c] = Tail(@)], c, <<Disconnected>>)
    /\ link' = IF link[c] = "up" THEN [link EXCEPT ![c] = "closed"] ELSE link

\* ID_DISCONNECTION_NOTIFICATION ends the loop; the plugin is detached.
ClientDisconnected(c) ==
    /\ ClientReceives(c, "disconnected")
    /\ client' = [client EXCEPT ![c].at = "done"]
    /\ toClient' = [toClient EXCEPT ![c] = <<>>]
    /\ UNCHANGED <<link, toServer>>

\* ID_CONNECTION_LOST is printed and the loop goes on.
ClientConnectionLost(c) ==
    /\ ClientReceives(c, "lost") /\ ClientPops(c)
    /\ client' = [client EXCEPT ![c].download = NoDownload]
    /\ UNCHANGED <<link, toServer>>

-----------------------------------------------------------------------------

ServerServes(c) ==
    \/ ServerNewConnection(c) \/ ServerFileStructure(c) \/ ServerSendFile(c)
    \/ ServerFileSend(c) \/ ServerClosed(c)

ServerSends == ServerSendNext \/ ServerSent \/ ServerWaited

ReaderThread(c) ==
    ReaderRead(c) \/ ReaderAdd(c) \/ ReaderLoad(c) \/ ReaderStore(c) \/ ReaderReply(c)

ClientLoop(c) ==
    \/ ClientSendFile(c) \/ ClientCanFilesBeSent(c)
    \/ ClientHeader(c) \/ ClientFile(c) \/ ClientFilesFinished(c)
    \/ ClientDisconnected(c) \/ ClientConnectionLost(c)

ClientProcess(c) ==
    ClientStart(c) \/ ClientConnected(c) \/ GiveUp(c) \/ ClientLoop(c)

Environment(c) == Accept(c) \/ Refuse(c) \/ LinkLost(c) \/ ClientDies(c)

Next ==
    \/ ServerSends
    \/ \E c \in Client :
          ServerServes(c) \/ ReaderThread(c) \/ ClientProcess(c) \/ Environment(c)

Spec == Init /\ [][Next]_vars

-----------------------------------------------------------------------------
(* Fairness.  UpdateServer polls Receive() every second and takes what is  *)
(* there; the detached threads, the client's loop and the five timeouts of *)
(* its connection attempt run by themselves.  Nothing is assumed of the    *)
(* network, of clients that start, or of processes that end.               *)

Fairness ==
    /\ WF_vars(ServerSends)
    /\ \A c \in Client :
          /\ WF_vars(ServerServes(c))
          /\ WF_vars(ReaderThread(c))
          /\ WF_vars(ClientConnected(c) \/ GiveUp(c))
          /\ WF_vars(ClientLoop(c))

FairSpec == Spec /\ Fairness

-----------------------------------------------------------------------------
(* Properties.                                                             *)

Download ==
    [at : {"none", "header", "complete"}, set : SetId \cup {NoReceiver}, left : {0}]
        \cup [at : {"files"}, set : SetId \cup {NoReceiver}, left : Nat \ {0}]

ClientState ==
    [at        : {"off", "connecting", "run", "done", "failed", "dead"},
     disk      : Disk,
     hashes    : SUBSET Hash,
     structure : BOOLEAN,
     download  : Download]

ServerState ==
    {Receiving} \cup [at : {"wait"}, client : Client]
        \cup [at : {"send"}, client : Client, set : SetId, next : Nat \ {0}]

ReaderState ==
    [at       : {"idle", "read", "add", "inserted", "counted"},
     toAdd    : SUBSET Path,
     toDelete : SUBSET Hash,
     count    : Nat]

\* The values the variables may take.
TypeOK ==
    /\ client \in [Client -> ClientState]
    /\ link \in [Client -> {"none", "up", "refused", "lost", "closed"}]
    /\ toServer \in [Client -> Seq(ServerPacket)]
    /\ toClient \in [Client -> Seq(ClientPacket)]
    /\ serverDisk \in Disk
    /\ serverHashes \in SUBSET Hash
    /\ serverStructure \in BOOLEAN
    /\ manifests \in [Ip -> [exists : BOOLEAN, hashes : SUBSET Hash]]
    /\ server \in ServerState
    /\ finishedDownloading \in BOOLEAN
    /\ nextSet \in SetId
    /\ serverReceiver \in [Client -> SetId \cup {NoReceiver}]
    /\ reader \in [Client -> ReaderState]
    /\ fileList \in Seq(Entry \cup {Hole})
    /\ fileCount \in Nat

\* The flag that UpdateServer joins on is set by Receive(), which only
\* UpdateServer calls: a server that waits with the flag down waits for ever.
\* It never does, for an upload has completed before any client is served.
JoinNeverBlocks == server.at = "wait" => finishedDownloading

\* A connection is announced before anything else arrives over it and its end
\* after everything else; until the server has read of it nothing is started.
Opening(c) ==
    LET ts == toServer[c]
        tc == toClient[c]
    IN /\ \A i \in 1 .. Len(ts) : ts[i].type = "new" =>
              /\ i = 1 /\ reader[c].at = "idle"
              /\ \A j \in 2 .. Len(ts) : ts[j].type \in {"lost", "disconnected"}
              /\ \A j \in 1 .. Len(tc) :
                    tc[j].type \notin {"sendFile", "canFilesBeSent"}
       /\ \A i \in 1 .. Len(ts) : ts[i].type \in {"lost", "disconnected"} =>
              i = Len(ts) /\ link[c] # "up"
       /\ link[c] \in {"none", "refused"} =>
              ts = <<>> /\ tc = <<>> /\ reader[c].at = "idle"

\* What a client may have in flight while no upload has completed: manifests of
\* the set the server receives from it, each ahead of its ID_SENDFILE.
Unserved(c) ==
    LET ts == toServer[c]
        tc == toClient[c]
    IN /\ reader[c].at = "idle"
       /\ \A i \in 1 .. Len(ts) :
              /\ ts[i].type # "clientFileSend"
              /\ ts[i].type = "fileStructure" => ts[i].set = serverReceiver[c]
              /\ ts[i].type = "sendFile" =>
                    \E j \in 1 .. i - 1 : ts[j].type = "fileStructure"
       /\ \A i \in 1 .. Len(tc) :
              /\ tc[i].type # "canFilesBeSent"
              /\ link[c] = "up" /\ tc[i].type = "sendFile" =>
                    tc[i].set = serverReceiver[c]

\* No client is served, compared or even waited for before the first manifest
\* has arrived whole: why JoinNeverBlocks holds.
UploadFirst ==
    /\ \A c \in Client : Opening(c)
    /\ ~finishedDownloading =>
          server = Receiving /\ \A c \in Client : Unserved(c)

\* The client deletes none of the files the server lists and never its own
\* executable, whichever manifest the server took for the client's and
\* whatever the client's directory holds by the time the list arrives.
NeverDeletesCurrent ==
    [][\A c \in Client, p \in Path :
          client[c].disk[p] # Absent /\ client'[c].disk[p] = Absent
              => /\ p # ClientExe
                 /\ HashFile(p, client[c].disk[p]) \notin serverHashes]_vars

\* Of the files a client is told to delete at most one goes: each hash is a
\* string of its own in the message and UpdateClient reads one string.
DeletesAtMostOne ==
    \A c \in Client :
        Cardinality({h \in client[c].hashes : client[c].disk[h[1]] = Absent}) <= 1

\* Every header and file on its way to a client that runs is of the set the
\* client receives, although the id the client sent was never understood.
SetIdsAgree ==
    \A c \in Client : client[c].at = "run" =>
        \A i \in 1 .. Len(toClient[c]) :
            toClient[c][i].type \in {"header", "file"} =>
                toClient[c][i].set = client[c].download.set

\* A client closes its connection only when each file announced to it has
\* arrived, even when fileList grows while it is being sent.  It needs that
\* list_size is not made smaller: a thread in Insert may write an older size
\* over what another thread, with more than one file to add, has counted.
FinishedAfterWholeSet ==
    \A c \in Client : link[c] = "closed" => client[c].download.at = "complete"

\* The list of files a client must delete is computed from its own manifest.
\* It needs the clients' addresses to differ.
OwnManifest ==
    \A c \in Client : reader[c].at \in {"add", "inserted", "counted"} =>
        reader[c].toDelete = FindFilesToDelete(client[c].hashes, serverHashes)

\* A client that was told that the files are finished has each file of the
\* server, except the two executables.
Delivered ==
    \A c \in Client : link[c] = "closed" =>
        \A p \in Path \ {ServerExe, ClientExe} :
            serverDisk[p] # Absent => client[c].disk[p] = serverDisk[p]

\* UpdateServer always returns to its packets, whatever the clients do.
ServerReturns == []<>(server = Receiving)

\* A connection ends: a client that gives up, breaks or finishes frees its slot
\* among the MaxConnections.
ConnectionEnds == \A c \in Client : []<>(link[c] # "up")

\* UpdateClient ends, unless the connection breaks under it.
ClientTerminates ==
    \A c \in Client : client[c].at = "run" ~>
        client[c].at \in {"done", "dead"} \/ link[c] = "lost"

-----------------------------------------------------------------------------
(* UpdateService, which the sessions implement.                            *)

\* An update is over when the client has closed the connection; it has failed
\* when the client's process has ended before, or has read that the connection
\* is lost.
PhaseOf(c) ==
    CASE link[c] = "closed" -> "updated"
      [] link[c] # "closed" /\ client[c].at \in {"off", "connecting"} -> "before"
      [] /\ client[c].at = "run" /\ link[c] # "closed"
         /\ ~(link[c] = "lost" /\ toClient[c] = <<>>) -> "updating"
      [] OTHER -> "failed"

Service == INSTANCE UpdateService
    WITH directory    <- [c \in Client |-> client[c].disk],
         phase        <- [c \in Client |-> PhaseOf(c)],
         announced    <- [c \in Client |-> client[c].download.at \in {"files", "complete"}],
         awaited      <- [c \in Client |-> client[c].download.left],
         published    <- serverDisk,
         Directories  <- ClientDisks,
         Publications <- ServerDisks

\* Whatever threads, connections and processes do, a client's directory only
\* changes while the client is updated, only towards the server's, and no more
\* once every announced file has arrived and the connection is closed: the
\* packets, sets and lists of UpdateSession implement UpdateService.  Like
\* FinishedAfterWholeSet it needs that list_size is not made smaller while the
\* list is sent.
ImplementsService == Service!Spec
=============================================================================
