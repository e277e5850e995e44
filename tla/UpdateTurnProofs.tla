--------------------------- MODULE UpdateTurnProofs ---------------------------
(***************************************************************************)
(* The turns of one session.  UpdateServer, the detached thread and        *)
(* UpdateClient pass the turn of a client on with every message: nobody    *)
(* does anything for a client while somebody else may.  From that follow   *)
(* three properties of UpdateSession, for every value of the constants:    *)
(* SetIdsAgree, DeletesAtMostOne and OwnManifest.                          *)
(***************************************************************************)
EXTENDS UpdateSessionProofs, FiniteSetTheorems

-----------------------------------------------------------------------------
(* What each action does at its client.                                    *)

\* A packet that is sent to a client arrives behind what is on its way ...
SentToClientIs(c, packet) ==
    toClient'[c] = IF link[c] = "up" THEN toClient[c] \o <<packet>> ELSE toClient[c]

\* ... and so do packets to the server.
SentToServerIs(c, packets) ==
    toServer'[c] = IF link[c] = "up" THEN toServer[c] \o packets ELSE toServer[c]

\* UpdateServer has taken the first packet of c.
Served(c, type) ==
    /\ server = Receiving
    /\ toServer[c] # <<>> /\ Head(toServer[c]).type = type
    /\ toServer'[c] = Tail(toServer[c])
    /\ UNCHANGED <<client, link, serverDisk, serverHashes, fileList, fileCount>>

\* A Send appends at its own client.
LEMMA SentIs ==
    ASSUME NEW c \in Client, NEW queue, DOMAIN queue = Client, NEW packets
    PROVE  Sent(queue, c, packets)[c] =
              IF link[c] = "up" THEN queue[c] \o packets ELSE queue[c]
  BY DEF Sent

LEMMA ServedIs ==
    ASSUME TypeOK, NEW c \in Client, NEW type, ServerReceives(c, type)
    PROVE  Served(c, type)
  BY Domains DEF ServerReceives, Served, hostVars, listVars

\* ID_NEW_INCOMING_CONNECTION ...
LEMMA NewConnectionIs ==
    ASSUME TypeOK, NEW c \in Client, ServerNewConnection(c)
    PROVE  /\ Served(c, "new") /\ SentToClientIs(c, SendFile(nextSet))
           /\ serverReceiver'[c] =
                 IF link[c] = "up" THEN nextSet ELSE serverReceiver[c]
           /\ UNCHANGED <<manifests, server, reader>>
  <1>1. Served(c, "new")
    BY ServedIs DEF ServerNewConnection
  <1>2. toClient' = Sent(toClient, c, <<SendFile(nextSet)>>)
    BY DEF ServerNewConnection
  <1>3. SentToClientIs(c, SendFile(nextSet))
    BY <1>2, SentIs, Domains DEF SentToClientIs
  <1>4. serverReceiver'[c] = IF link[c] = "up" THEN nextSet ELSE serverReceiver[c]
    BY Domains DEF ServerNewConnection, sets
  <1>5. UNCHANGED <<manifests, server, reader>>
    BY DEF ServerNewConnection
  <1>6. QED  BY <1>1, <1>3, <1>4, <1>5

\* ... the client's list ...
LEMMA FileStructureIs ==
    ASSUME TypeOK, NEW c \in Client, ServerFileStructure(c)
    PROVE  /\ Served(c, "fileStructure")
           /\ toClient'[c] = toClient[c] /\ UNCHANGED <<server, reader>>
           /\ \/ /\ Head(toServer[c]).set = serverReceiver[c]
                 /\ manifests' = [manifests EXCEPT
                                    ![IpOf[c]] = Manifest(Head(toServer[c]).hashes)]
                 /\ serverReceiver'[c] = NoReceiver
              \/ /\ Head(toServer[c]).set # serverReceiver[c]
                 /\ UNCHANGED <<manifests, serverReceiver>>
  <1>1. Served(c, "fileStructure")
    BY ServedIs DEF ServerFileStructure
  <1>2. QED  BY <1>1, Domains DEF ServerFileStructure

\* ... ID_SENDFILE ...
LEMMA SendFileIs ==
    ASSUME TypeOK, NEW c \in Client, ServerSendFile(c)
    PROVE  /\ Served(c, "sendFile")
           /\ toClient'[c] = toClient[c]
           /\ reader'[c] = [IdleReader EXCEPT !.at = "read"]
           /\ UNCHANGED <<manifests, server, serverReceiver>>
  <1>1. Served(c, "sendFile")
    BY ServedIs DEF ServerSendFile
  <1>2. QED  BY <1>1, Domains DEF ServerSendFile, sets

\* ... ID_CLIENTFILESEND, whatever id it names ...
LEMMA FileSendIs ==
    ASSUME TypeOK, NEW c \in Client, ServerFileSend(c)
    PROVE  /\ Served(c, "clientFileSend")
           /\ SentToClientIs(c, Header(FirstSet, fileCount))
           /\ server' = [at |-> "send", client |-> c, set |-> FirstSet, next |-> 1]
           /\ UNCHANGED <<manifests, reader, serverReceiver>>
  <1>1. Served(c, "clientFileSend")
    BY ServedIs DEF ServerFileSend
  <1>2. toClient' = Sent(toClient, c, <<Header(FirstSet, fileCount)>>)
    BY DEF ServerFileSend, ReadSetId, FirstSet
  <1>3. SentToClientIs(c, Header(FirstSet, fileCount))
    BY <1>2, SentIs, Domains DEF SentToClientIs
  <1>4. /\ server' = [at |-> "send", client |-> c, set |-> FirstSet, next |-> 1]
        /\ UNCHANGED <<manifests, reader, serverReceiver>>
    BY DEF ServerFileSend, ReadSetId, FirstSet, sets
  <1>5. QED  BY <1>1, <1>3, <1>4

\* ... and the end of a connection.
LEMMA ClosedIs ==
    ASSUME TypeOK, NEW c \in Client, ServerClosed(c)
    PROVE  /\ Served(c, "disconnected") \/ Served(c, "lost")
           /\ toClient'[c] = toClient[c]
           /\ serverReceiver'[c] = NoReceiver
           /\ UNCHANGED <<manifests, server, reader>>
  <1>1. Served(c, "disconnected") \/ Served(c, "lost")
    BY ServedIs DEF ServerClosed
  <1>2. QED  BY <1>1, Domains DEF ServerClosed

\* The client that UpdateServer serves.
LEMMA ServedClient ==
    ASSUME TypeOK, server # Receiving
    PROVE  /\ server.client \in Client
           /\ server.at \in {"send", "wait"}
           /\ server.at = "send" => server.next \in Nat \ {0} /\ server.set \in SetId
  BY DEF TypeOK, ServerState

\* While UpdateServer serves a client it takes no packet of any.
SendsOnly ==
    UNCHANGED <<client, link, toServer, serverDisk, serverHashes, reader,
                serverReceiver, fileList, fileCount>>

\* The next file of the list ...
LEMMA SendNextIs ==
    ASSUME TypeOK, ServerSendNext
    PROVE  /\ server # Receiving /\ server.at = "send" /\ server.next <= fileCount
           /\ SentToClientIs(server.client, File(server.set, Slot(server.next)))
           /\ server' = [server EXCEPT !.next = @ + 1]
           /\ SendsOnly /\ manifests' = manifests
  <1>1. server # Receiving /\ server.at = "send" /\ server.next <= fileCount
    BY DEF ServerSendNext, Receiving
  <1>2. toClient' = Sent(toClient, server.client,
                         <<File(server.set, Slot(server.next))>>)
    BY DEF ServerSendNext
  <1>3. SentToClientIs(server.client, File(server.set, Slot(server.next)))
    BY <1>1, <1>2, ServedClient, SentIs, Domains DEF SentToClientIs
  <1>4. QED  BY <1>1, <1>3 DEF ServerSendNext, SendsOnly, hostVars, sets, listVars

\* ... the end of the list ...
LEMMA SentAllIs ==
    ASSUME TypeOK, ServerSent
    PROVE  /\ server # Receiving /\ server.at = "send" /\ server.next > fileCount
           /\ server' = [at |-> "wait", client |-> server.client]
           /\ toClient' = toClient
           /\ manifests' = [manifests EXCEPT ![IpOf[server.client]] = NoManifest]
           /\ SendsOnly
  BY DEF ServerSent, Receiving, SendsOnly, queues, hostVars, sets, listVars

\* ... and ID_FILESFINISHED.
LEMMA WaitedIs ==
    ASSUME TypeOK, ServerWaited
    PROVE  /\ server # Receiving /\ server.at = "wait"
           /\ SentToClientIs(server.client, FilesFinished)
           /\ server' = Receiving
           /\ SendsOnly /\ manifests' = manifests
  <1>1. server # Receiving /\ server.at = "wait"
    BY DEF ServerWaited, Receiving
  <1>2. toClient' = Sent(toClient, server.client, <<FilesFinished>>)
    BY DEF ServerWaited
  <1>3. SentToClientIs(server.client, FilesFinished)
    BY <1>1, <1>2, ServedClient, SentIs, Domains DEF SentToClientIs
  <1>4. QED  BY <1>1, <1>3 DEF ServerWaited, SendsOnly, hostVars, sets, listVars

\* A step of the thread of a client.
ReaderOnly ==
    UNCHANGED <<client, link, toServer, serverDisk, serverHashes, manifests,
                server, serverReceiver>>

\* It reads the manifest that is stored for the address ...
LEMMA ReadIs ==
    ASSUME TypeOK, NEW c \in Client, ReaderRead(c)
    PROVE  /\ ReaderOnly /\ UNCHANGED <<toClient, fileList, fileCount>>
           /\ reader[c].at = "read" /\ reader'[c].at = "add"
           /\ reader'[c].toAdd =
                 {h[1] : h \in FindMissingFiles(manifests[IpOf[c]].hashes, serverHashes)}
                    \ {ServerExe}
           /\ reader'[c].toDelete =
                 FindFilesToDelete(manifests[IpOf[c]].hashes, serverHashes)
  BY Domains DEF ReaderRead, ReaderStep, ReaderOnly, sets, listVars

\* ... inserts the files that are missing ...
LEMMA InsertIs ==
    ASSUME TypeOK, NEW c \in Client, ReaderAdd(c) \/ ReaderLoad(c) \/ ReaderStore(c)
    PROVE  /\ ReaderOnly /\ toClient' = toClient
           /\ reader[c].at \in {"add", "inserted", "counted"}
           /\ reader'[c].at \in {"add", "inserted", "counted"}
           /\ reader'[c].toDelete = reader[c].toDelete
  <1>1. reader[c] \in ReaderState /\ DOMAIN reader = Client
    BY DEF TypeOK
  <1>2. CASE ReaderAdd(c)
    <2>1. PICK p \in reader[c].toAdd :
             \/ reader' = [reader EXCEPT ![c].toAdd = @ \ {p}]
             \/ reader' = [reader EXCEPT ![c].toAdd = @ \ {p}, ![c].at = "inserted"]
      BY <1>2 DEF ReaderAdd
    <2>2. /\ reader'[c].at \in {reader[c].at, "inserted"}
          /\ reader'[c].toDelete = reader[c].toDelete
      BY <1>1, <2>1 DEF ReaderState
    <2>3. reader[c].at = "add" /\ ReaderOnly /\ toClient' = toClient
      BY <1>2 DEF ReaderAdd, ReaderStep, ReaderOnly, sets
    <2>4. QED  BY <2>2, <2>3
  <1>3. CASE ReaderLoad(c)
    BY <1>1, <1>3 DEF ReaderLoad, ReaderStep, ReaderOnly, ReaderState, sets
  <1>4. CASE ReaderStore(c)
    BY <1>1, <1>4 DEF ReaderStore, ReaderStep, ReaderOnly, ReaderState, sets
  <1>5. QED  BY <1>2, <1>3, <1>4

\* ... and replies.
LEMMA ReplyIs ==
    ASSUME TypeOK, NEW c \in Client, ReaderReply(c)
    PROVE  /\ ReaderOnly /\ UNCHANGED <<fileList, fileCount>>
           /\ SentToClientIs(c, CanFilesBeSent(reader[c].toDelete))
           /\ reader[c].at = "add" /\ reader[c].toAdd = {}
           /\ reader'[c] = IdleReader
  <1>1. toClient' = Sent(toClient, c, <<CanFilesBeSent(reader[c].toDelete)>>)
    BY DEF ReaderReply
  <1>2. SentToClientIs(c, CanFilesBeSent(reader[c].toDelete))
    BY <1>1, SentIs, Domains DEF SentToClientIs
  <1>3. QED
    BY <1>2, Domains DEF ReaderReply, ReaderStep, ReaderOnly, sets, listVars

\* A client has taken the first packet.
Took(c, type) ==
    /\ client[c].at = "run"
    /\ toClient[c] # <<>> /\ Head(toClient[c]).type = type
    /\ UNCHANGED <<serverDisk, serverHashes, manifests, server, serverReceiver,
                   reader, fileList, fileCount>>

\* What a step leaves alone of a client's process.
ProcessKept(c) ==
    client'[c].at = client[c].at /\ client'[c].hashes = client[c].hashes

LEMMA TookIs ==
    ASSUME NEW c \in Client, NEW type, ClientReceives(c, type)
    PROVE  Took(c, type)
  BY DEF ClientReceives, Took, hostVars, sets, listVars

LEMMA PopIs ==
    ASSUME TypeOK, NEW c \in Client, ClientPops(c)
    PROVE  toClient'[c] = Tail(toClient[c])
  BY Domains DEF ClientPops

\* The client uploads its list ...
LEMMA ClientSendFileIs ==
    ASSUME TypeOK, NEW c \in Client, ClientSendFile(c)
    PROVE  /\ Took(c, "sendFile") /\ toClient'[c] = Tail(toClient[c])
           /\ SentToServerIs(c, Upload(Head(toClient[c]).set, client[c].hashes))
           /\ UNCHANGED <<client, link>>
  <1>1. toServer' = Sent(toServer, c, Upload(Head(toClient[c]).set, client[c].hashes))
    BY DEF ClientSendFile
  <1>2. SentToServerIs(c, Upload(Head(toClient[c]).set, client[c].hashes))
    BY <1>1, SentIs, Domains DEF SentToServerIs
  <1>3. QED  BY <1>2, TookIs, PopIs DEF ClientSendFile

\* ... deletes and asks for the files ...
LEMMA CanFilesBeSentIs ==
    ASSUME TypeOK, NEW c \in Client, ClientCanFilesBeSent(c)
    PROVE  /\ Took(c, "canFilesBeSent") /\ toClient'[c] = Tail(toClient[c])
           /\ SentToServerIs(c, <<ClientFileSend(FirstSet)>>)
           /\ link' = link /\ ProcessKept(c)
           /\ \E hashes \in ReadDeleteList(Head(toClient[c]).hashes) :
                 client'[c].disk = DeleteFiles(client[c].disk, hashes, ClientExe)
           /\ client'[c].download =
                 IF link[c] = "up" THEN [at |-> "header", set |-> FirstSet, left |-> 0]
                 ELSE client[c].download
  <1>1. toServer' = Sent(toServer, c, <<ClientFileSend(FirstSet)>>)
    BY DEF ClientCanFilesBeSent
  <1>2. SentToServerIs(c, <<ClientFileSend(FirstSet)>>)
    BY <1>1, SentIs, Domains DEF SentToServerIs
  <1> DEFINE start == IF link[c] = "up"
                      THEN [at |-> "header", set |-> FirstSet, left |-> 0]
                      ELSE client[c].download
  <1>3. PICK hashes \in ReadDeleteList(Head(toClient[c]).hashes) :
           client' = [client EXCEPT
               ![c].disk = DeleteFiles(client[c].disk, hashes, ClientExe),
               ![c].download = start]
    BY DEF ClientCanFilesBeSent
  <1> DEFINE disk == DeleteFiles(client[c].disk, hashes, ClientExe)
  <1>4. client' = [client EXCEPT ![c].disk = disk, ![c].download = start]
    BY <1>3
  <1>5. client[c] \in ClientState /\ DOMAIN client = Client
    BY DEF TypeOK
  <1> HIDE DEF disk, start
  <1>6. ProcessKept(c) /\ client'[c].disk = disk /\ client'[c].download = start
    BY <1>4, <1>5 DEF ClientState, ProcessKept
  <1>7. Took(c, "canFilesBeSent") /\ toClient'[c] = Tail(toClient[c]) /\ link' = link
    BY TookIs, PopIs DEF ClientCanFilesBeSent
  <1>8. QED  BY <1>2, <1>3, <1>6, <1>7 DEF disk, start

\* ... reads how many will come ...
LEMMA HeaderIs ==
    ASSUME TypeOK, NEW c \in Client, ClientHeader(c)
    PROVE  /\ Took(c, "header") /\ toClient'[c] = Tail(toClient[c])
           /\ UNCHANGED <<link, toServer>> /\ ProcessKept(c)
           /\ client'[c].disk = client[c].disk
           /\ client'[c].download =
                 IF /\ client[c].download.at = "header"
                    /\ Head(toClient[c]).set = client[c].download.set
                 THEN Awaiting(client[c].download, Head(toClient[c]).count)
                 ELSE client[c].download
  <1> DEFINE next == Awaiting(client[c].download, Head(toClient[c]).count)
  <1>1. IF /\ client[c].download.at = "header"
           /\ Head(toClient[c]).set = client[c].download.set
        THEN client' = [client EXCEPT ![c].download = next]
        ELSE client' = client
    BY DEF ClientHeader
  <1>2. client[c] \in ClientState /\ DOMAIN client = Client
    BY DEF TypeOK
  <1> HIDE DEF next
  <1>3. /\ ProcessKept(c) /\ client'[c].disk = client[c].disk
        /\ client'[c].download =
              IF /\ client[c].download.at = "header"
                 /\ Head(toClient[c]).set = client[c].download.set
              THEN next ELSE client[c].download
    BY <1>1, <1>2 DEF ClientState, ProcessKept
  <1>4. /\ Took(c, "header") /\ toClient'[c] = Tail(toClient[c])
        /\ UNCHANGED <<link, toServer>>
    BY TookIs, PopIs DEF ClientHeader
  <1>5. QED  BY <1>3, <1>4 DEF next

\* ... and writes them ...
LEMMA FileIs ==
    ASSUME TypeOK, NEW c \in Client, ClientFile(c)
    PROVE  /\ Took(c, "file") /\ toClient'[c] = Tail(toClient[c])
           /\ UNCHANGED <<link, toServer>> /\ ProcessKept(c)
           /\ IF /\ client[c].download.at = "files"
                 /\ Head(toClient[c]).set = client[c].download.set
              THEN /\ client'[c].disk = Written(client[c].disk, Head(toClient[c]).entry)
                   /\ client'[c].download =
                         Awaiting(client[c].download, client[c].download.left - 1)
              ELSE client'[c] = client[c]
  <1> DEFINE next == Awaiting(client[c].download, client[c].download.left - 1)
             disk == Written(client[c].disk, Head(toClient[c]).entry)
  <1>1. IF /\ client[c].download.at = "files"
           /\ Head(toClient[c]).set = client[c].download.set
        THEN client' = [client EXCEPT ![c].disk = disk, ![c].download = next]
        ELSE client' = client
    BY DEF ClientFile
  <1>2. client[c] \in ClientState /\ DOMAIN client = Client
    BY DEF TypeOK
  <1> HIDE DEF next, disk
  <1>3. /\ ProcessKept(c)
        /\ IF /\ client[c].download.at = "files"
              /\ Head(toClient[c]).set = client[c].download.set
           THEN client'[c].disk = disk /\ client'[c].download = next
           ELSE client'[c] = client[c]
    BY <1>1, <1>2 DEF ClientState, ProcessKept
  <1>4. /\ Took(c, "file") /\ toClient'[c] = Tail(toClient[c])
        /\ UNCHANGED <<link, toServer>>
    BY TookIs, PopIs DEF ClientFile
  <1>5. QED  BY <1>3, <1>4 DEF next, disk

\* ... and closes the connection, ...
LEMMA FilesFinishedIs ==
    ASSUME TypeOK, NEW c \in Client, ClientFilesFinished(c)
    PROVE  /\ Took(c, "filesFinished")
           /\ toClient'[c] = IF link[c] = "up" THEN Tail(toClient[c]) \o <<Disconnected>>
                             ELSE Tail(toClient[c])
           /\ SentToServerIs(c, <<Disconnected>>)
           /\ link'[c] = IF link[c] = "up" THEN "closed" ELSE link[c]
           /\ ProcessKept(c) /\ client'[c].disk = client[c].disk
           /\ client'[c].download = client[c].download
  <1>1. client[c] \in ClientState /\ DOMAIN client = Client
    BY DEF TypeOK
  <1>2. client' = [client EXCEPT ![c].structure = FALSE]
    BY DEF ClientFilesFinished
  <1>3. /\ ProcessKept(c) /\ client'[c].disk = client[c].disk
        /\ client'[c].download = client[c].download
    BY <1>1, <1>2 DEF ClientState, ProcessKept
  <1>4. link'[c] = IF link[c] = "up" THEN "closed" ELSE link[c]
    BY Domains DEF ClientFilesFinished
  <1>5. Took(c, "filesFinished")
    BY TookIs DEF ClientFilesFinished
  <1>6. QED  BY <1>3, <1>4, <1>5, FinishedQueues DEF SentToServerIs

\* ... and reads that it is closed ...
LEMMA DisconnectedIs ==
    ASSUME TypeOK, NEW c \in Client, ClientDisconnected(c)
    PROVE  /\ Took(c, "disconnected") /\ toClient'[c] = <<>>
           /\ UNCHANGED <<link, toServer>>
           /\ client'[c].at = "done" /\ client'[c].hashes = client[c].hashes
           /\ client'[c].disk = client[c].disk
           /\ client'[c].download = client[c].download
  <1>1. client[c] \in ClientState /\ DOMAIN client = Client
    BY DEF TypeOK
  <1>2. Took(c, "disconnected")
    BY TookIs DEF ClientDisconnected
  <1>3. QED  BY <1>1, <1>2, Domains DEF ClientDisconnected, ClientState

\* ... or lost.
LEMMA ConnectionLostIs ==
    ASSUME TypeOK, NEW c \in Client, ClientConnectionLost(c)
    PROVE  /\ Took(c, "lost") /\ toClient'[c] = Tail(toClient[c])
           /\ UNCHANGED <<link, toServer>> /\ ProcessKept(c)
           /\ client'[c].disk = client[c].disk
           /\ client'[c].download = NoDownload
  <1>1. client[c] \in ClientState /\ DOMAIN client = Client
    BY DEF TypeOK
  <1>2. Took(c, "lost") /\ toClient'[c] = Tail(toClient[c])
    BY TookIs, PopIs DEF ClientConnectionLost
  <1>3. QED  BY <1>1, <1>2 DEF ClientConnectionLost, ClientState, ProcessKept

\* What the network, the beginning and the end of a process leave alone.
ServerKept ==
    UNCHANGED <<serverDisk, serverHashes, manifests, server, serverReceiver,
                reader, fileList, fileCount>>

LEMMA AcceptIs ==
    ASSUME TypeOK, NEW c \in Client, Accept(c)
    PROVE  /\ ServerKept /\ UNCHANGED <<client, toClient>>
           /\ client[c].at = "connecting" /\ link[c] = "none" /\ link'[c] = "up"
           /\ toServer'[c] = Append(toServer[c], NewConnection)
  BY Domains DEF Accept, ServerKept, hostVars, sets, listVars

LEMMA RefuseIs ==
    ASSUME TypeOK, NEW c \in Client, Refuse(c)
    PROVE  /\ ServerKept /\ UNCHANGED <<client, toClient, toServer>>
           /\ link[c] = "none" /\ link'[c] = "refused"
  BY Domains DEF Refuse, ServerKept, queues, hostVars, sets, listVars

\* A queue is cut when the connection breaks.
LEMMA BreaksIs ==
    ASSUME TypeOK, NEW c \in Client, Breaks(c)
    PROVE  link'[c] = "lost" /\ IsCut(toServer'[c], toServer[c])
  <1>1. toServer[c] \in Seq(ServerPacket)
    BY DEF TypeOK
  <1>2. PICK queue \in Surviving(toServer[c]) :
           toServer' = [toServer EXCEPT ![c] = Append(queue, ConnectionLost)]
    BY DEF Breaks
  <1>3. toServer'[c] = Append(queue, ConnectionLost)
    BY <1>2, Domains
  <1>4. QED  BY <1>1, <1>3, SurvivingPrefix, Domains DEF Breaks

LEMMA LinkLostIs ==
    ASSUME TypeOK, NEW c \in Client, LinkLost(c)
    PROVE  /\ ServerKept /\ client' = client
           /\ link[c] = "up" /\ link'[c] = "lost"
           /\ IsCut(toServer'[c], toServer[c]) /\ IsCut(toClient'[c], toClient[c])
  <1>1. toClient[c] \in Seq(ClientPacket)
    BY DEF TypeOK
  <1>2. PICK queue \in Surviving(toClient[c]) :
           toClient' = [toClient EXCEPT ![c] = Append(queue, ConnectionLost)]
    BY DEF LinkLost
  <1>3. toClient'[c] = Append(queue, ConnectionLost)
    BY <1>2, Domains
  <1>4. IsCut(toClient'[c], toClient[c])
    BY <1>1, <1>3, SurvivingPrefix
  <1>5. QED
    BY <1>4, BreaksIs DEF LinkLost, ServerKept, hostVars, sets, listVars

\* A client that gives up or dies.
LEMMA ProcessEndsIs ==
    ASSUME TypeOK, NEW c \in Client, GiveUp(c) \/ ClientDies(c)
    PROVE  /\ ServerKept /\ toClient'[c] = <<>>
           /\ client[c].at \in {"connecting", "run"}
           /\ client'[c].at \in {"failed", "dead"}
           /\ client[c].at = "run" => client'[c].at = "dead"
           /\ client'[c].hashes = client[c].hashes
           /\ client'[c].disk = client[c].disk
           /\ client'[c].download = client[c].download
           /\ \/ /\ link[c] = "up" /\ link'[c] = "lost"
                 /\ IsCut(toServer'[c], toServer[c])
              \/ /\ link[c] # "up" /\ link'[c] = link[c]
                 /\ toServer'[c] = toServer[c]
  <1>1. PICK how \in {"failed", "dead"} :
           /\ ProcessEnds(c, how) /\ client[c].at \in {"connecting", "run"}
           /\ client[c].at = "run" => how = "dead"
    BY DEF GiveUp, ClientDies
  <1>2. client[c] \in ClientState /\ DOMAIN client = Client
    BY DEF TypeOK
  <1>3. client' = [client EXCEPT ![c].at = how]
    BY <1>1 DEF ProcessEnds
  <1>4. /\ client'[c].at = how /\ client'[c].hashes = client[c].hashes
        /\ client'[c].disk = client[c].disk
        /\ client'[c].download = client[c].download
    BY <1>2, <1>3 DEF ClientState
  <1>5. ServerKept /\ toClient'[c] = <<>>
    BY <1>1, Domains DEF ProcessEnds, ServerKept, hostVars, sets, listVars
  <1>6. \/ /\ link[c] = "up" /\ link'[c] = "lost"
           /\ IsCut(toServer'[c], toServer[c])
        \/ /\ link[c] # "up" /\ link'[c] = link[c]
           /\ toServer'[c] = toServer[c]
    <2>1. CASE link[c] = "up"
      BY <1>1, <2>1, BreaksIs DEF ProcessEnds
    <2>2. CASE link[c] # "up"
      BY <1>1, <2>2 DEF ProcessEnds
    <2>3. QED  BY <2>1, <2>2
  <1>7. QED  BY <1>1, <1>4, <1>5, <1>6

\* main hashes the directory.
LEMMA StartIs ==
    ASSUME TypeOK, NEW c \in Client, ClientStart(c)
    PROVE  /\ ServerKept /\ UNCHANGED <<link, toServer, toClient>>
           /\ client[c].at = "off" /\ client'[c].at = "connecting"
           /\ client'[c].hashes = CreateAllHashFiles(client[c].disk)
           /\ client'[c].disk = client[c].disk
           /\ client'[c].download = client[c].download
  <1> DEFINE hashes == CreateAllHashFiles(client[c].disk)
  <1>1. client' = [client EXCEPT ![c].at = "connecting", ![c].hashes = hashes,
                                 ![c].structure = TRUE]
    BY DEF ClientStart
  <1>2. client[c] \in ClientState /\ DOMAIN client = Client
    BY DEF TypeOK
  <1> HIDE DEF hashes
  <1>3. /\ client'[c].at = "connecting" /\ client'[c].hashes = hashes
        /\ client'[c].disk = client[c].disk
        /\ client'[c].download = client[c].download
    BY <1>1, <1>2 DEF ClientState
  <1>4. /\ ServerKept /\ UNCHANGED <<link, toServer, toClient>>
        /\ client[c].at = "off"
    BY DEF ClientStart, ServerKept, queues, hostVars, sets, listVars
  <1>5. QED  BY <1>3, <1>4 DEF hashes

\* The connection is there.
LEMMA ConnectedIs ==
    ASSUME TypeOK, NEW c \in Client, ClientConnected(c)
    PROVE  /\ ServerKept /\ UNCHANGED <<link, toServer, toClient>>
           /\ client[c].at = "connecting" /\ client'[c].at = "run" /\ link[c] = "up"
           /\ client'[c].hashes = client[c].hashes
           /\ client'[c].disk = client[c].disk
           /\ client'[c].download = client[c].download
  <1>1. client[c] \in ClientState /\ DOMAIN client = Client
    BY DEF TypeOK
  <1>2. QED
    BY <1>1
    DEF ClientConnected, ServerKept, queues, hostVars, sets, listVars, ClientState

-----------------------------------------------------------------------------
(* Queues: what a packet taken, sent or lost changes.                      *)

Has(q, types) == \E i \in 1 .. Len(q) : q[i].type \in types

\* A packet with which a turn is passed on.
TurnPacket == {"new", "sendFile", "clientFileSend", "canFilesBeSent", "filesFinished"}

\* At most one packet of the queue passes the turn on.
Single(q) ==
    \A i, j \in 1 .. Len(q) :
        q[i].type \in TurnPacket /\ q[j].type \in TurnPacket => i = j

\* The positions of the rest of a queue ...
LEMMA TailIs ==
    ASSUME NEW S, NEW q \in Seq(S), q # <<>>
    PROVE  /\ Tail(q) \in Seq(S) /\ Len(Tail(q)) = Len(q) - 1 /\ Head(q) = q[1]
           /\ Len(q) \in Nat \ {0}
           /\ \A i \in 1 .. Len(Tail(q)) : i + 1 \in 2 .. Len(q) /\ Tail(q)[i] = q[i + 1]
           /\ \A i \in 2 .. Len(q) : i - 1 \in 1 .. Len(Tail(q)) /\ Tail(q)[i - 1] = q[i]
  OBVIOUS

\* ... and of a queue with one packet more.
LEMMA SnocIs ==
    ASSUME NEW S, NEW q \in Seq(S), NEW p \in S
    PROVE  /\ q \o <<p>> \in Seq(S) /\ Len(q \o <<p>>) = Len(q) + 1
           /\ Len(q) \in Nat
           /\ \A i \in 1 .. Len(q) : (q \o <<p>>)[i] = q[i]
           /\ (q \o <<p>>)[Len(q) + 1] = p
  OBVIOUS

LEMMA HasNothing == ASSUME NEW types PROVE ~Has(<<>>, types) /\ Single(<<>>)
  BY DEF Has, Single

LEMMA HasMore ==
    ASSUME NEW q, NEW types, NEW more, types \subseteq more, Has(q, types)
    PROVE  Has(q, more)
  BY DEF Has

\* A packet taken ...
LEMMA HasTail ==
    ASSUME NEW S, NEW q \in Seq(S), q # <<>>, NEW types
    PROVE  Has(q, types) <=> Head(q).type \in types \/ Has(Tail(q), types)
  <1>1. Has(Tail(q), types) => Has(q, types)
    <2>1. SUFFICES ASSUME NEW i \in 1 .. Len(Tail(q)), Tail(q)[i].type \in types
                   PROVE  Has(q, types)
      BY DEF Has
    <2>2. i + 1 \in 1 .. Len(q) /\ q[i + 1].type \in types
      BY <2>1, TailIs
    <2>3. QED  BY <2>2 DEF Has
  <1>2. Head(q).type \in types => Has(q, types)
    <2>1. 1 \in 1 .. Len(q) /\ Head(q) = q[1]
      BY TailIs
    <2>2. QED  BY <2>1 DEF Has
  <1>3. Has(q, types) => Head(q).type \in types \/ Has(Tail(q), types)
    <2>1. SUFFICES ASSUME NEW i \in 1 .. Len(q), q[i].type \in types
                   PROVE  Head(q).type \in types \/ Has(Tail(q), types)
      BY DEF Has
    <2>2. i = 1 => Head(q).type \in types
      BY <2>1, TailIs
    <2>3. i # 1 => i - 1 \in 1 .. Len(Tail(q)) /\ Tail(q)[i - 1].type \in types
      <3>1. i # 1 => i \in 2 .. Len(q)
        BY TailIs
      <3>2. QED  BY <2>1, <3>1, TailIs
    <2>4. QED  BY <2>2, <2>3 DEF Has
  <1>4. QED  BY <1>1, <1>2, <1>3

\* ... sent ...
LEMMA HasSent ==
    ASSUME NEW S, NEW q \in Seq(S), NEW p \in S, NEW types
    PROVE  Has(q \o <<p>>, types) <=> Has(q, types) \/ p.type \in types
  <1> DEFINE longer == q \o <<p>>
  <1>1. /\ Len(longer) = Len(q) + 1 /\ Len(q) \in Nat
        /\ \A i \in 1 .. Len(q) : longer[i] = q[i]
        /\ longer[Len(q) + 1] = p
    BY SnocIs
  <1> HIDE DEF longer
  <1>2. \A i \in 1 .. Len(longer) : i \in 1 .. Len(q) \/ i = Len(q) + 1
    BY <1>1
  <1>3. Len(q) + 1 \in 1 .. Len(longer) /\ \A i \in 1 .. Len(q) : i \in 1 .. Len(longer)
    BY <1>1
  <1>4. Has(longer, types) <=> Has(q, types) \/ p.type \in types
    BY <1>1, <1>2, <1>3 DEF Has
  <1>5. QED  BY <1>4 DEF longer

\* ... or lost.
LEMMA HasCut ==
    ASSUME NEW S, NEW q \in Seq(S), NEW cut, IsCut(cut, q),
           NEW types, "lost" \notin types, Has(cut, types)
    PROVE  Has(q, types)
  <1>1. PICK k \in 0 .. Len(q) :
           /\ Len(cut) = k + 1
           /\ cut[k + 1].type = "lost"
           /\ \A i \in 1 .. k : i \in 1 .. Len(q) /\ cut[i] = q[i]
    BY DEF IsCut
  <1>2. \A i \in 1 .. Len(cut) : i \in 1 .. k \/ i = k + 1
    BY <1>1
  <1>3. QED  BY <1>1, <1>2 DEF Has

LEMMA SingleTail ==
    ASSUME NEW S, NEW q \in Seq(S), q # <<>>, Single(q)
    PROVE  /\ Single(Tail(q))
           /\ Head(q).type \in TurnPacket => ~Has(Tail(q), TurnPacket)
  <1>1. Single(Tail(q))
    <2>1. SUFFICES ASSUME NEW i \in 1 .. Len(Tail(q)), NEW j \in 1 .. Len(Tail(q)),
                          Tail(q)[i].type \in TurnPacket, Tail(q)[j].type \in TurnPacket
                   PROVE  i = j
      BY DEF Single
    <2>2. /\ i + 1 \in 1 .. Len(q) /\ j + 1 \in 1 .. Len(q)
          /\ q[i + 1].type \in TurnPacket /\ q[j + 1].type \in TurnPacket
      BY <2>1, TailIs
    <2>3. i + 1 = j + 1
      BY <2>2 DEF Single
    <2>4. QED  BY <2>3
  <1>2. ASSUME Head(q).type \in TurnPacket, Has(Tail(q), TurnPacket)
        PROVE  FALSE
    <2>1. PICK i \in 1 .. Len(Tail(q)) : Tail(q)[i].type \in TurnPacket
      BY <1>2 DEF Has
    <2>2. /\ i + 1 \in 1 .. Len(q) /\ q[i + 1].type \in TurnPacket
          /\ 1 \in 1 .. Len(q) /\ q[1].type \in TurnPacket
      BY <1>2, <2>1, TailIs
    <2>3. i + 1 = 1
      BY <2>2 DEF Single
    <2>4. QED  BY <2>3
  <1>3. QED  BY <1>1, <1>2

LEMMA SingleSent ==
    ASSUME NEW S, NEW q \in Seq(S), NEW p \in S, Single(q),
           p.type \notin TurnPacket \/ ~Has(q, TurnPacket)
    PROVE  Single(q \o <<p>>)
  <1> DEFINE longer == q \o <<p>>
  <1>1. /\ Len(longer) = Len(q) + 1 /\ Len(q) \in Nat
        /\ \A i \in 1 .. Len(q) : longer[i] = q[i]
        /\ longer[Len(q) + 1] = p
    BY SnocIs
  <1> HIDE DEF longer
  <1>2. \A i \in 1 .. Len(longer) : i \in 1 .. Len(q) \/ i = Len(q) + 1
    BY <1>1
  <1>3. Single(longer)
    BY <1>1, <1>2 DEF Single, Has
  <1>4. QED  BY <1>3 DEF longer

LEMMA SingleCut ==
    ASSUME NEW S, NEW q \in Seq(S), NEW cut, IsCut(cut, q), Single(q)
    PROVE  Single(cut)
  <1>1. PICK k \in 0 .. Len(q) :
           /\ Len(cut) = k + 1
           /\ cut[k + 1].type = "lost"
           /\ \A i \in 1 .. k : i \in 1 .. Len(q) /\ cut[i] = q[i]
    BY DEF IsCut
  <1>2. \A i \in 1 .. Len(cut) : cut[i].type \in TurnPacket => i \in 1 .. k
    BY <1>1 DEF TurnPacket
  <1>3. QED  BY <1>1, <1>2 DEF Single

\* The list and ID_SENDFILE are sent one after the other.
LEMMA UploadSent ==
    ASSUME NEW q \in Seq(ServerPacket), NEW set \in SetId, NEW hashes \in SUBSET Hash
    PROVE  /\ \A types : Has(q \o Upload(set, hashes), types) <=>
                 Has(q, types) \/ "fileStructure" \in types \/ "sendFile" \in types
           /\ Single(q) /\ ~Has(q, TurnPacket) => Single(q \o Upload(set, hashes))
  <1> DEFINE file == FileStructure(set, hashes)
             with == q \o <<file>>
  <1>1. file \in ServerPacket /\ ClientReady \in ServerPacket
    BY PacketTypes
  <1>2. file.type = "fileStructure" /\ ClientReady.type = "sendFile"
    BY DEF FileStructure, ClientReady
  <1> HIDE DEF file
  <1>3. with \in Seq(ServerPacket) /\ with \o <<ClientReady>> = q \o <<file, ClientReady>>
    BY <1>1
  <1>4. q \o Upload(set, hashes) = with \o <<ClientReady>>
    BY <1>3 DEF Upload, file
  <1>5. \A types : Has(with, types) <=> Has(q, types) \/ file.type \in types
    BY <1>1, HasSent
  <1>6. Single(q) => Single(with)
    BY <1>1, <1>2, SingleSent DEF TurnPacket
  <1> HIDE DEF with
  <1>7. \A types : Has(with \o <<ClientReady>>, types) <=>
           Has(with, types) \/ ClientReady.type \in types
    BY <1>1, <1>3, HasSent
  <1>8. Single(with) /\ ~Has(with, TurnPacket) => Single(with \o <<ClientReady>>)
    BY <1>1, <1>3, SingleSent
  <1>9. "fileStructure" \notin TurnPacket
    BY DEF TurnPacket
  <1>10. QED  BY <1>2, <1>4, <1>5, <1>6, <1>7, <1>8, <1>9

-----------------------------------------------------------------------------
(* What happens elsewhere.                                                 *)

\* The thread of c is at work.
Busy(c) == reader[c].at # "idle"

\* UpdateServer sends to c, or is about to tell it that it has.
Serving(c) == server # Receiving /\ server.client = c

\* Nothing happens at c.
Kept(c) ==
    /\ Untouched(c) /\ client'[c] = client[c]
    /\ UNCHANGED <<serverDisk, serverHashes>>
    /\ Serving(c) \/ Serving(c)' => server' = server

\* A step of one client happens elsewhere for another.
LEMMA KeptElsewhere ==
    ASSUME TypeOK, NEW c \in Client, NEW d \in Client, ClientStep(d), c # d
    PROVE  Kept(c)
  <1> USE Domains DEF Kept
  <1>1. Untouched(c)
    BY OtherClients
  <1>2. /\ UNCHANGED <<serverDisk, serverHashes>> /\ client'[c] = client[c]
        /\ Serving(c) \/ Serving(c)' => server' = server
    <2>1. CASE ServerServes(d)
      <3>1. /\ \E type : Served(d, type)
            /\ server' = server \/ server'.client = d
        BY <2>1, NewConnectionIs, FileStructureIs, SendFileIs, FileSendIs, ClosedIs
        DEF ServerServes
      <3>2. QED  BY <3>1 DEF Served, Serving
    <2>2. CASE ReaderThread(d)
      <3>1. ReaderOnly
        BY <2>2, ReadIs, InsertIs, ReplyIs DEF ReaderThread
      <3>2. QED  BY <3>1 DEF ReaderOnly
    <2>3. CASE ClientLoop(d)
      <3>1. UNCHANGED <<serverDisk, serverHashes, server>>
        BY <2>3 DEF ClientLoop, ClientSendFile, ClientCanFilesBeSent, ClientHeader,
           ClientFile, ClientFilesFinished, ClientDisconnected, ClientConnectionLost,
           ClientReceives, hostVars
      <3>2. client'[c] = client[c]
        BY <2>3 DEF ClientLoop, ClientSendFile, ClientCanFilesBeSent,
           ClientHeader, ClientFile, ClientFilesFinished, ClientDisconnected,
           ClientConnectionLost
      <3>3. QED  BY <3>1, <3>2
    <2>4. CASE ClientStart(d) \/ ClientConnected(d) \/ GiveUp(d) \/ Environment(d)
      BY <2>4 DEF ClientStart, ClientConnected, GiveUp, Environment, Accept,
         Refuse, LinkLost, ClientDies, ProcessEnds, hostVars
    <2>5. QED
      BY <2>1, <2>2, <2>3, <2>4 DEF ClientStep, ClientProcess
  <1>3. QED  BY <1>1, <1>2

\* A step is one of c, or of UpdateServer for c, or happens elsewhere.
LEMMA StepOf ==
    ASSUME TypeOK, [Next]_vars, NEW c \in Client
    PROVE  Kept(c) \/ ClientStep(c) \/ (Serving(c) /\ ServerSends)
  <1> USE Domains DEF Kept
  <1>1. CASE UNCHANGED vars
    <2>1. Untouched(c)
      BY <1>1 DEF vars, queues, sets, Untouched
    <2>2. QED  BY <1>1, <2>1 DEF vars, hostVars, listVars
  <1>2. CASE ServerSends /\ ~Serving(c)
    <2>1. /\ server # Receiving /\ SendsOnly /\ server.client \in Client
          /\ server' # Receiving => server'.client = server.client
      <3>1. CASE ServerSendNext
        <4>1. server # Receiving /\ SendsOnly /\ server' = [server EXCEPT !.next = @ + 1]
          BY <3>1, SendNextIs
        <4>2. server'.client = server.client
          BY <4>1, ServedClient, <3>1 DEF ServerSendNext, TypeOK, ServerState, Receiving
        <4>3. QED  BY <4>1, <4>2, ServedClient
      <3>2. CASE ServerSent
        BY <3>2, SentAllIs, ServedClient
      <3>3. CASE ServerWaited
        BY <3>3, WaitedIs, ServedClient
      <3>4. QED  BY <1>2, <3>1, <3>2, <3>3 DEF ServerSends
    <2>2. server.client # c /\ ~Serving(c)'
      BY <1>2, <2>1 DEF Serving
    <2>3. toClient'[c] = toClient[c]
      <3>1. ASSUME NEW packets, toClient' = Sent(toClient, server.client, packets)
            PROVE  toClient'[c] = toClient[c]
        BY <2>2, <3>1 DEF Sent
      <3>2. QED
        BY <1>2, <3>1 DEF ServerSends, ServerSendNext, ServerSent, ServerWaited, queues
    <2>4. QED  BY <1>2, <2>1, <2>2, <2>3 DEF Untouched, SendsOnly
  <1>3. ASSUME NEW d \in Client, ClientStep(d), c # d
        PROVE  Kept(c)
    BY <1>3, KeptElsewhere
  <1>4. QED  BY <1>1, <1>2, <1>3 DEF Next, ClientStep

-----------------------------------------------------------------------------
(* The queues of a client after a step.                                    *)

LEMMA ToClientAfter ==
    ASSUME TypeOK, NEW c \in Client, NEW p \in ClientPacket, SentToClientIs(c, p)
    PROVE  /\ \A types : Has(toClient'[c], types) <=>
                 Has(toClient[c], types) \/ (link[c] = "up" /\ p.type \in types)
           /\ Single(toClient[c]) /\ (p.type \notin TurnPacket \/ ~Has(toClient[c], TurnPacket))
                 => Single(toClient'[c])
  <1>1. toClient[c] \in Seq(ClientPacket)
    BY DEF TypeOK
  <1>2. CASE link[c] = "up"
    <2>1. toClient'[c] = toClient[c] \o <<p>>
      BY <1>2 DEF SentToClientIs
    <2>2. \A types : Has(toClient[c] \o <<p>>, types) <=>
             Has(toClient[c], types) \/ p.type \in types
      BY <1>1, HasSent
    <2>3. Single(toClient[c]) /\ (p.type \notin TurnPacket \/ ~Has(toClient[c], TurnPacket))
             => Single(toClient[c] \o <<p>>)
      BY <1>1, SingleSent
    <2>4. QED  BY <1>2, <2>1, <2>2, <2>3
  <1>3. CASE link[c] # "up"
    BY <1>3 DEF SentToClientIs
  <1>4. QED  BY <1>2, <1>3

LEMMA ToServerAfter ==
    ASSUME TypeOK, NEW c \in Client, NEW p \in ServerPacket, SentToServerIs(c, <<p>>)
    PROVE  /\ \A types : Has(toServer'[c], types) <=>
                 Has(toServer[c], types) \/ (link[c] = "up" /\ p.type \in types)
           /\ Single(toServer[c]) /\ (p.type \notin TurnPacket \/ ~Has(toServer[c], TurnPacket))
                 => Single(toServer'[c])
  <1>1. toServer[c] \in Seq(ServerPacket)
    BY DEF TypeOK
  <1>2. CASE link[c] = "up"
    <2>1. toServer'[c] = toServer[c] \o <<p>>
      BY <1>2 DEF SentToServerIs
    <2>2. \A types : Has(toServer[c] \o <<p>>, types) <=>
             Has(toServer[c], types) \/ p.type \in types
      BY <1>1, HasSent
    <2>3. Single(toServer[c]) /\ (p.type \notin TurnPacket \/ ~Has(toServer[c], TurnPacket))
             => Single(toServer[c] \o <<p>>)
      BY <1>1, SingleSent
    <2>4. QED  BY <1>2, <2>1, <2>2, <2>3
  <1>3. CASE link[c] # "up"
    BY <1>3 DEF SentToServerIs
  <1>4. QED  BY <1>2, <1>3

LEMMA ServerTook ==
    ASSUME TypeOK, NEW c \in Client, NEW type, Served(c, type)
    PROVE  /\ \A types : Has(toServer[c], types) <=>
                 type \in types \/ Has(toServer'[c], types)
           /\ Single(toServer[c]) =>
                 /\ Single(toServer'[c])
                 /\ type \in TurnPacket => ~Has(toServer'[c], TurnPacket)
  <1>1. toServer[c] \in Seq(ServerPacket)
    BY DEF TypeOK
  <1>2. /\ toServer[c] # <<>> /\ Head(toServer[c]).type = type
        /\ toServer'[c] = Tail(toServer[c])
    BY DEF Served
  <1>3. \A types : Has(toServer[c], types) <=>
           Head(toServer[c]).type \in types \/ Has(Tail(toServer[c]), types)
    BY <1>1, <1>2, HasTail
  <1>4. Single(toServer[c]) =>
           /\ Single(Tail(toServer[c]))
           /\ Head(toServer[c]).type \in TurnPacket => ~Has(Tail(toServer[c]), TurnPacket)
    BY <1>1, <1>2, SingleTail
  <1>5. QED  BY <1>2, <1>3, <1>4

LEMMA ClientTook ==
    ASSUME TypeOK, NEW c \in Client, NEW type, Took(c, type),
           NEW rest, rest = Tail(toClient[c])
    PROVE  /\ \A types : Has(toClient[c], types) <=> type \in types \/ Has(rest, types)
           /\ Single(toClient[c]) =>
                 /\ Single(rest)
                 /\ type \in TurnPacket => ~Has(rest, TurnPacket)
  <1>1. toClient[c] \in Seq(ClientPacket)
    BY DEF TypeOK
  <1>2. toClient[c] # <<>> /\ Head(toClient[c]).type = type
    BY DEF Took
  <1>3. \A types : Has(toClient[c], types) <=>
           Head(toClient[c]).type \in types \/ Has(Tail(toClient[c]), types)
    BY <1>1, <1>2, HasTail
  <1>4. Single(toClient[c]) =>
           /\ Single(Tail(toClient[c]))
           /\ Head(toClient[c]).type \in TurnPacket => ~Has(Tail(toClient[c]), TurnPacket)
    BY <1>1, <1>2, SingleTail
  <1>5. QED  BY <1>2, <1>3, <1>4

\* What each Send sends.
LEMMA SentTypes ==
    ASSUME TypeOK, NEW c \in Client
    PROVE  /\ SendFile(nextSet) \in ClientPacket /\ SendFile(nextSet).type = "sendFile"
           /\ Header(FirstSet, fileCount) \in ClientPacket
           /\ Header(FirstSet, fileCount).type = "header"
           /\ FilesFinished \in ClientPacket /\ FilesFinished.type = "filesFinished"
           /\ CanFilesBeSent(reader[c].toDelete) \in ClientPacket
           /\ CanFilesBeSent(reader[c].toDelete).type = "canFilesBeSent"
           /\ ClientFileSend(FirstSet) \in ServerPacket
           /\ ClientFileSend(FirstSet).type = "clientFileSend"
           /\ Disconnected \in ServerPacket /\ Disconnected \in ClientPacket
           /\ Disconnected.type = "disconnected"
           /\ NewConnection \in ServerPacket /\ NewConnection.type = "new"
  <1>1. /\ nextSet \in SetId /\ FirstSet \in SetId /\ fileCount \in Nat
        /\ reader[c].toDelete \in SUBSET Hash
    BY SetIdFacts DEF TypeOK, FirstSet, ReaderState
  <1>2. QED
    BY <1>1, PacketTypes
    DEF SendFile, Header, FilesFinished, CanFilesBeSent, ClientFileSend, Disconnected,
        NewConnection

LEMMA FileSent ==
    ASSUME TypeOK, server # Receiving, server.at = "send"
    PROVE  /\ File(server.set, Slot(server.next)) \in ClientPacket
           /\ File(server.set, Slot(server.next)).type = "file"
  <1>1. server.set \in SetId /\ Slot(server.next) \in Entry \cup {Hole}
    BY ServedClient, SlotType
  <1>2. QED  BY <1>1, PacketTypes DEF File

LEMMA UploadAfter ==
    ASSUME TypeOK, NEW c \in Client, ClientSendFile(c)
    PROVE  /\ \A types : Has(toServer'[c], types) <=>
                 \/ Has(toServer[c], types)
                 \/ link[c] = "up" /\ ("fileStructure" \in types \/ "sendFile" \in types)
           /\ Single(toServer[c]) /\ ~Has(toServer[c], TurnPacket) => Single(toServer'[c])
  <1> DEFINE set == Head(toClient[c]).set
  <1>1. toServer[c] \in Seq(ServerPacket) /\ toClient[c] \in Seq(ClientPacket)
    BY DEF TypeOK
  <1>2. set \in SetId /\ client[c].hashes \in SUBSET Hash
    <2>1. toClient[c] # <<>> /\ Head(toClient[c]).type = "sendFile"
      BY ClientSendFileIs DEF Took
    <2>2. QED  BY <1>1, <2>1, HeadTailType, ClientPacketFields DEF TypeOK, ClientState
  <1>3. SentToServerIs(c, Upload(set, client[c].hashes))
    BY ClientSendFileIs
  <1> HIDE DEF set
  <1>4. CASE link[c] = "up"
    <2>1. toServer'[c] = toServer[c] \o Upload(set, client[c].hashes)
      BY <1>3, <1>4 DEF SentToServerIs
    <2>2. QED  BY <1>1, <1>2, <1>4, <2>1, UploadSent
  <1>5. CASE link[c] # "up"
    BY <1>3, <1>5 DEF SentToServerIs
  <1>6. QED  BY <1>4, <1>5

LEMMA CutAfter ==
    ASSUME TypeOK, NEW c \in Client
    PROVE  /\ IsCut(toServer'[c], toServer[c]) =>
                 /\ \A types : "lost" \notin types /\ Has(toServer'[c], types) => Has(toServer[c], types)
                 /\ Single(toServer[c]) => Single(toServer'[c])
           /\ IsCut(toClient'[c], toClient[c]) =>
                 /\ \A types : "lost" \notin types /\ Has(toClient'[c], types) => Has(toClient[c], types)
                 /\ Single(toClient[c]) => Single(toClient'[c])
  <1>1. toServer[c] \in Seq(ServerPacket) /\ toClient[c] \in Seq(ClientPacket)
    BY DEF TypeOK
  <1>2. ASSUME NEW S, NEW q \in Seq(S), NEW cut, IsCut(cut, q)
        PROVE  /\ \A types : "lost" \notin types /\ Has(cut, types) => Has(q, types)
               /\ Single(q) => Single(cut)
    BY <1>2, HasCut, SingleCut
  <1>3. QED  BY <1>1, <1>2

-----------------------------------------------------------------------------
(* How a connection ends.                                                  *)

EndPacket == {"lost", "disconnected"}

\* The end of a connection is read last.
Ended(q) == \A i \in 1 .. Len(q) : q[i].type \in EndPacket => i = Len(q)

Ends(c) ==
    /\ link[c] \in {"none", "refused"} => client[c].at \notin {"run", "done"} /\ ~Serving(c)
    /\ client[c].at = "off" => link[c] = "none"
    /\ link[c] = "up" => client[c].at \in {"connecting", "run"}
    /\ link[c] = "closed" => client[c].at \in {"run", "done", "dead"}
    /\ Ended(toClient[c])
    /\ Has(toClient[c], {"lost"}) => link[c] = "lost"
    /\ Has(toClient[c], {"disconnected"}) => link[c] = "closed"
    /\ link[c] = "lost" /\ client[c].at \in {"connecting", "run"} /\ toClient[c] # <<>> =>
          Has(toClient[c], {"lost"})

LEMMA EndedQueue ==
    ASSUME NEW S, NEW q \in Seq(S)
    PROVE  /\ Ended(<<>>)
           /\ Ended(q) /\ q # <<>> =>
                 /\ Ended(Tail(q))
                 /\ Head(q).type \in EndPacket => Tail(q) = <<>>
           /\ \A p \in S : ~Has(q, EndPacket) => Ended(q \o <<p>>)
           /\ \A cut : IsCut(cut, q) /\ ~Has(q, EndPacket) =>
                 Ended(cut) /\ Has(cut, {"lost"})
  <1>1. Ended(<<>>)
    BY DEF Ended
  <1>2. ASSUME Ended(q), q # <<>>
        PROVE  /\ Ended(Tail(q))
               /\ Head(q).type \in EndPacket => Tail(q) = <<>>
    <2>1. Ended(Tail(q))
      <3>1. SUFFICES ASSUME NEW i \in 1 .. Len(Tail(q)), Tail(q)[i].type \in EndPacket
                     PROVE  i = Len(Tail(q))
        BY DEF Ended
      <3>2. i + 1 \in 1 .. Len(q) /\ q[i + 1].type \in EndPacket
        BY <1>2, <3>1, TailIs
      <3>3. i + 1 = Len(q) /\ Len(Tail(q)) = Len(q) - 1 /\ Len(q) \in Nat
        BY <1>2, <3>2, TailIs DEF Ended
      <3>4. QED  BY <3>3
    <2>2. ASSUME Head(q).type \in EndPacket
          PROVE  Tail(q) = <<>>
      <3>1. 1 \in 1 .. Len(q) /\ q[1].type \in EndPacket
        BY <1>2, <2>2, TailIs
      <3>2. 1 = Len(q)
        BY <1>2, <3>1 DEF Ended
      <3> DEFINE rest == Tail(q)
      <3>3. rest \in Seq(S) /\ Len(rest) = 0
        BY <1>2, <3>2, TailIs
      <3> HIDE DEF rest
      <3>4. rest = <<>>
        BY <3>3
      <3>5. QED  BY <3>4 DEF rest
    <2>3. QED  BY <2>1, <2>2
  <1>3. ASSUME NEW p \in S, ~Has(q, EndPacket)
        PROVE  Ended(q \o <<p>>)
    <2> DEFINE longer == q \o <<p>>
    <2>1. /\ Len(longer) = Len(q) + 1 /\ Len(q) \in Nat
          /\ \A i \in 1 .. Len(q) : longer[i] = q[i]
      BY SnocIs
    <2> HIDE DEF longer
    <2>2. \A i \in 1 .. Len(longer) : i \in 1 .. Len(q) \/ i = Len(q) + 1
      BY <2>1
    <2>3. Ended(longer)
      BY <1>3, <2>1, <2>2 DEF Ended, Has
    <2>4. QED  BY <2>3 DEF longer
  <1>4. ASSUME NEW cut, IsCut(cut, q), ~Has(q, EndPacket)
        PROVE  Ended(cut) /\ Has(cut, {"lost"})
    <2>1. PICK k \in 0 .. Len(q) :
             /\ Len(cut) = k + 1
             /\ cut[k + 1].type = "lost"
             /\ \A i \in 1 .. k : i \in 1 .. Len(q) /\ cut[i] = q[i]
      BY <1>4 DEF IsCut
    <2>2. \A i \in 1 .. Len(cut) : i \in 1 .. k \/ i = k + 1
      BY <2>1
    <2>3. k + 1 \in 1 .. Len(cut)
      BY <2>1
    <2>4. QED  BY <1>4, <2>1, <2>2, <2>3 DEF Ended, Has
  <1>5. QED  BY <1>1, <1>2, <1>3, <1>4

\* A queue that holds no end of a connection.
LEMMA NoEnd ==
    ASSUME NEW q
    PROVE  Has(q, EndPacket) <=> Has(q, {"lost"}) \/ Has(q, {"disconnected"})
  BY DEF Has, EndPacket

\* Something is sent to the client or nothing happens to its connection.
LEMMA EndsSent ==
    ASSUME TypeOK, NEW c \in Client, Ends(c), client'[c].at = client[c].at, link'[c] = link[c],
           Serving(c)' => Serving(c) \/ link[c] \notin {"none", "refused"},
           toClient'[c] = toClient[c] \/
               \E p \in ClientPacket : SentToClientIs(c, p) /\ p.type \notin EndPacket
    PROVE  Ends(c)'
  <1>1. toClient[c] \in Seq(ClientPacket)
    BY DEF TypeOK
  <1>2. CASE toClient'[c] = toClient[c]
    BY <1>2 DEF Ends
  <1>3. ASSUME NEW p \in ClientPacket, SentToClientIs(c, p), p.type \notin EndPacket, link[c] = "up"
        PROVE  Ends(c)'
    <2>1. toClient'[c] = toClient[c] \o <<p>>
      BY <1>3 DEF SentToClientIs
    <2>2. ~Has(toClient[c], {"lost"}) /\ ~Has(toClient[c], {"disconnected"})
      BY <1>3 DEF Ends
    <2>3. Ended(toClient[c] \o <<p>>)
      BY <1>1, <2>2, EndedQueue, NoEnd
    <2>4. ~Has(toClient'[c], {"lost"}) /\ ~Has(toClient'[c], {"disconnected"})
      BY <1>3, <2>2, ToClientAfter DEF EndPacket
    <2>5. QED  BY <1>3, <2>1, <2>3, <2>4 DEF Ends
  <1>4. QED  BY <1>2, <1>3 DEF SentToClientIs

\* The client takes a packet and goes on.
LEMMA EndsTook ==
    ASSUME TypeOK, NEW c \in Client, Ends(c), NEW type, Took(c, type),
           client'[c].at = client[c].at, link'[c] = link[c], toClient'[c] = Tail(toClient[c])
    PROVE  Ends(c)'
  <1> DEFINE rest == Tail(toClient[c])
  <1>1. toClient[c] \in Seq(ClientPacket) /\ toClient[c] # <<>> /\ Head(toClient[c]).type = type
    BY DEF TypeOK, Took
  <1>2. Ended(rest) /\ (type \in EndPacket => rest = <<>>)
    BY <1>1, EndedQueue DEF Ends
  <1>3. \A types : Has(toClient[c], types) <=> type \in types \/ Has(rest, types)
    BY ClientTook
  <1>4. /\ Has(rest, {"lost"}) => link[c] = "lost"
        /\ Has(rest, {"disconnected"}) => link[c] = "closed"
    BY <1>3 DEF Ends
  <1>5. ASSUME link[c] = "lost", rest # <<>>
        PROVE  Has(rest, {"lost"})
    <2>1. client[c].at = "run"
      BY DEF Took
    <2>2. Has(toClient[c], {"lost"})
      BY <1>1, <1>5, <2>1 DEF Ends
    <2>3. type # "lost"
      BY <1>2, <1>5 DEF EndPacket
    <2>4. QED  BY <1>3, <2>2, <2>3
  <1> HIDE DEF rest
  <1>6. toClient'[c] = rest /\ UNCHANGED server
    BY DEF rest, Took
  <1>7. QED  BY <1>2, <1>4, <1>5, <1>6 DEF Ends, Serving

LEMMA EndsStep ==
    ASSUME TypeOK, NEW c \in Client, Opening(c), Ends(c), [Next]_vars
    PROVE  Ends(c)'
  <1>1. CASE Kept(c)
    BY <1>1, EndsSent DEF Kept, Untouched, Serving
  <1>2. CASE Serving(c) /\ ServerSends
    <2>1. server.client = c /\ SendsOnly
      BY <1>2, SendNextIs, SentAllIs, WaitedIs DEF Serving, ServerSends
    <2>2. toClient'[c] = toClient[c] \/
             \E p \in ClientPacket : SentToClientIs(c, p) /\ p.type \notin EndPacket
      <3>1. CASE ServerSendNext
        BY <2>1, <3>1, SendNextIs, FileSent DEF EndPacket
      <3>2. CASE ServerSent
        BY <3>2, SentAllIs
      <3>3. CASE ServerWaited
        BY <2>1, <3>3, WaitedIs, SentTypes DEF EndPacket
      <3>4. QED  BY <1>2, <3>1, <3>2, <3>3 DEF ServerSends
    <2>3. QED  BY <1>2, <2>1, <2>2, EndsSent DEF SendsOnly
  <1>3. CASE ServerServes(c)
    <2>1. /\ toServer[c] # <<>> /\ client' = client /\ link' = link
      BY <1>3, NewConnectionIs, FileStructureIs, SendFileIs, FileSendIs, ClosedIs
      DEF ServerServes, Served
    <2>2. link[c] \notin {"none", "refused"}
      BY <2>1 DEF Opening
    <2>3. toClient'[c] = toClient[c] \/
             \E p \in ClientPacket : SentToClientIs(c, p) /\ p.type \notin EndPacket
      <3>1. CASE ServerNewConnection(c)
        BY <3>1, NewConnectionIs, SentTypes DEF EndPacket
      <3>2. CASE ServerFileStructure(c) \/ ServerSendFile(c) \/ ServerClosed(c)
        BY <3>2, FileStructureIs, SendFileIs, ClosedIs
      <3>3. CASE ServerFileSend(c)
        BY <3>3, FileSendIs, SentTypes DEF EndPacket
      <3>4. QED  BY <1>3, <3>1, <3>2, <3>3 DEF ServerServes
    <2>4. QED  BY <2>1, <2>2, <2>3, EndsSent
  <1>4. CASE ReaderThread(c)
    <2>1. ReaderOnly
      BY <1>4, ReadIs, InsertIs, ReplyIs DEF ReaderThread
    <2>2. toClient'[c] = toClient[c] \/
             \E p \in ClientPacket : SentToClientIs(c, p) /\ p.type \notin EndPacket
      <3>1. CASE ReaderReply(c)
        BY <3>1, ReplyIs, SentTypes DEF EndPacket
      <3>2. CASE ~ReaderReply(c)
        BY <1>4, <3>2, ReadIs, InsertIs DEF ReaderThread
      <3>3. QED  BY <3>1, <3>2
    <2>3. QED  BY <2>1, <2>2, EndsSent DEF ReaderOnly, Serving
  <1>5. CASE ClientLoop(c)
    <2>1. CASE ClientSendFile(c) \/ ClientCanFilesBeSent(c)
      BY <2>1, ClientSendFileIs, CanFilesBeSentIs, EndsTook DEF ProcessKept
    <2>2. CASE ClientHeader(c) \/ ClientFile(c) \/ ClientConnectionLost(c)
      BY <2>2, HeaderIs, FileIs, ConnectionLostIs, EndsTook DEF ProcessKept
    <2>3. CASE ClientFilesFinished(c)
      <3>1. /\ Took(c, "filesFinished") /\ client[c].at = "run" /\ client'[c].at = client[c].at
            /\ server' = server
        BY <2>3, FilesFinishedIs DEF Took, ProcessKept
      <3>2. CASE link[c] # "up"
        BY <2>3, <3>1, <3>2, FilesFinishedIs, EndsTook
      <3>3. CASE link[c] = "up"
        <4> DEFINE rest == Tail(toClient[c])
        <4>1. toClient[c] \in Seq(ClientPacket) /\ toClient[c] # <<>>
          BY <3>1 DEF TypeOK, Took
        <4>2. rest \in Seq(ClientPacket) /\ Disconnected \in ClientPacket
              /\ Disconnected.type = "disconnected"
          BY <4>1, TailIs, SentTypes
        <4>3. toClient'[c] = rest \o <<Disconnected>> /\ link'[c] = "closed"
          BY <2>3, <3>3, FilesFinishedIs
        <4>4. ~Has(toClient[c], {"lost"}) /\ ~Has(toClient[c], {"disconnected"})
          BY <3>3 DEF Ends
        <4>5. ~Has(rest, {"lost"}) /\ ~Has(rest, {"disconnected"})
          BY <3>1, <4>4, ClientTook
        <4> HIDE DEF rest
        <4>6. Ended(rest \o <<Disconnected>>)
          BY <4>2, <4>5, EndedQueue, NoEnd
        <4>7. ~Has(rest \o <<Disconnected>>, {"lost"})
          BY <4>2, <4>5, HasSent
        <4>8. QED  BY <3>1, <3>3, <4>3, <4>6, <4>7 DEF Ends
      <3>4. QED  BY <3>2, <3>3
    <2>4. CASE ClientDisconnected(c)
      <3>1. /\ Took(c, "disconnected") /\ toClient'[c] = <<>> /\ link' = link
            /\ client'[c].at = "done" /\ server' = server /\ client[c].at = "run"
        BY <2>4, DisconnectedIs DEF Took
      <3>2. Has(toClient[c], {"disconnected"})
        BY <3>1, ClientTook
      <3>3. link[c] = "closed"
        BY <3>2 DEF Ends
      <3>4. Ended(<<>>) /\ ~Has(<<>>, {"lost"}) /\ ~Has(<<>>, {"disconnected"})
        BY HasNothing DEF Ended
      <3>5. QED  BY <3>1, <3>3, <3>4 DEF Ends
    <2>5. QED  BY <1>5, <2>1, <2>2, <2>3, <2>4 DEF ClientLoop
  <1>6. CASE GiveUp(c) \/ ClientDies(c)
    <2>1. Ended(<<>>) /\ ~Has(<<>>, {"lost"}) /\ ~Has(<<>>, {"disconnected"})
      BY HasNothing DEF Ended
    <2>2. /\ toClient'[c] = <<>> /\ server' = server
          /\ client[c].at \in {"connecting", "run"}
          /\ client'[c].at \in {"failed", "dead"}
          /\ client[c].at = "run" => client'[c].at = "dead"
          /\ IF link[c] = "up" THEN link'[c] = "lost" ELSE link'[c] = link[c]
      BY <1>6, ProcessEndsIs DEF ServerKept
    <2>3. QED  BY <2>1, <2>2 DEF Ends, Serving
  <1>7. CASE LinkLost(c)
    <2>1. /\ client' = client /\ server' = server /\ link[c] = "up" /\ link'[c] = "lost"
          /\ IsCut(toClient'[c], toClient[c]) /\ toClient[c] \in Seq(ClientPacket)
      BY <1>7, LinkLostIs DEF ServerKept, TypeOK
    <2>2. ~Has(toClient[c], {"lost"}) /\ ~Has(toClient[c], {"disconnected"})
      BY <2>1 DEF Ends
    <2>3. Ended(toClient'[c]) /\ Has(toClient'[c], {"lost"})
      BY <2>1, <2>2, EndedQueue, NoEnd
    <2>4. ~Has(toClient'[c], {"disconnected"})
      BY <2>1, <2>2, HasCut
    <2>5. QED  BY <2>1, <2>3, <2>4 DEF Ends, Serving
  <1>8. CASE Accept(c) \/ Refuse(c)
    <2>1. /\ link[c] = "none" /\ link'[c] \in {"up", "refused"}
          /\ link'[c] = "up" => client[c].at = "connecting"
          /\ UNCHANGED <<client, toClient, server>>
      BY <1>8, AcceptIs, RefuseIs DEF ServerKept
    <2>2. client[c].at # "off"
      BY <1>8 DEF Accept, Refuse
    <2>3. QED  BY <2>1, <2>2 DEF Ends, Serving
  <1>9. CASE ClientStart(c) \/ ClientConnected(c)
    <2>1. /\ UNCHANGED <<link, toClient, server>>
          /\ \/ client[c].at = "off" /\ client'[c].at = "connecting"
             \/ client[c].at = "connecting" /\ client'[c].at = "run" /\ link[c] = "up"
      BY <1>9, StartIs, ConnectedIs DEF ServerKept
    <2>2. QED  BY <2>1 DEF Ends, Serving
  <1>10. QED
    BY <1>1, <1>2, <1>3, <1>4, <1>5, <1>6, <1>7, <1>8, <1>9, StepOf
    DEF ClientStep, ClientProcess, Environment

-----------------------------------------------------------------------------
(* Whose turn it is.                                                       *)

\* Of the packets in flight, the thread and UpdateServer, one at most is to do
\* something for the client.
OneTurn(c) ==
    /\ Single(toServer[c]) /\ Single(toClient[c])
    /\ Has(toServer[c], TurnPacket) =>
          ~Has(toClient[c], TurnPacket) /\ ~Busy(c) /\ ~Serving(c)
    /\ Has(toClient[c], TurnPacket) => ~Busy(c) /\ ~Serving(c)
    /\ Busy(c) => ~Serving(c)

\* UpdateServer takes a packet of c.
LEMMA TurnServed ==
    ASSUME TypeOK, NEW c \in Client, OneTurn(c), ServerServes(c)
    PROVE  OneTurn(c)'
  <1>1. CASE ServerFileStructure(c) \/ ServerClosed(c)
    <2>1. PICK type \in {"fileStructure", "disconnected", "lost"} : Served(c, type)
      BY <1>1, FileStructureIs, ClosedIs
    <2>2. /\ Single(toServer'[c])
          /\ Has(toServer'[c], TurnPacket) => Has(toServer[c], TurnPacket)
      BY <2>1, ServerTook DEF OneTurn
    <2>3. toClient'[c] = toClient[c] /\ UNCHANGED <<server, reader>>
      BY <1>1, FileStructureIs, ClosedIs
    <2>4. QED  BY <2>2, <2>3 DEF OneTurn, Busy, Serving
  <1>2. ASSUME NEW type \in TurnPacket, Served(c, type)
        PROVE  /\ Single(toServer'[c]) /\ ~Has(toServer'[c], TurnPacket)
               /\ ~Has(toClient[c], TurnPacket) /\ Single(toClient[c])
               /\ ~Busy(c) /\ ~Serving(c) /\ server = Receiving
    <2>1. Has(toServer[c], TurnPacket) /\ Single(toServer'[c]) /\ ~Has(toServer'[c], TurnPacket)
      BY <1>2, ServerTook DEF OneTurn
    <2>2. QED  BY <1>2, <2>1 DEF OneTurn, Served
  <1>3. CASE ServerNewConnection(c)
    <2>1. /\ Served(c, "new") /\ "new" \in TurnPacket
          /\ SentToClientIs(c, SendFile(nextSet)) /\ UNCHANGED <<server, reader>>
      BY <1>3, NewConnectionIs DEF TurnPacket
    <2>2. Single(toClient'[c])
      BY <1>2, <2>1, ToClientAfter, SentTypes
    <2>3. QED  BY <1>2, <2>1, <2>2 DEF OneTurn, Busy, Serving
  <1>4. CASE ServerSendFile(c)
    <2>1. /\ Served(c, "sendFile") /\ "sendFile" \in TurnPacket
          /\ toClient'[c] = toClient[c] /\ server' = server
      BY <1>4, SendFileIs DEF TurnPacket
    <2>2. QED  BY <1>2, <2>1 DEF OneTurn, Serving
  <1>5. CASE ServerFileSend(c)
    <2>1. /\ Served(c, "clientFileSend") /\ "clientFileSend" \in TurnPacket
          /\ SentToClientIs(c, Header(FirstSet, fileCount)) /\ reader' = reader
      BY <1>5, FileSendIs DEF TurnPacket
    <2>2. Single(toClient'[c]) /\ ~Has(toClient'[c], TurnPacket)
      BY <1>2, <2>1, ToClientAfter, SentTypes DEF TurnPacket
    <2>3. QED  BY <1>2, <2>1, <2>2 DEF OneTurn, Busy
  <1>6. QED  BY <1>1, <1>3, <1>4, <1>5 DEF ServerServes

\* UpdateServer sends to c.
LEMMA TurnSends ==
    ASSUME TypeOK, NEW c \in Client, OneTurn(c), Serving(c), ServerSends
    PROVE  OneTurn(c)'
  <1>1. /\ ~Has(toServer[c], TurnPacket) /\ ~Has(toClient[c], TurnPacket) /\ ~Busy(c)
        /\ Single(toServer[c]) /\ Single(toClient[c]) /\ server.client = c
    BY DEF OneTurn, Serving
  <1>2. UNCHANGED <<toServer, reader>>
    BY SendNextIs, SentAllIs, WaitedIs DEF ServerSends, SendsOnly
  <1>3. CASE ServerSendNext
    <2>1. SentToClientIs(c, File(server.set, Slot(server.next))) /\ server # Receiving /\ server.at = "send"
      BY <1>1, <1>3, SendNextIs
    <2>2. Single(toClient'[c]) /\ ~Has(toClient'[c], TurnPacket)
      BY <1>1, <2>1, FileSent, ToClientAfter DEF TurnPacket
    <2>3. QED  BY <1>1, <1>2, <2>2 DEF OneTurn, Busy
  <1>4. CASE ServerSent
    <2>1. toClient' = toClient
      BY <1>4, SentAllIs
    <2>2. QED  BY <1>1, <1>2, <2>1 DEF OneTurn, Busy
  <1>5. CASE ServerWaited
    <2>1. SentToClientIs(c, FilesFinished) /\ server' = Receiving
      BY <1>1, <1>5, WaitedIs
    <2>2. Single(toClient'[c])
      BY <1>1, <2>1, SentTypes, ToClientAfter
    <2>3. QED  BY <1>1, <1>2, <2>1, <2>2 DEF OneTurn, Busy, Serving
  <1>6. QED  BY <1>3, <1>4, <1>5 DEF ServerSends

\* The thread of c.
LEMMA TurnReader ==
    ASSUME TypeOK, NEW c \in Client, OneTurn(c), ReaderThread(c)
    PROVE  OneTurn(c)'
  <1>1. Busy(c) /\ ReaderOnly
    BY ReadIs, InsertIs, ReplyIs DEF ReaderThread, Busy
  <1>2. /\ ~Has(toServer[c], TurnPacket) /\ ~Has(toClient[c], TurnPacket) /\ ~Serving(c)
        /\ Single(toServer[c]) /\ Single(toClient[c])
    BY <1>1 DEF OneTurn
  <1>3. ~Serving(c)' /\ toServer'[c] = toServer[c]
    BY <1>1, <1>2 DEF ReaderOnly, Serving
  <1>4. CASE ReaderReply(c)
    <2>1. SentToClientIs(c, CanFilesBeSent(reader[c].toDelete)) /\ ~Busy(c)'
      BY <1>4, ReplyIs DEF Busy, IdleReader
    <2>2. Single(toClient'[c])
      BY <1>2, <2>1, SentTypes, ToClientAfter
    <2>3. QED  BY <1>2, <1>3, <2>1, <2>2 DEF OneTurn
  <1>5. CASE ~ReaderReply(c)
    <2>1. toClient'[c] = toClient[c]
      BY <1>5, ReadIs, InsertIs DEF ReaderThread
    <2>2. QED  BY <1>2, <1>3, <2>1 DEF OneTurn
  <1>6. QED  BY <1>4, <1>5

\* The client takes a packet.
LEMMA TurnClient ==
    ASSUME TypeOK, NEW c \in Client, OneTurn(c), ClientLoop(c)
    PROVE  OneTurn(c)'
  <1> DEFINE rest == Tail(toClient[c])
  <1>1. ASSUME NEW type, Took(c, type)
        PROVE  /\ Single(rest) /\ (Has(rest, TurnPacket) => Has(toClient[c], TurnPacket))
               /\ UNCHANGED <<server, reader>>
               /\ type \in TurnPacket =>
                     /\ ~Has(rest, TurnPacket) /\ ~Has(toServer[c], TurnPacket)
                     /\ ~Busy(c) /\ ~Serving(c)
    BY <1>1, ClientTook DEF OneTurn, Took
  <1>2. CASE ClientSendFile(c)
    <2>1. Took(c, "sendFile") /\ toClient'[c] = rest /\ "sendFile" \in TurnPacket
      BY <1>2, ClientSendFileIs DEF TurnPacket
    <2>2. Single(toServer'[c])
      BY <1>1, <1>2, <2>1, UploadAfter DEF OneTurn
    <2>3. QED  BY <1>1, <2>1, <2>2 DEF OneTurn, Busy, Serving
  <1>3. CASE ClientCanFilesBeSent(c)
    <2>1. /\ Took(c, "canFilesBeSent") /\ toClient'[c] = rest /\ "canFilesBeSent" \in TurnPacket
          /\ SentToServerIs(c, <<ClientFileSend(FirstSet)>>)
      BY <1>3, CanFilesBeSentIs DEF TurnPacket
    <2>2. Single(toServer'[c])
      BY <1>1, <2>1, SentTypes, ToServerAfter DEF OneTurn
    <2>3. QED  BY <1>1, <2>1, <2>2 DEF OneTurn, Busy, Serving
  <1>4. CASE ClientHeader(c) \/ ClientFile(c) \/ ClientConnectionLost(c)
    <2>1. /\ \E type : Took(c, type)
          /\ toClient'[c] = rest /\ toServer' = toServer
      BY <1>4, HeaderIs, FileIs, ConnectionLostIs
    <2>2. QED  BY <1>1, <2>1 DEF OneTurn, Busy, Serving
  <1>5. CASE ClientFilesFinished(c)
    <2>1. /\ Took(c, "filesFinished") /\ "filesFinished" \in TurnPacket
          /\ toClient'[c] = IF link[c] = "up" THEN rest \o <<Disconnected>> ELSE rest
          /\ SentToServerIs(c, <<Disconnected>>)
      BY <1>5, FilesFinishedIs DEF TurnPacket
    <2>2. Single(toServer'[c]) /\ ~Has(toServer'[c], TurnPacket)
      BY <1>1, <2>1, SentTypes, ToServerAfter DEF OneTurn, TurnPacket
    <2>3. Single(toClient'[c]) /\ ~Has(toClient'[c], TurnPacket)
      <3>1. rest \in Seq(ClientPacket)
        BY <2>1, TailIs DEF TypeOK, Took
      <3>2. Single(rest) /\ ~Has(rest, TurnPacket)
        BY <1>1, <2>1
      <3>3. Disconnected \in ClientPacket /\ Disconnected.type \notin TurnPacket
        BY SentTypes DEF TurnPacket
      <3> HIDE DEF rest
      <3>4. Single(rest \o <<Disconnected>>) /\ ~Has(rest \o <<Disconnected>>, TurnPacket)
        BY <3>1, <3>2, <3>3, SingleSent, HasSent
      <3>5. QED  BY <2>1, <3>2, <3>4
    <2>4. QED  BY <1>1, <2>1, <2>2, <2>3 DEF OneTurn, Busy, Serving
  <1>6. CASE ClientDisconnected(c)
    <2>1. Took(c, "disconnected") /\ toClient'[c] = <<>> /\ toServer' = toServer
      BY <1>6, DisconnectedIs
    <2>2. ~Has(<<>>, TurnPacket) /\ Single(<<>>)
      BY HasNothing
    <2>3. QED  BY <1>1, <2>1, <2>2 DEF OneTurn, Busy, Serving
  <1>7. QED  BY <1>2, <1>3, <1>4, <1>5, <1>6 DEF ClientLoop

\* The network and the process of c.
LEMMA TurnOutside ==
    ASSUME TypeOK, NEW c \in Client, Opening(c), Ends(c), OneTurn(c),
           Environment(c) \/ ClientStart(c) \/ ClientConnected(c) \/ GiveUp(c)
    PROVE  OneTurn(c)'
  <1>1. UNCHANGED <<server, reader>>
    BY AcceptIs, RefuseIs, LinkLostIs, ProcessEndsIs, StartIs, ConnectedIs
    DEF Environment, ServerKept
  <1>2. "lost" \notin TurnPacket
    BY DEF TurnPacket
  <1>3. CASE Accept(c)
    <2>1. toServer[c] = <<>> /\ toClient'[c] = <<>> /\ ~Busy(c) /\ ~Serving(c)
      BY <1>3, AcceptIs DEF Opening, Ends, Busy
    <2>2. toServer'[c] = <<>> \o <<NewConnection>>
      BY <1>3, <2>1, AcceptIs
    <2>3. Single(<<>> \o <<NewConnection>>)
      <3>1. <<>> \in Seq(ServerPacket)
        OBVIOUS
      <3>2. QED  BY <3>1, HasNothing, SingleSent, SentTypes
    <2>4. QED  BY <1>1, <2>1, <2>2, <2>3, HasNothing DEF OneTurn, Busy, Serving
  <1>4. CASE Refuse(c) \/ ClientStart(c) \/ ClientConnected(c)
    <2>1. UNCHANGED <<toServer, toClient>>
      BY <1>4, RefuseIs, StartIs, ConnectedIs
    <2>2. QED  BY <1>1, <2>1 DEF OneTurn, Busy, Serving
  <1>5. CASE LinkLost(c)
    <2>1. IsCut(toServer'[c], toServer[c]) /\ IsCut(toClient'[c], toClient[c])
      BY <1>5, LinkLostIs
    <2>2. /\ Single(toServer'[c]) /\ Single(toClient'[c])
          /\ Has(toServer'[c], TurnPacket) => Has(toServer[c], TurnPacket)
          /\ Has(toClient'[c], TurnPacket) => Has(toClient[c], TurnPacket)
      BY <1>2, <2>1, CutAfter DEF OneTurn
    <2>3. QED  BY <1>1, <2>2 DEF OneTurn, Busy, Serving
  <1>6. CASE GiveUp(c) \/ ClientDies(c)
    <2>1. /\ toClient'[c] = <<>>
          /\ IsCut(toServer'[c], toServer[c]) \/ toServer'[c] = toServer[c]
      BY <1>6, ProcessEndsIs
    <2>2. /\ Single(toServer'[c])
          /\ Has(toServer'[c], TurnPacket) => Has(toServer[c], TurnPacket)
      BY <1>2, <2>1, CutAfter DEF OneTurn
    <2>3. QED  BY <1>1, <2>1, <2>2, HasNothing DEF OneTurn, Busy, Serving
  <1>7. QED  BY <1>3, <1>4, <1>5, <1>6 DEF Environment

LEMMA OneTurnStep ==
    ASSUME TypeOK, NEW c \in Client, Opening(c), Ends(c), OneTurn(c), [Next]_vars
    PROVE  OneTurn(c)'
  <1>1. CASE Kept(c)
    BY <1>1 DEF Kept, Untouched, OneTurn, Busy, Serving
  <1>2. QED
    BY <1>1, StepOf, TurnSends, TurnServed, TurnReader, TurnClient, TurnOutside
    DEF ClientStep, ClientProcess

-----------------------------------------------------------------------------
(* A client is compared and deletes once.                                  *)

\* The packets that come before a client deletes.
EarlyPacket == {"new", "sendFile", "canFilesBeSent"}

\* The files of its own list that a client does not have any more.
Deleted(c) == {h \in client[c].hashes : client[c].disk[h[1]] = Absent}

\* The client was told what to delete.
Started(c) ==
    \/ client[c].download.at # "none" \/ link[c] = "closed" \/ Deleted(c) # {}
    \/ Has(toServer[c], {"clientFileSend"}) \/ Serving(c)
    \/ Has(toClient[c], {"header", "file", "filesFinished"})

\* Nothing of what comes before that can still happen.
Later(c) ==
    /\ link[c] \notin {"none", "refused"} /\ client[c].at \notin {"off", "connecting"}
    /\ ~Has(toServer[c], EarlyPacket) /\ ~Has(toClient[c], EarlyPacket) /\ ~Busy(c)

LEMMA LaterStays ==
    ASSUME TypeOK, NEW c \in Client, Later(c), [Next]_vars
    PROVE  Later(c)'
  <1> DEFINE rest == Tail(toClient[c])
  <1>1. CASE Kept(c)
    BY <1>1 DEF Kept, Untouched, Later, Busy
  <1>2. CASE Serving(c) /\ ServerSends
    <2>1. server.client = c /\ SendsOnly
      BY <1>2, SendNextIs, SentAllIs, WaitedIs DEF Serving, ServerSends
    <2>2. toClient'[c] = toClient[c] \/
             \E p \in ClientPacket : SentToClientIs(c, p) /\ p.type \notin EarlyPacket
      <3>1. CASE ServerSendNext
        BY <2>1, <3>1, SendNextIs, FileSent DEF EarlyPacket
      <3>2. CASE ServerSent
        BY <3>2, SentAllIs
      <3>3. CASE ServerWaited
        BY <2>1, <3>3, WaitedIs, SentTypes DEF EarlyPacket
      <3>4. QED  BY <1>2, <3>1, <3>2, <3>3 DEF ServerSends
    <2>3. ~Has(toClient'[c], EarlyPacket)
      BY <2>2, ToClientAfter DEF Later
    <2>4. QED  BY <2>1, <2>3 DEF Later, SendsOnly, Busy
  <1>3. CASE ServerServes(c)
    <2>1. PICK type : Served(c, type) /\ type \notin EarlyPacket
      BY <1>3, ServerTook, NewConnectionIs, FileStructureIs, SendFileIs, FileSendIs, ClosedIs
      DEF ServerServes, Later
    <2>2. ~ServerNewConnection(c) /\ ~ServerSendFile(c)
      BY <2>1, NewConnectionIs, SendFileIs DEF Served, EarlyPacket
    <2>3. reader' = reader
      BY <1>3, <2>2, FileStructureIs, FileSendIs, ClosedIs DEF ServerServes
    <2>4. ~Has(toClient'[c], EarlyPacket)
      <3>1. CASE ServerFileSend(c)
        BY <3>1, FileSendIs, SentTypes, ToClientAfter DEF EarlyPacket, Later
      <3>2. CASE ~ServerFileSend(c)
        BY <1>3, <2>2, <3>2, FileStructureIs, ClosedIs DEF ServerServes, Later
      <3>3. QED  BY <3>1, <3>2
    <2>5. ~Has(toServer'[c], EarlyPacket)
      BY <2>1, ServerTook DEF Later
    <2>6. QED  BY <2>1, <2>3, <2>4, <2>5 DEF Later, Served, Busy
  <1>4. CASE ReaderThread(c)
    <2>1. Busy(c)
      BY <1>4, ReadIs, InsertIs, ReplyIs DEF ReaderThread, Busy
    <2>2. QED  BY <2>1 DEF Later
  <1>5. CASE ClientLoop(c)
    <2>1. ASSUME NEW type, Took(c, type)
          PROVE  /\ type \notin EarlyPacket /\ ~Has(rest, EarlyPacket)
                 /\ client[c].at = "run" /\ reader' = reader
      BY <2>1, ClientTook DEF Later, Took
    <2>2. ~ClientSendFile(c) /\ ~ClientCanFilesBeSent(c)
      BY <2>1, ClientSendFileIs, CanFilesBeSentIs DEF EarlyPacket
    <2>3. CASE ClientHeader(c) \/ ClientFile(c) \/ ClientConnectionLost(c)
      <3>1. /\ \E type : Took(c, type)
            /\ toClient'[c] = rest /\ UNCHANGED <<link, toServer>> /\ ProcessKept(c)
        BY <2>3, HeaderIs, FileIs, ConnectionLostIs
      <3>2. QED  BY <2>1, <3>1 DEF Later, Busy, ProcessKept
    <2>4. CASE ClientFilesFinished(c)
      <3>1. /\ Took(c, "filesFinished") /\ ProcessKept(c)
            /\ toClient'[c] = IF link[c] = "up" THEN rest \o <<Disconnected>> ELSE rest
            /\ SentToServerIs(c, <<Disconnected>>)
            /\ link'[c] = IF link[c] = "up" THEN "closed" ELSE link[c]
        BY <2>4, FilesFinishedIs
      <3>2. ~Has(toServer'[c], EarlyPacket)
        BY <3>1, SentTypes, ToServerAfter DEF EarlyPacket, Later
      <3>3. ~Has(rest \o <<Disconnected>>, EarlyPacket)
        <4>1. rest \in Seq(ClientPacket)
          BY <3>1, TailIs DEF TypeOK, Took
        <4>2. QED  BY <2>1, <3>1, <4>1, SentTypes, HasSent DEF EarlyPacket
      <3>4. QED  BY <2>1, <3>1, <3>2, <3>3 DEF Later, Busy, ProcessKept
    <2>5. CASE ClientDisconnected(c)
      <3>1. /\ Took(c, "disconnected") /\ toClient'[c] = <<>> /\ UNCHANGED <<link, toServer>>
            /\ client'[c].at = "done"
        BY <2>5, DisconnectedIs
      <3>2. QED  BY <2>1, <3>1, HasNothing DEF Later, Busy
    <2>6. QED  BY <1>5, <2>2, <2>3, <2>4, <2>5 DEF ClientLoop
  <1>6. CASE GiveUp(c) \/ ClientDies(c)
    <2>1. /\ toClient'[c] = <<>> /\ reader' = reader
          /\ client'[c].at \in {"failed", "dead"}
          /\ link'[c] = "lost" \/ link'[c] = link[c]
          /\ IsCut(toServer'[c], toServer[c]) \/ toServer'[c] = toServer[c]
      BY <1>6, ProcessEndsIs DEF ServerKept
    <2>2. ~Has(toServer'[c], EarlyPacket)
      BY <2>1, CutAfter DEF Later, EarlyPacket
    <2>3. QED  BY <2>1, <2>2, HasNothing DEF Later, Busy
  <1>7. CASE LinkLost(c)
    <2>1. /\ client' = client /\ reader' = reader /\ link'[c] = "lost"
          /\ IsCut(toServer'[c], toServer[c]) /\ IsCut(toClient'[c], toClient[c])
      BY <1>7, LinkLostIs DEF ServerKept
    <2>2. ~Has(toServer'[c], EarlyPacket) /\ ~Has(toClient'[c], EarlyPacket)
      BY <2>1, CutAfter DEF Later, EarlyPacket
    <2>3. QED  BY <2>1, <2>2 DEF Later, Busy
  <1>8. ~Accept(c) /\ ~Refuse(c) /\ ~ClientStart(c) /\ ~ClientConnected(c)
    BY AcceptIs, RefuseIs, StartIs, ConnectedIs DEF Later
  <1>9. QED
    BY <1>1, <1>2, <1>3, <1>4, <1>5, <1>6, <1>7, <1>8, StepOf
    DEF ClientStep, ClientProcess, Environment

\* The list that a client makes holds what its directory does.
LEMMA NothingDeleted ==
    ASSUME NEW disk \in Disk, NEW h \in CreateAllHashFiles(disk)
    PROVE  disk[h[1]] # Absent
  BY DEF CreateAllHashFiles, Files, HashFile

\* What a client that is not started may do next, but for deleting.
LEMMA NotYetStarted ==
    ASSUME TypeOK, NEW c \in Client, Opening(c), Ends(c), ~Started(c), [Next]_vars,
           ~ClientCanFilesBeSent(c)
    PROVE  ~Started(c)'
  <1> DEFINE Files3 == {"header", "file", "filesFinished"}
             rest == Tail(toClient[c])
  <1>1. /\ client[c].download.at = "none" /\ link[c] # "closed" /\ Deleted(c) = {}
        /\ ~Has(toServer[c], {"clientFileSend"}) /\ ~Serving(c)
        /\ ~Has(toClient[c], Files3)
    BY DEF Started
  <1>2. CASE Kept(c)
    BY <1>1, <1>2 DEF Kept, Untouched, Started, Serving, Deleted
  <1>3. CASE ServerServes(c)
    <2>1. PICK type : Served(c, type)
      BY <1>3, NewConnectionIs, FileStructureIs, SendFileIs, FileSendIs, ClosedIs DEF ServerServes
    <2>2. ~ServerFileSend(c)
      BY <1>1, FileSendIs, ServerTook
    <2>3. server' = server
      BY <1>3, <2>2, NewConnectionIs, FileStructureIs, SendFileIs, ClosedIs DEF ServerServes
    <2>4. ~Has(toClient'[c], Files3)
      <3>1. CASE ServerNewConnection(c)
        BY <1>1, <3>1, NewConnectionIs, SentTypes, ToClientAfter
      <3>2. CASE ~ServerNewConnection(c)
        BY <1>1, <1>3, <2>2, <3>2, FileStructureIs, SendFileIs, ClosedIs DEF ServerServes
      <3>3. QED  BY <3>1, <3>2
    <2>5. ~Has(toServer'[c], {"clientFileSend"}) /\ UNCHANGED <<client, link>>
      BY <1>1, <2>1, ServerTook DEF Served
    <2>6. QED  BY <1>1, <2>3, <2>4, <2>5 DEF Started, Serving, Deleted
  <1>4. CASE ReaderThread(c)
    <2>1. ReaderOnly
      BY <1>4, ReadIs, InsertIs, ReplyIs DEF ReaderThread
    <2>2. ~Has(toClient'[c], Files3)
      <3>1. CASE ReaderReply(c)
        BY <1>1, <3>1, ReplyIs, SentTypes, ToClientAfter
      <3>2. CASE ~ReaderReply(c)
        BY <1>1, <1>4, <3>2, ReadIs, InsertIs DEF ReaderThread
      <3>3. QED  BY <3>1, <3>2
    <2>3. QED  BY <1>1, <2>1, <2>2 DEF ReaderOnly, Started, Serving, Deleted
  <1>5. CASE ClientLoop(c)
    <2>1. ASSUME NEW type, Took(c, type)
          PROVE  type \notin Files3 /\ ~Has(rest, Files3) /\ server' = server
      <3> HIDE DEF Files3
      <3>1. Has(toClient[c], Files3) <=> type \in Files3 \/ Has(rest, Files3)
        BY <2>1, ClientTook
      <3>2. QED  BY <1>1, <2>1, <3>1 DEF Took
    <2>2. ~ClientHeader(c) /\ ~ClientFile(c) /\ ~ClientFilesFinished(c)
      BY <2>1, HeaderIs, FileIs, FilesFinishedIs
    <2>3. CASE ClientSendFile(c)
      <3>1. Took(c, "sendFile") /\ toClient'[c] = rest /\ UNCHANGED <<client, link>>
        BY <2>3, ClientSendFileIs
      <3>2. ~Has(toServer'[c], {"clientFileSend"})
        BY <1>1, <2>3, UploadAfter
      <3>3. QED  BY <1>1, <2>1, <3>1, <3>2 DEF Started, Serving, Deleted
    <2>4. CASE ClientConnectionLost(c)
      <3>1. /\ Took(c, "lost") /\ toClient'[c] = rest /\ UNCHANGED <<link, toServer>>
            /\ client'[c].hashes = client[c].hashes /\ client'[c].disk = client[c].disk
            /\ client'[c].download.at = "none"
        BY <2>4, ConnectionLostIs DEF NoDownload, ProcessKept
      <3>2. QED  BY <1>1, <2>1, <3>1 DEF Started, Serving, Deleted
    <2>5. ~ClientDisconnected(c)
      <3>1. ASSUME ClientDisconnected(c)
            PROVE  link[c] = "closed"
        <4>1. Has(toClient[c], {"disconnected"})
          BY <3>1, DisconnectedIs, ClientTook
        <4>2. QED  BY <4>1 DEF Ends
      <3>2. QED  BY <1>1, <3>1
    <2>6. QED  BY <1>5, <2>2, <2>3, <2>4, <2>5 DEF ClientLoop
  <1>6. CASE GiveUp(c) \/ ClientDies(c)
    <2>1. /\ toClient'[c] = <<>> /\ server' = server
          /\ client'[c].hashes = client[c].hashes /\ client'[c].disk = client[c].disk
          /\ client'[c].download = client[c].download
          /\ link'[c] = "lost" \/ link'[c] = link[c]
          /\ IsCut(toServer'[c], toServer[c]) \/ toServer'[c] = toServer[c]
      BY <1>6, ProcessEndsIs DEF ServerKept
    <2>2. ~Has(toServer'[c], {"clientFileSend"})
      BY <1>1, <2>1, CutAfter
    <2>3. QED  BY <1>1, <2>1, <2>2, HasNothing DEF Started, Serving, Deleted
  <1>7. CASE LinkLost(c)
    <2>1. /\ client' = client /\ server' = server /\ link'[c] = "lost"
          /\ IsCut(toServer'[c], toServer[c]) /\ IsCut(toClient'[c], toClient[c])
      BY <1>7, LinkLostIs DEF ServerKept
    <2>2. ~Has(toServer'[c], {"clientFileSend"}) /\ ~Has(toClient'[c], Files3)
      BY <1>1, <2>1, CutAfter
    <2>3. QED  BY <1>1, <2>1, <2>2 DEF Started, Serving, Deleted
  <1>8. CASE Accept(c)
    <2>1. /\ UNCHANGED <<client, toClient, server>> /\ link'[c] = "up"
          /\ toServer[c] = <<>> /\ toServer'[c] = <<NewConnection>>
      BY <1>8, AcceptIs DEF ServerKept, Opening
    <2>2. ~Has(<<NewConnection>>, {"clientFileSend"})
      BY SentTypes DEF Has
    <2>3. QED  BY <1>1, <2>1, <2>2 DEF Started, Serving, Deleted
  <1>9. CASE Refuse(c) \/ ClientConnected(c)
    <2>1. /\ UNCHANGED <<toClient, toServer, server>> /\ link'[c] # "closed"
          /\ client'[c].hashes = client[c].hashes /\ client'[c].disk = client[c].disk
          /\ client'[c].download = client[c].download
      BY <1>1, <1>9, RefuseIs, ConnectedIs DEF ServerKept
    <2>2. QED  BY <1>1, <2>1 DEF Started, Serving, Deleted
  <1>10. CASE ClientStart(c)
    <2>1. /\ UNCHANGED <<toClient, toServer, server, link>>
          /\ client'[c].hashes = CreateAllHashFiles(client[c].disk)
          /\ client'[c].disk = client[c].disk /\ client[c].disk \in Disk
          /\ client'[c].download = client[c].download
      BY <1>10, StartIs DEF ServerKept, TypeOK, ClientState
    <2>2. Deleted(c)' = {}
      BY <2>1, NothingDeleted DEF Deleted
    <2>3. QED  BY <1>1, <2>1, <2>2 DEF Started, Serving
  <1>11. QED
    BY <1>1, <1>2, <1>3, <1>4, <1>5, <1>6, <1>7, <1>8, <1>9, <1>10, StepOf
    DEF ClientStep, ClientProcess, Environment

LEMMA StartedStep ==
    ASSUME TypeOK, NEW c \in Client, Opening(c), Ends(c), OneTurn(c), Started(c) => Later(c),
           [Next]_vars
    PROVE  Started(c)' => Later(c)'
  <1>1. CASE Started(c)
    BY <1>1, LaterStays
  <1>2. CASE ClientCanFilesBeSent(c)
    <2>1. /\ Took(c, "canFilesBeSent") /\ toClient'[c] = Tail(toClient[c])
          /\ SentToServerIs(c, <<ClientFileSend(FirstSet)>>)
          /\ link' = link /\ ProcessKept(c)
      BY <1>2, CanFilesBeSentIs
    <2>2. Has(toClient[c], TurnPacket) /\ ~Has(Tail(toClient[c]), TurnPacket)
      <3>1. "canFilesBeSent" \in TurnPacket
        BY DEF TurnPacket
      <3>2. QED  BY <2>1, <3>1, ClientTook DEF OneTurn
    <2>3. ~Has(toServer[c], TurnPacket) /\ ~Busy(c)
      BY <2>2 DEF OneTurn
    <2>4. ~Has(toServer[c], EarlyPacket) /\ ~Has(Tail(toClient[c]), EarlyPacket)
      <3>1. EarlyPacket \subseteq TurnPacket
        BY DEF EarlyPacket, TurnPacket
      <3>2. QED  BY <2>2, <2>3, <3>1, HasMore
    <2>5. ~Has(toServer'[c], EarlyPacket)
      BY <2>1, <2>4, SentTypes, ToServerAfter DEF EarlyPacket
    <2>6. client[c].at = "run" /\ link[c] \notin {"none", "refused"} /\ reader' = reader
      BY <2>1 DEF Took, Ends
    <2>7. QED  BY <2>1, <2>3, <2>4, <2>5, <2>6 DEF Later, ProcessKept, Busy
  <1>3. CASE ~Started(c) /\ ~ClientCanFilesBeSent(c)
    BY <1>3, NotYetStarted
  <1>4. QED  BY <1>1, <1>2, <1>3

-----------------------------------------------------------------------------
(* Sets: the id that the server reads is that of the client's receiver.    *)

\* Every packet of a queue is one of these.
Only(q, packets) == \A i \in 1 .. Len(q) : q[i] \in packets

LEMMA OnlyTail ==
    ASSUME NEW S, NEW q \in Seq(S), q # <<>>, NEW packets, Only(q, packets)
    PROVE  Head(q) \in packets /\ Only(Tail(q), packets)
  <1>1. 1 \in 1 .. Len(q) /\ Head(q) = q[1]
    BY TailIs
  <1>2. \A i \in 1 .. Len(Tail(q)) : i + 1 \in 1 .. Len(q) /\ Tail(q)[i] = q[i + 1]
    BY TailIs
  <1>3. QED  BY <1>1, <1>2 DEF Only

LEMMA OnlySent ==
    ASSUME NEW S, NEW q \in Seq(S), NEW p \in S, NEW packets, Only(q, packets), p \in packets
    PROVE  Only(q \o <<p>>, packets)
  <1> DEFINE longer == q \o <<p>>
  <1>1. /\ Len(longer) = Len(q) + 1 /\ Len(q) \in Nat /\ longer[Len(q) + 1] = p
        /\ \A i \in 1 .. Len(q) : longer[i] = q[i]
    BY SnocIs
  <1> HIDE DEF longer
  <1>2. \A i \in 1 .. Len(longer) : i \in 1 .. Len(q) \/ i = Len(q) + 1
    BY <1>1
  <1>3. Only(longer, packets)
    BY <1>1, <1>2 DEF Only
  <1>4. QED  BY <1>3 DEF longer

LEMMA OnlyCut ==
    ASSUME NEW S, NEW q \in Seq(S), NEW cut \in Seq(S), IsCut(cut, q),
           NEW packets, Only(q, packets), \A p \in S : p.type = "lost" => p \in packets
    PROVE  Only(cut, packets)
  <1>1. PICK k \in 0 .. Len(q) :
           /\ Len(cut) = k + 1
           /\ cut[k + 1].type = "lost"
           /\ \A i \in 1 .. k : i \in 1 .. Len(q) /\ cut[i] = q[i]
    BY DEF IsCut
  <1>2. \A i \in 1 .. Len(cut) : i \in 1 .. k \/ i = k + 1
    BY <1>1
  <1>3. cut[k + 1] \in S
    BY <1>1
  <1>4. QED  BY <1>1, <1>2, <1>3 DEF Only

\* Headers and files are of the first set.
OfFirstSet == {p \in ClientPacket : p.type \in {"header", "file"} => p.set = FirstSet}

\* UpdateServer sends the first set.
SendsFirstSet == server # Receiving /\ server.at = "send" => server.set = FirstSet

\* What a client that runs has received or asked for is of the set it receives.
SetsZero(c) ==
    client[c].at = "run" =>
        /\ Only(toClient[c], OfFirstSet)
        /\ Has(toClient[c], {"header", "file"}) => client[c].download.set = FirstSet
        /\ link[c] = "up" /\ (Serving(c) \/ Has(toServer[c], {"clientFileSend"})) =>
              client[c].download.set = FirstSet

\* UpdateServer is only where its own steps and ID_CLIENTFILESEND bring it.
LEMMA ServerMoves ==
    ASSUME TypeOK, [Next]_vars
    PROVE  server' = server \/ ServerSends \/ \E c \in Client : ServerFileSend(c)
  <1>1. CASE UNCHANGED vars
    BY <1>1 DEF vars
  <1>2. ASSUME NEW c \in Client, ClientStep(c), ~ServerFileSend(c)
        PROVE  server' = server
    <2>1. CASE ServerServes(c)
      BY <1>2, <2>1, NewConnectionIs, FileStructureIs, SendFileIs, ClosedIs DEF ServerServes
    <2>2. CASE ReaderThread(c)
      BY <2>2, ReadIs, InsertIs, ReplyIs DEF ReaderThread, ReaderOnly
    <2>3. CASE ClientLoop(c)
      BY <2>3, ClientSendFileIs, CanFilesBeSentIs, HeaderIs, FileIs, FilesFinishedIs,
         DisconnectedIs, ConnectionLostIs DEF ClientLoop, Took
    <2>4. CASE Environment(c) \/ ClientStart(c) \/ ClientConnected(c) \/ GiveUp(c)
      BY <2>4, AcceptIs, RefuseIs, LinkLostIs, ProcessEndsIs, StartIs, ConnectedIs
      DEF Environment, ServerKept
    <2>5. QED  BY <1>2, <2>1, <2>2, <2>3, <2>4 DEF ClientStep, ClientProcess
  <1>3. QED  BY <1>1, <1>2 DEF Next, ClientStep

LEMMA SendsFirstSetStep ==
    ASSUME TypeOK, SendsFirstSet, [Next]_vars
    PROVE  SendsFirstSet'
  <1>1. CASE server' = server
    BY <1>1 DEF SendsFirstSet
  <1>2. CASE ServerSendNext
    <2>1. server # Receiving /\ server.at = "send" /\ server' = [server EXCEPT !.next = @ + 1]
      BY <1>2, SendNextIs
    <2>2. server \in [at : {"send"}, client : Client, set : SetId, next : Nat \ {0}]
      BY <2>1 DEF TypeOK, ServerState, Receiving
    <2>3. server'.set = server.set
      BY <2>1, <2>2
    <2>4. QED  BY <2>1, <2>3 DEF SendsFirstSet
  <1>3. CASE ServerSent
    <2>1. server'.at = "wait"
      BY <1>3, SentAllIs
    <2>2. QED  BY <2>1 DEF SendsFirstSet
  <1>4. CASE ServerWaited
    BY <1>4, WaitedIs DEF SendsFirstSet
  <1>5. ASSUME NEW c \in Client, ServerFileSend(c)
        PROVE  SendsFirstSet'
    <2>1. server'.set = FirstSet
      BY <1>5, FileSendIs
    <2>2. QED  BY <2>1 DEF SendsFirstSet
  <1>6. QED  BY <1>1, <1>2, <1>3, <1>4, <1>5, ServerMoves DEF ServerSends

\* A packet of the first set, or none of a set, is sent to the client.
LEMMA SetsSent ==
    ASSUME TypeOK, NEW c \in Client, SetsZero(c), client'[c] = client[c], link'[c] = link[c],
           toClient'[c] = toClient[c] \/
               \E p \in OfFirstSet :
                  /\ SentToClientIs(c, p)
                  /\ p.type \in {"header", "file"} /\ link[c] = "up" /\ client[c].at = "run" =>
                        client[c].download.set = FirstSet,
           link[c] = "up" /\ client[c].at = "run"
              /\ (Serving(c)' \/ Has(toServer'[c], {"clientFileSend"}))
              => Serving(c) \/ Has(toServer[c], {"clientFileSend"})
    PROVE  SetsZero(c)'
  <1>1. toClient[c] \in Seq(ClientPacket) /\ OfFirstSet \subseteq ClientPacket
    BY DEF TypeOK, OfFirstSet
  <1>2. CASE toClient'[c] = toClient[c]
    BY <1>2 DEF SetsZero
  <1>3. ASSUME NEW p \in OfFirstSet, SentToClientIs(c, p), link[c] = "up", client[c].at = "run",
               p.type \in {"header", "file"} => client[c].download.set = FirstSet
        PROVE  SetsZero(c)'
    <2>1. p \in ClientPacket /\ toClient'[c] = toClient[c] \o <<p>>
      BY <1>1, <1>3 DEF SentToClientIs
    <2>2. Only(toClient[c] \o <<p>>, OfFirstSet)
      BY <1>1, <1>3, <2>1, OnlySent DEF SetsZero
    <2>3. Has(toClient'[c], {"header", "file"}) <=>
             Has(toClient[c], {"header", "file"}) \/ p.type \in {"header", "file"}
      BY <1>3, <2>1, ToClientAfter
    <2>4. QED  BY <1>3, <2>1, <2>2, <2>3 DEF SetsZero
  <1>4. CASE client[c].at # "run"
    BY <1>4 DEF SetsZero
  <1>5. QED  BY <1>2, <1>3, <1>4 DEF SentToClientIs

\* The client takes a packet.
LEMMA SetsTook ==
    ASSUME TypeOK, NEW c \in Client, SetsZero(c), NEW type, Took(c, type),
           toClient'[c] = Tail(toClient[c]), link'[c] = link[c],
           \/ client'[c].download.set = FirstSet
           \/ /\ client'[c].download.set = client[c].download.set
              /\ link[c] = "up" /\ Has(toServer'[c], {"clientFileSend"}) =>
                    Has(toServer[c], {"clientFileSend"})
    PROVE  SetsZero(c)'
  <1>1. /\ toClient[c] \in Seq(ClientPacket) /\ toClient[c] # <<>> /\ server' = server
        /\ client[c].at = "run"
    BY DEF TypeOK, Took
  <1>2. Only(Tail(toClient[c]), OfFirstSet)
    BY <1>1, OnlyTail DEF SetsZero
  <1>3. Has(Tail(toClient[c]), {"header", "file"}) => Has(toClient[c], {"header", "file"})
    BY ClientTook
  <1>4. Serving(c)' <=> Serving(c)
    BY <1>1 DEF Serving
  <1>5. QED  BY <1>1, <1>2, <1>3, <1>4 DEF SetsZero

LEMMA SetsZeroStep ==
    ASSUME TypeOK, NEW c \in Client, Opening(c), Ends(c), OneTurn(c), Started(c) => Later(c),
           SendsFirstSet, SetsZero(c), [Next]_vars, TypeOK'
    PROVE  SetsZero(c)'
  <1> DEFINE cfs == {"clientFileSend"}
             files == {"header", "file"}
  <1>1. CASE Kept(c)
    BY <1>1, SetsSent DEF Kept, Untouched, Serving
  <1>2. CASE Serving(c) /\ ServerSends
    <2>1. server.client = c /\ SendsOnly
      BY <1>2, SendNextIs, SentAllIs, WaitedIs DEF Serving, ServerSends
    <2>2. toClient'[c] = toClient[c] \/ \E p \in OfFirstSet :
             /\ SentToClientIs(c, p)
             /\ p.type \in files /\ link[c] = "up" /\ client[c].at = "run" =>
                   client[c].download.set = FirstSet
      <3>1. CASE ServerSendNext
        <4>1. /\ SentToClientIs(c, File(server.set, Slot(server.next)))
              /\ server # Receiving /\ server.at = "send"
          BY <2>1, <3>1, SendNextIs
        <4>2. File(server.set, Slot(server.next)).set = FirstSet
          BY <4>1 DEF File, SendsFirstSet
        <4>3. File(server.set, Slot(server.next)) \in OfFirstSet
          BY <4>1, <4>2, FileSent DEF OfFirstSet
        <4>4. QED  BY <1>2, <4>1, <4>3 DEF SetsZero
      <3>2. CASE ServerSent
        BY <3>2, SentAllIs
      <3>3. CASE ServerWaited
        <4>1. FilesFinished \in OfFirstSet /\ FilesFinished.type \notin files
          BY SentTypes DEF OfFirstSet
        <4>2. QED  BY <2>1, <3>3, <4>1, WaitedIs
      <3>4. QED  BY <1>2, <3>1, <3>2, <3>3 DEF ServerSends
    <2>3. client' = client /\ link' = link
      BY <2>1 DEF SendsOnly
    <2>4. QED  BY <1>2, <2>2, <2>3, SetsSent
  <1>3. CASE ServerServes(c)
    <2>1. PICK type : Served(c, type)
      BY <1>3, NewConnectionIs, FileStructureIs, SendFileIs, FileSendIs, ClosedIs DEF ServerServes
    <2>2. client' = client /\ link' = link /\ (Has(toServer'[c], cfs) => Has(toServer[c], cfs))
      BY <2>1, ServerTook DEF Served
    <2>3. CASE ServerNewConnection(c)
      <3>1. SendFile(nextSet) \in OfFirstSet /\ SendFile(nextSet).type \notin files
        BY SentTypes DEF OfFirstSet
      <3>2. SentToClientIs(c, SendFile(nextSet)) /\ server' = server
        BY <2>3, NewConnectionIs
      <3>3. QED  BY <2>2, <3>1, <3>2, SetsSent DEF Serving
    <2>4. CASE ServerFileStructure(c) \/ ServerSendFile(c) \/ ServerClosed(c)
      <3>1. toClient'[c] = toClient[c] /\ server' = server
        BY <2>4, FileStructureIs, SendFileIs, ClosedIs
      <3>2. QED  BY <2>2, <3>1, SetsSent DEF Serving
    <2>5. CASE ServerFileSend(c)
      <3>1. Served(c, "clientFileSend") /\ SentToClientIs(c, Header(FirstSet, fileCount))
        BY <2>5, FileSendIs
      <3>2. Has(toServer[c], cfs)
        BY <3>1, ServerTook
      <3>3. Header(FirstSet, fileCount) \in OfFirstSet
        BY SentTypes DEF OfFirstSet, Header
      <3>4. link[c] = "up" /\ client[c].at = "run" => client[c].download.set = FirstSet
        BY <3>2 DEF SetsZero
      <3>5. QED  BY <2>2, <3>1, <3>2, <3>3, <3>4, SetsSent
    <2>6. QED  BY <1>3, <2>3, <2>4, <2>5 DEF ServerServes
  <1>4. CASE ReaderThread(c)
    <2>1. ReaderOnly
      BY <1>4, ReadIs, InsertIs, ReplyIs DEF ReaderThread
    <2>2. toClient'[c] = toClient[c] \/ \E p \in OfFirstSet :
             SentToClientIs(c, p) /\ p.type \notin files
      <3>1. CASE ReaderReply(c)
        <4>1. /\ CanFilesBeSent(reader[c].toDelete) \in OfFirstSet
              /\ CanFilesBeSent(reader[c].toDelete).type \notin files
          BY SentTypes DEF OfFirstSet
        <4>2. QED  BY <3>1, <4>1, ReplyIs
      <3>2. CASE ~ReaderReply(c)
        BY <1>4, <3>2, ReadIs, InsertIs DEF ReaderThread
      <3>3. QED  BY <3>1, <3>2
    <2>3. QED  BY <2>1, <2>2, SetsSent DEF ReaderOnly, Serving
  <1>5. CASE ClientLoop(c)
    <2>1. CASE ClientSendFile(c)
      <3>1. Took(c, "sendFile") /\ toClient'[c] = Tail(toClient[c]) /\ UNCHANGED <<client, link>>
        BY <2>1, ClientSendFileIs
      <3>2. Has(toServer'[c], {"clientFileSend"}) => Has(toServer[c], {"clientFileSend"})
        BY <2>1, UploadAfter
      <3>3. client'[c].download.set = client[c].download.set
        BY <3>1
      <3>4. QED  BY ONLY TypeOK, SetsZero(c), <3>1, <3>2, <3>3, SetsTook
    <2>2. CASE ClientCanFilesBeSent(c)
      <3>1. /\ Took(c, "canFilesBeSent") /\ toClient'[c] = Tail(toClient[c]) /\ link' = link
            /\ SentToServerIs(c, <<ClientFileSend(FirstSet)>>)
            /\ client'[c].download =
                  IF link[c] = "up" THEN [at |-> "header", set |-> FirstSet, left |-> 0]
                  ELSE client[c].download
        BY <2>2, CanFilesBeSentIs
      <3>2. CASE link[c] = "up"
        <4>1. client'[c].download.set = FirstSet
          BY <3>1, <3>2
        <4>2. QED  BY ONLY TypeOK, SetsZero(c), <3>1, <4>1, SetsTook
      <3>3. CASE link[c] # "up"
        <4>1. client'[c].download.set = client[c].download.set
          BY <3>1, <3>3
        <4>2. QED  BY ONLY TypeOK, SetsZero(c), <3>1, <3>3, <4>1, SetsTook
      <3>4. QED  BY <3>2, <3>3
    <2>3. CASE ClientHeader(c) \/ ClientFile(c)
      <3>1. /\ \E type : Took(c, type)
            /\ toClient'[c] = Tail(toClient[c]) /\ UNCHANGED <<link, toServer>>
            /\ \/ client'[c].download = client[c].download
               \/ \E n : client'[c].download = Awaiting(client[c].download, n)
        BY <2>3, HeaderIs, FileIs
      <3>2. client[c].download \in Download
        BY DEF TypeOK, ClientState
      <3>3. \A n : Awaiting(client[c].download, n).set = client[c].download.set
        BY <3>2 DEF Awaiting, Download
      <3>4. client'[c].download.set = client[c].download.set
        BY <3>1, <3>3
      <3>5. QED  BY ONLY TypeOK, SetsZero(c), <3>1, <3>4, SetsTook
    <2>4. CASE ClientFilesFinished(c)
      <3>1. /\ Took(c, "filesFinished") /\ client'[c].download = client[c].download
            /\ toClient'[c] = IF link[c] = "up" THEN Tail(toClient[c]) \o <<Disconnected>>
                              ELSE Tail(toClient[c])
            /\ SentToServerIs(c, <<Disconnected>>)
            /\ link'[c] = IF link[c] = "up" THEN "closed" ELSE link[c]
        BY <2>4, FilesFinishedIs
      <3>2. CASE link[c] # "up"
        <4>1. toClient'[c] = Tail(toClient[c]) /\ link'[c] = link[c] /\ toServer'[c] = toServer[c]
          BY <3>1, <3>2 DEF SentToServerIs
        <4>2. client'[c].download.set = client[c].download.set
          BY <3>1
        <4>3. QED  BY ONLY TypeOK, SetsZero(c), <3>1, <4>1, <4>2, SetsTook
      <3>3. CASE link[c] = "up"
        <4> DEFINE rest == Tail(toClient[c])
        <4>1. /\ toClient[c] \in Seq(ClientPacket) /\ toClient[c] # <<>> /\ rest \in Seq(ClientPacket)
              /\ client[c].at = "run"
          BY <3>1, TailIs DEF TypeOK, Took
        <4>2. Only(rest, OfFirstSet) /\ (Has(rest, files) => Has(toClient[c], files))
          BY <3>1, <4>1, OnlyTail, ClientTook DEF SetsZero
        <4>3. /\ Disconnected \in ClientPacket /\ Disconnected \in OfFirstSet
              /\ Disconnected.type \notin files
          BY SentTypes DEF OfFirstSet
        <4> HIDE DEF rest
        <4>4. /\ Only(rest \o <<Disconnected>>, OfFirstSet)
              /\ Has(rest \o <<Disconnected>>, files) => Has(rest, files)
          BY <4>1, <4>2, <4>3, OnlySent, HasSent
        <4>5. toClient'[c] = rest \o <<Disconnected>> /\ link'[c] # "up"
          BY <3>1, <3>3 DEF rest
        <4>6. QED  BY <3>1, <4>1, <4>2, <4>4, <4>5 DEF SetsZero
      <3>4. QED  BY <3>2, <3>3
    <2>5. CASE ClientDisconnected(c)
      BY <2>5, DisconnectedIs DEF SetsZero
    <2>6. CASE ClientConnectionLost(c)
      <3>1. /\ Took(c, "lost") /\ toClient'[c] = Tail(toClient[c]) /\ UNCHANGED <<link, toServer>>
        BY <2>6, ConnectionLostIs
      <3>2. toClient[c] \in Seq(ClientPacket) /\ toClient[c] # <<>> /\ Head(toClient[c]).type = "lost"
        BY <3>1 DEF TypeOK, Took
      <3>3. toClient'[c] = <<>>
        BY <3>1, <3>2, EndedQueue DEF Ends, EndPacket
      <3>4. link'[c] # "up"
        <4>1. Has(toClient[c], {"lost"})
          BY <3>1, ClientTook
        <4>2. QED  BY <3>1, <4>1 DEF Ends
      <3>5. Only(<<>>, OfFirstSet) /\ ~Has(<<>>, files)
        BY HasNothing DEF Only
      <3>6. QED  BY <3>3, <3>4, <3>5 DEF SetsZero
    <2>7. QED  BY <1>5, <2>1, <2>2, <2>3, <2>4, <2>5, <2>6 DEF ClientLoop
  <1>6. CASE LinkLost(c)
    <2>1. /\ client' = client /\ link'[c] = "lost" /\ IsCut(toClient'[c], toClient[c])
          /\ toClient[c] \in Seq(ClientPacket) /\ toClient'[c] \in Seq(ClientPacket)
      BY <1>6, LinkLostIs DEF TypeOK
    <2>2. \A p \in ClientPacket : p.type = "lost" => p \in OfFirstSet
      BY DEF OfFirstSet
    <2>3. client[c].at = "run" => Only(toClient'[c], OfFirstSet)
      BY <2>1, <2>2, OnlyCut DEF SetsZero
    <2>4. Has(toClient'[c], files) => Has(toClient[c], files)
      BY <2>1, CutAfter
    <2>5. QED  BY <2>1, <2>3, <2>4 DEF SetsZero
  <1>7. CASE Accept(c) \/ Refuse(c) \/ ClientStart(c) \/ GiveUp(c) \/ ClientDies(c)
    <2>1. client'[c].at # "run"
      BY <1>7, AcceptIs, StartIs, ProcessEndsIs DEF Refuse
    <2>2. QED  BY <2>1 DEF SetsZero
  <1>8. CASE ClientConnected(c)
    <2>1. /\ UNCHANGED <<link, toServer, toClient, server>>
          /\ client[c].at = "connecting"
      BY <1>8, ConnectedIs DEF ServerKept
    <2>2. ~Started(c)
      BY <2>1 DEF Later
    <2>3. ~Serving(c) /\ ~Has(toServer[c], cfs) /\ ~Has(toClient[c], {"header", "file", "filesFinished"})
      BY <2>2 DEF Started
    <2>4. ~Has(toClient[c], files)
      BY <2>3, HasMore
    <2>5. Only(toClient[c], OfFirstSet)
      <3>1. toClient[c] \in Seq(ClientPacket)
        BY DEF TypeOK
      <3>2. \A i \in 1 .. Len(toClient[c]) : toClient[c][i] \in ClientPacket
        BY <3>1
      <3>3. QED  BY <2>4, <3>2 DEF Only, Has, OfFirstSet
    <2>6. QED  BY <2>1, <2>3, <2>4, <2>5 DEF SetsZero, Serving
  <1>9. QED
    BY <1>1, <1>2, <1>3, <1>4, <1>5, <1>6, <1>7, <1>8, StepOf
    DEF ClientStep, ClientProcess, Environment

-----------------------------------------------------------------------------
(* What a client deletes.                                                  *)

\* The list a client makes names each file once ...
Unique(c) == \A g, h \in client[c].hashes : g[1] = h[1] => g = h

\* ... and at most one of its files goes.
OneDeleted(c) == \A g, h \in Deleted(c) : g = h

LEMMA ListIsUnique ==
    ASSUME NEW disk, NEW g \in CreateAllHashFiles(disk), NEW h \in CreateAllHashFiles(disk),
           g[1] = h[1]
    PROVE  g = h
  BY DEF CreateAllHashFiles, HashFile, Files

\* The list of a client is made once, when its directory is.
LEMMA ListMade ==
    ASSUME TypeOK, NEW c \in Client, [Next]_vars
    PROVE  \/ client'[c].hashes = client[c].hashes
           \/ ClientStart(c)
  <1>1. CASE Kept(c) \/ (Serving(c) /\ ServerSends)
    BY <1>1, SendNextIs, SentAllIs, WaitedIs DEF Kept, ServerSends, SendsOnly
  <1>2. CASE ServerServes(c)
    BY <1>2, NewConnectionIs, FileStructureIs, SendFileIs, FileSendIs, ClosedIs
    DEF ServerServes, Served
  <1>3. CASE ReaderThread(c)
    BY <1>3, ReadIs, InsertIs, ReplyIs DEF ReaderThread, ReaderOnly
  <1>4. CASE ClientLoop(c)
    BY <1>4, ClientSendFileIs, CanFilesBeSentIs, HeaderIs, FileIs, FilesFinishedIs,
       DisconnectedIs, ConnectionLostIs DEF ClientLoop, ProcessKept
  <1>5. CASE Environment(c) \/ ClientConnected(c) \/ GiveUp(c)
    BY <1>5, AcceptIs, RefuseIs, LinkLostIs, ProcessEndsIs, ConnectedIs DEF Environment
  <1>6. QED  BY <1>1, <1>2, <1>3, <1>4, <1>5, StepOf DEF ClientStep, ClientProcess

LEMMA UniqueStep ==
    ASSUME TypeOK, NEW c \in Client, Unique(c), [Next]_vars
    PROVE  Unique(c)'
  <1>1. CASE client'[c].hashes = client[c].hashes
    BY <1>1 DEF Unique
  <1>2. CASE ClientStart(c)
    BY <1>2, StartIs, ListIsUnique DEF Unique
  <1>3. QED  BY <1>1, <1>2, ListMade

\* Nothing but ID_CLIENTCANFILESBESENT takes a file from a client.
LEMMA OnlyThenDeleted ==
    ASSUME TypeOK, NEW c \in Client, [Next]_vars, ~ClientCanFilesBeSent(c)
    PROVE  Deleted(c)' \subseteq Deleted(c)
  <1>1. CASE Kept(c) \/ (Serving(c) /\ ServerSends)
    BY <1>1, SendNextIs, SentAllIs, WaitedIs DEF Kept, ServerSends, SendsOnly, Deleted
  <1>2. CASE ServerServes(c)
    <2>1. client' = client
      BY <1>2, NewConnectionIs, FileStructureIs, SendFileIs, FileSendIs, ClosedIs
      DEF ServerServes, Served
    <2>2. QED  BY <2>1 DEF Deleted
  <1>3. CASE ReaderThread(c)
    BY <1>3, ReadIs, InsertIs, ReplyIs DEF ReaderThread, ReaderOnly, Deleted
  <1>4. CASE ClientFile(c)
    <2>1. CASE client'[c] = client[c]
      BY <2>1 DEF Deleted
    <2>2. CASE client'[c] # client[c]
      <3>1. /\ client'[c].hashes = client[c].hashes
            /\ client'[c].disk = Written(client[c].disk, Head(toClient[c]).entry)
            /\ toClient[c] # <<>> /\ Head(toClient[c]).type = "file"
        BY <1>4, <2>2, FileIs DEF Took, ProcessKept
      <3>2. toClient[c] \in Seq(ClientPacket) /\ client[c] \in ClientState
        BY DEF TypeOK
      <3>3. Head(toClient[c]).entry \in Entry \cup {Hole}
        BY <3>1, <3>2, HeadTailType, ClientPacketFields
      <3>4. \A p \in Path : client'[c].disk[p] = Absent => client[c].disk[p] = Absent
        BY <3>1, <3>2, <3>3, HashFilesAssumption DEF Written, Entry, ClientState, Disk
      <3>5. \A h \in client[c].hashes : h[1] \in Path
        BY <3>2 DEF ClientState, Hash
      <3>6. QED  BY <3>1, <3>4, <3>5 DEF Deleted
    <2>3. QED  BY <2>1, <2>2
  <1>5. CASE ClientStart(c)
    <2>1. /\ client'[c].hashes = CreateAllHashFiles(client[c].disk)
          /\ client'[c].disk = client[c].disk /\ client[c].disk \in Disk
      BY <1>5, StartIs DEF TypeOK, ClientState
    <2>2. QED  BY <2>1, NothingDeleted DEF Deleted
  <1>6. CASE ClientLoop(c) /\ ~ClientFile(c)
    <2>1. client'[c].hashes = client[c].hashes /\ client'[c].disk = client[c].disk
      BY <1>6, ClientSendFileIs, HeaderIs, FilesFinishedIs, DisconnectedIs, ConnectionLostIs
      DEF ClientLoop, ProcessKept
    <2>2. QED  BY <2>1 DEF Deleted
  <1>7. CASE Environment(c) \/ ClientConnected(c) \/ GiveUp(c)
    <2>1. client'[c].hashes = client[c].hashes /\ client'[c].disk = client[c].disk
      BY <1>7, AcceptIs, RefuseIs, LinkLostIs, ProcessEndsIs, ConnectedIs DEF Environment
    <2>2. QED  BY <2>1 DEF Deleted
  <1>8. QED
    BY <1>1, <1>2, <1>3, <1>4, <1>5, <1>6, <1>7, StepOf DEF ClientStep, ClientProcess

LEMMA OneDeletedStep ==
    ASSUME TypeOK, NEW c \in Client, Started(c) => Later(c), Unique(c), OneDeleted(c), [Next]_vars
    PROVE  OneDeleted(c)'
  <1>1. CASE ~ClientCanFilesBeSent(c)
    BY <1>1, OnlyThenDeleted DEF OneDeleted
  <1>2. CASE ClientCanFilesBeSent(c)
    <2>1. Took(c, "canFilesBeSent") /\ client'[c].hashes = client[c].hashes
      BY <1>2, CanFilesBeSentIs DEF ProcessKept
    <2>2. Has(toClient[c], {"canFilesBeSent"})
      BY <2>1, ClientTook
    <2>3. Has(toClient[c], EarlyPacket)
      BY <2>2, HasMore DEF EarlyPacket
    <2>4. Deleted(c) = {}
      BY <2>3 DEF Later, Started
    <2>5. PICK hashes \in ReadDeleteList(Head(toClient[c]).hashes) :
             client'[c].disk = DeleteFiles(client[c].disk, hashes, ClientExe)
      BY <1>2, CanFilesBeSentIs
    <2>6. \A g, h \in hashes : g = h
      BY <2>5 DEF ReadDeleteList
    <2>7. \A h \in client[c].hashes : h[1] \in Path /\ client[c].disk[h[1]] # Absent
      BY <2>4 DEF Deleted, TypeOK, ClientState, Hash
    <2>8. ASSUME NEW h \in Deleted(c)'
          PROVE  /\ h \in client[c].hashes
                 /\ HashFile(h[1], client[c].disk[h[1]]) \in hashes
      <3>1. h \in client[c].hashes /\ DeleteFiles(client[c].disk, hashes, ClientExe)[h[1]] = Absent
        BY <2>1, <2>5, <2>8 DEF Deleted
      <3>2. QED  BY <2>7, <3>1 DEF DeleteFiles
    <2>9. ASSUME NEW g \in Deleted(c)', NEW h \in Deleted(c)'
          PROVE  g = h
      <3>1. HashFile(g[1], client[c].disk[g[1]]) = HashFile(h[1], client[c].disk[h[1]])
        BY <2>6, <2>8
      <3>2. g[1] = h[1]
        BY <3>1 DEF HashFile
      <3>3. QED  BY <2>8, <3>2 DEF Unique
    <2>10. QED  BY <2>9 DEF OneDeleted
  <1>3. QED  BY <1>1, <1>2

-----------------------------------------------------------------------------
(* The inductive invariant of the session.                                 *)

Turns ==
    /\ SendsFirstSet
    /\ \A c \in Client :
          /\ Ends(c) /\ OneTurn(c) /\ (Started(c) => Later(c)) /\ SetsZero(c)
          /\ Unique(c) /\ OneDeleted(c)

LEMMA TurnsInit == Init => Turns
  <1>1. SUFFICES ASSUME Init
                 PROVE  Turns
    OBVIOUS
  <1>2. SendsFirstSet
    BY <1>1 DEF Init, SendsFirstSet
  <1>3. ASSUME NEW c \in Client
        PROVE  /\ Ends(c) /\ OneTurn(c) /\ ~Started(c) /\ SetsZero(c)
               /\ Unique(c) /\ OneDeleted(c)
    <2>1. /\ client[c].at = "off" /\ client[c].hashes = {} /\ client[c].download = NoDownload
          /\ link[c] = "none" /\ toServer[c] = <<>> /\ toClient[c] = <<>>
          /\ server = Receiving /\ reader[c] = IdleReader
      BY <1>1 DEF Init
    <2>2. ~Serving(c) /\ ~Busy(c) /\ client[c].download.at = "none"
      BY <2>1 DEF Serving, Busy, IdleReader, NoDownload
    <2>3. Ends(c)
      BY <2>1, <2>2, HasNothing DEF Ends, Ended
    <2>4. OneTurn(c)
      BY <2>1, <2>2, HasNothing DEF OneTurn
    <2>5. ~Started(c)
      BY <2>1, <2>2, HasNothing DEF Started, Deleted
    <2>6. SetsZero(c) /\ Unique(c) /\ OneDeleted(c)
      BY <2>1 DEF SetsZero, Unique, OneDeleted, Deleted
    <2>7. QED  BY <2>3, <2>4, <2>5, <2>6
  <1>4. QED  BY <1>2, <1>3 DEF Turns

LEMMA TurnsNext == TypeOK /\ TypeOK' /\ UploadFirst /\ Turns /\ [Next]_vars => Turns'
  <1>1. SUFFICES ASSUME TypeOK, TypeOK', UploadFirst, Turns, [Next]_vars
                 PROVE  Turns'
    OBVIOUS
  <1>2. SendsFirstSet'
    BY <1>1, SendsFirstSetStep DEF Turns
  <1>3. ASSUME NEW c \in Client
        PROVE  /\ Ends(c)' /\ OneTurn(c)' /\ (Started(c)' => Later(c)') /\ SetsZero(c)'
               /\ Unique(c)' /\ OneDeleted(c)'
    <2>1. /\ Opening(c) /\ SendsFirstSet /\ Ends(c) /\ OneTurn(c) /\ (Started(c) => Later(c))
          /\ SetsZero(c) /\ Unique(c) /\ OneDeleted(c)
      BY <1>1 DEF Turns, UploadFirst
    <2>2. Ends(c)'
      BY <1>1, <2>1, EndsStep
    <2>3. OneTurn(c)'
      BY <1>1, <2>1, OneTurnStep
    <2>4. Started(c)' => Later(c)'
      BY <1>1, <2>1, StartedStep
    <2>5. SetsZero(c)'
      BY <1>1, <2>1, SetsZeroStep
    <2>6. Unique(c)' /\ OneDeleted(c)'
      BY <1>1, <2>1, UniqueStep, OneDeletedStep
    <2>7. QED  BY <2>2, <2>3, <2>4, <2>5, <2>6
  <1>4. QED  BY <1>2, <1>3 DEF Turns

\* At any time one at most of the packets in flight, the detached thread and
\* UpdateServer is about to do something for a client (OneTurn); it deletes
\* once, and what it receives is of the set that it asked for.
THEOREM TurnsHold == Spec => []Turns
  <1>1. Spec => []TypeOK
    BY TypeCorrect
  <1>2. Spec => []UploadFirst
    BY UploadFirstHolds
  <1>3. QED  BY <1>1, <1>2, TurnsInit, TurnsNext, PTL DEF Spec

\* The headers and files that a running client has yet to read are of the set
\* that it receives, for any number of clients and whatever they send.
THEOREM SetIdsAgreeHolds == Spec => []SetIdsAgree
  <1>1. Turns => SetIdsAgree
    BY DEF Turns, SetsZero, SetIdsAgree, Only, OfFirstSet, Has
  <1>2. QED  BY <1>1, TurnsHold, PTL

\* Of the files in its list a client loses one at most, however many the
\* server tells it to delete.
THEOREM DeletesAtMostOneHolds == Spec => []DeletesAtMostOne
  <1>1. ASSUME NEW S, \A g, h \in S : g = h
        PROVE  Cardinality(S) <= 1
    <2>1. CASE S = {}
      BY <2>1, FS_EmptySet
    <2>2. ASSUME NEW h \in S
          PROVE  Cardinality(S) <= 1
      <3>1. S = {h}
        BY <1>1, <2>2
      <3>2. QED  BY <3>1, FS_Singleton
    <2>3. QED  BY <2>1, <2>2
  <1>2. ASSUME Turns, NEW c \in Client
        PROVE  Cardinality({h \in client[c].hashes : client[c].disk[h[1]] = Absent}) <= 1
    BY <1>1, <1>2 DEF Turns, OneDeleted, Deleted
  <1>3. Turns => DeletesAtMostOne
    BY <1>2 DEF DeletesAtMostOne
  <1>4. QED  BY <1>3, TurnsHold, PTL

-----------------------------------------------------------------------------
(* Manifests: the thread of a client finds the client's own list.          *)

\* No two clients connect from the same address.
OwnAddresses == \A c, d \in Client : IpOf[c] = IpOf[d] => c = d

\* The manifest that is stored for the client's address is its list.
Mine(c) == manifests[IpOf[c]].hashes = client[c].hashes

\* ID_SENDFILE from the server names the set it receives.
Named(set) == {p \in ClientPacket : p.type = "sendFile" => p.set = set}

\* A list on its way is the first packet, the client's, and of the set that
\* the server receives; while the connection lasts ID_SENDFILE follows it.
OwnList(c) ==
    \A i \in 1 .. Len(toServer[c]) : toServer[c][i].type = "fileStructure" =>
        /\ i = 1 /\ toServer[c][i].hashes = client[c].hashes
        /\ toServer[c][i].set = serverReceiver[c]
        /\ link[c] = "up" => Has(toServer[c], {"sendFile"})

\* The list is stored before ID_SENDFILE is read and until it is compared.
Own(c) ==
    /\ OwnList(c)
    /\ Has(toServer[c], {"sendFile"}) => Mine(c) \/ Head(toServer[c]).type = "fileStructure"
    /\ link[c] = "up" => Only(toClient[c], Named(serverReceiver[c]))
    /\ reader[c].at = "read" => Mine(c)
    /\ reader[c].at \in {"add", "inserted", "counted"} =>
          reader[c].toDelete = FindFilesToDelete(client[c].hashes, serverHashes)

\* The manifest of an address changes when the list of its client arrives and
\* when its client was served.
LEMMA ManifestKept ==
    ASSUME OwnAddresses, TypeOK, NEW c \in Client, [Next]_vars,
           ~ServerFileStructure(c), ~(ServerSent /\ server.client = c)
    PROVE  manifests'[IpOf[c]] = manifests[IpOf[c]]
  <1> USE UpdateSessionAssumption
  <1>1. DOMAIN manifests = Ip /\ IpOf[c] \in Ip
    BY DEF TypeOK
  <1>2. CASE UNCHANGED vars
    BY <1>2 DEF vars
  <1>3. CASE ServerSends
    <2>1. CASE ServerSent
      <3>1. server # Receiving /\ manifests' = [manifests EXCEPT ![IpOf[server.client]] = NoManifest]
        BY <2>1, SentAllIs
      <3>2. IpOf[server.client] # IpOf[c]
        BY <2>1, <3>1, ServedClient DEF OwnAddresses
      <3>3. QED  BY <1>1, <3>1, <3>2
    <2>2. CASE ServerSendNext \/ ServerWaited
      BY <2>2, SendNextIs, WaitedIs
    <2>3. QED  BY <1>3, <2>1, <2>2 DEF ServerSends
  <1>4. ASSUME NEW d \in Client, ServerFileStructure(d)
        PROVE  manifests'[IpOf[c]] = manifests[IpOf[c]]
    <2>1. IpOf[d] # IpOf[c]
      BY <1>4 DEF OwnAddresses
    <2>2. \/ manifests' = [manifests EXCEPT ![IpOf[d]] = Manifest(Head(toServer[d]).hashes)]
          \/ manifests' = manifests
      BY <1>4, FileStructureIs
    <2>3. QED  BY <1>1, <2>1, <2>2
  <1>5. ASSUME NEW d \in Client, ClientStep(d), ~ServerFileStructure(d)
        PROVE  manifests' = manifests
    <2>1. CASE ServerServes(d)
      BY <1>5, <2>1, NewConnectionIs, SendFileIs, FileSendIs, ClosedIs DEF ServerServes
    <2>2. CASE ReaderThread(d)
      BY <2>2, ReadIs, InsertIs, ReplyIs DEF ReaderThread, ReaderOnly
    <2>3. CASE ClientLoop(d)
      BY <2>3, ClientSendFileIs, CanFilesBeSentIs, HeaderIs, FileIs, FilesFinishedIs,
         DisconnectedIs, ConnectionLostIs DEF ClientLoop, Took
    <2>4. CASE Environment(d) \/ ClientStart(d) \/ ClientConnected(d) \/ GiveUp(d)
      BY <2>4, AcceptIs, RefuseIs, LinkLostIs, ProcessEndsIs, StartIs, ConnectedIs
      DEF Environment, ServerKept
    <2>5. QED  BY <1>5, <2>1, <2>2, <2>3, <2>4 DEF ClientStep, ClientProcess
  <1>6. QED  BY <1>2, <1>3, <1>4, <1>5 DEF Next, ClientStep

\* The connection of a client with nothing of the update in flight to the
\* server carries nothing to it.
LEMMA NothingInFlight ==
    ASSUME TypeOK, NEW c \in Client, Opening(c), OwnList(c), link[c] = "up",
           ~Has(toServer[c], TurnPacket)
    PROVE  toServer[c] = <<>>
  <1>1. toServer[c] \in Seq(ServerPacket)
    BY DEF TypeOK
  <1>2. SUFFICES ASSUME toServer[c] # <<>>
                 PROVE  FALSE
    OBVIOUS
  <1>3. 1 \in 1 .. Len(toServer[c]) /\ toServer[c][1] \in ServerPacket
    BY <1>1, <1>2, TailIs
  <1>4. toServer[c][1].type \in TurnPacket \cup {"fileStructure", "lost", "disconnected"}
    BY <1>3 DEF ServerPacket, TurnPacket, NewConnection, Disconnected, ConnectionLost, ClientReady
  <1>5. toServer[c][1].type \notin {"lost", "disconnected"}
    BY <1>3 DEF Opening
  <1>6. toServer[c][1].type # "fileStructure"
    <2>1. ~Has(toServer[c], {"sendFile"})
      BY HasMore DEF TurnPacket
    <2>2. QED  BY <1>3, <2>1 DEF OwnList
  <1>7. QED  BY <1>3, <1>4, <1>5, <1>6 DEF Has

\* Nothing happens to what the server has of the client; something else than
\* ID_SENDFILE may be sent to it.
LEMMA OwnKept ==
    ASSUME TypeOK, NEW c \in Client, Own(c), client'[c].hashes = client[c].hashes,
           toServer'[c] = toServer[c],
           serverHashes' = serverHashes, serverReceiver'[c] = serverReceiver[c],
           \/ reader'[c].at = "idle"
           \/ reader'[c].at = reader[c].at /\ reader'[c].toDelete = reader[c].toDelete
           \/ /\ {reader[c].at, reader'[c].at} \subseteq {"add", "inserted", "counted"}
              /\ reader'[c].toDelete = reader[c].toDelete,
           Has(toServer[c], {"sendFile"}) \/ reader'[c].at = "read" =>
              manifests'[IpOf[c]] = manifests[IpOf[c]],
           link'[c] = "up" =>
              /\ link[c] = "up"
              /\ \/ toClient'[c] = toClient[c]
                 \/ toClient[c] # <<>> /\ toClient'[c] = Tail(toClient[c])
                 \/ \E p \in ClientPacket : SentToClientIs(c, p) /\ p.type # "sendFile"
    PROVE  Own(c)'
  <1>1. toClient[c] \in Seq(ClientPacket)
    BY DEF TypeOK
  <1>2. OwnList(c)'
    BY DEF OwnList, Own
  <1>3. Has(toServer'[c], {"sendFile"}) => Mine(c)' \/ Head(toServer'[c]).type = "fileStructure"
    BY DEF Own, Mine
  <1>4. /\ reader'[c].at = "read" => Mine(c)'
        /\ reader'[c].at \in {"add", "inserted", "counted"} =>
              reader'[c].toDelete = FindFilesToDelete(client'[c].hashes, serverHashes')
    BY DEF Own, Mine
  <1>5. ASSUME link'[c] = "up"
        PROVE  Only(toClient'[c], Named(serverReceiver[c]))
    <2> DEFINE named == Named(serverReceiver[c])
    <2>1. Only(toClient[c], named)
      BY <1>5 DEF Own
    <2>2. CASE toClient'[c] = toClient[c]
      BY <2>1, <2>2
    <2>3. CASE toClient[c] # <<>> /\ toClient'[c] = Tail(toClient[c])
      BY <1>1, <2>1, <2>3, OnlyTail
    <2>4. ASSUME NEW p \in ClientPacket, SentToClientIs(c, p), p.type # "sendFile"
          PROVE  Only(toClient'[c], named)
      <3>1. p \in named /\ toClient'[c] = toClient[c] \o <<p>>
        BY <1>5, <2>4 DEF Named, SentToClientIs
      <3> HIDE DEF named
      <3>2. Only(toClient[c] \o <<p>>, named)
        BY <1>1, <2>1, <3>1, OnlySent
      <3>3. QED  BY <3>1, <3>2
    <2>5. QED  BY <1>5, <2>2, <2>3, <2>4
  <1>6. QED  BY <1>2, <1>3, <1>4, <1>5 DEF Own

\* UpdateServer takes the list before anything else that is left of it.
LEMMA NoListLeft ==
    ASSUME TypeOK, NEW c \in Client, OwnList(c), NEW type, Served(c, type)
    PROVE  ~Has(toServer'[c], {"fileStructure"})
  <1>1. toServer[c] \in Seq(ServerPacket) /\ toServer[c] # <<>> /\ toServer'[c] = Tail(toServer[c])
    BY DEF TypeOK, Served
  <1>2. \A i \in 1 .. Len(Tail(toServer[c])) :
           i + 1 \in 2 .. Len(toServer[c]) /\ Tail(toServer[c])[i] = toServer[c][i + 1]
    BY <1>1, TailIs
  <1>3. \A i \in 2 .. Len(toServer[c]) : toServer[c][i].type # "fileStructure"
    BY DEF OwnList
  <1>4. QED  BY <1>1, <1>2, <1>3 DEF Has

\* A queue without a list needs nothing of the list.
LEMMA NoListOwn ==
    ASSUME NEW c \in Client, ~Has(toServer'[c], {"fileStructure"})
    PROVE  OwnList(c)'
  BY DEF OwnList, Has

\* A client that reads nothing of its turn takes any name.
LEMMA NotNamed ==
    ASSUME TypeOK, NEW c \in Client, ~Has(toClient[c], TurnPacket), NEW set
    PROVE  Only(toClient[c], Named(set))
  <1>1. toClient[c] \in Seq(ClientPacket)
    BY DEF TypeOK
  <1>2. \A i \in 1 .. Len(toClient[c]) :
           toClient[c][i] \in ClientPacket /\ toClient[c][i].type # "sendFile"
    BY <1>1 DEF Has, TurnPacket
  <1>3. QED  BY <1>2 DEF Only, Named

LEMMA OwnServed ==
    ASSUME OwnAddresses, TypeOK, NEW c \in Client, Opening(c), OneTurn(c), Own(c),
           [Next]_vars, ServerServes(c)
    PROVE  Own(c)'
  <1>1. PICK type : Served(c, type)
    BY NewConnectionIs, FileStructureIs, SendFileIs, FileSendIs, ClosedIs DEF ServerServes
  <1>2. OwnList(c)' /\ OwnList(c)
    BY <1>1, NoListLeft, NoListOwn DEF Own
  <1>3. /\ toServer[c] \in Seq(ServerPacket) /\ toServer[c] # <<>> /\ client' = client
        /\ link' = link /\ serverHashes' = serverHashes
        /\ Head(toServer[c]) = toServer[c][1] /\ 1 \in 1 .. Len(toServer[c])
        /\ Has(toServer'[c], {"sendFile"}) => Has(toServer[c], {"sendFile"})
    <2>1. /\ toServer[c] \in Seq(ServerPacket) /\ toServer[c] # <<>> /\ client' = client
          /\ link' = link /\ serverHashes' = serverHashes
      BY <1>1 DEF TypeOK, Served
    <2>2. Head(toServer[c]) = toServer[c][1] /\ 1 \in 1 .. Len(toServer[c])
      BY <2>1, TailIs
    <2>3. Has(toServer'[c], {"sendFile"}) => Has(toServer[c], {"sendFile"})
      BY <1>1, ServerTook
    <2>4. QED  BY <2>1, <2>2, <2>3
  <1>4. CASE ServerFileStructure(c)
    <2>1. /\ Head(toServer[c]).type = "fileStructure"
          /\ Head(toServer[c]).set = serverReceiver[c]
          /\ Head(toServer[c]).hashes = client[c].hashes
          /\ link[c] = "up" => Has(toServer[c], {"sendFile"})
      BY <1>2, <1>3, <1>4, FileStructureIs DEF Served, OwnList
    <2>2. /\ manifests' = [manifests EXCEPT ![IpOf[c]] = Manifest(client[c].hashes)]
          /\ toClient'[c] = toClient[c] /\ reader' = reader
      BY <1>4, <2>1, FileStructureIs
    <2>3. DOMAIN manifests = Ip /\ IpOf[c] \in Ip
      BY UpdateSessionAssumption DEF TypeOK
    <2>4. Mine(c)'
      BY <1>3, <2>2, <2>3 DEF Mine, Manifest
    <2>5. link[c] = "up" => ~Has(toClient[c], TurnPacket)
      <3>1. Has(toServer[c], {"sendFile"}) => Has(toServer[c], TurnPacket)
        BY HasMore DEF TurnPacket
      <3>2. QED  BY <2>1, <3>1 DEF OneTurn
    <2>6. link'[c] = "up" => Only(toClient'[c], Named(serverReceiver'[c]))
      BY <1>3, <2>2, <2>5, NotNamed
    <2>7. QED  BY <1>2, <1>3, <2>2, <2>4, <2>6 DEF Own
  <1>5. CASE ~ServerFileStructure(c)
    <2>1. ~ServerSent
      BY <1>1, SentAllIs DEF Served
    <2>2. manifests'[IpOf[c]] = manifests[IpOf[c]]
      BY <1>5, <2>1, ManifestKept
    <2>3. Head(toServer[c]).type # "fileStructure"
      BY <1>5, NewConnectionIs, SendFileIs, FileSendIs, ClosedIs DEF ServerServes, Served
    <2>4. Has(toServer[c], {"sendFile"}) => Mine(c) /\ Mine(c)'
      BY <1>3, <2>2, <2>3 DEF Own, Mine
    <2>5. reader[c].at = "read" => Mine(c)'
      BY <1>3, <2>2 DEF Own, Mine
    <2>6. CASE ServerNewConnection(c)
      <3>1. /\ Served(c, "new") /\ SentToClientIs(c, SendFile(nextSet)) /\ reader' = reader
            /\ link[c] = "up" => serverReceiver'[c] = nextSet
        BY <2>6, NewConnectionIs
      <3>2. Has(toServer[c], TurnPacket)
        <4>1. "new" \in TurnPacket
          BY DEF TurnPacket
        <4>2. QED  BY <3>1, <4>1, ServerTook
      <3>3. Only(toClient[c], Named(nextSet))
        BY <3>2, NotNamed DEF OneTurn
      <3>4. link[c] = "up" => Only(toClient'[c], Named(nextSet))
        <4>1. SendFile(nextSet) \in ClientPacket /\ SendFile(nextSet) \in Named(nextSet)
          BY SentTypes DEF Named, SendFile
        <4>2. toClient[c] \in Seq(ClientPacket)
          BY DEF TypeOK
        <4>3. Only(toClient[c] \o <<SendFile(nextSet)>>, Named(nextSet))
          BY <3>3, <4>1, <4>2, OnlySent
        <4>4. QED  BY <3>1, <4>3 DEF SentToClientIs
      <3>5. QED  BY <1>2, <1>3, <2>4, <2>5, <3>1, <3>4 DEF Own
    <2>7. CASE ServerSendFile(c)
      <3>1. /\ Served(c, "sendFile") /\ toClient'[c] = toClient[c]
            /\ reader'[c] = [IdleReader EXCEPT !.at = "read"]
            /\ serverReceiver' = serverReceiver
        BY <2>7, SendFileIs
      <3>2. Has(toServer[c], {"sendFile"})
        BY <3>1, ServerTook
      <3>3. reader'[c].at = "read"
        BY <3>1 DEF IdleReader
      <3>4. QED  BY <1>2, <1>3, <2>4, <3>1, <3>2, <3>3 DEF Own
    <2>8. CASE ServerFileSend(c)
      <3>1. /\ SentToClientIs(c, Header(FirstSet, fileCount))
            /\ UNCHANGED <<reader, serverReceiver>>
        BY <2>8, FileSendIs
      <3>2. link[c] = "up" => Only(toClient'[c], Named(serverReceiver[c]))
        <4>1. /\ Header(FirstSet, fileCount) \in ClientPacket
              /\ Header(FirstSet, fileCount) \in Named(serverReceiver[c])
          BY SentTypes DEF Named
        <4>2. toClient[c] \in Seq(ClientPacket)
          BY DEF TypeOK
        <4>3. link[c] = "up" =>
                 Only(toClient[c] \o <<Header(FirstSet, fileCount)>>, Named(serverReceiver[c]))
          BY <4>1, <4>2, OnlySent DEF Own
        <4>4. QED  BY <3>1, <4>3 DEF SentToClientIs
      <3>3. QED  BY <1>2, <1>3, <2>4, <2>5, <3>1, <3>2 DEF Own
    <2>9. CASE ServerClosed(c)
      <3>1. reader' = reader /\ Head(toServer[c]).type \in {"lost", "disconnected"}
        BY <2>9, ClosedIs DEF Served
      <3>2. link[c] # "up"
        BY <1>3, <3>1 DEF Opening
      <3>3. QED  BY <1>2, <1>3, <2>4, <2>5, <3>1, <3>2 DEF Own
    <2>10. QED  BY <1>5, <2>6, <2>7, <2>8, <2>9 DEF ServerServes
  <1>6. QED  BY <1>4, <1>5

\* The client takes a packet and sends none.
LEMMA OwnTook ==
    ASSUME TypeOK, NEW c \in Client, Own(c), NEW type, Took(c, type),
           toServer'[c] = toServer[c], client'[c].hashes = client[c].hashes,
           link'[c] = "up" => link[c] = "up" /\ toClient'[c] = Tail(toClient[c])
    PROVE  Own(c)'
  <1>1. /\ serverHashes' = serverHashes /\ serverReceiver'[c] = serverReceiver[c]
        /\ reader' = reader /\ manifests' = manifests /\ toClient[c] # <<>>
    BY DEF Took
  <1>2. /\ reader'[c].at = reader[c].at /\ reader'[c].toDelete = reader[c].toDelete
        /\ manifests'[IpOf[c]] = manifests[IpOf[c]]
    BY <1>1
  <1>3. link'[c] = "up" =>
           /\ link[c] = "up"
           /\ \/ toClient'[c] = toClient[c]
              \/ toClient[c] # <<>> /\ toClient'[c] = Tail(toClient[c])
              \/ \E p \in ClientPacket : SentToClientIs(c, p) /\ p.type # "sendFile"
    BY <1>1
  <1>4. toServer'[c] = toServer[c] /\ client'[c].hashes = client[c].hashes
    OBVIOUS
  <1>5. QED  BY ONLY TypeOK, Own(c), <1>1, <1>2, <1>3, <1>4, OwnKept

\* The connection breaks on the way to the server.
LEMMA OwnCut ==
    ASSUME TypeOK, NEW c \in Client, Own(c), IsCut(toServer'[c], toServer[c]),
           client'[c].hashes = client[c].hashes, link'[c] = "lost",
           UNCHANGED <<reader, serverReceiver, serverHashes, manifests>>
    PROVE  Own(c)'
  <1>1. PICK k \in 0 .. Len(toServer[c]) :
           /\ Len(toServer'[c]) = k + 1
           /\ toServer'[c][k + 1].type = "lost"
           /\ \A i \in 1 .. k : i \in 1 .. Len(toServer[c]) /\ toServer'[c][i] = toServer[c][i]
    BY DEF IsCut
  <1>2. Len(toServer[c]) \in Nat /\ k \in Nat
    BY <1>1 DEF TypeOK
  <1>3. \A i \in 1 .. Len(toServer'[c]) :
           toServer'[c][i].type # "lost" => i \in 1 .. k /\ 1 \in 1 .. k
    BY <1>1, <1>2
  <1>4. OwnList(c)'
    <2>1. SUFFICES ASSUME NEW i \in 1 .. Len(toServer'[c]),
                          toServer'[c][i].type = "fileStructure"
                   PROVE  /\ i = 1 /\ toServer'[c][i].hashes = client'[c].hashes
                          /\ toServer'[c][i].set = serverReceiver'[c]
      BY DEF OwnList
    <2>2. i \in 1 .. Len(toServer[c]) /\ toServer'[c][i] = toServer[c][i]
      BY <1>1, <1>3, <2>1
    <2>3. QED  BY <2>1, <2>2 DEF Own, OwnList
  <1>5. ASSUME Has(toServer'[c], {"sendFile"})
        PROVE  Mine(c)' \/ Head(toServer'[c]).type = "fileStructure"
    <2>1. PICK i \in 1 .. Len(toServer'[c]) : toServer'[c][i].type = "sendFile"
      BY <1>5 DEF Has
    <2>2. 1 \in 1 .. k /\ i \in 1 .. k
      BY <1>3, <2>1
    <2>3. toServer'[c][1] = toServer[c][1] /\ Has(toServer[c], {"sendFile"})
      BY <1>1, <2>1, <2>2 DEF Has
    <2>4. Head(toServer'[c]) = toServer'[c][1] /\ Head(toServer[c]) = toServer[c][1]
      OBVIOUS
    <2>5. QED  BY <2>3, <2>4 DEF Own, Mine
  <1>6. QED  BY <1>4, <1>5 DEF Own, Mine

LEMMA OwnLoop ==
    ASSUME OwnAddresses, TypeOK, NEW c \in Client, Opening(c), Ends(c), OneTurn(c), Own(c),
           [Next]_vars, ClientLoop(c)
    PROVE  Own(c)'
  <1>1. ASSUME NEW type, Took(c, type)
        PROVE  /\ toClient[c] # <<>> /\ Head(toClient[c]) \in ClientPacket
               /\ Head(toClient[c]).type = type
               /\ UNCHANGED <<serverHashes, manifests, serverReceiver, reader>>
               /\ type \in TurnPacket => ~Has(toServer[c], TurnPacket)
    <2>1. Has(toClient[c], TurnPacket) \/ type \notin TurnPacket
      BY <1>1, ClientTook
    <2>2. QED  BY <1>1, <2>1, HeadTailType DEF Took, OneTurn, TypeOK
  <1>2. CASE ClientSendFile(c)
    <2>1. /\ Took(c, "sendFile") /\ toClient'[c] = Tail(toClient[c]) /\ UNCHANGED <<client, link>>
          /\ SentToServerIs(c, Upload(Head(toClient[c]).set, client[c].hashes))
          /\ "sendFile" \in TurnPacket
      BY <1>2, ClientSendFileIs DEF TurnPacket
    <2>2. CASE link[c] # "up"
      <3>1. toServer'[c] = toServer[c]
        BY <2>1, <2>2 DEF SentToServerIs
      <3>2. client'[c].hashes = client[c].hashes /\ link'[c] # "up"
        BY <2>1, <2>2
      <3>3. QED  BY ONLY TypeOK, Own(c), <2>1, <3>1, <3>2, OwnTook
    <2>3. CASE link[c] = "up"
      <3> DEFINE set == Head(toClient[c]).set
                 hashes == client[c].hashes
      <3>1. toServer[c] = <<>>
        BY <1>1, <2>1, <2>3, NothingInFlight DEF Own
      <3>2. /\ toClient[c] \in Seq(ClientPacket) /\ toClient[c] # <<>>
            /\ Only(toClient[c], Named(serverReceiver[c]))
        BY <1>1, <2>1, <2>3 DEF TypeOK, Own
      <3>3. /\ Head(toClient[c]) \in Named(serverReceiver[c])
            /\ Only(toClient'[c], Named(serverReceiver[c]))
        BY <2>1, <3>2, OnlyTail
      <3>4. set = serverReceiver[c]
        BY <1>1, <2>1, <3>3 DEF Named
      <3> HIDE DEF set, hashes
      <3>5. toServer'[c] = <<FileStructure(set, hashes), ClientReady>>
        BY <2>1, <2>3, <3>1 DEF SentToServerIs, Upload, set, hashes
      <3>6. /\ FileStructure(set, hashes).type = "fileStructure"
            /\ FileStructure(set, hashes).set = set /\ FileStructure(set, hashes).hashes = hashes
            /\ ClientReady.type = "sendFile"
        BY DEF FileStructure, ClientReady
      <3>7. /\ Len(toServer'[c]) = 2 /\ toServer'[c][1] = FileStructure(set, hashes)
            /\ toServer'[c][2] = ClientReady /\ Head(toServer'[c]) = toServer'[c][1]
        BY <3>5
      <3>8. Has(toServer'[c], {"sendFile"})
        BY <3>6, <3>7 DEF Has
      <3>9. OwnList(c)'
        <4>1. \A i \in 1 .. Len(toServer'[c]) : i = 1 \/ i = 2
          BY <3>7
        <4>2. serverReceiver' = serverReceiver /\ client'[c].hashes = hashes
          BY <1>1, <2>1 DEF hashes
        <4>3. QED  BY <3>4, <3>6, <3>7, <3>8, <4>1, <4>2 DEF OwnList
      <3>10. QED  BY <1>1, <2>1, <3>3, <3>6, <3>7, <3>9 DEF Own, Mine
    <2>4. QED  BY <2>2, <2>3
  <1>3. CASE ClientCanFilesBeSent(c)
    <2>1. /\ Took(c, "canFilesBeSent") /\ toClient'[c] = Tail(toClient[c]) /\ link' = link
          /\ SentToServerIs(c, <<ClientFileSend(FirstSet)>>)
          /\ client'[c].hashes = client[c].hashes /\ "canFilesBeSent" \in TurnPacket
      BY <1>3, CanFilesBeSentIs DEF TurnPacket, ProcessKept
    <2>2. CASE link[c] # "up"
      <3>1. toServer'[c] = toServer[c]
        BY <2>1, <2>2 DEF SentToServerIs
      <3>2. client'[c].hashes = client[c].hashes /\ link'[c] # "up"
        BY <2>1, <2>2
      <3>3. QED  BY ONLY TypeOK, Own(c), <2>1, <3>1, <3>2, OwnTook
    <2>3. CASE link[c] = "up"
      <3>1. toServer[c] = <<>>
        BY <1>1, <2>1, <2>3, NothingInFlight DEF Own
      <3>2. /\ ~Has(toServer'[c], {"fileStructure"}) /\ ~Has(toServer'[c], {"sendFile"})
        BY <2>1, <3>1, SentTypes, ToServerAfter, HasNothing
      <3>3. Only(toClient'[c], Named(serverReceiver[c]))
        BY <1>1, <2>1, <2>3, OnlyTail DEF TypeOK, Own
      <3>4. OwnList(c)'
        BY <3>2, NoListOwn
      <3>5. UNCHANGED <<serverHashes, manifests, serverReceiver, reader>>
        BY <1>1, <2>1
      <3>6. QED  BY <2>1, <3>2, <3>3, <3>4, <3>5 DEF Own, Mine
    <2>4. QED  BY <2>2, <2>3
  <1>4. CASE ClientHeader(c) \/ ClientFile(c) \/ ClientConnectionLost(c)
    <2>1. /\ \E type : Took(c, type)
          /\ toClient'[c] = Tail(toClient[c]) /\ UNCHANGED <<link, toServer>>
          /\ client'[c].hashes = client[c].hashes
      BY <1>4, HeaderIs, FileIs, ConnectionLostIs DEF ProcessKept
    <2>2. link'[c] = "up" => link[c] = "up" /\ toClient'[c] = Tail(toClient[c])
      BY <2>1
    <2>3. QED  BY ONLY TypeOK, Own(c), <2>1, <2>2, OwnTook
  <1>5. CASE ClientFilesFinished(c)
    <2>1. /\ Took(c, "filesFinished") /\ client'[c].hashes = client[c].hashes
          /\ SentToServerIs(c, <<Disconnected>>)
          /\ link'[c] # "up" /\ "filesFinished" \in TurnPacket
      BY <1>5, FilesFinishedIs DEF TurnPacket, ProcessKept
    <2>2. CASE link[c] # "up"
      <3>1. toServer'[c] = toServer[c]
        BY <2>1, <2>2 DEF SentToServerIs
      <3>2. client'[c].hashes = client[c].hashes /\ link'[c] # "up"
        BY <2>1, <2>2
      <3>3. QED  BY ONLY TypeOK, Own(c), <2>1, <3>1, <3>2, OwnTook
    <2>3. CASE link[c] = "up"
      <3>1. toServer[c] = <<>>
        BY <1>1, <2>1, <2>3, NothingInFlight DEF Own
      <3>2. ~Has(toServer'[c], {"fileStructure"}) /\ ~Has(toServer'[c], {"sendFile"})
        BY <2>1, <3>1, SentTypes, ToServerAfter, HasNothing
      <3>3. OwnList(c)'
        BY <3>2, NoListOwn
      <3>4. UNCHANGED <<serverHashes, manifests, serverReceiver, reader>>
        BY <1>1, <2>1
      <3>5. QED  BY <2>1, <3>2, <3>3, <3>4 DEF Own, Mine
    <2>4. QED  BY <2>2, <2>3
  <1>6. CASE ClientDisconnected(c)
    <2>1. /\ Took(c, "disconnected") /\ UNCHANGED <<link, toServer>>
          /\ client'[c].hashes = client[c].hashes
      BY <1>6, DisconnectedIs
    <2>2. Has(toClient[c], {"disconnected"})
      BY <2>1, ClientTook
    <2>3. link'[c] # "up"
      BY <2>1, <2>2 DEF Ends
    <2>4. QED  BY ONLY TypeOK, Own(c), <2>1, <2>3, OwnTook
  <1>7. QED  BY <1>2, <1>3, <1>4, <1>5, <1>6 DEF ClientLoop

LEMMA OwnStep ==
    ASSUME OwnAddresses, TypeOK, NEW c \in Client, Opening(c), Ends(c), OneTurn(c), Own(c),
           [Next]_vars
    PROVE  Own(c)'
  <1>1. CASE Kept(c)
    <2>1. ~ServerFileStructure(c)
      <3>1. ASSUME ServerFileStructure(c)
            PROVE  FALSE
        <4>1. /\ toServer[c] \in Seq(ServerPacket) /\ toServer[c] # <<>>
              /\ Tail(toServer[c]) = toServer[c]
          BY <1>1, <3>1, FileStructureIs DEF Served, Kept, Untouched, TypeOK
        <4> DEFINE n == Len(toServer[c])
                   rest == Tail(toServer[c])
        <4>2. Len(rest) = n - 1 /\ n \in Nat
          BY <4>1, TailIs
        <4>3. Len(rest) = n
          BY <4>1
        <4> HIDE DEF n, rest
        <4>4. QED  BY <4>2, <4>3
      <3>2. QED  BY <3>1
    <2>2. ~(ServerSent /\ server.client = c)
      <3>1. ASSUME ServerSent, server.client = c
            PROVE  FALSE
        <4>1. server # Receiving /\ server.at = "send" /\ server'.at = "wait"
          BY <3>1, SentAllIs
        <4>2. server' = server
          BY <1>1, <3>1, <4>1 DEF Kept, Serving
        <4>3. QED  BY <4>1, <4>2
      <3>2. QED  BY <3>1
    <2>3. manifests'[IpOf[c]] = manifests[IpOf[c]]
      BY <2>1, <2>2, ManifestKept
    <2>4. /\ client'[c].hashes = client[c].hashes /\ link'[c] = link[c]
          /\ toServer'[c] = toServer[c] /\ toClient'[c] = toClient[c]
          /\ serverHashes' = serverHashes /\ serverReceiver'[c] = serverReceiver[c]
          /\ reader'[c].at = reader[c].at /\ reader'[c].toDelete = reader[c].toDelete
      BY <1>1 DEF Kept, Untouched
    <2>5. QED  BY ONLY TypeOK, Own(c), <2>3, <2>4, OwnKept
  <1>2. CASE Serving(c) /\ ServerSends
    <2>1. server.client = c /\ SendsOnly
      BY <1>2, SendNextIs, SentAllIs, WaitedIs DEF Serving, ServerSends
    <2>2. ~Has(toServer[c], TurnPacket) /\ ~Busy(c)
      BY <1>2 DEF OneTurn
    <2>3. ~Has(toServer[c], {"sendFile"}) /\ reader[c].at = "idle"
      BY <2>2, HasMore DEF TurnPacket, Busy
    <2>4. toClient'[c] = toClient[c] \/
             \E p \in ClientPacket : SentToClientIs(c, p) /\ p.type # "sendFile"
      <3>1. CASE ServerSendNext
        BY <2>1, <3>1, SendNextIs, FileSent
      <3>2. CASE ServerSent
        BY <3>2, SentAllIs
      <3>3. CASE ServerWaited
        BY <2>1, <3>3, WaitedIs, SentTypes
      <3>4. QED  BY <1>2, <3>1, <3>2, <3>3 DEF ServerSends
    <2>5. /\ client'[c].hashes = client[c].hashes /\ link'[c] = link[c]
          /\ toServer'[c] = toServer[c] /\ serverHashes' = serverHashes
          /\ serverReceiver'[c] = serverReceiver[c] /\ reader'[c].at = "idle"
      BY <2>1, <2>3 DEF SendsOnly
    <2>6. QED  BY ONLY TypeOK, Own(c), <2>3, <2>4, <2>5, OwnKept
  <1>3. CASE ServerServes(c)
    BY <1>3, OwnServed
  <1>4. CASE ReaderThread(c)
    <2>1. Busy(c) /\ ReaderOnly
      BY <1>4, ReadIs, InsertIs, ReplyIs DEF ReaderThread, Busy
    <2>2. ~Has(toServer[c], TurnPacket)
      BY <2>1 DEF OneTurn
    <2>3. ~Has(toServer[c], {"sendFile"})
      BY <2>2, HasMore DEF TurnPacket
    <2>4. /\ client'[c].hashes = client[c].hashes /\ link'[c] = link[c]
          /\ toServer'[c] = toServer[c] /\ serverHashes' = serverHashes
          /\ serverReceiver'[c] = serverReceiver[c]
          /\ manifests'[IpOf[c]] = manifests[IpOf[c]]
      BY <2>1 DEF ReaderOnly
    <2>5. CASE ReaderRead(c)
      <3>1. /\ toClient' = toClient /\ reader[c].at = "read" /\ reader'[c].at = "add"
            /\ reader'[c].toDelete =
                  FindFilesToDelete(manifests[IpOf[c]].hashes, serverHashes)
        BY <2>5, ReadIs
      <3>2. reader'[c].toDelete = FindFilesToDelete(client[c].hashes, serverHashes)
        BY <3>1 DEF Own, Mine
      <3>3. OwnList(c)'
        BY <2>4 DEF Own, OwnList
      <3>4. QED  BY <2>3, <2>4, <3>1, <3>2, <3>3 DEF Own
    <2>6. CASE ReaderReply(c)
      <3>1. /\ SentToClientIs(c, CanFilesBeSent(reader[c].toDelete)) /\ reader'[c].at = "idle"
        BY <2>6, ReplyIs DEF IdleReader
      <3>2. \E p \in ClientPacket : SentToClientIs(c, p) /\ p.type # "sendFile"
        BY <3>1, SentTypes
      <3>3. QED  BY ONLY TypeOK, Own(c), <2>3, <2>4, <3>1, <3>2, OwnKept
    <2>7. CASE ReaderAdd(c) \/ ReaderLoad(c) \/ ReaderStore(c)
      <3>1. /\ toClient'[c] = toClient[c]
            /\ {reader[c].at, reader'[c].at} \subseteq {"add", "inserted", "counted"}
            /\ reader'[c].toDelete = reader[c].toDelete
        BY <2>7, InsertIs
      <3>2. QED  BY ONLY TypeOK, Own(c), <2>3, <2>4, <3>1, OwnKept
    <2>8. QED  BY <1>4, <2>5, <2>6, <2>7 DEF ReaderThread
  <1>5. CASE ClientLoop(c)
    BY <1>5, OwnLoop
  <1>6. ASSUME ServerKept, client'[c].hashes = client[c].hashes, toServer'[c] = toServer[c],
               link'[c] = "up" => link[c] = "up" /\ toClient'[c] = toClient[c]
        PROVE  Own(c)'
    <2>1. /\ serverHashes' = serverHashes /\ serverReceiver'[c] = serverReceiver[c]
          /\ reader'[c].at = reader[c].at /\ reader'[c].toDelete = reader[c].toDelete
          /\ manifests'[IpOf[c]] = manifests[IpOf[c]]
      BY <1>6 DEF ServerKept
    <2>2. QED  BY ONLY TypeOK, Own(c), <1>6, <2>1, OwnKept
  <1>7. CASE GiveUp(c) \/ ClientDies(c)
    <2>1. ServerKept /\ client'[c].hashes = client[c].hashes
      BY <1>7, ProcessEndsIs
    <2>2. CASE toServer'[c] = toServer[c] /\ link'[c] # "up"
      BY <1>6, <2>1, <2>2
    <2>3. CASE IsCut(toServer'[c], toServer[c]) /\ link'[c] = "lost"
      BY <2>1, <2>3, OwnCut DEF ServerKept
    <2>4. QED  BY <1>7, <2>2, <2>3, ProcessEndsIs
  <1>8. CASE LinkLost(c)
    BY <1>8, LinkLostIs, OwnCut DEF ServerKept
  <1>9. CASE Refuse(c) \/ ClientConnected(c)
    <2>1. /\ ServerKept /\ client'[c].hashes = client[c].hashes
          /\ UNCHANGED <<toServer, toClient>>
          /\ link'[c] = "up" => link[c] = "up"
      BY <1>9, RefuseIs, ConnectedIs
    <2>2. QED  BY <1>6, <2>1
  <1>10. CASE Accept(c) \/ ClientStart(c)
    <2>1. link[c] = "none" /\ ServerKept /\ toClient' = toClient
      BY <1>10, AcceptIs, StartIs DEF Ends
    <2>2. toServer[c] = <<>> /\ toClient[c] = <<>> /\ reader'[c].at = "idle"
      BY <2>1 DEF Opening, ServerKept
    <2>3. toServer'[c] = <<>> \/ toServer'[c] = <<NewConnection>>
      BY <1>10, <2>2, AcceptIs, StartIs
    <2>4. ~Has(toServer'[c], {"fileStructure"}) /\ ~Has(toServer'[c], {"sendFile"})
      <3>1. ~Has(<<NewConnection>>, {"fileStructure"}) /\ ~Has(<<NewConnection>>, {"sendFile"})
        BY SentTypes DEF Has
      <3>2. QED  BY <2>3, <3>1, HasNothing
    <2>5. OwnList(c)' /\ \A packets : Only(<<>>, packets)
      BY <2>4, NoListOwn DEF Only
    <2>6. QED  BY <2>1, <2>2, <2>4, <2>5 DEF Own
  <1>11. QED
    BY <1>1, <1>2, <1>3, <1>4, <1>5, <1>7, <1>8, <1>9, <1>10, StepOf
    DEF ClientStep, ClientProcess, Environment

LEMMA OwnInit == Init => \A c \in Client : Own(c)
  <1>1. SUFFICES ASSUME Init, NEW c \in Client
                 PROVE  Own(c)
    OBVIOUS
  <1>2. /\ link[c] = "none" /\ toServer[c] = <<>> /\ reader[c].at = "idle"
    BY <1>1 DEF Init, IdleReader
  <1>3. OwnList(c) /\ ~Has(<<>>, {"sendFile"})
    BY <1>2, HasNothing DEF OwnList
  <1>4. QED  BY <1>2, <1>3 DEF Own

LEMMA OwnHolds == ASSUME OwnAddresses PROVE Spec => [](\A c \in Client : Own(c))
  <1> DEFINE AllOwn == \A c \in Client : Own(c)
  <1>1. TypeOK /\ UploadFirst /\ Turns /\ AllOwn /\ [Next]_vars => AllOwn'
    BY OwnStep DEF UploadFirst, Turns
  <1>2. Init => AllOwn
    BY OwnInit
  <1> HIDE DEF AllOwn
  <1>3. Spec => []AllOwn
    BY <1>1, <1>2, TypeCorrect, UploadFirstHolds, TurnsHold, PTL DEF Spec
  <1>4. QED  BY <1>3 DEF AllOwn

\* The files a client is told to delete are found in its own list, as long as
\* no two clients share an address.
THEOREM OwnManifestHolds == ASSUME OwnAddresses PROVE Spec => []OwnManifest
  <1>1. (\A c \in Client : Own(c)) => OwnManifest
    BY DEF Own, OwnManifest
  <1>2. QED  BY <1>1, OwnHolds, PTL
=============================================================================
