------------------------- MODULE UpdateSessionProofs -------------------------
(***************************************************************************)
(* What holds of UpdateSession for every number of clients, every          *)
(* directory, every address map and every MaxConnections.                  *)
(***************************************************************************)
EXTENDS UpdateSession, TLAPS

-----------------------------------------------------------------------------
(* Operators of HashFiles and of the queues.                               *)

\* A directory hashes to a set of hashes (FileManager::CreateAllHashFiles).
LEMMA CreateAllHashFilesType ==
    ASSUME NEW disk \in Disk
    PROVE  CreateAllHashFiles(disk) \in SUBSET Hash
  BY HashFilesAssumption DEF CreateAllHashFiles, HashFile, Files, Disk, Hash

\* Deleting by hash leaves a directory (UpdateClient).
LEMMA DeleteFilesType ==
    ASSUME NEW disk \in Disk, NEW hashes
    PROVE  DeleteFiles(disk, hashes, ClientExe) \in Disk
  BY DEF DeleteFiles, Disk

\* A file received leaves a directory (FileCB::OnFile).
LEMMA WrittenType ==
    ASSUME NEW disk \in Disk, NEW entry \in Entry \cup {Hole}
    PROVE  Written(disk, entry) \in Disk
  BY DEF Written, Disk, Entry

\* Send appends packets to one queue or to none.
LEMMA SentType ==
    ASSUME NEW S, NEW queue \in [Client -> Seq(S)], NEW c \in Client,
           NEW packets \in Seq(S)
    PROVE  Sent(queue, c, packets) \in [Client -> Seq(S)]
  BY DEF Sent

\* What survives of a queue is a queue.
LEMMA SurvivingType ==
    ASSUME NEW S, NEW queue \in Seq(S), NEW rest \in Surviving(queue)
    PROVE  rest \in Seq(S)
  <1>1. PICK k \in 0 .. Len(queue) : rest = SubSeq(queue, 1, k)
    BY DEF Surviving
  <1>2. QED  BY <1>1

\* A prefix of a queue with the end of the connection after it.
IsCut(cut, queue) ==
    \E k \in 0 .. Len(queue) :
        /\ Len(cut) = k + 1
        /\ cut[k + 1].type = "lost"
        /\ \A i \in 1 .. k : i \in 1 .. Len(queue) /\ cut[i] = queue[i]

\* What survives of a queue is a prefix of it.
LEMMA SurvivingPrefix ==
    ASSUME NEW S, NEW queue \in Seq(S), NEW rest \in Surviving(queue)
    PROVE  IsCut(Append(rest, ConnectionLost), queue)
  <1> DEFINE cut == Append(rest, ConnectionLost)
  <1>1. PICK k \in 0 .. Len(queue) : rest = SubSeq(queue, 1, k)
    BY DEF Surviving
  <1>2. /\ rest \in Seq(S) /\ Len(rest) = k
        /\ \A i \in 1 .. k : rest[i] = queue[i]
    BY <1>1
  <1>3. /\ Len(cut) = k + 1 /\ cut[k + 1] = ConnectionLost
        /\ \A i \in 1 .. k : cut[i] = rest[i]
    BY <1>2
  <1>4. cut[k + 1].type = "lost"
    BY <1>3 DEF ConnectionLost
  <1>5. \A i \in 1 .. k : i \in 1 .. Len(queue)
    OBVIOUS
  <1>6. QED  BY <1>2, <1>3, <1>4, <1>5 DEF IsCut

\* What a packet of each type carries to the server ...
LEMMA ServerPacketFields ==
    ASSUME NEW p \in ServerPacket
    PROVE  /\ p.type = "fileStructure" => p.set \in SetId /\ p.hashes \in SUBSET Hash
           /\ p.type = "clientFileSend" => p.sendID \in SetId
  BY DEF ServerPacket, NewConnection, Disconnected, ConnectionLost, ClientReady

\* ... and to a client.
LEMMA ClientPacketFields ==
    ASSUME NEW p \in ClientPacket
    PROVE  /\ p.type = "sendFile" => p.set \in SetId
           /\ p.type = "canFilesBeSent" => p.hashes \in SUBSET Hash
           /\ p.type = "header" => p.set \in SetId /\ p.count \in Nat
           /\ p.type = "file" => p.set \in SetId /\ p.entry \in Entry \cup {Hole}
  BY DEF ClientPacket, Disconnected, ConnectionLost, FilesFinished

\* Every packet the code makes is a packet.
LEMMA PacketTypes ==
    /\ {NewConnection, Disconnected, ConnectionLost, ClientReady} \subseteq ServerPacket
    /\ {Disconnected, ConnectionLost, FilesFinished} \subseteq ClientPacket
    /\ \A s \in SetId, hs \in SUBSET Hash : FileStructure(s, hs) \in ServerPacket
    /\ \A id \in SetId : ClientFileSend(id) \in ServerPacket
    /\ \A s \in SetId : SendFile(s) \in ClientPacket
    /\ \A hs \in SUBSET Hash : CanFilesBeSent(hs) \in ClientPacket
    /\ \A s \in SetId, n \in Nat : Header(s, n) \in ClientPacket
    /\ \A s \in SetId, e \in Entry \cup {Hole} : File(s, e) \in ClientPacket
  BY DEF ServerPacket, ClientPacket, FileStructure, ClientFileSend, SendFile,
         CanFilesBeSent, Header, File

\* The head of a queue is a packet and the rest of it a queue.
LEMMA HeadTailType ==
    ASSUME NEW S, NEW queue \in Seq(S), queue # <<>>
    PROVE  Head(queue) \in S /\ Tail(queue) \in Seq(S)
  OBVIOUS

\* One packet sent to a client keeps the queues typed.
LEMMA SentToClient ==
    ASSUME TypeOK, NEW c \in Client, NEW p \in ClientPacket
    PROVE  Sent(toClient, c, <<p>>) \in [Client -> Seq(ClientPacket)]
  <1>1. toClient \in [Client -> Seq(ClientPacket)]
    BY DEF TypeOK
  <1>2. <<p>> \in Seq(ClientPacket)
    OBVIOUS
  <1>3. QED  BY <1>1, <1>2, SentType

\* Set ids wrap around like unsigned shorts.
LEMMA SetIdFacts ==
    /\ 0 \in SetId /\ NoReceiver \notin SetId
    /\ \A s \in SetId : (s + 1) % 65536 \in SetId
  BY DEF SetId, NoReceiver

\* A slot holds an entry or nothing.
LEMMA SlotType ==
    ASSUME TypeOK, NEW i \in Nat \ {0}
    PROVE  Slot(i) \in Entry \cup {Hole}
  BY DEF Slot, TypeOK

-----------------------------------------------------------------------------
(* Type correctness, one lemma per part of the system.                     *)

\* Every initial state, the program as it is started, has the right types.
LEMMA TypeInit == Init => TypeOK
  <1> SUFFICES ASSUME Init PROVE TypeOK
    OBVIOUS
  <1>1. client \in [Client -> ClientState]
    BY UpdateSessionAssumption DEF Init, ClientState, NoDownload, NoReceiver, Download
  <1>2. server \in ServerState /\ reader \in [Client -> ReaderState]
    BY DEF Init, ServerState, ReaderState, Receiving, IdleReader
  <1>3. serverDisk \in Disk /\ serverHashes \in SUBSET Hash
    BY UpdateSessionAssumption, HashFilesAssumption, CreateAllHashFilesType DEF Init
  <1>4. /\ manifests \in [Ip -> [exists : BOOLEAN, hashes : SUBSET Hash]]
        /\ nextSet \in SetId
        /\ serverReceiver \in [Client -> SetId \cup {NoReceiver}]
    BY DEF Init, NoManifest, FirstSet, SetId, NoReceiver
  <1>5. /\ toServer \in [Client -> Seq(ServerPacket)]
        /\ toClient \in [Client -> Seq(ClientPacket)]
        /\ fileList \in Seq(Entry \cup {Hole})
    BY DEF Init
  <1>6. /\ link \in [Client -> {"none", "up", "refused", "lost", "closed"}]
        /\ fileCount \in Nat
        /\ serverStructure \in BOOLEAN
        /\ finishedDownloading \in BOOLEAN
    BY DEF Init
  <1>7. QED  BY <1>1, <1>2, <1>3, <1>4, <1>5, <1>6 DEF TypeOK

\* A connection that breaks, a process that ends or a user who gives up keeps
\* the types.
LEMMA TypeEnvironment ==
    ASSUME TypeOK, NEW c \in Client, Environment(c) \/ GiveUp(c)
    PROVE  TypeOK'
  <1>1. ASSUME Breaks(c)
        PROVE  /\ link' \in [Client -> {"none", "up", "refused", "lost", "closed"}]
               /\ toServer' \in [Client -> Seq(ServerPacket)]
    <2>1. PICK queue \in Surviving(toServer[c]) :
              toServer' = [toServer EXCEPT ![c] = Append(queue, ConnectionLost)]
      BY <1>1 DEF Breaks
    <2>2. Append(queue, ConnectionLost) \in Seq(ServerPacket)
      BY <2>1, SurvivingType, PacketTypes DEF TypeOK
    <2>3. QED  BY <1>1, <2>1, <2>2 DEF Breaks, TypeOK
  <1>2. ASSUME NEW how \in {"dead", "failed"}, ProcessEnds(c, how)
        PROVE  TypeOK'
    <2>1. client' \in [Client -> ClientState]
      <3>1. client' = [client EXCEPT ![c].at = how]
        BY <1>2 DEF ProcessEnds
      <3>2. client \in [Client -> ClientState]
        BY DEF TypeOK
      <3>3. QED  BY <3>1, <3>2 DEF ClientState
    <2>2. /\ link' \in [Client -> {"none", "up", "refused", "lost", "closed"}]
          /\ toServer' \in [Client -> Seq(ServerPacket)]
      BY <1>1, <1>2 DEF ProcessEnds, TypeOK
    <2>3. toClient' \in [Client -> Seq(ClientPacket)]
      BY <1>2 DEF ProcessEnds, TypeOK
    <2>4. QED  BY <1>2, <2>1, <2>2, <2>3 DEF ProcessEnds, TypeOK, hostVars, sets, listVars
  <1>3. CASE Accept(c)
    <2>1. toServer' \in [Client -> Seq(ServerPacket)]
      BY <1>3, PacketTypes DEF Accept, TypeOK
    <2>2. QED  BY <1>3, <2>1 DEF Accept, TypeOK, hostVars, sets, listVars
  <1>4. CASE Refuse(c)
    BY <1>4 DEF Refuse, TypeOK, queues, hostVars, sets, listVars
  <1>5. CASE LinkLost(c)
    <2>1. PICK queue \in Surviving(toClient[c]) :
              toClient' = [toClient EXCEPT ![c] = Append(queue, ConnectionLost)]
      BY <1>5 DEF LinkLost
    <2>2. toClient' \in [Client -> Seq(ClientPacket)]
      <3>1. Append(queue, ConnectionLost) \in Seq(ClientPacket)
        BY <2>1, SurvivingType, PacketTypes DEF TypeOK
      <3>2. QED  BY <2>1, <3>1 DEF TypeOK
    <2>3. QED  BY <1>1, <1>5, <2>2 DEF LinkLost, TypeOK, hostVars, sets, listVars
  <1>6. QED
    BY <1>2, <1>3, <1>4, <1>5 DEF Environment, ClientDies, GiveUp

\* Taking a packet changes nothing but one queue, and the packet has its type.
LEMMA ServerReceivesType ==
    ASSUME TypeOK, NEW c \in Client, NEW type, ServerReceives(c, type)
    PROVE  /\ toServer' \in [Client -> Seq(ServerPacket)]
           /\ Head(toServer[c]) \in ServerPacket
           /\ Head(toServer[c]).type = type
           /\ UNCHANGED <<client, link, serverDisk, serverHashes,
                          serverStructure, fileList, fileCount>>
  <1>1. toServer[c] \in Seq(ServerPacket) /\ toServer[c] # <<>>
    BY DEF ServerReceives, TypeOK
  <1>2. Head(toServer[c]) \in ServerPacket /\ Tail(toServer[c]) \in Seq(ServerPacket)
    BY <1>1, HeadTailType
  <1>3. QED  BY <1>2 DEF ServerReceives, TypeOK, hostVars, listVars

\* The server's accept and receive handlers keep the types.
LEMMA TypeServerServes ==
    ASSUME TypeOK, NEW c \in Client, ServerServes(c)
    PROVE  TypeOK'
  <1>1. /\ serverReceiver \in [Client -> SetId \cup {NoReceiver}] /\ nextSet \in SetId
        /\ 0 \in SetId
    BY SetIdFacts DEF TypeOK
  <1>2. CASE ServerNewConnection(c)
    <2>1. ServerReceives(c, "new")
      BY <1>2 DEF ServerNewConnection
    <2>2. toClient' \in [Client -> Seq(ClientPacket)]
      <3>1. SendFile(nextSet) \in ClientPacket
        BY <1>1, PacketTypes
      <3>2. Sent(toClient, c, <<SendFile(nextSet)>>) \in [Client -> Seq(ClientPacket)]
        BY <3>1, SentToClient
      <3>3. QED  BY <1>2, <3>2 DEF ServerNewConnection
    <2>3. nextSet' \in SetId
      BY <1>1, <1>2, SetIdFacts DEF ServerNewConnection, sets
    <2>4. serverReceiver' \in [Client -> SetId \cup {NoReceiver}]
      <3>1. \/ serverReceiver' = serverReceiver
            \/ serverReceiver' = [serverReceiver EXCEPT ![c] = nextSet]
        BY <1>2 DEF ServerNewConnection, sets
      <3>2. QED  BY <1>1, <3>1
    <2>5. UNCHANGED <<manifests, server, finishedDownloading, reader>>
      BY <1>2 DEF ServerNewConnection
    <2>6. QED
      BY <2>1, <2>2, <2>3, <2>4, <2>5, ServerReceivesType DEF TypeOK
  <1>3. CASE ServerFileStructure(c)
    <2>1. ServerReceives(c, "fileStructure")
      BY <1>3 DEF ServerFileStructure
    <2>2. Manifest(Head(toServer[c]).hashes) \in [exists : BOOLEAN, hashes : SUBSET Hash]
      BY <2>1, ServerReceivesType, ServerPacketFields DEF Manifest
    <2>3. manifests' \in [Ip -> [exists : BOOLEAN, hashes : SUBSET Hash]]
      <3>1. manifests \in [Ip -> [exists : BOOLEAN, hashes : SUBSET Hash]]
        BY DEF TypeOK
      <3>2. \/ manifests' = manifests
            \/ manifests' = [manifests EXCEPT
                               ![IpOf[c]] = Manifest(Head(toServer[c]).hashes)]
        BY <1>3 DEF ServerFileStructure
      <3>3. QED  BY <2>2, <3>1, <3>2
    <2>4. serverReceiver' \in [Client -> SetId \cup {NoReceiver}]
      <3>1. \/ serverReceiver' = serverReceiver
            \/ serverReceiver' = [serverReceiver EXCEPT ![c] = NoReceiver]
        BY <1>3 DEF ServerFileStructure
      <3>2. QED  BY <1>1, <3>1
    <2>5. finishedDownloading' \in BOOLEAN
      BY <1>3 DEF ServerFileStructure, TypeOK
    <2>6. QED
      BY <1>3, <2>1, <2>3, <2>4, <2>5, ServerReceivesType DEF ServerFileStructure, TypeOK
  <1>4. CASE ServerSendFile(c)
    <2>1. ServerReceives(c, "sendFile")
      BY <1>4 DEF ServerSendFile
    <2>2. reader' \in [Client -> ReaderState]
      BY <1>4 DEF ServerSendFile, TypeOK, ReaderState, IdleReader
    <2>3. QED
      BY <1>4, <2>1, <2>2, ServerReceivesType DEF ServerSendFile, TypeOK, sets
  <1>5. CASE ServerFileSend(c)
    <2>1. ServerReceives(c, "clientFileSend")
      BY <1>5 DEF ServerFileSend
    <2>2. toClient' \in [Client -> Seq(ClientPacket)]
      <3>1. fileCount \in Nat
        BY DEF TypeOK
      <3>2. Header(0, fileCount) \in ClientPacket
        BY <1>1, <3>1, PacketTypes
      <3>3. toClient' = Sent(toClient, c, <<Header(0, fileCount)>>)
        BY <1>5 DEF ServerFileSend, ReadSetId
      <3>4. QED  BY <3>2, <3>3, SentToClient
    <2>3. server' \in ServerState
      BY <1>1, <1>5 DEF ServerFileSend, ReadSetId, ServerState
    <2>4. QED
      BY <1>5, <2>1, <2>2, <2>3, ServerReceivesType DEF ServerFileSend, TypeOK, sets
  <1>6. CASE ServerClosed(c)
    <2>1. PICK type \in {"disconnected", "lost"} : ServerReceives(c, type)
      BY <1>6 DEF ServerClosed
    <2>2. serverReceiver' \in [Client -> SetId \cup {NoReceiver}]
      <3>1. serverReceiver' = [serverReceiver EXCEPT ![c] = NoReceiver]
        BY <1>6 DEF ServerClosed
      <3>2. QED  BY <1>1, <3>1
    <2>3. QED
      BY <1>6, <2>1, <2>2, ServerReceivesType DEF ServerClosed, TypeOK
  <1>7. QED
    BY <1>2, <1>3, <1>4, <1>5, <1>6 DEF ServerServes

\* The server's sending loop (ID_SENDFILE, UpdateServer) keeps the types.
LEMMA TypeServerSends ==
    ASSUME TypeOK, ServerSends
    PROVE  TypeOK'
  <1>1. CASE ServerSendNext
    <2>1. server \in [at : {"send"}, client : Client, set : SetId, next : Nat \ {0}]
      BY <1>1 DEF ServerSendNext, TypeOK, ServerState, Receiving
    <2>2. toClient' \in [Client -> Seq(ClientPacket)]
      <3>1. File(server.set, Slot(server.next)) \in ClientPacket
        BY <2>1, SlotType, PacketTypes
      <3>2. toClient' = Sent(toClient, server.client,
                             <<File(server.set, Slot(server.next))>>)
        BY <1>1 DEF ServerSendNext
      <3>3. server.client \in Client
        BY <2>1
      <3>4. QED  BY <3>1, <3>2, <3>3, SentToClient
    <2>3. server' \in ServerState
      <3>1. server' = [server EXCEPT !.next = @ + 1]
        BY <1>1 DEF ServerSendNext
      <3>2. QED  BY <2>1, <3>1 DEF ServerState
    <2>4. QED
      BY <1>1, <2>2, <2>3 DEF ServerSendNext, TypeOK, hostVars, sets, listVars
  <1>2. CASE ServerSent
    <2>1. server.client \in Client
      BY <1>2 DEF ServerSent, TypeOK, ServerState, Receiving
    <2>2. manifests' \in [Ip -> [exists : BOOLEAN, hashes : SUBSET Hash]]
      BY <1>2 DEF ServerSent, TypeOK, NoManifest
    <2>3. server' \in ServerState
      BY <1>2, <2>1 DEF ServerSent, ServerState
    <2>4. QED
      BY <1>2, <2>2, <2>3 DEF ServerSent, TypeOK, queues, hostVars, sets, listVars
  <1>3. CASE ServerWaited
    <2>1. server.client \in Client
      BY <1>3 DEF ServerWaited, TypeOK, ServerState, Receiving
    <2>2. toClient' \in [Client -> Seq(ClientPacket)]
      BY <1>3, <2>1, PacketTypes, SentToClient DEF ServerWaited
    <2>3. server' \in ServerState
      BY <1>3 DEF ServerWaited, ServerState
    <2>4. QED
      BY <1>3, <2>2, <2>3 DEF ServerWaited, TypeOK, hostVars, sets, listVars
  <1>4. QED  BY <1>1, <1>2, <1>3 DEF ServerSends

\* Every step of a reader thread of the server keeps the types.
LEMMA TypeReaderThread ==
    ASSUME TypeOK, NEW c \in Client, ReaderThread(c)
    PROVE  TypeOK'
  <1>1. reader \in [Client -> ReaderState] /\ reader[c] \in ReaderState
    BY DEF TypeOK
  <1>2. CASE ReaderRead(c)
    <2>1. \E toAdd \in SUBSET Path, toDelete \in SUBSET Hash :
             reader' = [reader EXCEPT ![c] = [at |-> "add", toAdd |-> toAdd,
                                              toDelete |-> toDelete, count |-> 0]]
      <3>1. manifests[IpOf[c]].hashes \in SUBSET Hash /\ serverHashes \in SUBSET Hash
        BY UpdateSessionAssumption DEF TypeOK
      <3>2. FindFilesToDelete(manifests[IpOf[c]].hashes, serverHashes) \in SUBSET Hash
        BY <3>1 DEF FindFilesToDelete
      <3>3. {h[1] : h \in FindMissingFiles(manifests[IpOf[c]].hashes, serverHashes)}
                \ {ServerExe} \in SUBSET Path
        BY <3>1 DEF FindMissingFiles, Hash
      <3>4. QED  BY <1>2, <3>2, <3>3 DEF ReaderRead
    <2>2. reader' \in [Client -> ReaderState]
      BY <1>1, <2>1 DEF ReaderState
    <2>3. QED
      BY <1>2, <2>2 DEF ReaderRead, ReaderStep, TypeOK, sets, listVars
  <1>3. CASE ReaderAdd(c)
    <2>1. PICK p \in reader[c].toAdd :
            \/ /\ reader' = [reader EXCEPT ![c].toAdd = @ \ {p}]
               /\ UNCHANGED fileList
            \/ /\ serverDisk[p] # Absent
               /\ reader' = [reader EXCEPT ![c].toAdd = @ \ {p}, ![c].at = "inserted"]
               /\ \E last \in Nat : fileList' =
                     [i \in 1 .. last |->
                        IF i = fileCount + 1 THEN <<p, serverDisk[p]>> ELSE Slot(i)]
      <3>1. Len(fileList) \in Nat /\ fileCount + 1 \in Nat
        BY DEF TypeOK
      <3>2. QED  BY <1>3, <3>1 DEF ReaderAdd
    <2>2. reader' \in [Client -> ReaderState]
      <3>1. reader[c].toAdd \ {p} \in SUBSET Path
        BY <1>1 DEF ReaderState
      <3>2. CASE reader' = [reader EXCEPT ![c].toAdd = @ \ {p}]
        BY <1>1, <3>1, <3>2 DEF ReaderState
      <3>3. CASE reader' = [reader EXCEPT ![c].toAdd = @ \ {p}, ![c].at = "inserted"]
        BY <1>1, <3>1, <3>3 DEF ReaderState
      <3>4. QED  BY <2>1, <3>2, <3>3
    <2>3. fileList' \in Seq(Entry \cup {Hole})
      <3>1. CASE UNCHANGED fileList
        BY <3>1 DEF TypeOK
      <3>2. CASE serverDisk[p] # Absent /\ \E last \in Nat : fileList' =
                     [i \in 1 .. last |->
                        IF i = fileCount + 1 THEN <<p, serverDisk[p]>> ELSE Slot(i)]
        <4>1. <<p, serverDisk[p]>> \in Entry
          BY <1>1, <2>1, <3>2 DEF TypeOK, Disk, Entry, ReaderState
        <4>2. \A i \in Nat \ {0} : Slot(i) \in Entry \cup {Hole}
          BY SlotType
        <4>3. QED  BY <3>2, <4>1, <4>2
      <3>3. QED  BY <2>1, <3>1, <3>2
    <2>4. QED
      BY <1>3, <2>2, <2>3 DEF ReaderAdd, ReaderStep, TypeOK, sets
  <1>4. CASE ReaderLoad(c)
    <2>1. reader' \in [Client -> ReaderState]
      <3>1. reader' = [reader EXCEPT ![c].at = "counted", ![c].count = fileCount]
        BY <1>4 DEF ReaderLoad
      <3>2. fileCount \in Nat
        BY DEF TypeOK
      <3>3. QED  BY <1>1, <3>1, <3>2 DEF ReaderState
    <2>2. QED
      BY <1>4, <2>1 DEF ReaderLoad, ReaderStep, TypeOK, sets, listVars
  <1>5. CASE ReaderStore(c)
    <2>1. reader' \in [Client -> ReaderState]
      <3>1. reader' = [reader EXCEPT ![c].at = "add"]
        BY <1>5 DEF ReaderStore
      <3>2. QED  BY <1>1, <3>1 DEF ReaderState
    <2>2. fileCount' \in Nat
      BY <1>1, <1>5 DEF ReaderStore, ReaderState
    <2>3. QED
      BY <1>5, <2>1, <2>2 DEF ReaderStore, ReaderStep, TypeOK, sets
  <1>6. CASE ReaderReply(c)
    <2>1. reader' \in [Client -> ReaderState]
      BY <1>1, <1>6 DEF ReaderReply, ReaderState, IdleReader
    <2>2. toClient' \in [Client -> Seq(ClientPacket)]
      <3>1. CanFilesBeSent(reader[c].toDelete) \in ClientPacket
        BY <1>1, PacketTypes DEF ReaderState
      <3>2. QED  BY <1>6, <3>1, SentToClient DEF ReaderReply
    <2>3. QED
      BY <1>6, <2>1, <2>2 DEF ReaderReply, ReaderStep, TypeOK, sets, listVars
  <1>7. QED
    BY <1>2, <1>3, <1>4, <1>5, <1>6 DEF ReaderThread

\* Taking a packet changes nothing of the server's, and the packet is typed.
LEMMA ClientReceivesType ==
    ASSUME TypeOK, NEW c \in Client, NEW type, ClientReceives(c, type)
    PROVE  /\ Head(toClient[c]) \in ClientPacket
           /\ Head(toClient[c]).type = type
           /\ [toClient EXCEPT ![c] = Tail(@)] \in [Client -> Seq(ClientPacket)]
           /\ client[c] \in ClientState
           /\ UNCHANGED <<serverDisk, serverHashes, serverStructure, manifests,
                          server, finishedDownloading, nextSet, serverReceiver,
                          reader, fileList, fileCount>>
  <1>1. toClient[c] \in Seq(ClientPacket) /\ toClient[c] # <<>>
    BY DEF ClientReceives, TypeOK
  <1>2. Head(toClient[c]) \in ClientPacket /\ Tail(toClient[c]) \in Seq(ClientPacket)
    BY <1>1, HeadTailType
  <1>3. client[c] \in ClientState
    BY DEF TypeOK
  <1>4. [toClient EXCEPT ![c] = Tail(@)] \in [Client -> Seq(ClientPacket)]
    BY <1>2 DEF TypeOK
  <1>5. QED
    BY <1>2, <1>3, <1>4 DEF ClientReceives, hostVars, sets, listVars

\* What a client's download may become.
LEMMA DownloadType ==
    /\ NoDownload \in Download
    /\ [at |-> "header", set |-> FirstSet, left |-> 0] \in Download
    /\ \A d \in Download, n \in Nat : Awaiting(d, n) \in Download
    /\ \A d \in Download : d.at = "files" => d.left \in Nat \ {0}
  <1>1. /\ NoDownload \in Download
        /\ [at |-> "header", set |-> FirstSet, left |-> 0] \in Download
    BY SetIdFacts DEF Download, NoDownload, FirstSet
  <1>2. ASSUME NEW d \in Download, NEW n \in Nat
        PROVE  Awaiting(d, n) \in Download
    BY DEF Download, Awaiting
  <1>3. ASSUME NEW d \in Download, d.at = "files"
        PROVE  d.left \in Nat \ {0}
    BY <1>3 DEF Download
  <1>4. QED  BY <1>1, <1>2, <1>3

\* Every step of a client process keeps the types.
LEMMA TypeClientProcess ==
    ASSUME TypeOK, NEW c \in Client, ClientProcess(c)
    PROVE  TypeOK'
  <1>1. client \in [Client -> ClientState] /\ client[c] \in ClientState
    BY DEF TypeOK
  <1>2. CASE ClientStart(c)
    <2>1. CreateAllHashFiles(client[c].disk) \in SUBSET Hash
      BY <1>1, CreateAllHashFilesType DEF ClientState
    <2>2. client' \in [Client -> ClientState]
      BY <1>1, <1>2, <2>1 DEF ClientStart, ClientState
    <2>3. QED
      BY <1>2, <2>2 DEF ClientStart, TypeOK, queues, hostVars, sets, listVars
  <1>3. CASE ClientConnected(c)
    <2>1. client' \in [Client -> ClientState]
      BY <1>1, <1>3 DEF ClientConnected, ClientState
    <2>2. QED
      BY <1>3, <2>1 DEF ClientConnected, TypeOK, queues, hostVars, sets, listVars
  <1>4. CASE ClientSendFile(c)
    <2>1. ClientReceives(c, "sendFile") /\ UNCHANGED <<client, link>>
      BY <1>4 DEF ClientSendFile
    <2>2. toServer' \in [Client -> Seq(ServerPacket)]
      <3>1. FileStructure(Head(toClient[c]).set, client[c].hashes) \in ServerPacket
        BY <1>1, <2>1, ClientReceivesType, ClientPacketFields, PacketTypes DEF ClientState
      <3>2. Upload(Head(toClient[c]).set, client[c].hashes) \in Seq(ServerPacket)
        BY <3>1, PacketTypes DEF Upload
      <3>3. QED  BY <1>4, <3>2, SentType DEF ClientSendFile, TypeOK
    <2>3. toClient' \in [Client -> Seq(ClientPacket)]
      BY <1>4, <2>1, ClientReceivesType DEF ClientSendFile, ClientPops
    <2>4. QED
      BY <2>1, <2>2, <2>3, ClientReceivesType DEF TypeOK
  <1>5. CASE ClientCanFilesBeSent(c)
    <2>1. ClientReceives(c, "canFilesBeSent") /\ UNCHANGED link
      BY <1>5 DEF ClientCanFilesBeSent
    <2>2. client' \in [Client -> ClientState]
      <3>1. \E disk \in Disk, download \in
                 {client[c].download, [at |-> "header", set |-> FirstSet, left |-> 0]} :
              client' = [client EXCEPT ![c].disk = disk, ![c].download = download]
        BY <1>1, <1>5, DeleteFilesType DEF ClientCanFilesBeSent, ClientState
      <3>2. PICK disk \in Disk, download \in Download :
              client' = [client EXCEPT ![c].disk = disk, ![c].download = download]
        <4>1. client[c].download \in Download
          BY <1>1 DEF ClientState
        <4>2. [at |-> "header", set |-> FirstSet, left |-> 0] \in Download
          BY DownloadType
        <4>3. QED  BY <3>1, <4>1, <4>2
      <3>3. [client[c] EXCEPT !.disk = disk, !.download = download] \in ClientState
        BY <1>1 DEF ClientState
      <3>4. QED  BY <1>1, <3>2, <3>3
    <2>3. toServer' \in [Client -> Seq(ServerPacket)]
      <3>1. <<ClientFileSend(FirstSet)>> \in Seq(ServerPacket)
        BY PacketTypes, SetIdFacts DEF FirstSet
      <3>2. QED  BY <1>5, <3>1, SentType DEF ClientCanFilesBeSent, TypeOK
    <2>4. toClient' \in [Client -> Seq(ClientPacket)]
      BY <1>5, <2>1, ClientReceivesType DEF ClientCanFilesBeSent, ClientPops
    <2>5. QED
      BY <2>1, <2>2, <2>3, <2>4, ClientReceivesType DEF TypeOK
  <1>6. CASE ClientHeader(c)
    <2>1. ClientReceives(c, "header") /\ UNCHANGED <<link, toServer>>
      BY <1>6 DEF ClientHeader
    <2>2. client' \in [Client -> ClientState]
      <3>1. \/ client' = client
            \/ client' = [client EXCEPT ![c].download =
                            Awaiting(@, Head(toClient[c]).count)]
        BY <1>6 DEF ClientHeader
      <3>2. Head(toClient[c]).count \in Nat
        BY <2>1, ClientReceivesType, ClientPacketFields
      <3>3. Awaiting(client[c].download, Head(toClient[c]).count) \in Download
        BY <1>1, <3>2, DownloadType DEF ClientState
      <3>4. QED  BY <1>1, <3>1, <3>3 DEF ClientState
    <2>3. toClient' \in [Client -> Seq(ClientPacket)]
      BY <1>6, <2>1, ClientReceivesType DEF ClientHeader, ClientPops
    <2>4. QED
      BY <2>1, <2>2, <2>3, ClientReceivesType DEF TypeOK
  <1>7. CASE ClientFilesFinished(c)
    <2>1. ClientReceives(c, "filesFinished")
      BY <1>7 DEF ClientFilesFinished
    <2>2. client' \in [Client -> ClientState]
      BY <1>1, <1>7 DEF ClientFilesFinished, ClientState
    <2>3. toServer' \in [Client -> Seq(ServerPacket)]
      <3>1. <<Disconnected>> \in Seq(ServerPacket)
        BY PacketTypes
      <3>2. QED  BY <1>7, <3>1, SentType DEF ClientFilesFinished, TypeOK
    <2>4. toClient' \in [Client -> Seq(ClientPacket)]
      <3>1. <<Disconnected>> \in Seq(ClientPacket)
        BY PacketTypes
      <3>2. QED
        BY <1>7, <2>1, <3>1, ClientReceivesType, SentType DEF ClientFilesFinished
    <2>5. link' \in [Client -> {"none", "up", "refused", "lost", "closed"}]
      BY <1>7 DEF ClientFilesFinished, TypeOK
    <2>6. QED
      BY <2>1, <2>2, <2>3, <2>4, <2>5, ClientReceivesType DEF TypeOK
  <1>8. CASE ClientDisconnected(c)
    <2>1. ClientReceives(c, "disconnected") /\ UNCHANGED <<link, toServer>>
      BY <1>8 DEF ClientDisconnected
    <2>2. client' \in [Client -> ClientState]
      BY <1>1, <1>8 DEF ClientDisconnected, ClientState
    <2>3. toClient' \in [Client -> Seq(ClientPacket)]
      BY <1>8 DEF ClientDisconnected, TypeOK
    <2>4. QED
      BY <2>1, <2>2, <2>3, ClientReceivesType DEF TypeOK
  <1>9. CASE ClientConnectionLost(c)
    <2>1. ClientReceives(c, "lost") /\ UNCHANGED <<link, toServer>>
      BY <1>9 DEF ClientConnectionLost
    <2>2. client' \in [Client -> ClientState]
      <3>1. client' = [client EXCEPT ![c].download = NoDownload]
        BY <1>9 DEF ClientConnectionLost
      <3>2. QED  BY <1>1, <3>1, DownloadType DEF ClientState
    <2>3. toClient' \in [Client -> Seq(ClientPacket)]
      BY <1>9, <2>1, ClientReceivesType DEF ClientConnectionLost, ClientPops
    <2>4. QED
      BY <2>1, <2>2, <2>3, ClientReceivesType DEF TypeOK
  <1>10. CASE ClientFile(c)
    <2>1. ClientReceives(c, "file") /\ UNCHANGED <<link, toServer>>
      BY <1>10 DEF ClientFile
    <2>2. CASE UNCHANGED client
      BY <1>1, <1>10, <2>1, <2>2, ClientReceivesType DEF ClientFile, ClientPops, TypeOK
    <2>3. CASE /\ client[c].download.at = "files"
               /\ client' = [client EXCEPT
                     ![c].disk = Written(@, Head(toClient[c]).entry),
                     ![c].download = Awaiting(@, @.left - 1)]
      <3>1. Written(client[c].disk, Head(toClient[c]).entry) \in Disk
        BY <1>1, <2>1, ClientReceivesType, ClientPacketFields, WrittenType DEF ClientState
      <3>2. client[c].download \in Download /\ client[c].download.left - 1 \in Nat
        <4>1. client[c].download \in Download
          BY <1>1 DEF ClientState
        <4>2. client[c].download.left \in Nat \ {0}
          BY <2>3, <4>1, DownloadType
        <4>3. QED  BY <4>1, <4>2
      <3>3. Awaiting(client[c].download, client[c].download.left - 1) \in Download
        BY <3>2, DownloadType
      <3>4. client' \in [Client -> ClientState]
        <4> DEFINE disk == Written(client[c].disk, Head(toClient[c]).entry)
                   download == Awaiting(client[c].download, client[c].download.left - 1)
        <4>1. disk \in Disk /\ download \in Download
          BY <3>1, <3>3
        <4>2. client' = [client EXCEPT ![c].disk = disk, ![c].download = download]
          BY <2>3
        <4> HIDE DEF disk, download
        <4>3. [client[c] EXCEPT !.disk = disk, !.download = download] \in ClientState
          BY <1>1, <4>1 DEF ClientState
        <4>4. QED  BY <1>1, <4>2, <4>3
      <3>5. toClient' \in [Client -> Seq(ClientPacket)]
        BY <1>10, <2>1, ClientReceivesType DEF ClientFile, ClientPops
      <3>6. QED
        BY <2>1, <3>4, <3>5, ClientReceivesType DEF TypeOK
    <2>4. QED  BY <1>10, <2>2, <2>3 DEF ClientFile
  <1>11. QED
    BY <1>2, <1>3, <1>4, <1>5, <1>6, <1>7, <1>8, <1>9, <1>10, TypeEnvironment
    DEF ClientProcess, ClientLoop

\* Every step of the system, or a stutter, keeps the types.
LEMMA TypeNext == TypeOK /\ [Next]_vars => TypeOK'
  <1> SUFFICES ASSUME TypeOK, [Next]_vars PROVE TypeOK'
    OBVIOUS
  <1>1. CASE ServerSends
    BY <1>1, TypeServerSends
  <1>2. ASSUME NEW c \in Client,
               ServerServes(c) \/ ReaderThread(c) \/ ClientProcess(c) \/ Environment(c)
        PROVE  TypeOK'
    BY <1>2, TypeServerServes, TypeReaderThread, TypeClientProcess, TypeEnvironment
  <1>3. CASE UNCHANGED vars
    BY <1>3 DEF vars, queues, hostVars, sets, listVars, TypeOK
  <1>4. QED  BY <1>1, <1>2, <1>3 DEF Next

\* Every variable keeps its type, for any clients and directories; with it, the
\* code's count of files to receive never goes below zero.
THEOREM TypeCorrect == Spec => []TypeOK
  BY TypeInit, TypeNext, PTL DEF Spec

-----------------------------------------------------------------------------
(* UploadFirst is inductive.  First, what each kind of step does to the     *)
(* queues of one client: Opening.                                          *)

\* Opening is kept by a step that leaves the client's connection alone.
LEMMA OpeningFrame ==
    ASSUME NEW c \in Client, Opening(c),
           toServer'[c] = toServer[c], toClient'[c] = toClient[c],
           link'[c] = link[c], reader'[c] = reader[c]
    PROVE  Opening(c)'
  BY DEF Opening

\* The server takes a packet: what it took is the only announcement there was.
LEMMA OpeningServerPop ==
    ASSUME TypeOK, NEW c \in Client, Opening(c), toServer[c] # <<>>,
           toServer'[c] = Tail(toServer[c]), link'[c] = link[c]
    PROVE  Opening(c)'
  <1>1. toServer[c] \in Seq(ServerPacket)
    BY DEF TypeOK
  <1>2. QED  BY <1>1 DEF Opening

\* A reader thread runs only for a client that was announced.
LEMMA OpeningReader ==
    ASSUME TypeOK, NEW c \in Client, Opening(c), reader[c].at # "idle",
           toServer'[c] = toServer[c], link'[c] = link[c]
    PROVE  Opening(c)'
  BY DEF Opening

\* The server sends a file or ID_FILESFINISHED.
LEMMA OpeningServerSend ==
    ASSUME TypeOK, NEW c \in Client, Opening(c), NEW p,
           p.type \notin {"sendFile", "canFilesBeSent"}, link[c] = "up",
           toServer'[c] = toServer[c], toClient'[c] = toClient[c] \o <<p>>,
           link'[c] = link[c], reader'[c] = reader[c]
    PROVE  Opening(c)'
  <1>1. toClient[c] \in Seq(ClientPacket)
    BY DEF TypeOK
  <1>2. \A j \in 1 .. Len(toClient'[c]) :
           toClient'[c][j] = p \/ (j \in 1 .. Len(toClient[c]) /\ toClient'[c][j] = toClient[c][j])
    BY <1>1
  <1>3. QED  BY <1>2 DEF Opening

\* A client takes a packet and sends nothing.
LEMMA OpeningClientTakes ==
    ASSUME TypeOK, NEW c \in Client, Opening(c), toClient[c] # <<>>,
           toClient'[c] = Tail(toClient[c]), toServer'[c] = toServer[c],
           link'[c] = link[c], reader'[c] = reader[c]
    PROVE  Opening(c)'
  <1>1. toClient[c] \in Seq(ClientPacket)
    BY DEF TypeOK
  <1>2. \A j \in 1 .. Len(toClient'[c]) :
           j + 1 \in 1 .. Len(toClient[c]) /\ toClient'[c][j] = toClient[c][j + 1]
    BY <1>1
  <1>3. toClient[c] # <<>> => link[c] \notin {"none", "refused"}
    BY DEF Opening
  <1>4. QED  BY <1>2, <1>3 DEF Opening

\* A client takes a packet and answers a message of the server's.
LEMMA OpeningClientStep ==
    ASSUME TypeOK, NEW c \in Client, Opening(c), toClient[c] # <<>>,
           toClient'[c] = Tail(toClient[c]),
           link'[c] = link[c], reader'[c] = reader[c],
           NEW packets \in Seq(ServerPacket),
           \A i \in 1 .. Len(packets) :
              packets[i].type \notin {"new", "lost", "disconnected"},
           \/ toServer'[c] = toServer[c]
           \/ /\ link[c] = "up"
              /\ Head(toClient[c]).type \in {"sendFile", "canFilesBeSent"}
              /\ toServer'[c] = toServer[c] \o packets
    PROVE  Opening(c)'
  <1>1. toClient[c] \in Seq(ClientPacket) /\ toServer[c] \in Seq(ServerPacket)
    BY DEF TypeOK
  <1>3. CASE toServer'[c] = toServer[c]
    BY <1>3, OpeningClientTakes
  <1>4. CASE /\ link[c] = "up"
             /\ Head(toClient[c]).type \in {"sendFile", "canFilesBeSent"}
             /\ toServer'[c] = toServer[c] \o packets
    <2>1. \A i \in 1 .. Len(toServer[c]) : toServer[c][i].type # "new"
      BY <1>1, <1>4 DEF Opening
    <2>2. \A i \in 1 .. Len(toServer'[c]) :
             toServer'[c][i].type \notin {"new", "lost", "disconnected"}
      <3>1. ASSUME NEW i \in 1 .. Len(toServer'[c])
            PROVE  \/ i \in 1 .. Len(toServer[c]) /\ toServer'[c][i] = toServer[c][i]
                   \/ \E j \in 1 .. Len(packets) : toServer'[c][i] = packets[j]
        <4>1. CASE i <= Len(toServer[c])
          BY <1>1, <1>4, <4>1
        <4>2. CASE i > Len(toServer[c])
          <5>1. /\ i - Len(toServer[c]) \in 1 .. Len(packets)
                /\ toServer'[c][i] = packets[i - Len(toServer[c])]
            BY <1>1, <1>4, <4>2
          <5>2. QED  BY <5>1
        <4>3. QED  BY <1>1, <4>1, <4>2
      <3>2. QED  BY <1>4, <2>1, <3>1 DEF Opening
    <2>3. QED  BY <1>4, <2>2 DEF Opening
  <1>5. QED  BY <1>3, <1>4

\* A connection breaks: what survives is a prefix, followed by its end.
LEMMA OpeningBreaks ==
    ASSUME TypeOK, NEW c \in Client, Opening(c), link[c] = "up",
           Breaks(c), reader'[c] = reader[c],
           \/ toClient'[c] = <<>>
           \/ \E queue \in Surviving(toClient[c]) :
                 toClient'[c] = Append(queue, ConnectionLost)
    PROVE  Opening(c)'
  <1>1. toClient[c] \in Seq(ClientPacket) /\ toServer[c] \in Seq(ServerPacket)
    BY DEF TypeOK
  <1>2. IsCut(toServer'[c], toServer[c])
    <2>1. PICK queue \in Surviving(toServer[c]) :
             toServer'[c] = Append(queue, ConnectionLost)
      BY DEF Breaks, TypeOK
    <2>2. QED  BY <1>1, <2>1, SurvivingPrefix
  <1>3. PICK k \in 0 .. Len(toServer[c]) :
           /\ Len(toServer'[c]) = k + 1
           /\ toServer'[c][k + 1].type = "lost"
           /\ \A i \in 1 .. k : /\ i \in 1 .. Len(toServer[c])
                                /\ toServer'[c][i] = toServer[c][i]
    BY <1>2 DEF IsCut
  <1>4. \A j \in 1 .. Len(toClient'[c]) :
           \/ toClient'[c][j].type = "lost"
           \/ j \in 1 .. Len(toClient[c]) /\ toClient'[c][j] = toClient[c][j]
    <2>1. CASE toClient'[c] = <<>>
      BY <2>1
    <2>2. CASE \E queue \in Surviving(toClient[c]) :
                  toClient'[c] = Append(queue, ConnectionLost)
      <3>1. PICK left \in Surviving(toClient[c]) :
               toClient'[c] = Append(left, ConnectionLost)
        BY <2>2
      <3>2. IsCut(toClient'[c], toClient[c])
        BY <1>1, <3>1, SurvivingPrefix
      <3>3. PICK m \in 0 .. Len(toClient[c]) :
               /\ Len(toClient'[c]) = m + 1
               /\ toClient'[c][m + 1].type = "lost"
               /\ \A j \in 1 .. m : /\ j \in 1 .. Len(toClient[c])
                                    /\ toClient'[c][j] = toClient[c][j]
        BY <3>2 DEF IsCut
      <3>4. \A j \in 1 .. m + 1 : j \in 1 .. m \/ j = m + 1
        OBVIOUS
      <3>5. QED  BY <3>3, <3>4
    <2>3. QED  BY <2>1, <2>2
  <1>5. link'[c] = "lost"
    BY DEF Breaks, TypeOK
  <1>6. \A i \in 1 .. Len(toServer'[c]) : i \in 1 .. k \/ i = k + 1
    BY <1>3
  <1>7. ASSUME NEW i \in 1 .. Len(toServer'[c]), toServer'[c][i].type = "new"
        PROVE  /\ i = 1 /\ reader'[c].at = "idle"
               /\ \A j \in 2 .. Len(toServer'[c]) :
                     toServer'[c][j].type \in {"lost", "disconnected"}
               /\ \A j \in 1 .. Len(toClient'[c]) :
                     toClient'[c][j].type \notin {"sendFile", "canFilesBeSent"}
    <2>1. i \in 1 .. Len(toServer[c]) /\ toServer[c][i].type = "new"
      BY <1>3, <1>6, <1>7
    <2>2. /\ i = 1 /\ reader[c].at = "idle"
          /\ \A j \in 2 .. Len(toServer[c]) :
                toServer[c][j].type \in {"lost", "disconnected"}
          /\ \A j \in 1 .. Len(toClient[c]) :
                toClient[c][j].type \notin {"sendFile", "canFilesBeSent"}
      BY <2>1 DEF Opening
    <2>3. \A j \in 2 .. Len(toServer'[c]) :
             toServer'[c][j].type \in {"lost", "disconnected"}
      <3>1. ASSUME NEW j \in 2 .. Len(toServer'[c])
            PROVE  toServer'[c][j].type \in {"lost", "disconnected"}
        <4>1. CASE j = k + 1
          BY <1>3, <4>1
        <4>2. CASE j \in 1 .. k
          <5>1. j \in 2 .. Len(toServer[c]) /\ toServer'[c][j] = toServer[c][j]
            BY <1>3, <4>2
          <5>2. QED  BY <2>2, <5>1
        <4>3. QED  BY <1>3, <4>1, <4>2
      <3>2. QED  BY <3>1
    <2>4. \A j \in 1 .. Len(toClient'[c]) :
             toClient'[c][j].type \notin {"sendFile", "canFilesBeSent"}
      BY <1>4, <2>2
    <2>5. QED  BY <2>2, <2>3, <2>4
  <1>8. ASSUME NEW i \in 1 .. Len(toServer'[c]),
               toServer'[c][i].type \in {"lost", "disconnected"}
        PROVE  i = Len(toServer'[c])
    BY <1>3, <1>6, <1>8 DEF Opening
  <1>9. QED  BY <1>5, <1>7, <1>8 DEF Opening

-----------------------------------------------------------------------------
(* Second, what each kind of step does to a client nobody was served for:   *)
(* Unserved.                                                               *)

\* Unserved is kept by a step that leaves the client's connection alone.
LEMMA UnservedFrame ==
    ASSUME NEW c \in Client, Unserved(c),
           toServer'[c] = toServer[c], toClient'[c] = toClient[c],
           link'[c] = link[c], reader'[c] = reader[c],
           serverReceiver'[c] = serverReceiver[c]
    PROVE  Unserved(c)'
  BY DEF Unserved

\* A client takes a packet; it may answer with its manifest and ID_SENDFILE.
LEMMA UnservedClientStep ==
    ASSUME TypeOK, NEW c \in Client, Unserved(c), toClient[c] # <<>>,
           toClient'[c] = Tail(toClient[c]), link'[c] = link[c],
           reader'[c] = reader[c], serverReceiver'[c] = serverReceiver[c],
           \/ toServer'[c] = toServer[c]
           \/ /\ link[c] = "up" /\ Head(toClient[c]).type = "sendFile"
              /\ toServer'[c] = toServer[c] \o
                    Upload(Head(toClient[c]).set, client[c].hashes)
    PROVE  Unserved(c)'
  <1>1. toClient[c] \in Seq(ClientPacket) /\ toServer[c] \in Seq(ServerPacket)
    BY DEF TypeOK
  <1>2. \A j \in 1 .. Len(toClient'[c]) :
           j + 1 \in 1 .. Len(toClient[c]) /\ toClient'[c][j] = toClient[c][j + 1]
    BY <1>1
  <1>3. CASE toServer'[c] = toServer[c]
    BY <1>1, <1>2, <1>3 DEF Unserved
  <1>4. CASE /\ link[c] = "up" /\ Head(toClient[c]).type = "sendFile"
             /\ toServer'[c] = toServer[c] \o
                   Upload(Head(toClient[c]).set, client[c].hashes)
    <2> DEFINE n == Len(toServer[c])
    <2>1. Head(toClient[c]).set = serverReceiver[c]
      <3>1. 1 \in 1 .. Len(toClient[c]) /\ Head(toClient[c]) = toClient[c][1]
        BY <1>1
      <3>2. QED  BY <1>4, <3>1 DEF Unserved
    <2>2. /\ Len(toServer'[c]) = n + 2 /\ n \in Nat
          /\ \A i \in 1 .. n : toServer'[c][i] = toServer[c][i]
          /\ toServer'[c][n + 1] = FileStructure(serverReceiver[c], client[c].hashes)
          /\ toServer'[c][n + 2] = ClientReady
      BY <1>1, <1>4, <2>1 DEF Upload
    <2>3. ASSUME NEW i \in 1 .. n + 2
          PROVE  /\ toServer'[c][i].type # "clientFileSend"
                 /\ toServer'[c][i].type = "fileStructure" =>
                       toServer'[c][i].set = serverReceiver[c]
                 /\ toServer'[c][i].type = "sendFile" =>
                       \E j \in 1 .. i - 1 : toServer'[c][j].type = "fileStructure"
      <3>1. CASE i \in 1 .. n
        <4>1. /\ toServer[c][i].type # "clientFileSend"
              /\ toServer[c][i].type = "fileStructure" =>
                    toServer[c][i].set = serverReceiver[c]
              /\ toServer[c][i].type = "sendFile" =>
                    \E j \in 1 .. i - 1 : toServer[c][j].type = "fileStructure"
          BY <3>1 DEF Unserved
        <4>2. \A j \in 1 .. i - 1 : j \in 1 .. n
          BY <2>2, <3>1
        <4>3. QED  BY <2>2, <3>1, <4>1, <4>2
      <3>2. CASE i = n + 1
        BY <2>2, <3>2 DEF FileStructure
      <3>3. CASE i = n + 2
        BY <2>2, <3>3 DEF FileStructure, ClientReady
      <3>4. i \in 1 .. n \/ i = n + 1 \/ i = n + 2
        BY <2>2
      <3>5. QED  BY <3>1, <3>2, <3>3, <3>4
    <2>4. reader[c].at = "idle" /\
          \A i \in 1 .. Len(toClient'[c]) :
             /\ toClient'[c][i].type # "canFilesBeSent"
             /\ link[c] = "up" /\ toClient'[c][i].type = "sendFile" =>
                   toClient'[c][i].set = serverReceiver[c]
      BY <1>2 DEF Unserved
    <2>5. Len(toServer'[c]) = n + 2
      BY <2>2
    <2> HIDE DEF n
    <2>6. QED  BY <2>3, <2>4, <2>5 DEF Unserved
  <1>5. QED  BY <1>3, <1>4

\* A connection ends: queues are cut short, or emptied, and closed.
LEMMA UnservedBreaks ==
    ASSUME TypeOK, NEW c \in Client, Unserved(c), Breaks(c),
           reader'[c] = reader[c], serverReceiver'[c] = serverReceiver[c],
           \/ toClient'[c] = <<>>
           \/ \E queue \in Surviving(toClient[c]) :
                 toClient'[c] = Append(queue, ConnectionLost)
    PROVE  Unserved(c)'
  <1>1. toClient[c] \in Seq(ClientPacket) /\ toServer[c] \in Seq(ServerPacket)
    BY DEF TypeOK
  <1>2. IsCut(toServer'[c], toServer[c])
    <2>1. PICK queue \in Surviving(toServer[c]) :
             toServer'[c] = Append(queue, ConnectionLost)
      BY DEF Breaks, TypeOK
    <2>2. QED  BY <1>1, <2>1, SurvivingPrefix
  <1>3. PICK k \in 0 .. Len(toServer[c]) :
           /\ Len(toServer'[c]) = k + 1
           /\ toServer'[c][k + 1].type = "lost"
           /\ \A i \in 1 .. k : /\ i \in 1 .. Len(toServer[c])
                                /\ toServer'[c][i] = toServer[c][i]
    BY <1>2 DEF IsCut
  <1>4. \A j \in 1 .. Len(toClient'[c]) :
           \/ toClient'[c][j].type = "lost"
           \/ j \in 1 .. Len(toClient[c]) /\ toClient'[c][j] = toClient[c][j]
    <2>1. CASE toClient'[c] = <<>>
      BY <2>1
    <2>2. CASE \E queue \in Surviving(toClient[c]) :
                  toClient'[c] = Append(queue, ConnectionLost)
      <3>1. PICK left \in Surviving(toClient[c]) :
               toClient'[c] = Append(left, ConnectionLost)
        BY <2>2
      <3>2. IsCut(toClient'[c], toClient[c])
        BY <1>1, <3>1, SurvivingPrefix
      <3>3. PICK m \in 0 .. Len(toClient[c]) :
               /\ Len(toClient'[c]) = m + 1
               /\ toClient'[c][m + 1].type = "lost"
               /\ \A j \in 1 .. m : /\ j \in 1 .. Len(toClient[c])
                                    /\ toClient'[c][j] = toClient[c][j]
        BY <3>2 DEF IsCut
      <3>4. \A j \in 1 .. m + 1 : j \in 1 .. m \/ j = m + 1
        OBVIOUS
      <3>5. QED  BY <3>3, <3>4
    <2>3. QED  BY <2>1, <2>2
  <1>5. link'[c] = "lost"
    BY DEF Breaks, TypeOK
  <1>6. ASSUME NEW i \in 1 .. k + 1
        PROVE  /\ toServer'[c][i].type # "clientFileSend"
               /\ toServer'[c][i].type = "fileStructure" =>
                     toServer'[c][i].set = serverReceiver[c]
               /\ toServer'[c][i].type = "sendFile" =>
                     \E j \in 1 .. i - 1 : toServer'[c][j].type = "fileStructure"
    <2>1. CASE i = k + 1
      BY <1>3, <2>1
    <2>2. CASE i \in 1 .. k
      <3>1. /\ toServer[c][i].type # "clientFileSend"
            /\ toServer[c][i].type = "fileStructure" =>
                  toServer[c][i].set = serverReceiver[c]
            /\ toServer[c][i].type = "sendFile" =>
                  \E j \in 1 .. i - 1 : toServer[c][j].type = "fileStructure"
        BY <1>3, <2>2 DEF Unserved
      <3>2. \A j \in 1 .. i - 1 : j \in 1 .. k
        BY <2>2
      <3>3. QED  BY <1>3, <2>2, <3>1, <3>2
    <2>3. QED  BY <2>1, <2>2
  <1>7. QED  BY <1>3, <1>4, <1>5, <1>6 DEF Unserved

-----------------------------------------------------------------------------
(* Third, the steps.                                                       *)

ClientStep(c) ==
    ServerServes(c) \/ ReaderThread(c) \/ ClientProcess(c) \/ Environment(c)

\* What a step leaves alone of client d.
Untouched(d) ==
    /\ toServer'[d] = toServer[d] /\ toClient'[d] = toClient[d]
    /\ link'[d] = link[d] /\ reader'[d] = reader[d]
    /\ serverReceiver'[d] = serverReceiver[d]

\* A variable that is a function of the clients has them all in its domain.
LEMMA Domains ==
    ASSUME TypeOK
    PROVE  /\ DOMAIN toServer = Client /\ DOMAIN toClient = Client
           /\ DOMAIN link = Client /\ DOMAIN reader = Client
           /\ DOMAIN serverReceiver = Client /\ DOMAIN client = Client
  BY DEF TypeOK

\* A step of one client, or of the server for it, leaves the others alone.
LEMMA OtherClients ==
    ASSUME TypeOK, NEW c \in Client, NEW d \in Client, c # d, ClientStep(c)
    PROVE  Untouched(d)
  <1> USE Domains DEF Untouched, sets, queues
  <1>1. CASE ServerNewConnection(c)
    <2>1. toClient'[d] = toClient[d]
      <3>1. toClient' = Sent(toClient, c, <<SendFile(nextSet)>>)
        BY <1>1 DEF ServerNewConnection
      <3>2. QED  BY <3>1 DEF Sent
    <2>2. serverReceiver'[d] = serverReceiver[d]
      BY <1>1 DEF ServerNewConnection
    <2>3. QED  BY <1>1, <2>1, <2>2 DEF ServerNewConnection, ServerReceives
  <1>2. CASE ServerFileStructure(c)
    BY <1>2 DEF ServerFileStructure, ServerReceives
  <1>3. CASE ServerSendFile(c)
    BY <1>3 DEF ServerSendFile, ServerReceives
  <1>4. CASE ServerFileSend(c)
    <2>1. toClient'[d] = toClient[d]
      <3>1. \E packets : toClient' = Sent(toClient, c, packets)
        BY <1>4 DEF ServerFileSend
      <3>2. QED  BY <3>1 DEF Sent
    <2>2. QED  BY <1>4, <2>1 DEF ServerFileSend, ServerReceives
  <1>5. CASE ServerClosed(c)
    BY <1>5 DEF ServerClosed, ServerReceives
  <1>6. CASE ReaderRead(c) \/ ReaderAdd(c) \/ ReaderLoad(c) \/ ReaderStore(c)
    BY <1>6 DEF ReaderStep, ReaderRead, ReaderAdd, ReaderLoad, ReaderStore
  <1>7. CASE ReaderReply(c)
    <2>1. toClient'[d] = toClient[d]
      <3>1. \E packets : toClient' = Sent(toClient, c, packets)
        BY <1>7 DEF ReaderReply
      <3>2. QED  BY <3>1 DEF Sent
    <2>2. QED  BY <1>7, <2>1 DEF ReaderReply, ReaderStep
  <1>8. CASE ClientSendFile(c) \/ ClientCanFilesBeSent(c)
    <2>1. toServer'[d] = toServer[d]
      <3>1. \E packets : toServer' = Sent(toServer, c, packets)
        BY <1>8 DEF ClientSendFile, ClientCanFilesBeSent
      <3>2. QED  BY <3>1 DEF Sent
    <2>2. QED
      BY <1>8, <2>1 DEF ClientSendFile, ClientCanFilesBeSent, ClientReceives, ClientPops
  <1>9. CASE ClientHeader(c) \/ ClientFile(c) \/ ClientDisconnected(c)
                \/ ClientConnectionLost(c)
    BY <1>9 DEF ClientHeader, ClientFile, ClientDisconnected,
       ClientConnectionLost, ClientReceives, ClientPops
  <1>10. CASE ClientFilesFinished(c)
    <2>1. toServer'[d] = toServer[d]
      <3>1. toServer' = Sent(toServer, c, <<Disconnected>>)
        BY <1>10 DEF ClientFilesFinished
      <3>2. QED  BY <3>1 DEF Sent
    <2>2. toClient'[d] = toClient[d]
      <3> DEFINE rest == [toClient EXCEPT ![c] = Tail(@)]
      <3>1. DOMAIN rest = Client /\ rest[d] = toClient[d]
        OBVIOUS
      <3>2. toClient' = Sent(rest, c, <<Disconnected>>)
        BY <1>10 DEF ClientFilesFinished
      <3> HIDE DEF rest
      <3>3. QED  BY <3>1, <3>2 DEF Sent
    <2>3. QED  BY <1>10, <2>1, <2>2 DEF ClientFilesFinished, ClientReceives
  <1>11. CASE ClientStart(c) \/ ClientConnected(c) \/ Accept(c) \/ Refuse(c)
    BY <1>11 DEF ClientStart, ClientConnected, Accept, Refuse
  <1>12. CASE LinkLost(c)
    BY <1>12 DEF LinkLost, Breaks
  <1>13. ASSUME NEW how, ProcessEnds(c, how)
         PROVE  Untouched(d)
    BY <1>13 DEF ProcessEnds, Breaks
  <1>14. QED
    BY <1>1, <1>2, <1>3, <1>4, <1>5, <1>6, <1>7, <1>8, <1>9, <1>10, <1>11,
       <1>12, <1>13
    DEF ClientStep, ServerServes, ReaderThread, ClientProcess, ClientLoop,
        Environment, GiveUp, ClientDies

\* Announcing a connection completes no upload.
LEMMA NewConnectionKeeps ==
    ASSUME NEW c \in Client, ServerNewConnection(c)
    PROVE  UNCHANGED <<server, finishedDownloading, reader>>
  <1>1. UNCHANGED <<manifests, server, finishedDownloading, reader>>
    BY DEF ServerNewConnection
  <1>2. QED  BY <1>1

\* The flag is never lowered by what is done for one client.
LEMMA FlagStays ==
    ASSUME TypeOK, NEW c \in Client, ClientStep(c), finishedDownloading
    PROVE  finishedDownloading'
  <1>1. CASE ServerServes(c)
    <2>1. CASE ServerFileStructure(c)
      BY <2>1 DEF ServerFileStructure
    <2>2. CASE ServerNewConnection(c)
      BY <2>2, NewConnectionKeeps
    <2>3. CASE ServerSendFile(c) \/ ServerFileSend(c) \/ ServerClosed(c)
      BY <2>3 DEF ServerSendFile, ServerFileSend, ServerClosed
    <2>4. QED  BY <1>1, <2>1, <2>2, <2>3 DEF ServerServes
  <1>2. CASE ReaderThread(c)
    BY <1>2 DEF ReaderThread, ReaderStep, ReaderRead, ReaderAdd, ReaderLoad,
       ReaderStore, ReaderReply
  <1>3. CASE ClientLoop(c)
    BY <1>3 DEF ClientLoop, ClientReceives, ClientSendFile,
       ClientCanFilesBeSent, ClientHeader, ClientFile, ClientFilesFinished,
       ClientDisconnected, ClientConnectionLost
  <1>4. CASE ClientStart(c) \/ ClientConnected(c) \/ Environment(c) \/ GiveUp(c)
    BY <1>4 DEF ClientStart, ClientConnected, Environment, Accept, Refuse,
       LinkLost, GiveUp, ClientDies, ProcessEnds
  <1>5. QED  BY <1>1, <1>2, <1>3, <1>4 DEF ClientStep, ClientProcess

\* The manifest and ID_SENDFILE are packets.
LEMMA UploadType ==
    ASSUME TypeOK, NEW c \in Client, toClient[c] # <<>>,
           Head(toClient[c]).type = "sendFile"
    PROVE  Upload(Head(toClient[c]).set, client[c].hashes) \in Seq(ServerPacket)
  <1>1. Head(toClient[c]).set \in SetId
    <2>1. toClient[c] \in Seq(ClientPacket)
      BY DEF TypeOK
    <2>2. QED  BY <2>1, HeadTailType, ClientPacketFields
  <1>2. client[c].hashes \in SUBSET Hash
    BY DEF TypeOK, ClientState
  <1>3. /\ FileStructure(Head(toClient[c]).set, client[c].hashes) \in ServerPacket
        /\ ClientReady \in ServerPacket
    BY <1>1, <1>2, PacketTypes
  <1>4. QED  BY <1>3 DEF Upload

\* ID_FILESFINISHED closes an open connection at both ends.
LEMMA FinishedQueues ==
    ASSUME TypeOK, NEW c \in Client, ClientFilesFinished(c)
    PROVE  /\ toClient'[c] = IF link[c] = "up"
                             THEN Tail(toClient[c]) \o <<Disconnected>>
                             ELSE Tail(toClient[c])
           /\ toServer'[c] = IF link[c] = "up"
                             THEN toServer[c] \o <<Disconnected>>
                             ELSE toServer[c]
  <1> DEFINE rest == [toClient EXCEPT ![c] = Tail(@)]
  <1>1. rest[c] = Tail(toClient[c]) /\ DOMAIN rest = Client
    BY Domains
  <1>2. toClient' = Sent(rest, c, <<Disconnected>>)
    BY DEF ClientFilesFinished
  <1> HIDE DEF rest
  <1>3. Sent(rest, c, <<Disconnected>>)[c] =
           IF link[c] = "up" THEN rest[c] \o <<Disconnected>> ELSE rest[c]
    BY <1>1 DEF Sent
  <1>4. toServer' = Sent(toServer, c, <<Disconnected>>)
    BY DEF ClientFilesFinished
  <1>5. Sent(toServer, c, <<Disconnected>>)[c] =
           IF link[c] = "up" THEN toServer[c] \o <<Disconnected>> ELSE toServer[c]
    BY Domains DEF Sent
  <1>6. QED  BY <1>1, <1>2, <1>3, <1>4, <1>5

\* A client that closes its connection announces it last.
LEMMA OpeningFinished ==
    ASSUME TypeOK, NEW c \in Client, Opening(c), ClientFilesFinished(c)
    PROVE  Opening(c)'
  <1>1. /\ toClient[c] \in Seq(ClientPacket) /\ toServer[c] \in Seq(ServerPacket)
        /\ toClient[c] # <<>> /\ reader'[c] = reader[c]
    BY DEF TypeOK, ClientFilesFinished, ClientReceives
  <1>2. /\ toClient'[c] = IF link[c] = "up" THEN Tail(toClient[c]) \o <<Disconnected>>
                          ELSE Tail(toClient[c])
        /\ toServer'[c] = IF link[c] = "up" THEN toServer[c] \o <<Disconnected>>
                          ELSE toServer[c]
    BY FinishedQueues
  <1>3. CASE link[c] # "up"
    <2>1. /\ toServer'[c] = toServer[c] /\ link'[c] = link[c]
          /\ toClient'[c] = Tail(toClient[c])
      BY <1>2, <1>3 DEF ClientFilesFinished
    <2>2. QED  BY <1>1, <2>1, OpeningClientTakes
  <1>4. CASE link[c] = "up"
    <2>1. /\ toServer'[c] = toServer[c] \o <<Disconnected>> /\ link'[c] = "closed"
      BY <1>2, <1>4, Domains DEF ClientFilesFinished
    <2>2. toClient'[c] = Tail(toClient[c]) \o <<Disconnected>>
      BY <1>4, <1>2
    <2>3. \A j \in 1 .. Len(toClient'[c]) :
             \/ toClient'[c][j].type = "disconnected"
             \/ j + 1 \in 1 .. Len(toClient[c]) /\ toClient'[c][j] = toClient[c][j + 1]
      BY <1>1, <2>2 DEF Disconnected
    <2>4. /\ Len(toServer'[c]) = Len(toServer[c]) + 1
          /\ toServer'[c][Len(toServer[c]) + 1].type = "disconnected"
          /\ \A i \in 1 .. Len(toServer[c]) : toServer'[c][i] = toServer[c][i]
      BY <1>1, <2>1 DEF Disconnected
    <2>5. \A i \in 1 .. Len(toServer'[c]) :
             i \in 1 .. Len(toServer[c]) \/ i = Len(toServer[c]) + 1
      BY <1>1, <2>4
    <2>6. \A i \in 1 .. Len(toServer[c]) :
             toServer[c][i].type \notin {"lost", "disconnected"}
      BY <1>1, <1>4 DEF Opening
    <2>7. \A i \in 1 .. Len(toServer'[c]) :
             toServer'[c][i].type \in {"lost", "disconnected"} =>
                i = Len(toServer'[c])
      BY <2>4, <2>5, <2>6
    <2>8. ASSUME NEW i \in 1 .. Len(toServer'[c]), toServer'[c][i].type = "new"
          PROVE  /\ i = 1 /\ reader'[c].at = "idle"
                 /\ \A j \in 2 .. Len(toServer'[c]) :
                       toServer'[c][j].type \in {"lost", "disconnected"}
                 /\ \A j \in 1 .. Len(toClient'[c]) :
                       toClient'[c][j].type \notin {"sendFile", "canFilesBeSent"}
      <3>1. i \in 1 .. Len(toServer[c]) /\ toServer[c][i].type = "new"
        BY <2>4, <2>5, <2>8
      <3>2. /\ i = 1 /\ reader[c].at = "idle"
            /\ \A j \in 2 .. Len(toServer[c]) :
                  toServer[c][j].type \in {"lost", "disconnected"}
            /\ \A j \in 1 .. Len(toClient[c]) :
                  toClient[c][j].type \notin {"sendFile", "canFilesBeSent"}
        BY <3>1 DEF Opening
      <3>3. \A j \in 2 .. Len(toServer'[c]) :
               toServer'[c][j].type \in {"lost", "disconnected"}
        BY <1>1, <2>4, <2>5, <3>2
      <3>4. \A j \in 1 .. Len(toClient'[c]) :
               toClient'[c][j].type \notin {"sendFile", "canFilesBeSent"}
        BY <2>3, <3>2
      <3>5. QED  BY <1>1, <3>2, <3>3, <3>4
    <2>9. QED  BY <2>1, <2>7, <2>8 DEF Opening
  <1>5. QED  BY <1>3, <1>4

\* Opening is kept by a step of its client.
LEMMA OpeningStep ==
    ASSUME TypeOK, NEW c \in Client, Opening(c), ClientStep(c)
    PROVE  Opening(c)'
  <1> USE Domains
  <1>1. CASE ServerServes(c)
    <2>1. /\ toServer[c] # <<>> /\ toServer'[c] = Tail(toServer[c])
          /\ link'[c] = link[c]
      BY <1>1 DEF ServerServes, ServerReceives, ServerNewConnection,
         ServerFileStructure, ServerSendFile, ServerFileSend, ServerClosed
    <2>2. QED  BY <2>1, OpeningServerPop
  <1>2. CASE ReaderThread(c)
    <2>1. /\ reader[c].at # "idle" /\ toServer'[c] = toServer[c]
          /\ link'[c] = link[c]
      BY <1>2 DEF ReaderThread, ReaderStep, ReaderRead, ReaderAdd, ReaderLoad,
         ReaderStore, ReaderReply
    <2>2. QED  BY <2>1, OpeningReader
  <1>3. CASE ClientSendFile(c)
    <2> DEFINE packets == Upload(Head(toClient[c]).set, client[c].hashes)
    <2>1. /\ toClient[c] # <<>> /\ Head(toClient[c]).type = "sendFile"
          /\ toClient'[c] = Tail(toClient[c])
          /\ link'[c] = link[c] /\ reader'[c] = reader[c]
      BY <1>3 DEF ClientSendFile, ClientReceives, ClientPops
    <2>2. packets \in Seq(ServerPacket)
      BY <2>1, UploadType
    <2>3. \A i \in 1 .. Len(packets) :
             packets[i].type \notin {"new", "lost", "disconnected"}
      BY DEF Upload, FileStructure, ClientReady
    <2>4. \/ toServer'[c] = toServer[c]
          \/ link[c] = "up" /\ toServer'[c] = toServer[c] \o packets
      <3>1. toServer' = Sent(toServer, c, packets)
        BY <1>3 DEF ClientSendFile
      <3>2. QED  BY <3>1 DEF Sent
    <2> HIDE DEF packets
    <2>5. QED  BY <2>1, <2>2, <2>3, <2>4, OpeningClientStep
  <1>4. CASE ClientCanFilesBeSent(c)
    <2> DEFINE packets == <<ClientFileSend(FirstSet)>>
    <2>1. /\ toClient[c] # <<>> /\ Head(toClient[c]).type = "canFilesBeSent"
          /\ toClient'[c] = Tail(toClient[c])
          /\ link'[c] = link[c] /\ reader'[c] = reader[c]
      BY <1>4 DEF ClientCanFilesBeSent, ClientReceives, ClientPops
    <2>2. packets \in Seq(ServerPacket)
      <3>1. ClientFileSend(FirstSet) \in ServerPacket
        BY PacketTypes, SetIdFacts DEF FirstSet
      <3>2. QED  BY <3>1
    <2>3. \A i \in 1 .. Len(packets) :
             packets[i].type \notin {"new", "lost", "disconnected"}
      BY DEF ClientFileSend
    <2>4. \/ toServer'[c] = toServer[c]
          \/ link[c] = "up" /\ toServer'[c] = toServer[c] \o packets
      <3>1. toServer' = Sent(toServer, c, packets)
        BY <1>4 DEF ClientCanFilesBeSent
      <3>2. QED  BY <3>1 DEF Sent
    <2> HIDE DEF packets
    <2>5. QED  BY <2>1, <2>2, <2>3, <2>4, OpeningClientStep
  <1>5. CASE ClientHeader(c) \/ ClientFile(c) \/ ClientConnectionLost(c)
    <2>1. /\ toClient[c] # <<>> /\ toClient'[c] = Tail(toClient[c])
          /\ toServer'[c] = toServer[c]
          /\ link'[c] = link[c] /\ reader'[c] = reader[c]
      BY <1>5 DEF ClientHeader, ClientFile, ClientConnectionLost, ClientReceives,
         ClientPops
    <2>2. QED  BY <2>1, OpeningClientTakes
  <1>6. CASE ClientFilesFinished(c)
    BY <1>6, OpeningFinished
  <1>7. CASE ClientDisconnected(c)
    BY <1>7 DEF ClientDisconnected, ClientReceives, Opening
  <1>8. CASE ClientStart(c) \/ ClientConnected(c)
    BY <1>8, OpeningFrame DEF ClientStart, ClientConnected, queues
  <1>9. CASE Accept(c)
    <2>1. /\ toServer[c] = <<>> /\ toClient[c] = <<>> /\ reader[c].at = "idle"
      BY <1>9 DEF Accept, Opening
    <2>2. /\ toServer'[c] = <<NewConnection>> /\ toClient'[c] = <<>>
          /\ reader'[c].at = "idle" /\ link'[c] = "up"
      BY <1>9, <2>1 DEF Accept
    <2>3. QED  BY <2>2 DEF Opening, NewConnection
  <1>10. CASE Refuse(c)
    BY <1>10 DEF Refuse, queues, Opening
  <1>11. CASE LinkLost(c)
    <2>1. \E queue \in Surviving(toClient[c]) :
             toClient'[c] = Append(queue, ConnectionLost)
      BY <1>11 DEF LinkLost
    <2>2. QED  BY <1>11, <2>1, OpeningBreaks DEF LinkLost
  <1>12. ASSUME NEW how, ProcessEnds(c, how)
         PROVE  Opening(c)'
    <2>1. toClient'[c] = <<>> /\ reader'[c] = reader[c]
      BY <1>12 DEF ProcessEnds
    <2>2. CASE link[c] = "up"
      BY <1>12, <2>1, <2>2, OpeningBreaks DEF ProcessEnds
    <2>3. CASE link[c] # "up"
      BY <1>12, <2>1, <2>3 DEF ProcessEnds, Opening
    <2>4. QED  BY <2>2, <2>3
  <1>13. QED
    BY <1>1, <1>2, <1>3, <1>4, <1>5, <1>6, <1>7, <1>8, <1>9, <1>10, <1>11, <1>12
    DEF ClientStep, ClientProcess, ClientLoop, Environment, GiveUp, ClientDies

\* A connection that is closed by its client carries no manifest any more.
LEMMA UnservedFinished ==
    ASSUME TypeOK, NEW c \in Client, Unserved(c), server = Receiving,
           ClientFilesFinished(c)
    PROVE  Unserved(c)' /\ server' = Receiving
  <1>1. /\ toClient[c] \in Seq(ClientPacket) /\ toServer[c] \in Seq(ServerPacket)
        /\ toClient[c] # <<>> /\ reader'[c] = reader[c] /\ server' = server
        /\ serverReceiver'[c] = serverReceiver[c]
    BY DEF TypeOK, ClientFilesFinished, ClientReceives, sets
  <1>2. /\ toClient'[c] = IF link[c] = "up" THEN Tail(toClient[c]) \o <<Disconnected>>
                          ELSE Tail(toClient[c])
        /\ toServer'[c] = IF link[c] = "up" THEN toServer[c] \o <<Disconnected>>
                          ELSE toServer[c]
    BY FinishedQueues
  <1>3. CASE link[c] # "up"
    <2>1. /\ toServer'[c] = toServer[c] /\ link'[c] = link[c]
          /\ toClient'[c] = Tail(toClient[c])
      BY <1>2, <1>3 DEF ClientFilesFinished
    <2>2. QED  BY <1>1, <2>1, UnservedClientStep
  <1>4. CASE link[c] = "up"
    <2>1. link'[c] = "closed"
      BY <1>4, Domains DEF ClientFilesFinished
    <2>2. \A j \in 1 .. Len(toClient'[c]) :
             \/ toClient'[c][j].type = "disconnected"
             \/ j + 1 \in 1 .. Len(toClient[c]) /\ toClient'[c][j] = toClient[c][j + 1]
      <3>1. toClient'[c] = Tail(toClient[c]) \o <<Disconnected>>
        BY <1>2, <1>4
      <3>2. QED  BY <1>1, <3>1 DEF Disconnected
    <2>3. /\ Len(toServer'[c]) = Len(toServer[c]) + 1
          /\ toServer'[c][Len(toServer[c]) + 1].type = "disconnected"
          /\ \A i \in 1 .. Len(toServer[c]) : toServer'[c][i] = toServer[c][i]
      BY <1>1, <1>2, <1>4 DEF Disconnected
    <2>4. ASSUME NEW i \in 1 .. Len(toServer'[c])
          PROVE  /\ toServer'[c][i].type # "clientFileSend"
                 /\ toServer'[c][i].type = "fileStructure" =>
                       toServer'[c][i].set = serverReceiver[c]
                 /\ toServer'[c][i].type = "sendFile" =>
                       \E j \in 1 .. i - 1 : toServer'[c][j].type = "fileStructure"
      <3>1. CASE i = Len(toServer[c]) + 1
        BY <2>3, <3>1
      <3>2. CASE i \in 1 .. Len(toServer[c])
        <4>1. /\ toServer[c][i].type # "clientFileSend"
              /\ toServer[c][i].type = "fileStructure" =>
                    toServer[c][i].set = serverReceiver[c]
              /\ toServer[c][i].type = "sendFile" =>
                    \E j \in 1 .. i - 1 : toServer[c][j].type = "fileStructure"
          BY <3>2 DEF Unserved
        <4>2. \A j \in 1 .. i - 1 : j \in 1 .. Len(toServer[c])
          BY <1>1, <3>2
        <4>3. QED  BY <2>3, <3>2, <4>1, <4>2
      <3>3. QED  BY <1>1, <2>3, <3>1, <3>2
    <2>5. QED  BY <1>1, <2>1, <2>2, <2>4 DEF Unserved
  <1>5. QED  BY <1>3, <1>4

\* The head of a queue is its first packet.
LEMMA HeadIsFirst ==
    ASSUME TypeOK, NEW c \in Client, toServer[c] # <<>>
    PROVE  /\ 1 \in 1 .. Len(toServer[c]) /\ Head(toServer[c]) = toServer[c][1]
           /\ \A i \in 1 .. Len(Tail(toServer[c])) :
                 /\ i + 1 \in 2 .. Len(toServer[c])
                 /\ Tail(toServer[c])[i] = toServer[c][i + 1]
           /\ Len(Tail(toServer[c])) = Len(toServer[c]) - 1
  <1>1. toServer[c] \in Seq(ServerPacket)
    BY DEF TypeOK
  <1>2. QED  BY <1>1

\* What the server receives from a client that nobody was served for: its
\* connection, its whole manifest, or its end.
LEMMA UnservedServes ==
    ASSUME TypeOK, NEW c \in Client, Opening(c), Unserved(c),
           server = Receiving, ServerServes(c), ~finishedDownloading'
    PROVE  Unserved(c)' /\ server' = Receiving
  <1> USE Domains
  <1>1. CASE ServerNewConnection(c)
    <2>1. /\ toServer[c] # <<>> /\ Head(toServer[c]).type = "new"
          /\ toServer'[c] = Tail(toServer[c]) /\ link'[c] = link[c]
      BY <1>1 DEF ServerNewConnection, ServerReceives
    <2>2. /\ \A j \in 2 .. Len(toServer[c]) :
                toServer[c][j].type \in {"lost", "disconnected"}
          /\ \A j \in 1 .. Len(toClient[c]) :
                toClient[c][j].type \notin {"sendFile", "canFilesBeSent"}
          /\ reader[c].at = "idle"
      BY <2>1, HeadIsFirst DEF Opening
    <2>3. \A i \in 1 .. Len(toServer'[c]) :
             toServer'[c][i].type \in {"lost", "disconnected"}
      BY <2>1, <2>2, HeadIsFirst
    <2>4. reader'[c].at = "idle" /\ server' = Receiving
      BY <1>1, <2>2, NewConnectionKeeps
    <2>5. ASSUME NEW i \in 1 .. Len(toClient'[c])
          PROVE  /\ toClient'[c][i].type # "canFilesBeSent"
                 /\ link'[c] = "up" /\ toClient'[c][i].type = "sendFile" =>
                       toClient'[c][i].set = serverReceiver'[c]
      <3>1. CASE link[c] = "up"
        <4>1. toClient'[c] = toClient[c] \o <<SendFile(nextSet)>>
          <5>1. toClient' = Sent(toClient, c, <<SendFile(nextSet)>>)
            BY <1>1 DEF ServerNewConnection
          <5>2. QED  BY <3>1, <5>1 DEF Sent
        <4>2. serverReceiver'[c] = nextSet
          BY <1>1, <3>1 DEF ServerNewConnection
        <4>3. \/ toClient'[c][i] = SendFile(nextSet)
              \/ i \in 1 .. Len(toClient[c]) /\ toClient'[c][i] = toClient[c][i]
          <5>1. toClient[c] \in Seq(ClientPacket)
            BY DEF TypeOK
          <5>2. QED  BY <4>1, <5>1
        <4>4. QED  BY <2>2, <4>2, <4>3 DEF SendFile
      <3>2. CASE link[c] # "up"
        <4>1. toClient'[c] = toClient[c]
          <5>1. toClient' = Sent(toClient, c, <<SendFile(nextSet)>>)
            BY <1>1 DEF ServerNewConnection
          <5>2. QED  BY <3>2, <5>1 DEF Sent
        <4>2. QED  BY <2>1, <2>2, <3>2, <4>1
      <3>3. QED  BY <3>1, <3>2
    <2>6. QED  BY <2>3, <2>4, <2>5 DEF Unserved
  <1>2. CASE ServerFileStructure(c)
    <2>1. /\ toServer[c] # <<>> /\ Head(toServer[c]).type = "fileStructure"
      BY <1>2 DEF ServerFileStructure, ServerReceives
    <2>2. Head(toServer[c]).set = serverReceiver[c]
      BY <2>1, HeadIsFirst DEF Unserved
    <2>3. finishedDownloading'
      BY <1>2, <2>2 DEF ServerFileStructure
    <2>4. QED  BY <2>3
  <1>3. CASE ServerSendFile(c)
    <2>1. /\ toServer[c] # <<>> /\ Head(toServer[c]).type = "sendFile"
      BY <1>3 DEF ServerSendFile, ServerReceives
    <2>2. \E j \in 1 .. 1 - 1 : toServer[c][j].type = "fileStructure"
      BY <2>1, HeadIsFirst DEF Unserved
    <2>3. QED  BY <2>2
  <1>4. CASE ServerFileSend(c)
    <2>1. /\ toServer[c] # <<>> /\ Head(toServer[c]).type = "clientFileSend"
      BY <1>4 DEF ServerFileSend, ServerReceives
    <2>2. QED  BY <2>1, HeadIsFirst DEF Unserved
  <1>5. CASE ServerClosed(c)
    <2>1. /\ toServer[c] # <<>>
          /\ Head(toServer[c]).type \in {"lost", "disconnected"}
          /\ toServer'[c] = Tail(toServer[c]) /\ link'[c] = link[c]
          /\ toClient'[c] = toClient[c] /\ reader'[c] = reader[c]
          /\ server' = server
      BY <1>5 DEF ServerClosed, ServerReceives
    <2>2. Len(toServer[c]) = 1 /\ link[c] # "up"
      BY <2>1, HeadIsFirst DEF Opening
    <2>3. \A i \in 1 .. Len(toServer'[c]) : FALSE
      <3>1. Len(toServer'[c]) = 0
        BY <2>1, <2>2, HeadIsFirst
      <3>2. QED  BY <3>1
    <2>4. QED  BY <2>1, <2>2, <2>3 DEF Unserved
  <1>6. QED  BY <1>1, <1>2, <1>3, <1>4, <1>5 DEF ServerServes

\* Unserved is kept by a step of its client that completes no upload.
LEMMA UnservedStep ==
    ASSUME TypeOK, NEW c \in Client, Opening(c), Unserved(c),
           server = Receiving, ClientStep(c), ~finishedDownloading'
    PROVE  Unserved(c)' /\ server' = Receiving
  <1> USE Domains
  <1>1. CASE ServerServes(c)
    BY <1>1, UnservedServes
  <1>2. CASE ReaderThread(c)
    <2>1. reader[c].at # "idle"
      BY <1>2 DEF ReaderThread, ReaderStep, ReaderRead, ReaderAdd, ReaderLoad,
         ReaderStore, ReaderReply
    <2>2. QED  BY <2>1 DEF Unserved
  <1>3. CASE ClientSendFile(c)
    <2>1. /\ toClient[c] # <<>> /\ Head(toClient[c]).type = "sendFile"
          /\ toClient'[c] = Tail(toClient[c])
          /\ link'[c] = link[c] /\ reader'[c] = reader[c]
          /\ serverReceiver'[c] = serverReceiver[c] /\ server' = server
      BY <1>3 DEF ClientSendFile, ClientReceives, ClientPops, sets
    <2>2. toServer' = Sent(toServer, c,
                           Upload(Head(toClient[c]).set, client[c].hashes))
      BY <1>3 DEF ClientSendFile
    <2>3. \/ toServer'[c] = toServer[c]
          \/ /\ link[c] = "up"
             /\ toServer'[c] = toServer[c] \o
                   Upload(Head(toClient[c]).set, client[c].hashes)
      BY <2>2 DEF Sent
    <2>4. QED  BY <2>1, <2>3, UnservedClientStep
  <1>4. CASE ClientCanFilesBeSent(c)
    <2>1. toClient[c] # <<>> /\ Head(toClient[c]).type = "canFilesBeSent"
      BY <1>4 DEF ClientCanFilesBeSent, ClientReceives
    <2>2. 1 \in 1 .. Len(toClient[c]) /\ Head(toClient[c]) = toClient[c][1]
      <3>1. toClient[c] \in Seq(ClientPacket)
        BY DEF TypeOK
      <3>2. QED  BY <2>1, <3>1
    <2>3. QED  BY <2>1, <2>2 DEF Unserved
  <1>5. CASE ClientHeader(c) \/ ClientFile(c) \/ ClientConnectionLost(c)
    <2>1. /\ toClient[c] # <<>> /\ toClient'[c] = Tail(toClient[c])
          /\ toServer'[c] = toServer[c]
          /\ link'[c] = link[c] /\ reader'[c] = reader[c]
          /\ serverReceiver'[c] = serverReceiver[c] /\ server' = server
      BY <1>5 DEF ClientHeader, ClientFile, ClientConnectionLost, ClientReceives,
         ClientPops, sets
    <2>2. QED  BY <2>1, UnservedClientStep
  <1>6. CASE ClientFilesFinished(c)
    BY <1>6, UnservedFinished
  <1>7. CASE ClientDisconnected(c)
    BY <1>7 DEF ClientDisconnected, ClientReceives, Unserved, sets
  <1>8. CASE ClientStart(c) \/ ClientConnected(c) \/ Refuse(c)
    <2>1. /\ toServer'[c] = toServer[c] /\ toClient'[c] = toClient[c]
          /\ reader'[c] = reader[c] /\ serverReceiver'[c] = serverReceiver[c]
          /\ link'[c] = link[c] \/ link'[c] = "refused"
          /\ server' = server
      BY <1>8 DEF ClientStart, ClientConnected, Refuse, queues, sets
    <2>2. QED  BY <2>1 DEF Unserved
  <1>9. CASE Accept(c)
    <2>1. /\ toServer[c] = <<>> /\ toClient[c] = <<>>
      BY <1>9 DEF Accept, Opening
    <2>2. /\ toServer'[c] = <<NewConnection>> /\ toClient'[c] = <<>>
          /\ reader'[c] = reader[c] /\ server' = server
      BY <1>9, <2>1 DEF Accept
    <2>3. QED  BY <2>2 DEF Unserved, NewConnection
  <1>10. CASE LinkLost(c)
    <2>1. \E queue \in Surviving(toClient[c]) :
             toClient'[c] = Append(queue, ConnectionLost)
      BY <1>10 DEF LinkLost
    <2>2. /\ Breaks(c) /\ reader'[c] = reader[c] /\ server' = server
          /\ serverReceiver'[c] = serverReceiver[c]
      BY <1>10 DEF LinkLost, sets
    <2>3. QED  BY <2>1, <2>2, UnservedBreaks
  <1>11. ASSUME NEW how, ProcessEnds(c, how)
         PROVE  Unserved(c)' /\ server' = Receiving
    <2>1. /\ toClient'[c] = <<>> /\ reader'[c] = reader[c] /\ server' = server
          /\ serverReceiver'[c] = serverReceiver[c]
      BY <1>11 DEF ProcessEnds, sets
    <2>2. CASE link[c] = "up"
      BY <1>11, <2>1, <2>2, UnservedBreaks DEF ProcessEnds
    <2>3. CASE link[c] # "up"
      BY <1>11, <2>1, <2>3 DEF ProcessEnds, Unserved
    <2>4. QED  BY <2>2, <2>3
  <1>12. QED
    BY <1>1, <1>2, <1>3, <1>4, <1>5, <1>6, <1>7, <1>8, <1>9, <1>10, <1>11
    DEF ClientStep, ClientProcess, ClientLoop, Environment, GiveUp, ClientDies

\* The server sends files or waits only after an upload has completed.
LEMMA UploadFirstServerSends ==
    ASSUME TypeOK, UploadFirst, ServerSends
    PROVE  UploadFirst'
  <1> USE Domains
  <1>1. server # Receiving
    BY DEF ServerSends, ServerSendNext, ServerSent, ServerWaited, Receiving
  <1>2. finishedDownloading
    BY <1>1 DEF UploadFirst
  <1>3. UNCHANGED <<toServer, link, reader>>
    BY DEF ServerSends, ServerSendNext, ServerSent, ServerWaited, queues
  <1>4. server \in ServerState
    BY DEF TypeOK
  <1>5. ASSUME NEW d \in Client
        PROVE  Opening(d)'
    <2>1. Opening(d)
      BY DEF UploadFirst
    <2>2. \/ toClient'[d] = toClient[d]
          \/ \E p : /\ p.type \notin {"sendFile", "canFilesBeSent"}
                    /\ link[d] = "up" /\ toClient'[d] = toClient[d] \o <<p>>
      <3>1. CASE ServerSent
        BY <3>1 DEF ServerSent, queues
      <3>2. ASSUME NEW p, NEW c \in Client, p.type \notin {"sendFile", "canFilesBeSent"},
                   toClient' = Sent(toClient, c, <<p>>)
            PROVE  \/ toClient'[d] = toClient[d]
                   \/ \E q : /\ q.type \notin {"sendFile", "canFilesBeSent"}
                             /\ link[d] = "up" /\ toClient'[d] = toClient[d] \o <<q>>
        <4>1. CASE d = c /\ link[d] = "up"
          <5>1. toClient'[d] = toClient[d] \o <<p>>
            BY <3>2, <4>1 DEF Sent
          <5>2. QED  BY <3>2, <4>1, <5>1
        <4>2. CASE ~(d = c /\ link[d] = "up")
          <5>1. toClient'[d] = toClient[d]
            BY <3>2, <4>2 DEF Sent
          <5>2. QED  BY <5>1
        <4>3. QED  BY <4>1, <4>2
      <3>3. CASE ServerSendNext
        <4>1. server.client \in Client
          BY <1>4, <3>3 DEF ServerSendNext, ServerState, Receiving
        <4>2. File(server.set, Slot(server.next)).type = "file"
          BY DEF File
        <4>3. toClient' = Sent(toClient, server.client,
                               <<File(server.set, Slot(server.next))>>)
          BY <3>3 DEF ServerSendNext
        <4>4. QED  BY <3>2, <4>1, <4>2, <4>3
      <3>4. CASE ServerWaited
        <4>1. server.client \in Client
          BY <1>4, <3>4 DEF ServerWaited, ServerState, Receiving
        <4>2. FilesFinished.type = "filesFinished"
          BY DEF FilesFinished
        <4>3. toClient' = Sent(toClient, server.client, <<FilesFinished>>)
          BY <3>4 DEF ServerWaited
        <4>4. QED  BY <3>2, <4>1, <4>2, <4>3
      <3>5. QED  BY <3>1, <3>3, <3>4 DEF ServerSends
    <2>3. CASE toClient'[d] = toClient[d]
      BY <1>3, <2>1, <2>3, OpeningFrame
    <2>4. CASE \E p : /\ p.type \notin {"sendFile", "canFilesBeSent"}
                      /\ link[d] = "up" /\ toClient'[d] = toClient[d] \o <<p>>
      <3>1. PICK p : /\ p.type \notin {"sendFile", "canFilesBeSent"}
                     /\ link[d] = "up" /\ toClient'[d] = toClient[d] \o <<p>>
        BY <2>4
      <3>2. QED  BY <1>3, <2>1, <3>1, OpeningServerSend
    <2>5. QED  BY <2>2, <2>3, <2>4
  <1>6. finishedDownloading'
    <2>1. UNCHANGED finishedDownloading
      BY DEF ServerSends, ServerSendNext, ServerSent, ServerWaited
    <2>2. QED  BY <1>2, <2>1
  <1>7. QED  BY <1>5, <1>6 DEF UploadFirst

\* UploadFirst at the start ...
LEMMA UploadFirstInit == Init => UploadFirst
  BY DEF Init, UploadFirst, Opening, Unserved, IdleReader, NoDownload

\* ... and after every step.
LEMMA UploadFirstNext == TypeOK /\ UploadFirst /\ [Next]_vars => UploadFirst'
  <1> SUFFICES ASSUME TypeOK, UploadFirst, [Next]_vars PROVE UploadFirst'
    OBVIOUS
  <1>1. CASE ServerSends
    BY <1>1, UploadFirstServerSends
  <1>2. ASSUME NEW c \in Client, ClientStep(c)
        PROVE  UploadFirst'
    <2>1. ASSUME NEW d \in Client
          PROVE  Opening(d)'
      <3>1. Opening(d)
        BY DEF UploadFirst
      <3>2. CASE d = c
        BY <1>2, <3>1, <3>2, OpeningStep
      <3>3. CASE d # c
        <4>1. Untouched(d)
          BY <1>2, <3>3, OtherClients
        <4>2. QED  BY <3>1, <4>1, OpeningFrame DEF Untouched
      <3>4. QED  BY <3>2, <3>3
    <2>2. CASE finishedDownloading'
      BY <2>1, <2>2 DEF UploadFirst
    <2>3. CASE ~finishedDownloading'
      <3>1. ~finishedDownloading
        BY <1>2, <2>3, FlagStays
      <3>2. server = Receiving /\ \A d \in Client : Unserved(d)
        BY <3>1 DEF UploadFirst
      <3>3. Opening(c)
        BY DEF UploadFirst
      <3>4. Unserved(c)' /\ server' = Receiving
        BY <1>2, <2>3, <3>2, <3>3, UnservedStep
      <3>5. ASSUME NEW d \in Client
            PROVE  Unserved(d)'
        <4>1. CASE d = c
          BY <3>4, <4>1
        <4>2. CASE d # c
          <5>1. Untouched(d)
            BY <1>2, <4>2, OtherClients
          <5>2. QED  BY <3>2, <5>1, UnservedFrame DEF Untouched
        <4>3. QED  BY <4>1, <4>2
      <3>6. QED  BY <2>1, <3>4, <3>5 DEF UploadFirst
    <2>4. QED  BY <2>2, <2>3
  <1>3. CASE UNCHANGED vars
    <2>1. UNCHANGED <<toServer, toClient, link, reader, serverReceiver, server,
                      finishedDownloading>>
      BY <1>3 DEF vars, queues, sets
    <2>2. \A d \in Client : Opening(d)'
      BY <2>1, OpeningFrame DEF UploadFirst
    <2>3. (\A d \in Client : Unserved(d)) => \A d \in Client : Unserved(d)'
      BY <2>1, UnservedFrame
    <2>4. QED  BY <2>1, <2>2, <2>3 DEF UploadFirst
  <1>4. QED  BY <1>1, <1>2, <1>3 DEF Next, ClientStep

\* The protocol serves nobody before an upload has completed, whatever the
\* network, the clients and the directories do: the order of Receive()'s
\* callbacks and of the two Sends of UpdateClient (NetworkManager.cpp).
THEOREM UploadFirstHolds == Spec => []UploadFirst
  BY UploadFirstInit, UploadFirstNext, TypeCorrect, PTL DEF Spec

\* The server's loop on finishedDownloading, which nothing but the loop's own
\* thread could end, never has to wait: ID_CLIENTFILESEND cannot block it.
THEOREM JoinNeverBlocksHolds == Spec => []JoinNeverBlocks
  <1>1. UploadFirst => JoinNeverBlocks
    BY DEF UploadFirst, JoinNeverBlocks, Receiving
  <1>2. QED  BY <1>1, UploadFirstHolds, PTL

-----------------------------------------------------------------------------
(* NeverDeletesCurrent.  No list of hashes to delete holds a hash of the    *)
(* server's, in a thread or on its way, whatever manifest it came from.     *)

StaleList(hashes) == hashes \cap serverHashes = {}

DeleteListsStale ==
    /\ \A c \in Client : StaleList(reader[c].toDelete)
    /\ \A c \in Client : \A i \in 1 .. Len(toClient[c]) :
          toClient[c][i].type = "canFilesBeSent" => StaleList(toClient[c][i].hashes)

\* The list that FindFilesToDelete makes is stale.
LEMMA FoundStale ==
    ASSUME NEW hashList
    PROVE  StaleList(FindFilesToDelete(hashList, serverHashes))
  BY DEF StaleList, FindFilesToDelete

\* Of the packets of one client, those after a step are old or a stale list.
StaleQueue(c) ==
    \A i \in 1 .. Len(toClient'[c]) :
        \/ toClient'[c][i].type # "canFilesBeSent"
        \/ StaleList(toClient'[c][i].hashes)

\* A queue left alone still holds stale delete lists only ...
LEMMA StaleQueueKept ==
    ASSUME DeleteListsStale, NEW c \in Client, toClient'[c] = toClient[c]
    PROVE  StaleQueue(c)
  BY DEF DeleteListsStale, StaleQueue

\* ... so does one whose head was taken ...
LEMMA StaleQueueTail ==
    ASSUME TypeOK, DeleteListsStale, NEW c \in Client, toClient[c] # <<>>,
           toClient'[c] = Tail(toClient[c])
    PROVE  StaleQueue(c)
  <1>1. toClient[c] \in Seq(ClientPacket)
    BY DEF TypeOK
  <1>2. \A j \in 1 .. Len(toClient'[c]) :
           j + 1 \in 1 .. Len(toClient[c]) /\ toClient'[c][j] = toClient[c][j + 1]
    BY <1>1
  <1>3. QED  BY <1>2 DEF DeleteListsStale, StaleQueue

\* ... and one to which a packet was sent, stale if it is a delete list.
LEMMA StaleQueueSent ==
    ASSUME TypeOK, DeleteListsStale, NEW c \in Client, NEW p,
           p.type # "canFilesBeSent" \/ StaleList(p.hashes),
           NEW d \in Client, toClient' = Sent(toClient, d, <<p>>)
    PROVE  StaleQueue(c)
  <1>1. toClient[c] \in Seq(ClientPacket)
    BY DEF TypeOK
  <1>2. CASE c = d /\ link[c] = "up"
    <2>1. toClient'[c] = toClient[c] \o <<p>>
      BY <1>2, Domains DEF Sent
    <2>2. \A i \in 1 .. Len(toClient'[c]) :
             \/ toClient'[c][i] = p
             \/ i \in 1 .. Len(toClient[c]) /\ toClient'[c][i] = toClient[c][i]
      BY <1>1, <2>1
    <2>3. QED  BY <2>2 DEF DeleteListsStale, StaleQueue
  <1>3. CASE ~(c = d /\ link[c] = "up")
    <2>1. toClient'[c] = toClient[c]
      BY <1>3, Domains DEF Sent
    <2>2. QED  BY <2>1, StaleQueueKept
  <1>4. QED  BY <1>2, <1>3

\* What a client reads, what it loses, and the end of its connection.
LEMMA StaleQueueClient ==
    ASSUME TypeOK, DeleteListsStale, NEW c \in Client,
           ClientProcess(c) \/ Environment(c)
    PROVE  StaleQueue(c)
  <1> USE Domains
  <1>1. CASE ClientSendFile(c) \/ ClientCanFilesBeSent(c) \/ ClientHeader(c)
                \/ ClientFile(c) \/ ClientConnectionLost(c)
    <2>1. toClient[c] # <<>> /\ toClient'[c] = Tail(toClient[c])
      BY <1>1 DEF ClientSendFile, ClientCanFilesBeSent, ClientHeader, ClientFile,
         ClientConnectionLost, ClientReceives, ClientPops
    <2>2. QED  BY <2>1, StaleQueueTail
  <1>2. CASE ClientFilesFinished(c)
    <2>1. toClient[c] \in Seq(ClientPacket) /\ toClient[c] # <<>>
      BY <1>2 DEF TypeOK, ClientFilesFinished, ClientReceives
    <2>2. \/ toClient'[c] = Tail(toClient[c])
          \/ toClient'[c] = Tail(toClient[c]) \o <<Disconnected>>
      BY <1>2, FinishedQueues
    <2>3. \A j \in 1 .. Len(toClient'[c]) :
             \/ toClient'[c][j] = Disconnected
             \/ j + 1 \in 1 .. Len(toClient[c]) /\ toClient'[c][j] = toClient[c][j + 1]
      <3>1. CASE toClient'[c] = Tail(toClient[c])
        BY <2>1, <3>1
      <3>2. CASE toClient'[c] = Tail(toClient[c]) \o <<Disconnected>>
        BY <2>1, <3>2
      <3>3. QED  BY <2>2, <3>1, <3>2
    <2>4. Disconnected.type # "canFilesBeSent"
      BY DEF Disconnected
    <2>5. QED  BY <2>3, <2>4 DEF DeleteListsStale, StaleQueue
  <1>3. CASE ClientStart(c) \/ ClientConnected(c) \/ Accept(c) \/ Refuse(c)
    <2>1. toClient'[c] = toClient[c]
      BY <1>3 DEF ClientStart, ClientConnected, Accept, Refuse, queues
    <2>2. QED  BY <2>1, StaleQueueKept
  <1>4. CASE LinkLost(c)
    <2>1. PICK left \in Surviving(toClient[c]) :
             toClient'[c] = Append(left, ConnectionLost)
      BY <1>4 DEF LinkLost
    <2>2. toClient[c] \in Seq(ClientPacket)
      BY DEF TypeOK
    <2>3. IsCut(toClient'[c], toClient[c])
      BY <2>1, <2>2, SurvivingPrefix
    <2>4. PICK k \in 0 .. Len(toClient[c]) :
             /\ Len(toClient'[c]) = k + 1
             /\ toClient'[c][k + 1].type = "lost"
             /\ \A j \in 1 .. k : /\ j \in 1 .. Len(toClient[c])
                                  /\ toClient'[c][j] = toClient[c][j]
      BY <2>3 DEF IsCut
    <2>5. \A j \in 1 .. k + 1 : j \in 1 .. k \/ j = k + 1
      OBVIOUS
    <2>6. QED  BY <2>4, <2>5 DEF DeleteListsStale, StaleQueue
  <1>5. CASE toClient'[c] = <<>>
    BY <1>5 DEF StaleQueue
  <1>6. GiveUp(c) \/ ClientDies(c) \/ ClientDisconnected(c) => toClient'[c] = <<>>
    BY DEF GiveUp, ClientDies, ProcessEnds, ClientDisconnected
  <1>7. QED
    BY <1>1, <1>2, <1>3, <1>4, <1>5, <1>6
    DEF ClientProcess, ClientLoop, Environment

\* The server and the thread of a client.
LEMMA StaleQueueServer ==
    ASSUME TypeOK, DeleteListsStale, NEW c \in Client,
           ServerServes(c) \/ ReaderThread(c)
    PROVE  StaleQueue(c)
  <1>1. CASE ServerNewConnection(c)
    <2>1. toClient' = Sent(toClient, c, <<SendFile(nextSet)>>)
      BY <1>1 DEF ServerNewConnection
    <2>2. SendFile(nextSet).type # "canFilesBeSent"
      BY DEF SendFile
    <2>3. QED  BY <2>1, <2>2, StaleQueueSent
  <1>2. CASE ServerFileSend(c)
    <2>1. PICK set : toClient' = Sent(toClient, c, <<Header(set, fileCount)>>)
      BY <1>2 DEF ServerFileSend
    <2>2. Header(set, fileCount).type # "canFilesBeSent"
      BY DEF Header
    <2>3. QED  BY <2>1, <2>2, StaleQueueSent
  <1>3. CASE ReaderReply(c)
    <2> DEFINE p == CanFilesBeSent(reader[c].toDelete)
    <2>1. toClient' = Sent(toClient, c, <<p>>)
      BY <1>3 DEF ReaderReply
    <2>2. StaleList(p.hashes)
      BY DEF CanFilesBeSent, DeleteListsStale
    <2> HIDE DEF p
    <2>3. QED  BY <2>1, <2>2, StaleQueueSent
  <1>4. CASE ServerFileStructure(c) \/ ServerSendFile(c) \/ ServerClosed(c)
    <2>1. toClient'[c] = toClient[c]
      BY <1>4 DEF ServerFileStructure, ServerSendFile, ServerClosed
    <2>2. QED  BY <2>1, StaleQueueKept
  <1>5. CASE ReaderRead(c) \/ ReaderAdd(c) \/ ReaderLoad(c) \/ ReaderStore(c)
    <2>1. toClient'[c] = toClient[c]
      BY <1>5 DEF ReaderRead, ReaderAdd, ReaderLoad, ReaderStore
    <2>2. QED  BY <2>1, StaleQueueKept
  <1>6. QED
    BY <1>1, <1>2, <1>3, <1>4, <1>5 DEF ServerServes, ReaderThread

\* A thread's list is empty, just found, or the one it had.
LEMMA StaleReaderStep ==
    ASSUME TypeOK, DeleteListsStale, NEW c \in Client, ClientStep(c)
    PROVE  StaleList(reader'[c].toDelete)
  <1> USE Domains
  <1>1. StaleList(reader[c].toDelete) /\ StaleList(IdleReader.toDelete)
    BY DEF DeleteListsStale, StaleList, IdleReader
  <1>2. CASE ServerSendFile(c)
    <2>1. reader'[c].toDelete = IdleReader.toDelete
      BY <1>2 DEF ServerSendFile, IdleReader
    <2>2. QED  BY <1>1, <2>1
  <1>3. CASE ReaderRead(c)
    <2>1. \E hashList :
             reader'[c].toDelete = FindFilesToDelete(hashList, serverHashes)
      BY <1>3 DEF ReaderRead
    <2>2. QED  BY <2>1, FoundStale
  <1>4. CASE ReaderReply(c)
    BY <1>1, <1>4 DEF ReaderReply
  <1>5. CASE ReaderAdd(c) \/ ReaderLoad(c) \/ ReaderStore(c)
    <2>1. reader[c] \in ReaderState
      BY DEF TypeOK
    <2>2. CASE ReaderLoad(c)
      BY <1>1, <2>1, <2>2 DEF ReaderLoad, ReaderState
    <2>3. CASE ReaderStore(c)
      BY <1>1, <2>1, <2>3 DEF ReaderStore, ReaderState
    <2>4. CASE ReaderAdd(c)
      <3>1. PICK p :
               \/ reader' = [reader EXCEPT ![c].toAdd = @ \ {p}]
               \/ reader' = [reader EXCEPT ![c].toAdd = @ \ {p}, ![c].at = "inserted"]
        BY <2>4 DEF ReaderAdd
      <3>2. reader'[c].toDelete = reader[c].toDelete
        BY <2>1, <3>1 DEF ReaderState
      <3>3. QED  BY <1>1, <3>2
    <2>5. QED  BY <1>5, <2>2, <2>3, <2>4
  <1>6. CASE reader'[c] = reader[c]
    BY <1>1, <1>6
  <1>7. ServerFileStructure(c) \/ ServerFileSend(c) \/ ServerClosed(c)
           => reader'[c] = reader[c]
    BY DEF ServerFileStructure, ServerFileSend, ServerClosed
  <1>8. ServerNewConnection(c) => reader'[c] = reader[c]
    BY NewConnectionKeeps
  <1>9. ClientLoop(c) => reader'[c] = reader[c]
    BY DEF ClientLoop, ClientSendFile, ClientCanFilesBeSent, ClientHeader,
       ClientFile, ClientFilesFinished, ClientDisconnected, ClientConnectionLost,
       ClientReceives
  <1>10. ClientStart(c) \/ ClientConnected(c) \/ GiveUp(c) \/ Environment(c)
            => reader'[c] = reader[c]
    BY DEF ClientStart, ClientConnected, GiveUp, Environment, Accept, Refuse,
       LinkLost, ClientDies, ProcessEnds
  <1>11. QED
    BY <1>2, <1>3, <1>4, <1>5, <1>6, <1>7, <1>8, <1>9, <1>10
    DEF ClientStep, ServerServes, ReaderThread, ClientProcess

\* The list the server compares with is made once, when it starts.
LEMMA ServerHashesKept == Next => serverHashes' = serverHashes
  <1> SUFFICES ASSUME Next PROVE serverHashes' = serverHashes
    OBVIOUS
  <1>1. CASE ServerSends
    BY <1>1 DEF ServerSends, ServerSendNext, ServerSent, ServerWaited, hostVars
  <1>2. ASSUME NEW c \in Client, ServerServes(c)
        PROVE  serverHashes' = serverHashes
    <2>1. \E type : ServerReceives(c, type)
      BY <1>2 DEF ServerServes, ServerNewConnection, ServerFileStructure,
         ServerSendFile, ServerFileSend, ServerClosed
    <2>2. QED  BY <2>1 DEF ServerReceives, hostVars
  <1>3. ASSUME NEW c \in Client, ReaderThread(c)
        PROVE  serverHashes' = serverHashes
    <2>1. \E at : ReaderStep(c, at)
      BY <1>3 DEF ReaderThread, ReaderRead, ReaderAdd, ReaderLoad, ReaderStore,
         ReaderReply
    <2>2. QED  BY <2>1 DEF ReaderStep
  <1>4. ASSUME NEW c \in Client, ClientLoop(c)
        PROVE  serverHashes' = serverHashes
    <2>1. \E type : ClientReceives(c, type)
      BY <1>4 DEF ClientLoop, ClientSendFile, ClientCanFilesBeSent, ClientHeader,
         ClientFile, ClientFilesFinished, ClientDisconnected, ClientConnectionLost
    <2>2. QED  BY <2>1 DEF ClientReceives, hostVars
  <1>5. ASSUME NEW c \in Client,
               ClientStart(c) \/ ClientConnected(c) \/ GiveUp(c) \/ Environment(c)
        PROVE  serverHashes' = serverHashes
    BY <1>5 DEF ClientStart, ClientConnected, GiveUp, Environment, Accept, Refuse,
       LinkLost, ClientDies, ProcessEnds, hostVars
  <1>6. QED
    BY <1>1, <1>2, <1>3, <1>4, <1>5 DEF Next, ClientProcess

\* DeleteListsStale at the start ...
LEMMA DeleteListsStaleInit == Init => DeleteListsStale
  BY DEF Init, DeleteListsStale, StaleList, IdleReader

\* ... and after every step.
LEMMA DeleteListsStaleNext ==
    TypeOK /\ DeleteListsStale /\ [Next]_vars => DeleteListsStale'
  <1> SUFFICES ASSUME TypeOK, DeleteListsStale, [Next]_vars
               PROVE  DeleteListsStale'
    OBVIOUS
  <1>1. serverHashes' = serverHashes
    BY ServerHashesKept DEF vars, hostVars
  <1>2. ASSUME NEW d \in Client
        PROVE  StaleQueue(d) /\ StaleList(reader'[d].toDelete)
    <2>1. StaleList(reader[d].toDelete)
      BY DEF DeleteListsStale
    <2>2. CASE toClient'[d] = toClient[d] /\ reader'[d] = reader[d]
      BY <2>1, <2>2, StaleQueueKept
    <2>3. CASE ServerSends
      <3>1. UNCHANGED reader
        BY <2>3 DEF ServerSends, ServerSendNext, ServerSent, ServerWaited
      <3>2. CASE ServerSent
        BY <2>2, <3>1, <3>2 DEF ServerSent, queues
      <3>3. ASSUME NEW c \in Client, NEW p, p.type # "canFilesBeSent",
                   toClient' = Sent(toClient, c, <<p>>)
            PROVE  StaleQueue(d)
        BY <3>3, StaleQueueSent
      <3>4. server \in ServerState
        BY DEF TypeOK
      <3>5. CASE ServerSendNext
        <4>1. server.client \in Client
          BY <3>4, <3>5 DEF ServerSendNext, ServerState, Receiving
        <4>2. File(server.set, Slot(server.next)).type # "canFilesBeSent"
          BY DEF File
        <4>3. toClient' = Sent(toClient, server.client,
                               <<File(server.set, Slot(server.next))>>)
          BY <3>5 DEF ServerSendNext
        <4>4. QED  BY <2>1, <3>1, <3>3, <4>1, <4>2, <4>3
      <3>6. CASE ServerWaited
        <4>1. server.client \in Client
          BY <3>4, <3>6 DEF ServerWaited, ServerState, Receiving
        <4>2. FilesFinished.type # "canFilesBeSent"
          BY DEF FilesFinished
        <4>3. toClient' = Sent(toClient, server.client, <<FilesFinished>>)
          BY <3>6 DEF ServerWaited
        <4>4. QED  BY <2>1, <3>1, <3>3, <4>1, <4>2, <4>3
      <3>7. QED  BY <2>3, <3>2, <3>5, <3>6 DEF ServerSends
    <2>4. ASSUME NEW c \in Client, ClientStep(c)
          PROVE  StaleQueue(d) /\ StaleList(reader'[d].toDelete)
      <3>1. CASE c = d
        BY <2>4, <3>1, StaleQueueClient, StaleQueueServer, StaleReaderStep
        DEF ClientStep
      <3>2. CASE c # d
        <4>1. Untouched(d)
          BY <2>4, <3>2, OtherClients
        <4>2. QED  BY <2>2, <4>1 DEF Untouched
      <3>3. QED  BY <3>1, <3>2
    <2>5. CASE UNCHANGED vars
      BY <2>2, <2>5 DEF vars, queues
    <2>6. QED  BY <2>3, <2>4, <2>5 DEF Next, ClientStep
  <1>3. QED
    BY <1>1, <1>2 DEF DeleteListsStale, StaleQueue, StaleList

\* Only UpdateClient and FileCB write to a client's directory, and what they
\* write is not the absence of a file.
DiskKept(c) ==
    \A p \in Path : client[c].disk[p] # Absent => client'[c].disk[p] # Absent

\* OnFile replaces contents, the other handlers leave the directory alone.
LEMMA DiskKeptByOthers ==
    ASSUME TypeOK, NEW c \in Client,
           ClientProcess(c) \/ Environment(c), ~ClientCanFilesBeSent(c)
    PROVE  DiskKept(c)
  <1>1. client \in [Client -> ClientState]
    BY DEF TypeOK
  <1>2. CASE client'[c].disk = client[c].disk
    BY <1>2 DEF DiskKept
  <1>3. CASE ClientFile(c)
    <2>1. /\ toClient[c] \in Seq(ClientPacket) /\ toClient[c] # <<>>
          /\ Head(toClient[c]).type = "file"
      BY <1>3 DEF TypeOK, ClientFile, ClientReceives
    <2>2. Head(toClient[c]).entry \in Entry \cup {Hole}
      BY <2>1, HeadTailType, ClientPacketFields
    <2> DEFINE disk == Written(client[c].disk, Head(toClient[c]).entry)
               download == Awaiting(client[c].download, client[c].download.left - 1)
    <2>3. \/ client' = client
          \/ client' = [client EXCEPT ![c].disk = disk, ![c].download = download]
      BY <1>3 DEF ClientFile
    <2>4. \A p \in Path : client[c].disk[p] # Absent => disk[p] # Absent
      BY <1>1, <2>2, HashFilesAssumption DEF Written, Entry, ClientState, Disk
    <2> HIDE DEF disk, download
    <2>5. CASE client' = client
      BY <1>2, <2>5
    <2>6. CASE client' = [client EXCEPT ![c].disk = disk, ![c].download = download]
      <3>1. client'[c].disk = disk
        BY <1>1, <2>6 DEF ClientState
      <3>2. QED  BY <2>4, <3>1 DEF DiskKept
    <2>7. QED  BY <2>3, <2>5, <2>6
  <1>4. CASE ClientStart(c)
    <2> DEFINE hashes == CreateAllHashFiles(client[c].disk)
    <2>1. client' = [client EXCEPT ![c].at = "connecting", ![c].hashes = hashes,
                                   ![c].structure = TRUE]
      BY <1>4 DEF ClientStart
    <2> HIDE DEF hashes
    <2>2. client'[c].disk = client[c].disk
      BY <1>1, <2>1 DEF ClientState
    <2>3. QED  BY <1>2, <2>2
  <1>5. CASE ClientHeader(c)
    <2> DEFINE download == Awaiting(client[c].download, Head(toClient[c]).count)
    <2>1. client' = client \/ client' = [client EXCEPT ![c].download = download]
      BY <1>5 DEF ClientHeader
    <2> HIDE DEF download
    <2>2. client'[c].disk = client[c].disk
      BY <1>1, <2>1 DEF ClientState
    <2>3. QED  BY <1>2, <2>2
  <1>6. CASE \E how : ProcessEnds(c, how)
    <2>1. PICK how : client' = [client EXCEPT ![c].at = how]
      BY <1>6 DEF ProcessEnds
    <2>2. client'[c].disk = client[c].disk
      BY <1>1, <2>1 DEF ClientState
    <2>3. QED  BY <1>2, <2>2
  <1>7. CASE ClientConnected(c) \/ ClientDisconnected(c) \/ ClientFilesFinished(c)
                \/ ClientConnectionLost(c)
    <2>1. \/ \E at : client' = [client EXCEPT ![c].at = at]
          \/ client' = [client EXCEPT ![c].structure = FALSE]
          \/ client' = [client EXCEPT ![c].download = NoDownload]
      BY <1>7 DEF ClientConnected, ClientDisconnected, ClientFilesFinished,
         ClientConnectionLost
    <2>2. client'[c].disk = client[c].disk
      BY <1>1, <2>1 DEF ClientState
    <2>3. QED  BY <1>2, <2>2
  <1>8. CASE ClientSendFile(c) \/ Accept(c) \/ Refuse(c) \/ LinkLost(c)
    BY <1>2, <1>8 DEF ClientSendFile, Accept, Refuse, LinkLost
  <1>9. QED
    BY <1>3, <1>4, <1>5, <1>6, <1>7, <1>8
    DEF ClientProcess, ClientLoop, Environment, GiveUp, ClientDies

\* A step deletes only what its action property allows.
LEMMA DeletesStaleOnly ==
    ASSUME TypeOK, DeleteListsStale, [Next]_vars,
           NEW c \in Client, NEW p \in Path,
           client[c].disk[p] # Absent, client'[c].disk[p] = Absent
    PROVE  p # ClientExe /\ HashFile(p, client[c].disk[p]) \notin serverHashes
  <1>1. client \in [Client -> ClientState]
    BY DEF TypeOK
  <1>2. client'[c] # client[c]
    OBVIOUS
  <1>3. ASSUME NEW d \in Client, ClientProcess(d) \/ Environment(d)
        PROVE  c = d
    <2>1. SUFFICES ASSUME c # d PROVE client'[c] = client[c]
      BY <1>2
    <2>2. CASE ClientLoop(d)
      BY <1>1, <2>1, <2>2 DEF ClientLoop, ClientSendFile, ClientCanFilesBeSent,
         ClientHeader, ClientFile, ClientFilesFinished, ClientDisconnected,
         ClientConnectionLost
    <2>3. CASE ClientStart(d) \/ ClientConnected(d) \/ GiveUp(d) \/ Environment(d)
      BY <1>1, <2>1, <2>3 DEF ClientStart, ClientConnected, GiveUp, Environment,
         Accept, Refuse, LinkLost, ClientDies, ProcessEnds
    <2>4. QED  BY <1>3, <2>2, <2>3 DEF ClientProcess
  <1>4. ClientProcess(c) \/ Environment(c)
    <2>1. ASSUME NEW d \in Client, ServerServes(d) \/ ReaderThread(d)
          PROVE  client' = client
      <3>1. (\E type : ServerReceives(d, type)) \/ (\E at : ReaderStep(d, at))
        BY <2>1 DEF ServerServes, ReaderThread, ServerNewConnection,
           ServerFileStructure, ServerSendFile, ServerFileSend, ServerClosed,
           ReaderRead, ReaderAdd, ReaderLoad, ReaderStore, ReaderReply
      <3>2. QED  BY <3>1 DEF ServerReceives, ReaderStep
    <2>2. ServerSends => client' = client
      BY DEF ServerSends, ServerSendNext, ServerSent, ServerWaited
    <2>3. UNCHANGED vars => client' = client
      BY DEF vars
    <2>4. \E d \in Client : ClientProcess(d) \/ Environment(d)
      BY <1>2, <2>1, <2>2, <2>3 DEF Next
    <2>5. QED  BY <1>3, <2>4
  <1>5. ClientCanFilesBeSent(c)
    BY <1>4, DiskKeptByOthers DEF DiskKept
  <1>6. /\ toClient[c] \in Seq(ClientPacket) /\ toClient[c] # <<>>
        /\ Head(toClient[c]).type = "canFilesBeSent"
    BY <1>5 DEF TypeOK, ClientCanFilesBeSent, ClientReceives
  <1>7. StaleList(Head(toClient[c]).hashes)
    <2>1. 1 \in 1 .. Len(toClient[c]) /\ Head(toClient[c]) = toClient[c][1]
      BY <1>6
    <2>2. QED  BY <1>6, <2>1 DEF DeleteListsStale
  <1>8. PICK hashes \in ReadDeleteList(Head(toClient[c]).hashes) :
           client'[c].disk = DeleteFiles(client[c].disk, hashes, ClientExe)
    <2>1. PICK hashes \in ReadDeleteList(Head(toClient[c]).hashes) :
             \E download : client' = [client EXCEPT
                 ![c].disk = DeleteFiles(@, hashes, ClientExe),
                 ![c].download = download]
      BY <1>5 DEF ClientCanFilesBeSent
    <2> DEFINE disk == DeleteFiles(client[c].disk, hashes, ClientExe)
    <2>2. PICK download :
             client' = [client EXCEPT ![c].disk = disk, ![c].download = download]
      BY <2>1
    <2> HIDE DEF disk
    <2>3. client'[c].disk = disk
      BY <1>1, <2>2 DEF ClientState
    <2>4. QED  BY <2>3 DEF disk
  <1>9. hashes \subseteq Head(toClient[c]).hashes
    BY DEF ReadDeleteList
  <1>10. p # ClientExe /\ HashFile(p, client[c].disk[p]) \in hashes
    BY <1>8 DEF DeleteFiles
  <1>11. QED  BY <1>7, <1>9, <1>10 DEF StaleList

\* Whatever manifest the server takes for a client's and whenever its list
\* arrives, UpdateClient deletes nothing the server lists and never Client.exe.
THEOREM NeverDeletesCurrentHolds == Spec => NeverDeletesCurrent
  <1>1. Spec => []DeleteListsStale
    BY DeleteListsStaleInit, DeleteListsStaleNext, TypeCorrect, PTL DEF Spec
  <1>2. TypeOK /\ DeleteListsStale /\ [Next]_vars =>
           [\A c \in Client, p \in Path :
               client[c].disk[p] # Absent /\ client'[c].disk[p] = Absent
                   => /\ p # ClientExe
                      /\ HashFile(p, client[c].disk[p]) \notin serverHashes]_vars
    BY DeletesStaleOnly
  <1>3. QED
    BY <1>1, <1>2, TypeCorrect, PTL DEF Spec, NeverDeletesCurrent

=============================================================================
