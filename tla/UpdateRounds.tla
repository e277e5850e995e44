----------------------------- MODULE UpdateRounds -----------------------------
(***************************************************************************)
(* Sessions one after another, over the lifetime of the directories: what  *)
(* a session that is cut short leaves behind on both sides, and what the   *)
(* later ones make of it.                                                  *)
(*                                                                         *)
(* UpdateSession has the interleavings of one session with another; here   *)
(* one client is served at a time, clients run as often as they like, the  *)
(* server is killed and started again, the operator edits its directory,   *)
(* and a file arrives in two steps: it is truncated, then written.         *)
(***************************************************************************)
EXTENDS Naturals, Sequences, SequencesExt

CONSTANTS Order,            \* every path, as recursive_directory_iterator visits them
          Content,          \* contents that have a first token
          FirstToken,       \* FirstToken[content]: what inFile >> fileData extracts
          NoToken,          \* fileData before anything was extracted
          Empty,            \* a file with no token in it
          Dir,              \* a directory
          Absent,           \* nothing under this path
          Client,           \* client machines, each with its own address
          Parent,           \* Parent[p]: the directory p is in, or Root
          Root,
          FileStructure,    \* \FileStructure.txt
          ManifestOf,       \* ManifestOf[c]: \FileStructure<address of c>.txt
          ServerManifest,   \* \FileStructure<address of the server>.txt
          ClientExe,        \* \Client.exe
          ServerExe,        \* \Server.exe
          ServerDisks,      \* what the server's directory may hold at first
          ClientDisks,      \* what the clients' directories may hold at first
          Edits,            \* pairs <<path, content>> the operator may write
          MaxEdits,         \* bound: edits of the server's directory
          MaxKills,         \* bound: processes killed with a connection open
          MaxFileList       \* bound: sessions stop when fileList is longer

Path == Range(Order)

\* The files the updater itself uses; the others are the application's.
UpdaterPath == {FileStructure, ServerManifest, ClientExe, ServerExe} \cup Range(ManifestOf)
AppPath == Path \ UpdaterPath

\* A directory is visited before its entries, and the clients' directories are trees.
\* The updater's files are in the root, and the operator leaves them alone.
UpdateRoundsAssumption ==
    /\ Order \in Seq(Path) /\ IsInjective(Order)
    /\ {Empty, Dir, Absent} \cap Content = {} /\ Empty \notin {Dir, Absent} /\ Dir # Absent
    /\ Content \subseteq DOMAIN FirstToken
    /\ Root \notin Path /\ Parent \in [Path -> Path \cup {Root}]
    /\ \A i \in DOMAIN Order : \/ Parent[Order[i]] = Root
                               \/ \E j \in 1 .. i - 1 : Parent[Order[i]] = Order[j]
    /\ Client \subseteq DOMAIN ManifestOf /\ UpdaterPath \subseteq Path
    /\ \A p \in UpdaterPath : Parent[p] = Root /\ p \notin Range(Parent)
    /\ ServerDisks \subseteq [Path -> Content \cup {Empty, Dir, Absent}]
    /\ ClientDisks \subseteq [Client -> [Path -> Content \cup {Empty, Dir, Absent}]]
    /\ \A d \in ClientDisks, c \in Client, p \in Path :
          d[c][p] # Absent => Parent[p] = Root \/ d[c][Parent[p]] = Dir
    /\ Edits \subseteq AppPath \X (Content \cup {Empty, Dir, Absent})
    /\ {MaxEdits, MaxKills, MaxFileList} \subseteq Nat

-----------------------------------------------------------------------------
(* What FileManager makes of a directory as it really is: subdirectories,  *)
(* empty files and the FileStructure files of the updater among the files  *)
(* of the application, hashed in the order the iterator visits them.       *)
(*                                                                         *)
(* The string fileData that CreateAllHashFiles extracts a token into is    *)
(* declared outside its loop, and a file that yields no token leaves it as *)
(* it was: the hash of an empty file or of a directory holds the token of  *)
(* the file visited before it.                                             *)

IsFile(content) == content \notin {Dir, Absent}

\* HashFile(fileLocation, fileData): the location and the hash are one value.
HashFile(p, fileData) == <<p, fileData>>

\* A FileStructure file: one hash in each line, or an empty file.
CreateNewFileStucFileInDir(hashFileArr) ==
    IF hashFileArr = <<>> THEN Empty ELSE [lines |-> hashFileArr]

\* getline until the end of the file, or nothing if it cannot be opened.
ReadFromfileStucFileByDir(content) ==
    IF content \in {Empty, Dir, Absent} THEN <<>> ELSE content.lines

\* inFile >> fileData.
Extract(content, fileData) ==
    CASE content \in {Empty, Dir} -> fileData
      [] content \in Content      -> FirstToken[content]
      [] OTHER                    -> Head(content.lines)

\* Mutant: the loop that counts the entries hashes them as well.
CreateAllHashFilesTwice(disk) ==
    LET scan[i \in 0 .. 2 * Len(Order)] ==
            IF i = 0 THEN [fileData |-> NoToken, hashFiles |-> <<>>]
            ELSE LET p == Order[1 + ((i - 1) % Len(Order))]
                     data == Extract(disk[p], scan[i - 1].fileData)
                 IN IF disk[p] = Absent THEN scan[i - 1]
                    ELSE [fileData  |-> data,
                          hashFiles |-> Append(scan[i - 1].hashFiles, HashFile(p, data))]
    IN scan[2 * Len(Order)].hashFiles

\* The hashes of everything in the directory.  The comparison that was to leave
\* FileStructure.txt out is with "\FileStructure.txt", in which \F is F: no name
\* ever equals it, for each begins with a backslash.
CreateAllHashFiles(disk) ==
    LET scan[i \in 0 .. Len(Order)] ==
            IF i = 0 THEN [fileData |-> NoToken, hashFiles |-> <<>>]
            ELSE LET p == Order[i]
                     data == Extract(disk[p], scan[i - 1].fileData)
                 IN IF disk[p] = Absent THEN scan[i - 1]
                    ELSE [fileData  |-> data,
                          hashFiles |-> Append(scan[i - 1].hashFiles, HashFile(p, data))]
    IN scan[Len(Order)].hashFiles

\* The elements of list that are in S, in their order.
Filtered(list, S) ==
    LET kept[i \in 0 .. Len(list)] ==
            IF i = 0 THEN <<>>
            ELSE IF list[i] \in S THEN Append(kept[i - 1], list[i])
            ELSE kept[i - 1]
    IN kept[Len(list)]

\* Those of the second list that are not in the first ...
FindMissingFiles(clientArr, serverArr) ==
    Filtered(serverArr, Range(serverArr) \ Range(clientArr))

\* Mutant: found is never set back.
FindFilesToDeleteOnce(clientArr, serverArr) ==
    SelectSeq(SubSeq(clientArr, 1, SelectInSeq(clientArr, LAMBDA cfile :
                                                  Contains(serverArr, cfile))),
              LAMBDA cfile : ~Contains(serverArr, cfile))

\* ... and those of the first that are not in the second.
FindFilesToDelete(clientArr, serverArr) ==
    Filtered(clientArr, Range(clientArr) \ Range(serverArr))

\* std::remove takes a file and leaves a directory where it is.
DeleteFilesFromDir(disk, p) ==
    IF IsFile(disk[p]) THEN [disk EXCEPT ![p] = Absent] ELSE disk
-----------------------------------------------------------------------------
(* The state.                                                              *)

VARIABLES
    serverDisk,  \* the server's directory
    server,      \* its process: the list hashed at start-up, and fileList
    disk,        \* the directory of each client
    session,     \* the client that runs, and how far its session is
    touched,     \* history: paths edited since the server last started
    edits, kills \* counters for the bounds

clientVars == <<disk, session>>
counters == <<edits, kills>>
vars == <<serverDisk, server, clientVars, touched, counters>>

Down == [up |-> FALSE, list |-> <<>>, fileList |-> <<>>]

\* manifest is what the client's fileList holds, toDelete the hashes in the
\* message ID_CLIENTCANFILESBESENT, toReceive the files on their way; promised
\* is history: the files of the application as they were when they were sent.
NoSession ==
    [at |-> "none", client |-> Root, connected |-> FALSE, manifest |-> Empty,
     toDelete |-> <<>>, toReceive |-> <<>>, promised |-> {}]

Init ==
    /\ serverDisk \in ServerDisks
    /\ server = Down
    /\ disk \in ClientDisks
    /\ session = NoSession
    /\ touched = {}
    /\ edits = 0
    /\ kills = 0

-----------------------------------------------------------------------------
(* The server's process and its directory.                                 *)

\* main: hash the directory, leftovers included, and write FileStructure.txt.
ServerStart ==
    /\ ~server.up
    /\ LET list == CreateAllHashFiles(serverDisk) IN
       /\ server' = [up |-> TRUE, list |-> list, fileList |-> <<>>]
       /\ serverDisk' = [serverDisk EXCEPT ![FileStructure] =
                                             CreateNewFileStucFileInDir(list)]
    /\ touched' = {}
    /\ UNCHANGED <<clientVars, counters>>

\* The server has no way to end: it is killed, in a session or between two.
ServerKilled ==
    /\ server.up /\ kills < MaxKills
    /\ server' = Down
    /\ session' = [session EXCEPT !.connected = FALSE]
    /\ kills' = kills + 1
    /\ UNCHANGED <<serverDisk, disk, touched, edits>>

\* The operator puts a new version of a file in place, or takes one away.
Edit(p, content) ==
    /\ edits < MaxEdits
    /\ serverDisk[p] # content
    /\ serverDisk' = [serverDisk EXCEPT ![p] = content]
    /\ touched' = touched \cup {p}
    /\ edits' = edits + 1
    /\ UNCHANGED <<server, clientVars, kills>>

-----------------------------------------------------------------------------
(* A session, step by step.                                                *)

\* main: hash the directory and write FileStructure.txt.
ClientStart(c) ==
    /\ session.at \in {"none", "finished"}
    /\ Len(server.fileList) <= MaxFileList
    /\ LET written == CreateNewFileStucFileInDir(CreateAllHashFiles(disk[c])) IN
       /\ disk' = [disk EXCEPT ![c][FileStructure] = written]
       /\ session' = [NoSession EXCEPT !.at = "started", !.client = c,
                                       !.manifest = written]
    /\ UNCHANGED <<serverDisk, server, touched, counters>>

\* Connected; ID_SENDFILE is answered with the manifest, which OnFile of the
\* server writes under the client's address.
Upload ==
    /\ session.at = "started" /\ server.up
    /\ serverDisk' = [serverDisk EXCEPT ![ManifestOf[session.client]] =
                                          session.manifest]
    /\ session' = [session EXCEPT !.at = "uploaded", !.connected = TRUE]
    /\ UNCHANGED <<server, disk, touched, counters>>

\* The callback filters two locations; AddFile reads those files that it can
\* open, as they are now.
FilesAdded(missing, manifest) ==
    LET sendable == {file \in Range(missing) : /\ file[1] \notin {manifest, ServerExe}
                                               /\ IsFile(serverDisk[file[1]])}
        chosen   == Filtered(missing, sendable)
    IN [i \in DOMAIN chosen |-> <<chosen[i][1], serverDisk[chosen[i][1]]>>]

\* The thread: compare, add to fileList, reply, delete the server's own
\* FileStructure.txt.  fileList is never cleared.
Compare ==
    /\ session.at = "uploaded" /\ session.connected
    /\ LET own      == ManifestOf[session.client]
           hashList == ReadFromfileStucFileByDir(serverDisk[own])
           missing  == FindMissingFiles(hashList, server.list)
       IN /\ server' = [server EXCEPT !.fileList =
                                        @ \o FilesAdded(missing, own)]
          /\ session' = [session EXCEPT
                !.at = "compared",
                !.toDelete = FindFilesToDelete(hashList, server.list)]
    /\ serverDisk' = DeleteFilesFromDir(serverDisk, FileStructure)
    /\ UNCHANGED <<disk, touched, counters>>

\* Mutant: every string of the message is read.
ClientDeleteAll ==
    /\ session.at = "compared"
    /\ LET c   == session.client
           hit == {file[1] : file \in Range(CreateAllHashFiles(disk[c]))
                                       \cap Range(session.toDelete)} \ {ClientExe}
       IN disk' = [disk EXCEPT ![c] =
                     [p \in Path |-> IF p \in hit THEN DeleteFilesFromDir(@, p)[p] ELSE @[p]]]
    /\ session' = [session EXCEPT !.at = "deleted"]
    /\ UNCHANGED <<serverDisk, server, touched, counters>>

\* ID_CLIENTCANFILESBESENT: one string is read of the message, the directory is
\* hashed again, and what has that hash is deleted.
ClientDelete ==
    /\ session.at = "compared"
    /\ LET c    == session.client
           read == {session.toDelete[i] : i \in DOMAIN session.toDelete \cap {1}}
           hit  == {file[1] : file \in Range(CreateAllHashFiles(disk[c])) \cap read}
                     \ {ClientExe}
       IN disk' = [disk EXCEPT ![c] =
                     [p \in Path |-> IF p \in hit THEN DeleteFilesFromDir(@, p)[p] ELSE @[p]]]
    /\ session' = [session EXCEPT !.at = "deleted"]
    /\ UNCHANGED <<serverDisk, server, touched, counters>>

\* The files of the application that nobody has touched since the server hashed
\* them.
Current == {<<p, serverDisk[p]>> :
              p \in {q \in AppPath \ touched : IsFile(serverDisk[q])}}

\* ID_CLIENTFILESEND: all of fileList, then ID_FILESFINISHED; the manifest goes.
ServerSend ==
    /\ session.at = "deleted" /\ session.connected
    /\ session' = [session EXCEPT !.at = "receiving",
                                  !.toReceive = server.fileList,
                                  !.promised = Current]
    /\ serverDisk' = DeleteFilesFromDir(serverDisk, ManifestOf[session.client])
    /\ UNCHANGED <<server, disk, touched, counters>>

\* The directories a file is in, and whether one of them is a file by now.
Ancestors[p \in Path] ==
    IF Parent[p] = Root THEN {} ELSE {Parent[p]} \cup Ancestors[Parent[p]]

Blocked(d, p) == \E q \in Ancestors[p] : IsFile(d[q])

\* OnFile puts a FileStructure.txt under the sender's address.
Target(p) == IF p = FileStructure THEN ServerManifest ELSE p

\* Mutant: a file that is there already is taken for whole and skipped.
FileOpenExisting ==
    /\ session.at = "receiving" /\ session.toReceive # <<>>
    /\ LET c == session.client
           p == Target(Head(session.toReceive)[1])
       IN /\ ~Blocked(disk[c], p)
          /\ IF disk[c][p] # Absent
             THEN /\ session' = [session EXCEPT !.toReceive = Tail(@)]
                  /\ UNCHANGED disk
             ELSE /\ session' = [session EXCEPT !.at = "open"]
                  /\ disk' = [disk EXCEPT ![c] =
                        [q \in Path |-> IF q = p THEN Empty
                                        ELSE IF q \in Ancestors[p] THEN Dir
                                        ELSE @[q]]]
    /\ UNCHANGED <<serverDisk, server, touched, counters>>

\* Mutant: without create_directories.
FileOpenFlat ==
    /\ session.at = "receiving" /\ session.toReceive # <<>>
    /\ LET c == session.client
           p == Target(Head(session.toReceive)[1])
       IN disk' = [disk EXCEPT ![c][p] = Empty]
    /\ session' = [session EXCEPT !.at = "open"]
    /\ UNCHANGED <<serverDisk, server, touched, counters>>

\* OnFile, up to the open that truncates: the directories are made and the file
\* is empty.  A directory cannot be opened for writing, nor can the executable
\* that runs: nothing is written.
FileOpen ==
    /\ session.at = "receiving" /\ session.toReceive # <<>>
    /\ LET c == session.client
           p == Target(Head(session.toReceive)[1])
       IN /\ ~Blocked(disk[c], p)
          /\ IF disk[c][p] = Dir \/ p = ClientExe
             THEN /\ session' = [session EXCEPT !.toReceive = Tail(@)]
                  /\ UNCHANGED disk
             ELSE /\ session' = [session EXCEPT !.at = "open"]
                  /\ disk' = [disk EXCEPT ![c] =
                        [q \in Path |-> IF q = p THEN Empty
                                        ELSE IF q \in Ancestors[p] THEN Dir
                                        ELSE @[q]]]
    /\ UNCHANGED <<serverDisk, server, touched, counters>>

\* create_directories throws where a file has the name of a directory, in a
\* thread that catches nothing: the process ends.
FileThrows ==
    /\ session.at = "receiving" /\ session.toReceive # <<>>
    /\ Blocked(disk[session.client], Target(Head(session.toReceive)[1]))
    /\ session' = NoSession
    /\ UNCHANGED <<serverDisk, server, disk, touched, counters>>

\* OnFile, the rest of it.
FileWrite ==
    /\ session.at = "open"
    /\ LET file == Head(session.toReceive) IN
       disk' = [disk EXCEPT ![session.client][Target(file[1])] = file[2]]
    /\ session' = [session EXCEPT !.at = "receiving", !.toReceive = Tail(@)]
    /\ UNCHANGED <<serverDisk, server, touched, counters>>

\* ID_FILESFINISHED: FileStructure.txt goes and the connection is closed.
ClientFinish ==
    /\ session.at = "receiving" /\ session.toReceive = <<>>
    /\ disk' = [disk EXCEPT ![session.client] =
                              DeleteFilesFromDir(@, FileStructure)]
    /\ session' = [session EXCEPT !.at = "finished", !.connected = FALSE]
    /\ UNCHANGED <<serverDisk, server, touched, counters>>

\* The client's process is killed; after the fifth timeout, or when its server
\* is gone and the loop would run for ever, that is the only way for it to end.
ClientKilled ==
    /\ session.at \notin {"none", "finished"}
    /\ session.connected => kills < MaxKills
    /\ kills' = IF session.connected THEN kills + 1 ELSE kills
    /\ session' = NoSession
    /\ UNCHANGED <<serverDisk, server, disk, touched, edits>>

Progress ==
    \/ Upload \/ Compare \/ ClientDelete \/ ServerSend
    \/ FileOpen \/ FileThrows \/ FileWrite \/ ClientFinish

Next ==
    \/ ServerStart \/ ServerKilled \/ Progress \/ ClientKilled
    \/ \E c \in Client : ClientStart(c)
    \/ \E edit \in Edits : Edit(edit[1], edit[2])

Spec == Init /\ [][Next]_vars

\* A server that is down is started again, a session that can go on does, one
\* that cannot is ended by the user, and each client is run again and again.
\* Nothing is assumed of the operator or of kills.
Fairness ==
    /\ WF_vars(ServerStart)
    /\ WF_vars(Progress)
    /\ WF_vars(ClientKilled /\ ~session.connected)
    /\ \A c \in Client : SF_vars(ClientStart(c))

-----------------------------------------------------------------------------
(* What tells the contents of files apart.                                 *)

\* What operators and users may have put at a path.
ServerMayHave(p) ==
    {d[p] : d \in ServerDisks} \cup {edit[2] : edit \in {e \in Edits : e[1] = p}}
ClientMayHave(p) == {d[c][p] : d \in ClientDisks, c \in Client}

\* What the scan of a client may find at p: files arrive from the same path of the
\* server, and its FileStructure.txt under another name.
Found(p) ==
    ClientMayHave(p) \cup ServerMayHave(p)
        \cup (IF p = ServerManifest THEN ServerMayHave(FileStructure) ELSE {})

Before(q, p) == \E i, j \in DOMAIN Order : i < j /\ Order[i] = q /\ Order[j] = p

\* Each file of the application has a token on the server.  No other version of it
\* begins with the same one, and no file that is visited before it: else a copy cut
\* short, with the token of the file before, could pass for whole.
TokensTell ==
    \A p \in AppPath : \A x \in {y \in ServerMayHave(p) : IsFile(y)} :
        /\ x \in Content /\ FirstToken[x] # NoToken
        /\ \A y \in Found(p) \cap Content : FirstToken[y] = FirstToken[x] => y = x
        /\ \A q \in Path \ Ancestors[p] : Before(q, p) =>
              \A y \in Found(q) \cap Content : FirstToken[y] # FirstToken[x]

\* What is a file of the application on the server is a directory nowhere: where
\* a client has a directory in its place, the file is not written.
FilesStayFiles ==
    \A p \in AppPath : (\E x \in ServerMayHave(p) : IsFile(x)) =>
        p \notin Range(Parent) /\ Dir \notin ClientMayHave(p)

\* The client's executable is visited first, and the server's never begins like it.
ExecutableFirst ==
    /\ Order[1] = ClientExe /\ ClientExe # FileStructure
    /\ \A x \in ClientMayHave(ClientExe) :
          /\ x \in Content /\ FirstToken[x] # NoToken
          /\ \A y \in ServerMayHave(ClientExe) \cap Content : FirstToken[y] # FirstToken[x]

-----------------------------------------------------------------------------
(* Properties.                                                             *)

\* The values the variables may take; the lists hold each path once.
TypeOK ==
    LET IsContent(x) == \/ x \in Content \cup {Empty, Dir, Absent}
                        \/ Range(ReadFromfileStucFileByDir(x)) # {}
        IsList(list) == IsInjective([i \in DOMAIN list |-> list[i][1]])
    IN /\ DOMAIN serverDisk = Path /\ \A p \in Path : IsContent(serverDisk[p])
       /\ DOMAIN disk = Client
       /\ \A c \in Client : DOMAIN disk[c] = Path /\ \A p \in Path : IsContent(disk[c][p])
       /\ server.up \in BOOLEAN /\ IsList(server.list)
       /\ session.at \in {"none", "started", "uploaded", "compared", "deleted",
                          "receiving", "open", "finished"}
       /\ session.at # "none" => session.client \in Client
       /\ IsList(session.toDelete)
       /\ touched \subseteq Path
       /\ edits \in 0 .. MaxEdits /\ kills \in 0 .. MaxKills

\* Whatever earlier sessions and kills have left on either side, a client that
\* finishes has every file of the application that was current when it was
\* sent: a file cut short by a kill is sent again.
UpToDate ==
    session.at = "finished" =>
        \A file \in session.promised : disk[session.client][file[1]] = file[2]

\* A directory that is a tree stays one: nothing is written under a file.
TreeKept ==
    \A c \in Client, p \in Path :
        disk[c][p] # Absent => ~Blocked(disk[c], p)

\* Where the first entry that the server does not list is the client's own
\* executable, or a directory, no file of the application is ever deleted: the
\* one hash that is read of each message is that of what the client keeps.
DeletesNothing ==
    \A c \in Client, p \in AppPath : disk[c][p] # Absent => disk'[c][p] # Absent

\* Once the operator and the kills have stopped and the server has been started
\* since, sessions bring each client to the files of the server: what it lacks
\* at once, what it must delete one file in each session.  Empty directories
\* are neither made nor removed.
SameFiles(c) ==
    \A p \in AppPath :
        IsFile(disk[c][p]) \/ IsFile(serverDisk[p]) => disk[c][p] = serverDisk[p]

Converges ==
    <>[](touched = {}) => <>[](session.at = "finished" => SameFiles(session.client))
=============================================================================
