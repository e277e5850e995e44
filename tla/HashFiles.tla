------------------------------ MODULE HashFiles ------------------------------
(***************************************************************************)
(* Files, their hashes and the two comparisons of FileManager.             *)
(*                                                                         *)
(* A directory is a function from paths to contents (Absent: no file).     *)
(* CreateAllHashFiles reads each file with inFile >> fileData, that is,    *)
(* the first whitespace-delimited token only; FirstToken says which token  *)
(* of a content that is.  A HashFile is MD5(path) followed by MD5(token):  *)
(* MD5 is taken as injective, so a hash is the pair <<path, token>>.       *)
(* Files without a token and directories, whose hash depends on the file   *)
(* visited before them, are the subject of UpdateRounds and are not in     *)
(* the directories of this module.                                         *)
(***************************************************************************)
CONSTANTS Path,        \* paths relative to the directory of the program
          Content,     \* what a file may hold
          Token,       \* first tokens of contents
          FirstToken,  \* FirstToken[content]: the token the code hashes
          Absent       \* no file under this path

ASSUME HashFilesAssumption ==
    /\ FirstToken \in [Content -> Token]
    /\ Absent \notin Content

Disk == [Path -> Content \cup {Absent}]

Hash == Path \X Token

\* HashFile(fileLocation, fileData): the hash and the location are one value.
HashFile(p, content) == <<p, FirstToken[content]>>

Files(disk) == {p \in Path : disk[p] # Absent}

CreateAllHashFiles(disk) == {HashFile(p, disk[p]) : p \in Files(disk)}

\* Mutant: the arguments of the comparison swapped.
FindMissingFilesSwapped(clientArr, serverArr) == clientArr \ serverArr

\* Files of the second list whose hash is not in the first.
FindMissingFiles(clientArr, serverArr) == serverArr \ clientArr

\* Mutant: found is never set.
FindFilesToDeleteAll(clientArr, serverArr) == clientArr

\* Files of the first list whose hash is not in the second.
FindFilesToDelete(clientArr, serverArr) == clientArr \ serverArr

\* Mutant: every string of the message is read.
ReadDeleteListAll(hashes) == {hashes}

\* The server writes each hash as a RakString of its own; the client reads one
\* RakString: the first of the message, or nothing when the message has none.
ReadDeleteList(hashes) ==
    IF hashes = {} THEN {{}} ELSE {{h} : h \in hashes}

\* Mutant: without the comparison with \Client.exe.
DeleteFilesAny(disk, hashes, clientExe) ==
    [p \in Path |-> IF disk[p] # Absent /\ HashFile(p, disk[p]) \in hashes
                    THEN Absent ELSE disk[p]]

\* The client deletes each of its files whose hash was read, but not its own
\* executable.
DeleteFiles(disk, hashes, clientExe) ==
    [p \in Path |-> IF /\ disk[p] # Absent
                       /\ p # clientExe
                       /\ HashFile(p, disk[p]) \in hashes
                    THEN Absent ELSE disk[p]]
=============================================================================
