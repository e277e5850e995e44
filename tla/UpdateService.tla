---------------------------- MODULE UpdateService ----------------------------
(***************************************************************************)
(* What the update service promises of the directory of each client,       *)
(* without packets, threads, sets or lists.                                *)
(*                                                                         *)
(* A client's directory changes only while the client is being updated: a  *)
(* file becomes what the server publishes under its path, or goes because  *)
(* the server publishes nothing that hashes like it.  The client's own     *)
(* executable stays.  An update is over when every file that was announced *)
(* has been received, and from then on nothing changes.                    *)
(***************************************************************************)
EXTENDS HashFiles, Naturals

CONSTANTS Client, ClientExe, Directories, Publications

VARIABLES directory,   \* of each client
          phase,       \* of each client's update
          announced,   \* whether a client was told how many files will come
          awaited,     \* how many of them have not
          published    \* the server's directory

vars == <<directory, phase, announced, awaited, published>>

Init ==
    /\ directory \in Directories
    /\ phase = [c \in Client |-> "before"]
    /\ announced = [c \in Client |-> FALSE]
    /\ awaited = [c \in Client |-> 0]
    /\ published \in Publications

Begin(c) ==
    /\ phase[c] = "before"
    /\ phase' = [phase EXCEPT ![c] = "updating"]
    /\ UNCHANGED <<directory, announced, awaited, published>>

\* Files go that hash like no file of the server, before any are announced.
Remove(c) ==
    /\ phase[c] = "updating" /\ ~announced[c]
    /\ \E gone \in SUBSET (Files(directory[c]) \ {ClientExe}) :
          /\ \A p \in gone :
                HashFile(p, directory[c][p]) \notin CreateAllHashFiles(published)
          /\ directory' = [directory EXCEPT ![c] =
                             [p \in Path |-> IF p \in gone THEN Absent ELSE @[p]]]
    /\ UNCHANGED <<phase, announced, awaited, published>>

Announce(c) ==
    /\ phase[c] = "updating" /\ ~announced[c]
    /\ announced' = [announced EXCEPT ![c] = TRUE]
    /\ awaited'[c] \in Nat
    /\ awaited' = [awaited EXCEPT ![c] = awaited'[c]]
    /\ UNCHANGED <<directory, phase, published>>

\* One of the announced files; it may be one that is not written.
Receive(c) ==
    /\ phase[c] = "updating" /\ announced[c]
    /\ awaited[c] > 0
    /\ awaited' = [awaited EXCEPT ![c] = @ - 1]
    /\ \/ UNCHANGED directory
       \/ \E p \in Files(published) \ {ClientExe} :
             directory' = [directory EXCEPT ![c][p] = published[p]]
    /\ UNCHANGED <<phase, announced, published>>

Finish(c) ==
    /\ phase[c] = "updating" /\ announced[c] /\ awaited[c] = 0
    /\ phase' = [phase EXCEPT ![c] = "updated"]
    /\ UNCHANGED <<directory, announced, awaited, published>>

\* The connection or the client is lost, for good.
Fail(c) ==
    /\ phase[c] \in {"before", "updating"}
    /\ phase' = [phase EXCEPT ![c] = "failed"]
    /\ \/ UNCHANGED <<announced, awaited>>
       \/ /\ announced' = [announced EXCEPT ![c] = FALSE]
          /\ awaited' = [awaited EXCEPT ![c] = 0]
    /\ UNCHANGED <<directory, published>>

Next ==
    \E c \in Client :
        Begin(c) \/ Remove(c) \/ Announce(c) \/ Receive(c) \/ Finish(c) \/ Fail(c)

Spec == Init /\ [][Next]_vars
=============================================================================
