--------------------------- MODULE MCUpdateRounds ---------------------------
(***************************************************************************)
(* Small directories for UpdateRounds: two files, a subdirectory with a    *)
(* file, the two executables and the files the updater itself leaves.      *)
(*                                                                         *)
(* A behaviour is one of several cases, which differ in the clients, the   *)
(* directories, the order in which they are visited and the bounds.        *)
(***************************************************************************)
EXTENDS Naturals, Sequences, TLC

CONSTANTS a, d, dx, exe, srv, fs, fs1, fs2, fss,  \* paths
          v1, v2, w1, w2, t1, t2, u1, u2,         \* contents and their tokens
          NoToken, Empty, Dir, Absent, Root,
          c1, c2

VARIABLES case, serverDisk, server, disk, session, touched, edits, kills

state == <<serverDisk, server, disk, session, touched, edits, kills>>

\* As an NTFS directory is visited: by name, a directory before its files.  In
\* AppFirst the application's names come before \Client.exe and
\* \FileStructure.txt, in ExeFirst after them.
AppFirst == <<a, d, dx, exe, fs, fs1, fs2, fss, srv>>
ExeFirst == <<exe, a, d, dx, fs, fs1, fs2, fss, srv>>

ParentOf == [p \in {a, d, exe, srv, fs, fs1, fs2, fss} |-> Root] @@ (dx :> d)

Manifests == (c1 :> fs1) @@ (c2 :> fs2)

Distinct  == (v1 :> t1) @@ (v2 :> t2) @@ (w1 :> u1) @@ (w2 :> u2)
\* The content w1 of d/x begins with the same token as the content v1 of a.
SharedToken == (v1 :> t1) @@ (v2 :> t2) @@ (w1 :> t1) @@ (w2 :> u2)

Tree(x, y, z, e, s) ==
    [p \in {fs, fs1, fs2, fss} |-> Absent]
        @@ (a :> x) @@ (d :> y) @@ (dx :> z) @@ (exe :> e) @@ (srv :> s)

FullServer  == Tree(v1, Dir, w1, v1, v1)
EmptySubdir == Tree(v1, Dir, Absent, v1, v1)
NoSubdir    == Tree(v1, Absent, Absent, v1, v1)

Lacks       == Tree(Absent, Absent, Absent, v1, Absent)
Stale       == Tree(v2, Dir, w2, v1, Absent)
Flat        == Tree(v1, w1, Absent, v1, Absent)
OldExe      == Tree(v1, Dir, w1, v2, Absent)
StaleOldExe == Tree(v2, Dir, w2, v2, Absent)
StaleSubdir == Tree(v1, Dir, w2, v1, Absent)

Updates == {<<a, v2>>, <<a, v1>>, <<a, Absent>>, <<dx, w2>>}

TwoClients == [name |-> "two clients", clients |-> {c1, c2}, order |-> AppFirst,
    tokens |-> Distinct, servers |-> {FullServer},
    disks |-> {(c1 :> Lacks) @@ (c2 :> Stale)}, edits |-> 1, kills |-> 0]

\* A file has the name of one of the server's directories, or a directory of the
\* server is empty; one process is killed.
OneKill == [name |-> "one kill", clients |-> {c1}, order |-> AppFirst,
    tokens |-> Distinct, servers |-> {FullServer, EmptySubdir},
    disks |-> {(c1 :> x) : x \in {Lacks, Stale, Flat}}, edits |-> 1, kills |-> 1]

\* A second kill meets what the first has left.
TwoKills == [OneKill EXCEPT !.name = "two kills", !.servers = {FullServer},
                            !.disks = {(c1 :> Flat)}, !.kills = 2]

\* The clients' own executable is older than the server's and visited first.
OldExecutable == [name |-> "old executable", clients |-> {c1, c2}, order |-> ExeFirst,
    tokens |-> Distinct, servers |-> {FullServer},
    disks |-> {(c1 :> OldExe) @@ (c2 :> StaleOldExe)}, edits |-> 0, kills |-> 1]

\* The clients have a subdirectory that the server does not have.
StaleDirectory == [name |-> "stale directory", clients |-> {c1, c2}, order |-> AppFirst,
    tokens |-> Distinct, servers |-> {NoSubdir},
    disks |-> {(c1 :> StaleSubdir) @@ (c2 :> EmptySubdir)}, edits |-> 0, kills |-> 1]

\* Two files begin with the same token.
OneToken == [name |-> "one token", clients |-> {c1}, order |-> AppFirst,
    tokens |-> SharedToken, servers |-> {FullServer},
    disks |-> {(c1 :> Lacks)}, edits |-> 0, kills |-> 1]

Cases == {TwoClients, OneKill, TwoKills, OldExecutable, StaleDirectory}

Rounds(c) == INSTANCE UpdateRounds
    WITH Client <- c.clients, Order <- c.order, FirstToken <- c.tokens,
         ServerDisks <- c.servers, ClientDisks <- c.disks,
         MaxEdits <- c.edits, MaxKills <- c.kills, MaxFileList <- 3,
         Content <- {v1, v2, w1, w2}, Parent <- ParentOf, FileStructure <- fs,
         ManifestOf <- Manifests, ServerManifest <- fss, ClientExe <- exe,
         ServerExe <- srv, Edits <- Updates

ASSUME CasesAssumption == \A c \in Cases : Rounds(c)!UpdateRoundsAssumption

\* The hypothesis of the theorem about DeletesNothing.
ASSUME OldExecutableAssumption == Rounds(OldExecutable)!ExecutableFirst

\* The hypotheses of the theorem about UpToDate.  OldExecutable does not meet them: the
\* server's executable begins like a, and is visited before it; nor does OneToken,
\* where UpToDate fails.
ASSUME TellingAssumption ==
    /\ \A c \in Cases \ {OldExecutable} : Rounds(c)!TokensTell /\ Rounds(c)!FilesStayFiles
    /\ ~Rounds(OneToken)!TokensTell /\ Rounds(OneToken)!FilesStayFiles

Init == \E c \in Cases : case = c.name /\ Rounds(c)!Init
Next == \E c \in Cases : case = c.name /\ Rounds(c)!Next /\ UNCHANGED case

Spec == Init /\ [][Next]_<<case, state>>
FairSpec == Spec /\ Rounds(OneKill)!Fairness

OneTokenSpec ==
    /\ case = OneToken.name /\ Rounds(OneToken)!Init
    /\ [][Rounds(OneToken)!Next /\ UNCHANGED case]_<<case, state>>

-----------------------------------------------------------------------------
(* The properties of UpdateRounds, each for the cases it is about.         *)

\* A client that finishes has what the server promised, whatever came before.
UpToDate == Rounds(OneKill)!UpToDate

\* A directory that is a tree stays one: nothing is written under a file; and every
\* list of hashes names a path once.
TreeKept == \A c \in Cases : case = c.name => Rounds(c)!TypeOK /\ Rounds(c)!TreeKept

\* A stale file behind the client's executable, or behind a directory, is never
\* deleted.
NothingEverDeleted ==
    [][\A c \in {OldExecutable, StaleDirectory} :
          case = c.name => Rounds(c)!DeletesNothing]_<<case, state>>

\* Once edits and kills have stopped, sessions bring a client to the files of
\* the server.
Converges == case = OneKill.name => Rounds(OneKill)!Converges
=============================================================================
