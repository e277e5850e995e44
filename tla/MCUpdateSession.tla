--------------------------- MODULE MCUpdateSession ---------------------------
(* Small directories and clients for UpdateSession.                        *)
EXTENDS UpdateSession, TLC

CONSTANTS c1, c2, ip1, ip2, a, b, exe, srv, v1, v2, t1, t2, absent

PathSet  == {a, b, exe, srv}
OwnIp1   == c1 :> ip1
OwnIps   == (c1 :> ip1) @@ (c2 :> ip2)
SharedIp == (c1 :> ip1) @@ (c2 :> ip1)
Distinct == (v1 :> t1) @@ (v2 :> t2)
SameToken == (v1 :> t1) @@ (v2 :> t1)

Dir(x, y, z, w) == (a :> x) @@ (b :> y) @@ (exe :> z) @@ (srv :> w)

\* One client: every directory of both sides, with and without each file.
AnyServer == {Dir(x, y, z, v1) : x, y \in {v1, absent}, z \in {v1, absent}}
AnyClient == {c1 :> Dir(x, y, z, absent) :
                x, y \in {v1, v2, absent}, z \in {v1, v2}}

\* Two clients of a server with both files: one without a, one with an old b,
\* or one with everything and one with neither up to date.
FullServer == {Dir(v1, v1, v2, v1)}
LacksA     == Dir(absent, v1, v2, absent)
StaleB     == Dir(v1, v2, v2, absent)
Current    == Dir(v1, v1, v2, absent)
StaleBoth  == Dir(v2, absent, v2, absent)

BothLack == {(c1 :> LacksA) @@ (c2 :> StaleB)}
OneLacks == {(c1 :> Current) @@ (c2 :> StaleBoth)}
=============================================================================
