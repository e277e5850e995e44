---------------------------- MODULE MCTwoClients ----------------------------
(***************************************************************************)
(* The sessions of two clients that both lack files.  A behaviour is of    *)
(* the case that the clients have addresses of their own, or of the case   *)
(* that they are behind one address.                                       *)
(***************************************************************************)
EXTENDS MCUpdateSession

VARIABLE case

\* Both clients at one address: the server has one manifest for them.
Shared == INSTANCE UpdateSession WITH IpOf <- SharedIp

Start == case \in {"apart", "shared"} /\ Init

Step ==
    /\ \/ case = "apart" /\ Next
       \/ case = "shared" /\ Shared!Next
    /\ UNCHANGED case

TwoClients == Start /\ [][Step]_<<case, vars>>
=============================================================================
