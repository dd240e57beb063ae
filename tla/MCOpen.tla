------------------------------- MODULE MCOpen -------------------------------
(* Small instances of AdhocctlOpen. *)
EXTENDS AdhocctlOpen

CONSTANTS u1, u2, ipA, m1, m2

(* u1 and u2 are two devices behind one address. *)
MCIpOf2 == (u1 :> ipA) @@ (u2 :> ipA)
MCMacOf2 == (u1 :> m1) @@ (u2 :> m2)

(* All connections from one device, so that they are interchangeable. *)
OneMac == [u \in Users |-> m1]
OneIp == [u \in Users |-> ipA]

(* What a client needs to move through the database. *)
FewPackets == {LoginC2S(g) : g \in Games} \cup {ConnectC2S(n) : n \in Names}
                \cup {BareC2S("DISCONNECT")}

Interchangeable == Permutations(Users)
=============================================================================
