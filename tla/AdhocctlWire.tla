---------------------------- MODULE AdhocctlWire ----------------------------
(***************************************************************************)
(* The TCP connections between the PSPs and the adhocctl server, and the   *)
(* packets they carry (pspnet_adhocctl_server/packets.h).                  *)
(*                                                                         *)
(* A member of Users is one connection: the pair (ip, port) by which       *)
(* login_user_stream tells users apart.  Two connections may come from the *)
(* same device (same MAC and IP, a new port after a restart) or from two   *)
(* devices behind one IP address.  A packet is on the wire as a whole: the *)
(* server waits until all its bytes are there, so a partly received packet *)
(* is one that is not yet at the head of the queue.                        *)
(***************************************************************************)
EXTENDS Naturals, Sequences

CONSTANTS Users,     \* connections, each an (ip, port) pair
          Games,     \* product codes after game_product_override
          Names,     \* valid group names
          Macs, Ips,
          MacOf,     \* the MAC a user logs in with
          IpOf,      \* the address a connection comes from
          BadGame,   \* login data with an invalid product code, MAC or nickname
          BadName,   \* a group name with an invalid symbol
          MaxC2S,    \* bound: clients start nothing with so many packets under way,
          MaxBacklog \* bound: or while one of them has more packets to read

ASSUME WireAssumption ==
    /\ MacOf \in [Users -> Macs]
    /\ IpOf \in [Users -> Ips]
    /\ BadGame \notin Games
    /\ BadName \notin Names

(* Packets from client to server; GARBAGE stands for every unknown opcode. *)
LoginC2S(g)   == [op |-> "LOGIN", game |-> g]
ConnectC2S(n) == [op |-> "CONNECT", group |-> n]
BareC2S(op)   == [op |-> op]

BareOps == {"PING", "DISCONNECT", "SCAN", "CHAT", "GARBAGE"}

C2S == {LoginC2S(g) : g \in Games \cup {BadGame}}
         \cup {ConnectC2S(n) : n \in Names \cup {BadName}}
         \cup {BareC2S(op) : op \in BareOps}

(* Packets from server to client. *)
ConnectS2C(v)     == [op |-> "CONNECT", mac |-> MacOf[v], ip |-> IpOf[v]]
DisconnectS2C(ip) == [op |-> "DISCONNECT", ip |-> ip]
ScanS2C(n, mac)   == [op |-> "SCAN", group |-> n, mac |-> mac]
ScanCompleteS2C   == [op |-> "SCAN_COMPLETE"]
BssidS2C(mac)     == [op |-> "CONNECT_BSSID", mac |-> mac]
ChatS2C           == [op |-> "CHAT"]

S2C == {ConnectS2C(v) : v \in Users}
         \cup {DisconnectS2C(ip) : ip \in Ips}
         \cup {ScanS2C(n, mac) : n \in Names, mac \in Macs}
         \cup {BssidS2C(mac) : mac \in Macs}
         \cup {ScanCompleteS2C, ChatS2C}

-----------------------------------------------------------------------------
VARIABLES
    c2s,     \* c2s[u]: packets sent by the client and not yet handled
    s2c,     \* s2c[u]: packets sent by the server and not yet handled
    cliEnd,  \* cliEnd[u]: "none", "open", "closed" (FIN sent) or "gone" (power lost, no FIN)
    srvEnd   \* srvEnd[u]: "none", "backlog" (not accepted), "open" or "closed"

wireVars == <<c2s, s2c, cliEnd, srvEnd>>

WireTypeOK ==
    /\ c2s \in [Users -> Seq(C2S)]
    /\ s2c \in [Users -> Seq(S2C)]
    /\ cliEnd \in [Users -> {"none", "open", "closed", "gone"}]
    /\ srvEnd \in [Users -> {"none", "backlog", "open", "closed"}]

WireInit ==
    /\ c2s = [u \in Users |-> <<>>]
    /\ s2c = [u \in Users |-> <<>>]
    /\ cliEnd = [u \in Users |-> "none"]
    /\ srvEnd = [u \in Users |-> "none"]

(* sceNetInetConnect: the connection waits in the listen backlog.  A port  *)
(* can be used again once both ends have forgotten it.                     *)
WireConnect(u, firstPackets) ==
    /\ cliEnd[u] # "open"
    /\ srvEnd[u] \in {"none", "closed"}
    /\ cliEnd' = [cliEnd EXCEPT ![u] = "open"]
    /\ srvEnd' = [srvEnd EXCEPT ![u] = "backlog"]
    /\ c2s' = [c2s EXCEPT ![u] = firstPackets]
    /\ s2c' = [s2c EXCEPT ![u] = <<>>]

(* sceNetInetSend with INET_MSG_DONTWAIT: lost when the server has closed. *)
WireSend(u, packet) ==
    c2s' = IF cliEnd[u] = "open" /\ srvEnd[u] \in {"backlog", "open"}
             THEN [c2s EXCEPT ![u] = Append(@, packet)]
             ELSE c2s

(* The client closes its socket (how = "closed") or loses power ("gone").  *)
WireClose(u, how) ==
    /\ cliEnd[u] = "open"
    /\ cliEnd' = [cliEnd EXCEPT ![u] = how]
    /\ s2c' = [s2c EXCEPT ![u] = <<>>]
    /\ UNCHANGED <<c2s, srvEnd>>
=============================================================================
