# A formal model of aemu

aemu lets PSP games that were written for local ad hoc play run over the
Internet. A plugin replaces Sony's ad hoc libraries on every PSP by libraries
that talk to each other over IP; a small server, the *adhocctl server*, tells
the PSPs who is in which group, and a relay, the *post office*, carries their
datagrams and streams. This directory holds TLA+ modules that model the parts
of aemu that keep state and talk to each other, the TLC configurations that
check them on small instances, and proofs, checked by TLAPS, of what holds for
every number of users, games, threads and workers.

## 1. The system

| component | state | operations | interacts by |
|---|---|---|---|
| **adhocctl server** `pspnet_adhocctl_server` | users, games, groups: doubly linked lists with reference counts; one rx buffer per user; `_status` | `server_loop`, the packet handlers of `user.c`, `logout_user`, `free_database`, `interrupt` | TCP with every PSP; signals; the status page reads what `status.c` writes |
| **adhocctl library** `pspnet_adhocctl/library` | `_init`, `_thread_status`, `_parameter`, the peer list, the scan results, `_disconnect_timestamp` | the `sceNetAdhocctl*` API (game's thread), the friend finder thread, the disconnect thread | TCP with the server; event handlers of the game; the HUD's outbox |
| **adhocctl game mode** `calls/gamemode`, `functions.c` | the member list, who has arrived, a timestamp | `CreateEnterGameMode`, `JoinEnterGameMode`, `search_and_join`, `ExitGameMode`; the friend finder | the library it is part of |
| **matching library** `pspnet_adhoc_matching` | contexts with member lists, two message stacks per context, flags used as locks | API, event thread, input thread | datagrams (PDP) with the peers; the peer list of adhocctl |
| **socket library** `pspnet_adhoc/library/calls` | a table of 255 sockets, relay sessions or sockets of the console | PDP and PTP calls, connect threads | the post office, or the peers and UPnP |
| **game mode data** `pspnet_adhoc/library/calls/gamemode` | the own block, replicas, a socket with a count of its users | create, update and delete of master and replicas; a sending and a receiving thread | broadcasts to the peers; the member list of adhocctl |
| **worker pool** `pspnet_adhoc/library/workers.c` | workers with a busy flag and two semaphores each | `work_using_worker`, the worker threads, `stop_workers` | every call of `pspnet_adhoc` goes through it |
| **chat HUD** `atpro/hud.c` | chat log, outbox, connection status, user count | key handler, friend finder | the adhocctl library |
| **UPnP** `pspnet_miniupnc` | `_status`, the router found, its port forwards | `miniupnc_start`, `miniupnc_stop`, the upnp thread; `sceNetPortOpen`, `sceNetPortClose` | Init and Term of adhocctl; the socket library; the router |
| loader, shims, stubs, memory patches | load-time patches | - | the firmware |

What is hard here: the threads of every library share globals, under locks
that are compiled out (`adhocctl init.c:1121`), held for less than what they
protect (the socket table), or are flags; the server's answer to a call comes
as a packet that another thread turns into an event; a PSP can lose power and
come back while everyone still holds its ghost; the protocol names a leaver by
an IP address that several PSPs may share; memory is freed by counters that
several paths maintain by hand; and the server logs out everyone who breaks its
protocol, while the library lets calls through that do.

What makes each component correct:

* *server*: lists, pointers and counts agree, nothing is freed early or leaked,
  every room has one host that stays while he is there, everyone who is gone is
  removed, a shutdown ends;
* *library with server*: the peer list becomes exact, library and server agree
  on the group, no accepted call gets the player logged out, every accepted call
  is answered;
* *game mode*: everyone begins with the same members, and nobody waits without
  a clock;
* *matching*: host and children agree on the room, nobody is in one uninvited or
  in two, the game is told the truth, capacity is kept;
* *game mode data*: the socket lives as long as its users, the last state of a
  block arrives, calls return;
* *sockets*: a session, a socket and a structure have one owner, a connect thread
  keeps what it works on;
* *UPnP*: the router forwards the ports of open sockets and no others but those it
  has refused to take away, a stop that waits is heard;
* *workers*: a caller gets his own result, no worker is lost, calls return.

`PROJECT.json` lists the components, and as *hazards* the places of the code
where this can go wrong, each with the properties that would notice.

## 2. The modules

```
AdhocctlWire        connections and packets (packets.h)
  |        \
AdhocctlServer  AdhocctlClient      main.c, user.c / adhocctl library
  |       \        /
AdhocctlOpen  AdhocctlNet           compositions
  |   \            |      \
Lobby  MCOpen     MCNet   GameModeEntry -- MCEntry
  |                        |
  +---- AdhocctlProofs ----+

SubLists, ListTheorems              lists of users, of members; used by several

Matching            one matching context
  |
MatchingNet -- MCMatching           players, datagrams, games
  |
MatchingProofs
  |
MatchingDataProofs

GameModeData -- MCGameMode          pspnet_adhoc game mode
  |
GameModeProofs
PostOfficeSockets -- MCSockets      the socket table, with a relay
  |
PostOfficeProofs
UPnP                the upnp thread and the router
  |
DirectSockets -- MCDirect           the socket table, without a relay
  |
DirectProofs
Workers -- MCWorkers                the worker pool
  |
WorkersProofs
```

**AdhocctlWire.** A member of `Users` is one TCP connection, which is what the
server tells users apart by (address and port). `MacOf` and `IpOf` say which
connections come from one device and which from one address. `c2s` and `s2c`
are the packets under way or in a buffer, a packet being there as a whole or
not yet; `cliEnd` and `srvEnd` are the states of both ends. TCP loses and
reorders nothing, but a closed end loses what is sent to it, and a PSP that is
switched off (`"gone"`) sends no FIN.

**AdhocctlServer.** The database of `user.c`: `dbUser`, `dbGame` and
`groupList` are the linked nodes, `game` and `group` the pointers of a user,
`player` the list of a group (newest first, as the code links at the front),
and `userCount`, `gamePlayers`, `groupCount`, `groupPlayers` the counters.
Lists and counters are separate variables because the code keeps them
separate. One action is one visit of `server_loop` to one user:
`LoginUserStream` (accept), `HangUp`, `TimeOut`, and one action per packet, each
with its error path, which is always `LogoutUser`. The messages are part of the
actions: `JoinPackets`, `LeavePackets`, `ScanPackets` say what each user
is sent and in which order. The order of the visits in a pass is left open,
and a hang-up may overtake packets that were received but not handled, as in
the code (`main.c:236`), also packets not yet received, as a reset
connection does.

**AdhocctlClient.** `lib[u]` holds the globals of the library, `app[u]` the
game's thread: where in an API function it waits, which call succeeded last, and
whether the event of that call has been notified. Functions that wait are
split where they wait: `CreateCalled` / `CreateSends` (waits for the disconnect
thread and for the disconnect event), `DisconnectCalled` / `DiscStarts` /
`DiscSends` / `DiscEnds` / `DisconnectReturns` (the half second of grace for
matching packets lies before the send), `TermCalled` / `FinderLeaves` /
`TermReturns`. `QuirkUsers` are the games of `should_disconnect_in_thread`, for
which the middle part runs in a thread of its own. The friend finder's handlers
are one action per packet type; popping a chat message and sending it are two
actions because the lock around them is compiled out.

**AdhocctlOpen** composes the server with clients about which nothing is
assumed. **AdhocctlNet** composes it with the library; the games call the
API functions of `Calls` in any order, and if `Patient` they wait for the event
of a call before the next. **Lobby** is the abstract specification of the
server: rooms, players, one host per room.

**GameModeEntry** extends `AdhocctlNet`: `gm[u]` holds the game mode globals
(`_in_gamemode`, the member list, the two arrival flags, the timestamp) and
where the game's thread is in `CreateEnterGameMode` or `JoinEnterGameMode`,
whose `search_and_join` is the loop `SearchScans` / `SearchFinds` /
`SearchGoesOn` / `SearchTimesOut`. `GameModeBssid` and `GameModeConnect` are the
friend finder's handlers with their game mode branch (`Collected`, `Arrival`),
`EntryTimesOut` its ten seconds. Sending the join and setting the timestamp are
two steps, between which answers arrive. At the start everyone has logged in at a
server that has places for all of them; a `Patient` game makes no further call
while its entry is on the way to the group.

**Matching** describes one context: `peers` is the member list, `events` and
`input` the two message stacks, newest first. One operator is one function of
the code that changes the context: `ActOnHello`, `ActOnJoin`, ... for the
packets, `DrainInput` for a pass over the input stack, `TimeOut` for the timeout
of a peer, `MayRequest` / `Requests` and their likes for guard and effect of the
API. **MatchingNet** makes a system of them: `ctx[n]` is the context of a PSP,
`inbox[n]` its socket, in which the datagrams of each sender stay in order, as
the relay keeps them; `game[n]` is what the events have told the game, and
`granted[n]` whom the game has ever accepted. A *scenario* is a choice of
players, modes, room size, calls and amount of trouble (calls that part
players, crashes, lost datagrams). A walk over a member list under
`members_lock` is one step. Pings are not packets: a peer is silent when its
context is gone, and only silent peers time out.

**GameModeData.** `master[n]` is `_gamemode` with its thread, `replicas[n]` the
replicas by sender, `users[n]` the count of users of the socket, `lock[n]`
whether a call keeps `_gamemode_lock` while it waits for a thread to end. A
block is represented by its version. `MasterTurn` is one turn of the master
thread under the lock, `MasterResumes` what it does after its pause, without
it; `CreateReplica` / `FirstData` / `AllData` are the call with its two waits;
the deletes are split at the joins (`MasterJoined`, `ReceiverJoined`).

**PostOfficeSockets.** `table` is the array `_sockets`, `heap` the structures
it points to, `open` and `dead` the relay sessions that exist and those whose
connection is lost, `connect` the connect threads, `call[t]` where each thread of
the game is in a call and which structure and session it has picked up.
Every access to the table that is not under the mapper semaphore together
with the one before is a step of its own; following a NULL or freed pointer
sets `crashed`. The discipline assumed of games is stated in `MayUse`, `MayClose` and `Term`:
a kind of `SharedKinds` is used by all threads, any other by the thread that
opened the socket; the thread that opened a socket may close it at any time,
whatever the others are doing with it, which the library is made for
(`ptp/accept.c:23`, `pdp/recv.c:60`); Term is called alone. A call that finds its
session lost clears the handle through an entry that such a close may have made
NULL (`pdp/recv.c:88`, `ptp/accept.c:89`); `PtpConnect` may go on waiting for a
structure that has been freed. Both are behaviours of the model.
`OpenReturns` relies on the 300 ms `PtpOpen` waits for its thread to
have begun.

**UPnP.** `status` is `_status`, `finder[w]` where a upnp thread is in
`_mainThread`, `lists` the device lists in memory and `devlist` the pointer
`_devlist`, `urls` whether `_urls` is filled in, `forwards` what the router
forwards. Every thread `Init` starts works on these globals. The router may refuse to
forward a port, and to take a forward away; `SetRedirectAndTest` and `RemoveRedirect`
(`main.c:284`) ignore the answer, and so does the model: the socket is closed and the
forward stays. Two variables are history, read by properties only: `stuck` keeps the
forwards that the router was asked to take away and has kept, `twice` says that a
upnp thread was started beside another. `Kept` bounds which forwards a router may
refuse to take away.

**DirectSockets** extends it with the calls of the socket library when no relay is
used: `CheckPort` / `MakeSocket` / `Enter` / `Forwarded` / `Made` for the three
calls that make a socket, `Close` / `CloseSocket` / `Unforwarded` /
`FreeSocket` / `ClearSlot` for the two that close one, and `Connect`, `Poll`,
`Transfer`, `Accept` with the structure they have picked up. `fds` are the
sockets of the console. `Term` runs through adhocctl's Term, where it stops the
UPnP library, to `DeleteAll`; it may come whatever the upnp thread is doing, as a
game cannot know whether a router has been found. `Habits` names what else a game
may do: create a socket while another thread closes one ("overlap"), create two for one
port at once ("race"), close a socket that another thread is using ("abort"), terminate with
sockets open ("leave"). `direct_play` and the theorems say which of these they are about;
the instances show what happens with the others.

**Workers.** `busy`, `job`, `ret`, `work` and `done` are the fields of a worker
and its two semaphores, `worker[w]` its thread, `caller[t]` a thread in
`work_using_worker`: `Look` (under `workers_mutex`), `Fill`, `Start`, `Answer`,
`Collect`, `Release`. What a call does is abstracted to what it waits for:
nothing, a send (`"receive"`), or the end of the matching library's input
threads (`"term"`), which are callers themselves and see that they shall stop
only between two calls. The module is stopped when nobody calls.

Operators whose comment begins with *Mutant of* are never used by a
specification. Each is a definition with a plausible mistake, kept to show
that a property is able to notice it (`PROJECT.json`, `mutants`).

## 3. What TLC checks

Every run finishes within three minutes with two workers. Deadlock checking is
off everywhere: a server that has ended, or games that call nothing, may stop.

| run | instance | checks |
|---|---|---|
| `open_two_games` | 2 devices behind one address, 2 games, every packet including invalid ones, fairness | `OpenTypeOK`, `NoDangling`, `DepartedUsersRemoved`, `ShutdownCompletes` |
| `open_three_users` | 3 interchangeable connections, room for 2, 2 names | `SocketsOwned`, `GroupListsExact`, `RefCountsExact`, `ImplementsLobby` |
| `net_churn` | 2 PSPs behind one address and the first one again after a crash; the player of the second chats | `PeerListsExact`, `ChatOnlyInGroup` |
| `net_patient` | 2 patient games, all adhoc mode calls, one disconnects in a thread, fairness | `NeverKicked`, `LeaveWorks`, `StatusAgrees`, `CallsAnswered` |
| `entry` | a host who asks for 2 or 3 members, 2 guests behind one address, one may leave or crash; patient games | `MembersAgree`, `HostBeginsComplete` |
| `match_play` | rooms of 3, a room of 3 with 1 place in which data is sent, a host and a child with every call, 2 hosts and 1 child, 2 equals | `RoomCapacity`, `OnePartner`, `NoneUninvited`, `RoomAgreement`, `GameInformed`, `BusyMeansQueued` |
| `gm_play` | 2 players who update, lose a datagram, crash, delete and create again; 3 players who begin | `SocketWhileUsed`, `SyncedStart`, `LatestArrivesInPairs` |
| `gm_live` | 2 players who delete and create again, one may crash, fairness | `CallsReturn` |
| `sock_play` | 2 threads, 2 places in the table, 3 structures, 2 sessions, every kind of socket, streams shared and closed while in use | `ConnectThreadsSafe`, `SessionsOwned`, `SocketsReachable`, `EstablishedConnected` |
| `direct_play` | 2 threads, 2 places in the table, 2 structures, 3 sockets, a PDP and a listening port and a port to connect from, a upnp thread, a router that refuses, Term and Init at any time | `ConsoleSocketsOwned`, `ForwardsOwned`, `RouterPublished`, `StopIsHeard`, `ListenerKeepsForward` |
| `workers` | 3 threads, 2 workers, fairness | `PoolTypeOK`, `OwnResult`, `PoolKept`, `PoolCallsReturn` |

`TypeOK` of the other modules states what their variables range over. It holds
in the instances above, but says little about the code there, so no run is
listed for it; the type invariants that carry a proof of properties about counts are
checked (`open_two_games`, `workers`), and `TypesHold` proves that of `AdhocctlNet`.

*Bounds.* `MaxC2S` is the number of packets a client may have under way before
its game makes another call, and `MaxBacklog` the number of unread packets up to
which clients keep calling; they bound when calls *start*, not what the
threads do afterwards. Because several packets of different users still cross
each other, the interesting orders occur: the counterexamples below appear
within them. Two users suffice for every pairwise race; a third connection is
needed for a middle list element, for a full server, and for a ghost together
with its successor and a witness. In `MatchingNet` one HELLO and one data
packet per pair are under way at a time, and `trouble` is 1: one crash, loss
or parting call, which together with the crossing of requests makes the long
traces; `match_play` splits the calls over several scenarios that share no
state. In `GameModeData`, `backlog` is the number of datagrams in a socket
above which others do not send, and two versions tell an old block from a new
one. Two places in the socket table suffice
for a listener and what it accepts, and for a table that is full; three
structures for one that is being freed while its place is reused; two sessions
for one per place, a connection accepted into a full table being met where one
of the places has lost its session or has none yet. In `DirectSockets` a third
socket of the console is one that finds the table full; a third structure, one
that is being freed while both places are taken again, multiplies the states by
more than the run has room for and is left to the theorems. Two workers are the
smallest pool in which one may wait for the other, and three threads the
smallest number that exceeds it.

*Where runs are restricted.* `net_churn` has no `Disconnect`, because with it `PeerListsExact` and `ChatOnlyInGroup` fail
(below); what it shows is that `Term`, crashes and restarts alone do no harm:
a group left by `Term` is never chatted to, though the HUD still shows the
others. In `net_patient` the game that disconnects in a thread does not `Scan`:
the model does not order the half second after which the disconnect event
comes and the at most half second the thread waits before it sends, and where
the event comes first a scan overtakes the DISCONNECT packet. `RoomAgreement`
and `GameInformed` are about plays without trouble: matching does not repair
a lost ACCEPT. `SyncedStart` and `LatestArrivesInPairs` exempt plays in which
the ten seconds strike or blocks are deleted (`OnTime`). `BusyMeansQueued` leaves out a child
with siblings, of whom it does not hold (`MCMatchBusy`); the run sends data in a room
of three with one place and in plays of two. `MembersAgree` and
`HostBeginsComplete` exempt groups that somebody has left. The games of `entry` are patient:
one that enters a second time before the first answer is logged out by the server
and waits for good, as `MCNetImpatient` shows of `Create`. In `sock_play` PDP and
listening sockets are used by one thread each (`MCSocketsShared`). In `direct_play`
`Habits` is empty; `RouterPublished` and `StopIsHeard` hold as long as no upnp thread has been
started beside another (`~twice`), which `MCDirectHasty` shows to happen.

*Fairness.* `open_two_games` assumes that the server loop reaches its test,
visits every user again and again and drains the database (weak fairness of
`StartLoop`, `LeaveLoop`, `Visit(u)`, `Shutdown`), and that the clock of a
vanished user runs out. The server is one thread that never blocks, on
non-blocking sockets, with a sleep of a millisecond per pass. Nothing is
assumed of clients or signals. `net_patient` adds that the friend finder and the
disconnect thread run and that a call whose wait is over returns; both threads
loop with delays and take no lock across a wait. `gm_live` assumes that both
threads and a call under way keep running, and strong fairness of the ten
seconds: the clock does not stop while others hold the lock. `workers` assumes
weak fairness of all threads, and strong fairness of `Look`, which polls every
millisecond and so finds a worker that is free again and again. `match_evict`
assumes that both threads of a running context run. No call is ever assumed to
be made. `entry` assumes no fairness. That an entry comes to an end under the fairness
of the threads, of the server loop and of the clock is `EntriesEnd`, which `MCEntryLive` checks
for a host and one guest; with two guests the graph is out of reach.

### Where documents and code disagree

One run is expected to end with a counterexample.

| run | what TLC finds |
|---|---|
| `match_evict` | A host or a child cancels. He deletes the other from his list when the CANCEL is sent (`start.c:1781`); the receiver keeps him and marks him as leaving, by a `lastping` that is 120 ms ahead, from which on the timeout is to count. But who has cancelled is still there and broadcasts pings every half second, each of which sets `lastping` anew, and so does the look at adhocctl's list. He is never evicted, though `start.c:631` speaks of a small delay before eviction. |

### Instances that show why a restriction is there

These configurations are no runs of the project. All but `MCEntryLive` violate their
property, and document what the games, the network or the numbers are assumed
not to do. Where a configuration names two properties, leave one out to see the other.

| configuration | module | what TLC finds |
|---|---|---|
| `MCNetStalePeer` | `MCNet` | A patient game leaves its group while the CONNECT packet of a newcomer is on the way. `disconnect_thread_func` clears the peer list, then the friend finder adds the newcomer: `PeerListsExact` fails. |
| `MCNetImpatient` | `MCNet` | Between `Create` and its BSSID packet the status is DISCONNECTED. A `Disconnect` in that window sends nothing, returns 0, and then the player joins the group after all: `LeaveWorks` fails. A second `Create` (and likewise a `Scan`) is accepted and sent; the server logs the player out, and the library never notices: `NeverKicked` fails. |
| `MCNetChat` | `MCNet` | The friend finder has popped a message, the game disconnects, the message follows the DISCONNECT packet; the server logs the player out: `ChatOnlyInGroup` fails. |
| `MCEntryLive` | `MCEntry` | Nothing: under fairness every entry of a host and one guest, who may leave or lose power, comes to an end (`EntriesEnd`). |
| `MCEntryTwice` | `MCEntry` | A guest leaves before the host has begun, comes back and is counted twice: `HostBeginsWithDifferent` fails. |
| `MCMatchBusy` | `MCMatching` | A host accepts two requests before its threads run. The ACCEPT to one child names the other, and the BIRTH of that other follows; `_actOnBirthPacket` (`start.c:1215`) links it without a look whether it is there. A message sent in between is marked on the older entry, which the newer one hides from then on: `ChildrenTooAreQueued` fails. |
| `MCGameModeStall` | `MCGameMode` | With three players a replica may miss the only copy of the newest data, as `data_updated` is set to 1 over the 2 of an update: `LatestArrives` fails. |
| `MCGameModeHang` | `MCGameMode` | A game that creates its first replica before its master waits in `CreateReplica` forever: `CallsReturn` fails. |
| `MCSocketsShared` | `MCSockets` | Two threads that create a socket at the same time get one port, as the port is looked up before the socket is entered: `UniquePorts` fails. And a thread closes the PDP socket another is using, between its look at the table and the write to the handle: it follows a NULL entry (`pdp/recv.c:88`), though the comment at `pdp/recv.c:61` says that such a close is answered with an error: `NoNullFollowed` fails. |
| `MCDirectHasty` | `MCDirect` | A game terminates adhocctl before a router has been found, as every game does in a network without UPnP. `miniupnc_stop` (`main.c:92`) does nothing unless `_status` is 1, so the upnp thread goes on, though `term.c:77` says of the call "Stop UPNP Library": `UpnpStopped` fails. The next Init starts a second one on the same globals. |
| `MCDirectOverlap` | `MCDirect` | One thread closes a socket, which frees its structure before its place in the table is cleared; another looks through the table for its port: `NoCrash` fails. |
| `MCDirectAbort` | `MCDirect` | A socket is closed while another thread waits in a call on it, which then writes its state: `NoCrash` fails. |
| `MCDirectLeave` | `MCDirect` | Term closes the sockets that are left, but leaves their forwards on the router: `ForwardsOwned` fails. |
| `MCDirectPort` | `MCDirect` | A stream opened from the port of a listener is closed, and takes the forward of the listener with it: `ListenerKeepsForward` fails. |
| `MCWorkersFull` | `MCWorkers` | Two receives occupy both workers; the send that would end them finds none: `PoolCallsReturn` fails. |

## 4. What is proved

TLAPS checks every leaf of the proofs in eight modules.

*The server.* The theorems hold for every finite set of users, any games, names,
MACs and addresses, any capacity, and any packets from `C2S`; they rest on
`WireAssumption` (which also separates the invalid game and name from the valid
ones), `ServerAssumption` and `OpenAssumption` and on nothing else.

* `ListTheorems`: what `Cons` and `RemoveFirst` do to the set of elements, the
  length and the injectivity of a list without duplicates.
* `AdhocctlProofs`: `ServerInvariant` shows that `IInv` is an inductive
  invariant of `OpenSpec`, and `ServerTypes`, `ListsExact`,
  `CountsExact`, `NothingDangles`, `SocketsAreOwned` are its consequences.
  `PacketsAreTyped` states `OpenTypeOK`: every packet the server sends is
  well-formed, which for the members that `disconnect_user` introduces again needs
  that they are members (`LeavePacketsTyped`).
  `ServerImplementsLobby` is the refinement, with `IInv`
  as what relates concrete and abstract state.

None of the invariants of section 3 is inductive. That a group
node is unlinked exactly with its last player needs `groupPlayers` to be the
length of the list; that `RemoveFirst` removes the user needs him to be in the
list, which needs the pointers to agree with the lists; that a game is not
freed while it has a group needs group members to be users of that game. `IInv` is therefore the conjunction of three
parts that different actions disturb: `GroupInv` (lists, group pointers, group
counts, and that a user in a group plays its game), `UserInv` (users, sockets,
game pointers, game counts), `LoopInv` (the loop's state). Joining a group and
leaving one are proved once each to keep `GroupInv` (`JoinKeepsGroupInv`,
`UnlinkKeepsGroupInv`), accepting, logging in and logging out to keep `UserInv`;
`LogoutKeepsInv` combines them, and `VisitKeepsInv` and `NextKeepsInv` go
through the actions, nearly all of which end in a logout on their error path.

*Library and server.* The second half of `AdhocctlProofs` holds for any users, games
and networks, from the assumptions above, `ClientAssumption` and `NetAssumption`. `TypesHold` is about
all games, `PeersAreExact` (below) about those that do not call `Disconnect`. The others have the hypothesis `Considerate`: the games wait for events
(`Patient`), no game both chats and calls `Disconnect`, and none scans whose
disconnects run in a thread of their own. `NobodyIsKicked` also has
`RoomForAll`, that the server may take all users.

| theorem | property | instances that need the hypothesis |
|---|---|---|
| `NobodyIsKicked` | `NeverKicked` | `MCNetImpatient`, `MCNetChat` |
| `NetworksAgree` | `StatusAgrees` | |
| `LeaversAreOut` | `LeaveWorks` | `MCNetImpatient` |
| `ChatsAreHeard` | `ChatOnlyInGroup` | `MCNetChat` |

These properties speak of a state that has settled, or of the head of a queue; what
makes them true is what is under way. `NetInv` adds to the server's `IInv` and to the
types that every connection is `Sound`:
what library, game and threads do together (`Library`); that no packet in the
queue to the server will be an offence when its turn comes, given the packets before it
and the group the server has the user in (`Line`); where the user stands (`Phase`);
and that who may chat is in his group, or asks for it ahead of his message (`Chats`).
`Phase` has four cases. A user who waits to join (`Joins`) has either
his CONNECT packet or the BSSID under way, never both, and with the BSSID the server
has him in the group of that name; one who scans likewise (`Scans`); one in a
group (`Stays`) has neither, and a thread that will leave at most before it has begun; one
without (`Apart`) is in a group of the server exactly as long as his DISCONNECT packet
is under way or still to be sent by that thread. Once all is settled only `Stays` and
`Apart` are left (`SettledPhase`), from which the theorems follow.
The step of another connection does not disturb one that is sound, since the server
sends to others nothing they could take for an answer (`SoundStable`, `ClientLeavesOthers`,
`VisitLeavesOthers`); there is one lemma for each thing that its own threads and the
server's visit do.

*Peer lists*, in the same module. `PeersAreExact` states `PeerListsExact` for games that
wait for events or not, under two hypotheses. `NobodyLeaves`: no game calls
`Disconnect`, so that a group is left by `Term` or by a PSP that is switched off or
crashes; `MCNetStalePeer` shows why it is needed. `OneAddress`: a device that comes back
has the address it had. Without it TLC finds a counterexample with three connections: a device restarts behind
another address while the server still keeps its old connection in the group; a newcomer is
introduced to the new connection, then to the old one; `_addFriend` knows a device by its MAC
and gives the entry it has the old address; the old connection times out, and
its DISCONNECT packet takes the newcomer's only entry of a player who is still there.

The library deletes by address and the server sends, for somebody who leaves, as many
DISCONNECT packets as there are players behind his address, then introduces again those
who stay. So no packet by itself keeps list and group in step. `PeerInv` speaks of
a player's queue and his list together, one address at a time: after the last DISCONNECT
of an address, the CONNECT packets that follow introduce those of his group who come from it,
and without one they do so together with his list (`EndsWith`); and there are numbers along
the queue, one for the place before and after every packet, that bound how many
friends he has at the address, and are 0 after the last DISCONNECT (`Bounded`), which is
what makes the farewells suffice. Reading a packet keeps both (`TailEnds`, `TailBounded`), and so does
what the server sends when somebody joins (`MeetingsTell`) or leaves (`FarewellTells`).

*Game mode entry*, in the same module, holds for any hosts, numbers of members and sizes of the member list.
`EntryInvariant` has two hypotheses. `CalmEntry` is `Considerate`, and that no game
whose disconnects run in a thread of their own calls `Disconnect`; that part is what the
proof needs, TLC finds nothing where a guest is such a game. `OwnMacs` says that every
connection has a device of its own, as members are known by their MACs.

| theorem | property |
|---|---|
| `EntriesAreAnswered` | `WaitersHaveAClock`, the safety half of `EntriesEnd`: once all is settled, who still waits has the ten seconds running |
| `HostsBeginComplete` | `HostBeginsComplete` |
| `MembersAreAgreed` | `MembersAgree`, if the member list has room for everyone |

A player counts arrivals: he does not look whether a member is in his list already. That
the count is right therefore rests on what is still under way to him. `EntryInv`
takes the server's `IInv`, the `Line` of packets and the phases `Joins`, `Stays` and `Apart` over from
the invariant above and says where the call of an entry stands (`Playing`); a
search may be given up while its scan is unanswered (`Looks`). As long as
nobody has left, all players are `Together`: whom a queue still introduces is a mate, and
is introduced there once; and what a player `Knows` is a list without
duplicates with the host and himself in it, all others in it are mates, and every mate is either
in it or still introduced, the host perhaps both. A mate introduced is appended
once, so the length of the list counts different players (`DifferentPlayers`), which is
what `HostBeginsComplete` is about; once all is settled nobody is introduced any more, which leaves
`MembersAgree`. That `Once` survives the server's visit needs that a user who joins was in
no group before (`IInv`), and so was introduced to nobody.

*The worker pool.* `WorkersProofs` holds for any threads, any number of workers
and any scenarios, from `WorkersAssumption` alone. `PoolInvariant` shows that its
`IInv` is inductive; `PoolTypes` (each semaphore has room for every signal),
`NoWorkerLost` (`PoolKept`) and `EveryoneOwnResult` (`OwnResult`) follow. A worker
is handed from the caller to its thread and back without a lock, so the
invariant says for every place of a caller what state his worker is in
(`HoldersInv`, `Stage`), that a worker nobody holds rests (`FreeInv`), and how
far the workers have ended while the pool is stopped (`StopInv`).

*The game mode data.* `GameModeProofs` holds for any players, scenarios, versions
and losses, from `ScenarioAssumption` alone. `SocketStaysOpen` states
`SocketWhileUsed`. It is not inductive, because a call that deletes holds the
lock across steps: `IInv` adds that the lock is taken exactly while a call waits
for a thread, that who waits for the master thread has a master, and that there
is a master exactly while it has a thread. The proof counts: every action that
adds a replica or a master to the finite set of users adds one to the counter,
every one that removes it takes one away (`LetGoIsSafe`, for both deletes).
`GameBeginsWithAllBlocks` states `SyncedStart`. The master thread decides by
counting the replicas marked as updated, which the game may unmark between that
decision and the end of the pause after which it takes effect; `StartInv`
therefore counts the replicas that have ever been received into, which only grow
(`SyncedStays`), and from the decision on.
`NewestReachesThePeer` states `LatestArrivesInPairs`, under the hypothesis that no
play has more than one trouble (a lost datagram or a player switched off); with
two lost datagrams TLC finds the property violated, as they may be both copies of the
newest version. `PairInv` says what is promised from the moment the game may begin
(`Promised`): the peer has the newest version, or the copies still to be sent
(`data_updated`) and those on the way to him are two, or one and the loss has
happened. That nothing older is received after the newest needs datagrams in the order of
their versions (`InOrder`); that the promise holds at the beginning needs the
peer's socket to be open by then (`PeerListens`: a datagram of his has been
received, so he has created his master) and the thread to send twice before it
lets the game begin (`TurnSends`). With three players the last is not enough
(`MCGameModeStall`).

*Matching.* `MatchingProofs` holds for any players, modes, room sizes, calls and
troubles, from `MatchingAssumption` and `ScenarioAssumption` alone.
`RoomsAreNotOverfull`, `EveryoneHasOnePartner` and `NobodyComesUninvited` state
`RoomCapacity`, `OnePartner` and `NoneUninvited`. The guards alone do not give them: a
host checks the room when he accepts, but what his threads send, receive and
time out afterwards changes the list as well; whether a partner was accepted depends on an
ACCEPT that may have been queued or under way while its sender cancelled, left
and came back. `IInv` therefore says of each context (`Sound`) which states its
mode admits (`Fits`), how many *ties* it has (`Within`: the children of a host; the
parent, partner or pending request of the others), that ties and queued ACCEPTs are
with somebody accepted (`Invited`, `Answers`), and of each datagram that an ACCEPT was sent by
one who had accepted its receiver (`Mail`). Nearly every piece of the code is
`Calm`: each tie it leaves was there before, with the same peer and state, and
no two of them come from one. Calm pieces in a row are calm (`CalmTwice`) and keep a
context sound (`CalmKeeps`), so a handler is taken apart along its calls, and a
pass over the input stack message by message (`DrainIsCalm`). Four pieces tie
(`ChildTaken`, and `OnlyTie` for a request, an accepted partner and an answered
request).

`GamesAreInformed` states `GameInformed`. The game is told of a partner by two
different threads: the one who accepts when its ACCEPT is sent, the one who asked when the
ACCEPT is handled; and a CANCEL that came late, after a new request, would unlist somebody
the game believes in. That this cannot happen depends on both ends of every pair,
their boxes and their input stacks, so `RoomInv` says of a play without trouble
(`Playing`) what each player may list, queue and have been told (`Own`) and, for
every two of them, how it fits what the other lists and what is on the way
(`Pair`): a JOIN is sent once, and only by one who is not yet answered; an ACCEPT
follows the JOIN in its box; a CANCEL goes only to one who still asks, and whose sender
has found another partner in the meantime. Each handler is a lemma about a
`Playing` system (`HelloStep`, `JoinStep`, `AcceptStep`, `CancelStep`, `BirthStep`, ...); `PostedIs`
and `OutStep` say what posting packets does to the boxes, and `DrainStep` takes the
input stack message by message (`NextSent`).

`RoomsAreAgreed` states `RoomAgreement`. A host with room for several may accept a
second guest before the ACCEPT to the first has left, so what a guest learns of another
comes from the names in its ACCEPT or from a later BIRTH, and both are made when the input
thread sends them, not when the host accepts. `Rooms` says of every host and guest
(`Member`) that a child has its parent or an ACCEPT for it is queued or on the way, that
a request the host lists is still the guest's own, and of every third player (`Sibling`)
that one the guest has heard of is a child of the host, and that one it has not heard of is
named in an ACCEPT or BIRTH on its way, or the BIRTH waits in the host's stack
(`Heard`). The boxes are queues, and a BIRTH that names a guest comes after the ACCEPT that
does not: that order is part of `Heard`. The lemmas go along the code again:
`HostReads` and `GuestReads` for a packet, `RoomsDrain` for a pass over the input stack,
`RoomsSelect` and `RoomsRequest` for the two calls. The theorem has a hypothesis, `Unmixed`:
no scenario has a P2P player beside a host. All players of one game are in one kind of
play, and every scenario of the run is so. The code does not refuse a P2P player's JOIN at
a host, though, and a host that accepts it lists a child which becomes a partner and
has no parent: without the hypothesis the property fails.

`BusyIsQueued`, in `MatchingDataProofs`, states `BusyMeansQueued` for any players, rooms, calls
and troubles. A message frees the first entry of its peer, so the invariant (`BusyIn`) has to
say that nobody is listed twice (`Once`). Every operation on a list is `Steady`: it makes
nobody busy and lists nobody again. Only two things a child is told break that: a BIRTH and the
names in an ACCEPT, which it links without a look whether they are there (`Tells`). Hosts and
equals are told neither. A child with siblings may list one twice, and the property leaves it
out because it fails there (`MCMatchBusy`, section 3). A child alone with its host is never told of a
third: the host lists nobody but its one partner (`Lone`, `Close`), so it has no name to put in
an ACCEPT and no child to send a BIRTH to, and nothing of the kind is in any box (`Terse`),
whatever is lost or restarted in between (`CurtActs`, `CurtTimeOut`, `StackEmptied`).

*The socket table with a relay.* `PostOfficeProofs` holds for any numbers of
threads, places, structures and sessions. Two invariants: `LinkInv` needs nothing but the
assumptions on the constants, and says that table, structures, ids and connect threads agree
however sockets are shared and whatever is closed in mid-call; `IInv` says, for every place of a
call, what still holds of the structure and session it has picked up (`Fits`), who else can be
there (`AloneInv`), what a connect thread works on (`ConnectInv`), and who holds each
session (`SessionInv`).

| theorem | property | hypothesis |
|---|---|---|
| `ConnectThreadsAreSafe` | `ConnectThreadsSafe` | none |
| `StructuresAreReachable` | `SocketsReachable` | none |
| `SessionsHaveOneHolder` | `SessionsOwned` | PDP and listening sockets are each used by one thread (`SharedKinds \subseteq {"STREAM"}`) |
| `EstablishedAreConnected` | `EstablishedConnected` | the same |

The hypothesis is a real restriction: two threads that use one PDP socket may both
find its session lost, and both delete it; the model does so, and these two theorems say nothing of
such games. Streams may be used and closed by any thread. Nothing is proved about pointers that a call
follows after a close by another thread: it does follow them (`MCSocketsShared`).

*The socket table without a relay, and UPnP.* `DirectProofs` holds for any
numbers of threads, places, structures, sockets of the console, upnp threads and
ports, and for a router that refuses what it likes. `RouterInv` holds for every game: what a upnp
thread has in hand at each of its steps, and what `_status` and `_urls` say about it, as long as no
upnp thread has been started beside another. `SocketInv`, who owns a place of the table, a structure, a
socket of the console at every step of a call, and `ForwardInv`, whose forward it is, are for games
without some of the habits:

| theorem | property | `Habits` has no | instances that need it |
|---|---|---|---|
| `PublishedIsThere` | `RouterPublished` | (any) | |
| `StopsAreHeard` | `StopIsHeard` | (any) | |
| `ConsoleSocketsAreOwned` | `ConsoleSocketsOwned` | overlap, abort | `MCDirectOverlap`, `MCDirectAbort` |
| `ForwardsHaveOwners` | `ForwardsOwned` | overlap, abort, leave | `MCDirectLeave` |
| `ListenersKeepForwards` | `ListenerKeepsForward` | overlap, abort, race; and no port is both a listener's and an open stream's | `MCDirectPort` |

`ForwardsOwned` exempts what the router was asked to take away and has not (`stuck`): the code
does not look at the answer, so such a forward stays with nobody to ask again.

A socket whose close has freed its structure stays in the table for one more
step, while an accepted socket may already have taken the structure: the place
then points to a stranger. The invariant calls such a place `Gone` and says that
every other place has a structure of its own, and, for the last theorem, that the
stranger is a stream and so never a second listener of the port
(`GoneAreStreams`, `ListenersApart`). That the last theorem excludes "race" is what the proof needs
for `ListenersApart`: without it two threads can make listeners of one port, and
the close of one takes the forward of both.

*Only model-checked*: all liveness (`DepartedUsersRemoved`, `ShutdownCompletes`,
`CallsAnswered`, `CallsReturn`, `PoolCallsReturn`, `LeaversAreEvicted`, `EntriesEnd`), which with its
fairness is out of the prover's reach.

## 5. What is not modelled

* *In the modelled parts*: memory exhaustion (every `malloc` succeeds); partial
  sends and full TCP buffers; the clock, which appears as "may happen" or as
  fairness; the contents of names, messages, optional data and blocks; event
  handlers that call the API themselves; the getters. In `ReceiveBssid` the status
  changes and the event is notified in one step, with the 100 ms between them
  left out; likewise `Create` sets the HUD status in the step that sends. Only
  `GameModeEntry` enters game mode.
* *adhocctl library*: the list walks under the peer lock, of which one
  (`_addFriend`) reads the head before it takes the lock.
* *Matching*: the int locks and mutexes of the two threads. With them every
  pass over a list would be several steps, and no context with a peer would
  stay within reach.
* *Sockets*: PDP transfers without a relay, which change no state; `GetPdpStat`,
  `GetPtpStat`, `SetSocketAlert`.
* *Network configuration dialog*: one status variable of the game's own thread.
* *Status page and crosslinks* (`status.c`): reads the database only.
* *Plugin loader, drawing, shims, stubs, memory layout, test program*: load-time
  patching of a kernel whose code is not here, drawing, and functions that
  return a constant. There is no behaviour over time to check.
* *Vendored and prebuilt code* (`sqlite3.h`, `zlib.h`, the UPnP library,
  tinyalloc, SDK headers). Together with the parts above it makes most
  of the lines of the repository, which is why the definitions map a modest share of
  all lines though they cover the components that keep state.

## 6. Plan

1. *Done*: the membership protocol, server and library; the server's invariant
   and refinement proved.
2. *Done*: game mode entry on top of it; matching between up to three players;
   the exchange of game mode data; the socket table with and without a relay; UPnP;
   the worker pool, with its invariant proved.
3. `PeerList`: `_addFriend` and `_deleteFriendByIP` at the level of the lock against the
   disconnect thread and `Term`; `HandlerCalls`: API calls from event handlers.
4. `MatchingLocks`: the event and input threads, `members_lock`,
   `event_stack_lock`, `context_list_lock` and a handler that calls back, for
   deadlock and lost messages, with the protocol abstracted away.
5. Proofs: *done*: the socket tables, the game mode data, the rooms and partners of
   matching, the packets of the server, library and server together, the peer lists and game
   mode entry on top of them.
