# Verification of HermanChung-Raknet

TLA+ models of the programs of this repository, TLC configurations that check them on small
instances, and TLAPS proofs of what must hold on every instance. Every definition is
translated from the code; the file `PROJECT.json` names the lines each one stands for.

Paths below are relative to the repository's root. `Main.cpp` is
`HermanChung-EmptyRakNet/HChung-raknet/HChung-raknet/Main.cpp`; `ReliabilityLayer.cpp` and
the other RakNet files are in `RakNet-master/Source`; the flag game is in
`Mulitplayer Capture the flag final/Assets`.

## 1. Inventory

| Component | State it keeps | Operations | Hard behaviour |
|---|---|---|---|
| **Game server** (`Main.cpp`, packet thread) | `m_players` (guid to `SPlayer`: name, class, health, index, `isdead`), `playerNUM` | `OnIncomingConnection`, `PlayerExit` + `OnLobbyReady`, `StartGame`, `checkstat`, `sendOrder` | packets of several clients in any order; a room that is full before all are named; several turns in circulation; a search that may not end |
| **Game client** (`Main.cpp`, three threads) | `g_networkState`, the place of each thread, two statics | `InputHandler` polls the state and blocks on stdin; `PacketHandler` stores a state for every packet; `main` starts the peer | the state is read without the mutex, and stored after the send, so that stores of the two threads overwrite each other; `Rename` blocks the packet thread on stdin |
| **RakNet reliability layer** (`ReliabilityLayer.cpp`) | message numbers, ring of resend slots, ordering and sequencing indices, window of received numbers, ordering heap | `Send`, `Update` (send, resend), acknowledgement, `HandleSocketReceiveFromConnectedPlayer` | lost, duplicated and reordered datagrams and acknowledgements; 24-bit wrap; ring slots that are used again |
| **RakNet peer** (`RakPeer.cpp`) | `remoteSystemList`, its hash table and active list, requests, buffered commands, bans | `Connect`, `CloseConnection`, `Send`, `Receive`, `ProcessOfflineNetworkPacket`, `RunUpdateCycle`, timeouts | datagrams of earlier calls and earlier starts of a peer; slots used again; a side left alone; who is told what, and how often |
| **RakNet congestion control** (`CCRakNetSlidingWindow.cpp`) | measured times, window | decides when something may be sent | numeric |
| **RakNet plugin ReadyEvent** (`ReadyEvent.cpp`) | per event: own status, and of every system waited for the status last received and last sent | `SetEvent`, `ForceCompletion`, `DeleteEvent`, `AddToWaitList`, `RemoveFromWaitList`, four packets, lost connections | two-stage agreement over pairwise streams while signals are taken back |
| **RakNet plugin FullyConnectedMesh2** (`FullyConnectedMesh2.cpp`) | participants with their ids, own id, count of connections, host | `OnNewConnection`, `OnClosedConnection`, `ResetHostCalculation`, four packets | ids drawn concurrently by everybody; systems that leave meanwhile |
| **RakNet, other plugins** | each its own | none of the programs attaches one | - |
| **Capture the flag** (`CTFGameManager.cs`, `Flag.cs`, `PlayerController.cs`, power-ups, `TimeLimitStuff.cs`) | game state, flag state, carrier, cooldown, who has the flag, points | trigger, collision, Commands, RPCs, SyncVars, `Update` of every machine | an RPC overtakes the SyncVar it belongs to; late Commands; the host is server and client at once |
| **Capture the flag, transforms and scenes** | positions | interpolation, spawning places, scene loading | geometry and I/O |
| **Multiplayer example** (`Health.cs`, `Bullet.cs`, ...) | health as a SyncVar | damage, respawn | hook and reset order |
| **Built players, Unity libraries, RakNet samples and help** | - | - | generated or vendored |

Interactions. The game server and its clients talk only by packets; every `Send` of
`Main.cpp` is `RELIABLE_ORDERED` on channel 0, so the peers' reliability layers stand between
them as one FIFO stream per direction. `GameNet` assumes that stream; `Reliability` models
the layer that produces it and is checked against the promise `OrderedDelivery`. `RakPeer`
models how a connection comes to be and ends and is checked against the promise `Lifecycle`,
the order of notices that `Main.cpp` relies on. The two plugins are called by `RakPeer` and
send over the same layer; their models assume one stream for each direction of a connection.
The flag game uses Unity's networking library, which is not in the repository.

What makes each component correct, in short: *server*: every sender is known, indices and
names are unique, the search for the next player ends, health stays bounded, turns come only
from calls to choose a class and are not lost, everyone can be attacked, there is one winner, who lives; *client*: nobody plays
before the room is full, the dead leave; *reliability*: the order sent is the order
delivered, each once, nothing is forgotten, everything arrives; *peer*: the list and its two
indices agree, the user's picture of a connection is RakPeer's, every call of `Connect` is
answered once, no side keeps a connection the other does not know; *ready event*: what
each believes of the others is right when nothing is under way, all complete or none;
*mesh*: at rest one host, who is present and was there first, and everyone's id known to
everyone; *flag*: one carrier at a time, who is known to be the carrier, with a whole
cooldown between two.

## 2. Modules

| Module | Kind | Content |
|---|---|---|
| `GameNet` | component | the streams between server and clients, with connection and disconnection |
| `GameServer` | component, EXTENDS `GameNet` | one action per packet handler of the server |
| `GameClient` | component, EXTENDS `GameNet` | one action per step of a client's threads and its user |
| `Game` | composition | server and all clients; properties of the whole game |
| `MCGame` | TLC instance | inputs, starting points and bounds |
| `GameProofs` | proofs about `Game` | the lobby: types, known senders, indices, names; the fight: health, the search for the next player, the winner; the full room; the turns |
| `FlagRules` | abstract specification | who may take, drop and get back the flag |
| `CaptureTheFlag` | component | the flag on the server and on every machine |
| `MCCaptureTheFlag` | TLC instance | symmetry of the remote players, fair specification |
| `CaptureTheFlagProofs` | proofs | types, invariants, `CaptureTheFlag` implements `FlagRules`, who knows of his flag |
| `OrderedDelivery` | abstract specification | what one ordering channel promises its user |
| `Reliability` | component | one direction of the reliability layer |
| `MCReliability` | TLC instance | fair specification |
| `ReliabilityProofs` | proofs about `Reliability` | types, the window, nothing forgotten, `Reliability` implements `OrderedDelivery` |
| `RemoteSystems` | component, pure operators | remote system list, hash table, active list and a reduced reliability layer of one peer |
| `Lifecycle` | abstract specification | what `RakPeer` promises the user about one remote system |
| `RakPeer` | composition, EXTENDS `RemoteSystems` | peers that connect, exchange data, close, time out and restart |
| `MCRakPeer` | TLC instance | a server and one or two clients, bounds, fair specification |
| `RemoteSystemsProofs` | proofs about `RemoteSystems` | what each operator preserves of the list and its indices |
| `RakPeerProofs` | proofs about `RakPeer`, EXTENDS `RemoteSystemsProofs` | types, agreeing lists, the user's picture of a connection |
| `LifecycleProofs` | proofs about `RakPeer`, EXTENDS `RakPeerProofs` | `RakPeer` implements `Lifecycle` |
| `ReadyEvent` | component | one event among systems that signal, take back, force and leave |
| `MCReadyEvent` | TLC instance | three systems that have met, fair specification |
| `ReadyEventProofs` | proofs about `ReadyEvent` | types, current views, two stages |
| `FullyConnectedMesh2` | component | the choice of a host |
| `MCFullyConnectedMesh2` | TLC instance | who started first, an order of meetings |
| `MeshProofs` | proofs about `FullyConnectedMesh2` | types, known ids, one host who is present and a founder |

### 2.1 The game: `GameNet`, `GameServer`, `GameClient`, `Game`

*Server.* `players` is `m_players`; the order of guids (numbers) is the order of the map.
The packet thread handles one packet to completion, so an action is a whole handler with
all its sends. `server` leaves `"running"` where an assert fails (`"unknownPlayer"`,
`"unassignedAddress"`) or where the do-while of `sendOrder` would go on for ever
(`"spinning"`). `sendOrder` is `AfterAction` (heal or damage), `Buried` (`isdead`),
`NextPlayer` (the do-while over the map), `TurnPackets` (what is sent to whom), with the test
of dead targets before (`RepeatTurn`). The action field of a packet that carries none is read
from a variable nobody has initialised: `ReadAction` chooses any value.

*Client.* A branch of `InputHandler` is three steps, because the other thread may act between
them: the unguarded read of `g_networkState` that chooses the branch, the answer of the user
with its send, and the store of the next state. `PacketHandler` takes a packet and stores
its state in one step under the mutex, except `Rename`, which blocks on stdin between its
packet and its store, and `leavegame`, which sleeps before it ends the process.

*Network.* `AcceptConnection` completes RakNet's handshake on both sides at once.
`DropConnection` loses what a dead process would have received and any suffix of what it
had sent.

*Turns.* A turn is a packet or a place of a client's threads: an `ID_CHECK_ALL_READY`, an
`ID_MAIN_GAME`, or a client that was asked (`Holds`). A call is an `ID_CHOOSE_CLASS`, or a client
that is still to go through `NS_CHOOSECLASS` or `NS_INGAME` (`Called`), which ends in a check. `Turns` and `Calls`
count them over the whole state, with nothing recorded for the purpose.

Abstractions: packets whose handler only prints are not carried; health before the
choice of a class, which the code leaves uninitialised and always overwrites before use, is 0;
`playeraddress` is assigned together with the name, so `Addressed` looks at the name; nothing
is appended to a stream behind `LEAVE`, whose handler never returns; the server's process is
running from the start; asserts are as in a debug build.

### 2.2 The flag: `FlagRules`, `CaptureTheFlag`

One player hosts: his machine's copies are the server's. Each other machine has a copy of
the flag's state (a SyncVar), of the object it is attached to (set by `RpcPickUpFlag`, never
synchronised) and of its player's `m_hasFlag` (a SyncVar). `OnTriggerEnter`, `Frame` (the
host's `Flag.Update` with the RPCs it sends itself), `ServerReceive` and `ManagerUpdate` are
the server's handlers; `OnCollisionEnter`, `ClientReceive`, `FlagStart` and `FlagUpdate`
those of a machine.

The networking library is external and modelled by how the scripts use it: packets to one
machine arrive in order; an RPC is sent at once; a changed SyncVar is only marked and sent
when its send interval has passed (`SyncState`, `SyncHasFlag`); a Command runs at once on the
host, is sent by the machine that owns the object, and is refused from any other; a player
who comes late is sent the flag with its SyncVars. Time is counted in frames of the host.
Not modelled: power-ups, the amount of points, the clock of the round, leaving players.

### 2.3 Reliable delivery: `OrderedDelivery`, `Reliability`

`Send` gives a message its ordering and sequencing index. `SendNew` numbers messages and
puts them in their resend slots, if those are free; `Resend` may send any unacknowledged
messages again at any time, which covers timeouts, NAKs and every decision of congestion
control. `HandleDatagram` runs the duplicate filter (`IsNew`, `Received`) and the order
(`Ordered`, with `Delivered` emptying the heap through `Popped`) for every message of the
datagram, and acknowledges it. The two loops, over a datagram and over the heap, are recursive
functions of the number of turns (`HandledAll`, `Popping`); a turn of the second that finds nothing to
pop changes nothing, so as many turns as the heap has entries are always enough. `ReceiveAgain` leaves the datagram to come once more;
`Lose` and `LoseAck` lose datagrams and acknowledgements.

A datagram is known by its contents: the number it has in the code serves the
acknowledgement alone, which removes the messages sent under it. A history entry that the
code has already discarded is a lost acknowledgement. Numbers and indices have the width
`Modulus`; `First` puts the run shortly before the wrap.

Three assumptions on the constants say where the code relies on a width without testing it.
`WidthAssumption`: the slots divide the range and take at most a quarter of it (512 of 2^24), so that a
number within the window is never half the range away. `LifetimeAssumption`: the network of the model
keeps a datagram for ever and a number that comes again half a range later would be taken for
new, so at most half a range of messages is sent (2^23 in the code; `First` may lie
anywhere in the range, so all indices still wrap). `WeightAssumption`: a heap weight has room for 2^20
sequencing indices (`ReliabilityLayer.cpp:1443`). The code needs this of the sequenced messages between two
ordered ones only; the assumption is simpler and stronger, it bounds all messages by 2^20. With
the widths of the code it is the tighter of the two bounds: what is checked and proved is about
the first 2^20 messages of a channel.

Not modelled: unreliable kinds, split messages, priorities, several channels (they share
the message numbers only), receipts, more than 2^20 messages (`WeightAssumption`).

### 2.4 Connections: `RemoteSystems`, `RakPeer`, `Lifecycle`

`RemoteSystems` has the state of one peer as a record (`remoteSystemList`,
`remoteSystemLookup`, `activeSystemList`) and one operator per method that changes it:
`ReferenceRemoteSystem`, `DereferenceRemoteSystem`, `Assign`
(`AssignSystemAddressToRemoteSystemList`), `Close` (`CloseConnectionInternal`). A closed
entry keeps its address and its place in the hash table, as in the code.

`RakPeer` has the peers with their addresses as names and their guids as address and number
of starts. `Connect`, `CloseConnection` and `Send` are the user's calls; the first two only
queue, and `Attempt` and `RunCommand` are what the next cycle of the network thread makes of
it. The offline handshake is one action per datagram (`OnOpenConnectionRequest1`, ...);
`datagrams` only grows, so any datagram may be lost, late or repeated, also by a whole
restart. The reliable part is `Deliver`: a message of the other side's resend list arrives,
is filtered, ordered and handled, and its acknowledgement arrives or is lost.
`ModeAfter`, `Answer` and `ForUser` are the switch of `RunUpdateCycle` over the mode of the
connection and the kind of the message. `DeadConnection`, `Disconnected` and
`ConnectionTimeout` are the three tests of "Check for failure conditions".

A connection's layer is a reduced form of `Reliability`: numbers do not wrap and resends and
timeouts have no clock. A datagram of a connection does not arrive after its sender has
closed that connection (no layer resends it), but it may reach a later connection of its receiver.
Not modelled: MTU detection, security (off by default), the limit of connection frequency
(off), `CancelConnectionAttempt`, `ChangeSystemAddress`, the grace period of `Shutdown`,
out-of-band and loopback messages.

`Lifecycle` states what the user may rely on: `CONNECTION_REQUEST_ACCEPTED` or
`NEW_INCOMING_CONNECTION` at most once before an end, data only while open, one answer for
a call of `Connect`. Its promise about ends is deliberately weaker, because the code's
is: an end may be told of a connection that never began, or twice, and data may still come
after it and while the connection is being closed, by either side (`leaving`).

### 2.5 Ready events: `ReadyEvent`

One event: the nodes of different events share nothing. `eventStatus` is the node's status,
`NoEvent` where there is no node. `Update` is `UpdateReadyStatus` with the broadcast that ends
it, and each call and each packet is one action that ends in it where the code does. The
bound `MaxWhims` counts the steps that take something back (`SetEvent(id, false)`,
`ForceCompletion`, `DeleteEvent`, `RemoveFromWaitList`, a broken connection); `Leavers` and
`Forcers` say whose users may make them. `Break` and `Reconnect` are RakPeer's part.
`AddToWaitList` is offered for connected systems only. The code takes any guid
(`ReadyEvent.cpp:159-191`, and 307-324 for what it then sends): for a system that is not connected
the query and the signal are dropped, and nothing repeats them, since the plugin has no
`OnNewConnection`; the two would not learn of each other. The sample adds a system when its
connection is made (`Samples/ReadyEvent/ReadyEventSample.cpp:187`, 191), and the help tells users to
add those "participating or joining the session": the use that is modelled.
Not modelled: changing the send channel of the plugin.

### 2.6 The mesh: `FullyConnectedMesh2`

A handler is an operator from the state of one system (`State`) to its next state and what
it sends (`Store`, `Sent`). An id is its count in the high half and a random number in the low
half; two systems that draw the same number are left out, since the number has 32 bits.
Which of two systems has run longer is decided by their elapsed times, the receiver's with the
transmission added (`RunsLonger`): when the receiver is the younger, or has started
over, either answer is possible.
Connecting is external: founders meet first, others come when the founders have settled, and
meet a system with an id first, since two without one would found a mesh of their own.
Properties are about a mesh at rest (`AtRest`). Not modelled: verified joins, user contexts,
`AddParticipant` by hand.

## 3. Runs

| Run | Shows | Bounds and why they suffice |
|---|---|---|
| `lobby` (`GameLobby.cfg`) | from nothing connected to the first class chosen: `TypeOK`, `NeverUnknownPlayer`, `IndicesDistinct`, `NamesDistinct`, `ChoosesOnlyWhenFull` | three clients (a room); player 2 may copy player 1's name; player 3 may quit, which leaves his entry behind; `LobbyBound` stops at the first chosen class, behind which no lobby action changes any of these |
| `battle` (`GameBattle.cfg`) | the fight: `NeverSpinning`, `OneLivingWinner`, `HealthBounded`, `TurnsComeFromCalls`, `WinEndsATurn`, and `DeadLeave`: the process of a dead player ends | `LateChoiceSpec`: three Mages at the end of the lobby, player 2 called and still to choose, the check of player 3 late, so that one or two turns circulate and go on after a win; 322,812 states. `BattleBound` names what is cut: player 2 alone heals, twice at most, either past the limit of 100 with one turn or after he was marked dead; with two turns the answer '2' is not given (index 1 is still attacked) and nobody asks for stats; a turn is skipped after a heal only |
| `untargetable` (`GameTargets.cfg`) | **violated** `AnyoneCanBeAttacked` | see section 6; `OneTurnSpec`: three Mages at the end of the lobby, one check left |
| `turn_lost` (`GameTurnLost.cfg`) | **violated** `TurnNeverLost` | see section 6; `OneTurnSpec` |
| `flag` (`CTF.cfg`) | `CTFTypeOK`, `ServerAttached`, `WholeCooldown`, `CarrierScores`, and `FlagKeepsRules` (refinement of `FlagRules`) | host and two remote players, of whom one comes late (`m_numPlayers` = 2); cooldown of 1 frame; 2 packets under way to a machine, so that RPC, state and `m_hasFlag` overtake each other; remote players are symmetric |
| `flag_live` (`CTFLive.cfg`) | `FlagReturns`, `ScoresAtLast` | host and one remote player, no symmetry |
| `reliable` (`Reliability.cfg`) | `ReliabilityTypeOK`, `WindowFits`, `NothingForgotten`, `DeliversInOrder` (refinement of `OrderedDelivery`), `EverythingArrives` | 4 messages of both kinds with 2 slots: every slot is used twice; numbers of 3 bits from 6 on wrap on the way; datagrams of 1 or 2 messages, 2 under way and any number of resends; with two slots the heap never holds more than one entry, so the order in which it gives out several is covered by the theorem `ReliabilityImplementsDelivery` and not by this run; `4 * ResendBufferLength <= Modulus`, as 512 and 2^24 |
| `connect` (`RakPeer.cfg`) | `OpenIsHeld`, `KeepsPromise` (refinement of `Lifecycle`), `AttemptConcluded`, `OneSidedEnds` | a server and a client; two calls of `Connect`, or one and a restart of the server (`OneRestartOrCall`); one data message; the client may close at any time; the acknowledgement of one message at a time may be lost. The second call or the restart is what meets the datagrams and entries of the first connection. The constraint cuts only `Restart` and `Connect`, on which no fairness is assumed |
| `crowd` (`RakPeerCrowd.cfg`) | `RemoteTypeOK`, `ListsAgree` | a server with one slot and two symmetric clients with right or wrong passwords, each calling once; the server may close: the slot changes its address, and fails to be free, in every way |
| `ready` (`ReadyEvent.cfg`) | `ReadyTypeOK`, `ViewsCurrent`, `TwoStages`, `CompletesAtLast`, `ForcedReaches` | three systems, the least for a third party to be waited for; `MetInit`: everyone has added everyone, a state of `ReadySpec`; one whim of any kind at any moment, with anybody removed added again |
| `mesh` (`Mesh.cfg`) | `MeshTypeOK`, `HostsAgree`, `HostIsPresent`, `HostKnown`, `IdsKnown`, `FoundersFirst` | two founders, of whom one is older, and a late comer; one of them leaves or one starts over; 4 random numbers for at most 4 draws |
| `two_hosts` (`MeshSplit.cfg`) | **violated** `FirstIsHost` | see section 6; four systems, steered by `PairsMeet` to the order of meetings in question |

Deadlock is not checked in any run: users may stop typing, a game ends, calls and
messages are bounded. Nobody's waiting on everybody is stated as liveness or, for the turn,
as `TurnNeverLost`.

`NextPlayer` and `Standing`: where two turns circulate a player marked dead may still hold one of
them and heal, which is why `NeverSpinning` and `OneLivingWinner` are not obvious: `isdead` and the
health go different ways from then on, and the number of the fallen, two of which make a win, goes
down again.

The starting points `LobbyEnds` of `battle`, `turn_lost` and `untargetable` are states the lobby
ends in, read off the code: everyone was called, and who has chosen has sent a class and a
check, of which the server has handled the class and perhaps the check. No theorem uses them; the theorems of section 5 about turns and winners are about the whole
game from its first connection.

## 4. Fairness

* `battle`: weak fairness of each client's packet thread (`PacketStep`) and nothing else. The
  thread is a loop that sleeps and receives; users need not answer, `InputHandler` may
  be blocked, the server may stop. `BattleBound` cuts off answers of users and
  what the server makes of them, never a step of a packet thread, so every fair behaviour within the
  bound is looked at.
* `flag_live`: weak fairness of the host's `Frame` (the engine calls `Update` for ever), of
  sending a marked `m_hasFlag` (the library's send interval) and of the delivery of packets
  and Commands (its reliable channel). `ScoresAtLast` says that the flag is not kept
  for ever by a player whose machine does not know it.
* `reliable`: `Update` runs again and again, so what is new is sent when there is room,
  and the oldest unacknowledged message is resent; the network keeps nothing for ever; of
  infinitely many datagrams (and acknowledgements) of that message one arrives. The last is
  what reliable delivery assumes of any network; without it a connection times out. The
  conditions are written out as `<>[]~enabled \/ []<><<A>>_vars`.
* `connect`: the network thread runs: it takes the user's commands (`RunCommand`), makes the
  next attempt of a request (`Attempt`), gives up what is not connected after 10 seconds
  (`ConnectionTimeout`), closes what has nothing left to send (`Disconnected`) and what
  the other side has no entry for, since nobody acknowledges there (`NobodyThere`). Nothing
  is assumed of the network: every datagram and every message may be lost.
* `ready`: what is sent on an open connection arrives, and the plugin is told of every lost
  connection. Users need not do anything.

## 5. Proofs

For every value of the constants under their named assumptions.

*Game*, lobby (`GameProofs`; `GuidsAssumption`: finitely many clients, numbered;
`NamesAssumption`, `UsersAssumption`):

* `TypeCorrect`: `Spec => []TypeOK`. In particular the streams carry only what their receivers
  understand, and winners are registered players.
* `NoUnknownPlayer`: `Spec => []NeverUnknownPlayer`. Not inductive: whether the sender of a packet
  has an entry depends on what went before it in its stream. `KnownInv` adds
  `RegistrationFirst`: of a client without an entry the stream is empty and closed, or begins with
  its `ID_NEW_INCOMING_CONNECTION`. A client that dies keeps a prefix of its stream, which
  preserves this.
* `IndicesStayDistinct`: `Spec => []IndicesDistinct`. `IndexInv` adds that all indices
  are below `playerNUM`. The entries without an index are numbered by their rank among
  themselves, so the lemmas `RankBound` and `RankInjective` carry the step. It holds beyond the
  sentinel too: entry number five gets index 4, counts as not indexed and is given
  another one at the next connection.
* `NamesStayDistinct`: `Spec => []NamesDistinct`, inductive with the types; only
  `OnLobbyReady` names players (`NamesKept`), and it compares with all others in the
  same handler.

*Game*, fight (`GameProofs`, second part):

* `HealthStaysBounded`: `HealthBounded`, inductive with the types; the limit plus one heal,
  because the limit is tested before the heal is added.
* `NeverSpins`, `WinnerLives`: `NeverSpinning`, `OneLivingWinner`, both from the one inductive
  invariant `FightInv`, the conjunction of `IndexInv` (indices are distinct), `Unhurt` (who has an
  index no answer of the prompt names is neither hurt nor marked dead), `FirstThere` (the
  first index is given out as soon as there is a player), `FewIndices` (in a room that is not
  overfull the sentinel is not given out, so that only index 0 is out of reach), `WinnersSafe` and
  `NeverSpinning`. The search of `sendOrder` ends because it always finds the player with index 0. A win
  is declared when two have fallen: these are the two who can be hit, and the winner is another.
  What both properties hold by is thus the disagreement `untargetable` of section 6: with a prompt
  that reached everyone they would have to be argued anew.
* `NobodyChoosesEarly`: `ChoosesOnlyWhenFull`. `FullInv` adds that the room once full stays
  so, and that until then no thread, store or stream of a client carries anything
  beyond the lobby.

*Game*, the turns (`GameProofs`, third part; of `Spec`, the whole game with its lobby, for any number of
clients and of turns in circulation):

* `TurnsNeverMultiply`: `TurnsComeFromCalls`, and `NoTurnFromTheWin`: `WinEndsATurn`. The types are
  the only invariant they need; the work is the account of a step, `TurnsKept`. What carries a
  turn or a call is four finite sets: `Checks` and `Asks`, the places of such packets in the
  streams, and `Holders` and `Callees`, the clients that were asked and that were called. `Account` is the sum of their
  sizes, and `Balance` adds up what a step does to each of them. Who
  handles a check takes one place (`TurnReceived`) and asks one client at most, with the last
  packet it posts (`OneAsked`, `TurnPosted`); a win posts none, so the turn is gone (`ServerTurn`). A client
  gives up its turn, or its call, in the step that sends the choice or the check, takes it from
  the packet in the step that makes it hold one, and a store of either thread that overwrites
  the other's makes the sum smaller (`ClientTurn`). A client that dies keeps a part of its stream
  (`StreamsCut`). Only `OnLobbyReady` is left, which calls.

*Flag* (`CaptureTheFlagProofs`; `HostAssumption`, `TimeAssumption`, `BoundAssumption`):

* `FlagTypes`, `CarrierIsHolder`, `CooldownIsWhole`: `CTFTypeOK`, `ServerAttached`,
  `WholeCooldown`. The invariant `FlagInv` adds `HostApart` (no packet reaches the host's own
  copies) and `QueueFits`: the host's own RPC, handled a frame late, is in the queue only
  while the flag is attached to its player or has just been dropped with the whole
  cooldown ahead. Without it the late RPC could attach an available flag.
* `FlagImplementsRules`: `CTFSpec => FlagKeepsRules`, by the refinement mapping
  `phase <- m_state[Host]`, `carrier <- parent[Host]` while possessed: every step is a pick-up, a
  drop, a return or a stutter.
* `CarrierKnowsAtRest`: `CarrierScores`. Nothing resets `m_hasFlag`, so `ScoreInv` follows the
  news of it: a remote player who has the flag on the server knows it, is being told, or is
  marked; and nothing is marked for, sent to or asked by a player who is not there, whose
  stream would be forgotten when he joins.

*Reliable channel* (`ReliabilityProofs`; `KindsAssumption`, `WidthAssumption`, `LimitAssumption`,
`LifetimeAssumption`, `WeightAssumption`, `EmptyAssumption`; see 2.3):

* `ReliabilityTypes`, `WindowAlwaysFits`, `NothingIsForgotten`: `ReliabilityTypeOK`, `WindowFits`,
  `NothingForgotten`, and
* `ReliabilityImplementsDelivery`: `RelSpec => DeliversInOrder`: what the user of the receiver sees is
  `OrderedDelivery`, with `sent` and `outputQueue` as they are. A datagram gives several messages at
  once, which is one step of `DeliverSome`, or a stutter when all are doubles or wait in the heap.

All four come from the one inductive invariant `RelInv` (`ReliabilityInvariant`). It translates what
wraps into what does not: the *place* of a message among those sent. `Numbering` says that the
number of a place is `NumberOf` it, its ordering index the ordered messages before it (`Before`),
its sequencing index the sequenced ones since the last ordered one (`Run`). `Has(r)` is the set of
places the receiver's base index and queue stand for. The parts are:

* *The sender*: `SlotsNumbered`, a slot holds the entry of some numbered place; `SlotOrReceived`, a
  numbered place holds its slot or has been received. From these alone the window follows
  (`Narrow`): the first place the receiver misses still holds its slot, and the place
  `ResendBufferLength` later has the same slot, so it cannot have been numbered.
* *The network*: `UnderWay`, every datagram carries entries of numbered places, every
  acknowledgement entries of received ones. A number under way is therefore less than
  `ResendBufferLength` ahead, or old and, by `LifetimeAssumption`, within half the range
  (`NewIs`: `IsNew` says exactly whether its place is in `Has`).
* *The order*: `OutInOrder` and `AllGiven`, what was given out is ascending, and holds every ordered place
  that has been read; `HeapBehind`, every entry of the heap lies behind all that was given out, with
  the weight that belongs to it; `NoneSkipped`, a received ordered place is read or in the heap;
  `GapAhead`, between two messages nothing in the heap is waited for; `HighestFits`,
  `highestSequencedReadIndex` is that of the last message given out or one more. The second of
  these two values is what an arriving message leaves, the first what one from the heap leaves; and
  it is the reason why a doubled or late sequenced message cannot be given out behind its successor.
  `GapAhead` is broken within a handler and restored by the loop over the heap: `Popping` is
  followed turn by turn with the order kept, and every turn either finds the gap or makes the heap
  smaller.

*Connections* (`RemoteSystemsProofs`, `RakPeerProofs`; the assumptions of `RemoteSystems` and
`RakPeer`):

* `RemoteSystemsProofs` has the lemmas about the pure operators: `Assign`, `Close` and a change
  of an entry in place preserve type and agreement of the three structures, and what they do to the
  entries of other addresses, which is nothing. The hard one is `Assign` into a slot that has
  an old address, perhaps the very one that is assigned.
* `RemoteTypeCorrect`, `ListsStayAgreed`: `RemoteTypeOK` and `ListsAgree`. The agreement is
  inductive with the types, given the lemmas.
* `OpenStaysHeld`: `OneWay => (RemoteSpec => []OpenIsHeld)`. `OneWay` says that no two peers are
  targets of each other. It is needed: when two peers connect to each other at the same time,
  an `ID_OPEN_CONNECTION_REPLY_2` that comes late takes over an entry that is connected
  already and makes it `REQUESTED_CONNECTION` again (`RakPeer.cpp:4911`). The game's programs
  are one way. The invariant adds that who calls `Connect` to `q` never handles a request of `q`,
  and relates the requests and replies under way to the modes.
* `RakPeerImplementsLifecycle` (`LifecycleProofs`): `OneWay => (RemoteSpec => KeepsPromise)`, by
  the mapping of `RakPeer`: `leaving` is the mode in which a connection is closed. Beyond the
  invariant above it needs that no data is ever delivered to a connection that is being made.
  That is a matter of order, in `EntriesFit`: what completes a connection is the first ordered
  message of its sender and data is never the first; to a connection being made nothing
  ordered was delivered yet; and each of the two sides sends its own part of the handshake
  only. `Maps` then says of each pair of peers that a step is one step of `Lifecycle` for this
  pair and nothing for the others.

*Ready events* (`ReadyEventProofs`; the assumptions of `ReadyEvent`; about `ReadySpec`, where nobody
has met anybody yet, while the run starts with everyone met):

* `ReadyTypes`, `ViewsStayCurrent`: `ReadyTypeOK` and `ViewsCurrent`. What is current when
  nothing is under way must be said of what is under way. `ViewsFollow` does so for each ordered
  pair: the last signal under way has the sender's present status; if there is none, the
  other has that status already, or knows nothing and its query is under way; who does not
  wait for the other has sent it no signal. `Links` relates waiting to connections and to the
  lost ones the plugin is yet to be told of.
* `CompletionHasTwoStages`: `TwoStages`. `Nodes` says that a system at ALL_SET sees nobody unset,
  at every moment; with `ViewsCurrent` what it sees is what they are.

*Mesh* (`MeshProofs`; `MeshAssumption`; random numbers are drawn without repetition):

* `MeshTypes`, `IdsBecomeKnown`, `OneHost`, `HostStaysPresent`, `HostBecomesKnown`: `MeshTypeOK`,
  `IdsKnown`, `HostsAgree`, `HostIsPresent`, `HostKnown`, all from the one inductive invariant
  `MeshInv`. `Told` is its core: for each ordered pair in which the first knows that
  the second is connected, either the last id under way is the first's present id, or none is
  under way and the second has it in its list; and who has no id is asking for a count, or is
  being answered. `AfterOutcome` says what handling any packet comes to, so that the step needs
  one case for a packet and not one for each kind; `Posted` and `Taken` say what a send and a
  receipt do to what matters of a stream. `Distinct`, that no two ids are equal, needs the
  arithmetic of `Id`: a count and a random number below `Draws` determine it (`IdsDiffer`).
  `HostNear` and `HostTold` relate the host to the list; `HostTold` holds only as long
  as nobody has left, see `two_hosts` in section 6.
* `FoundersComeFirst`: `FoundersFirst`, with `FirstInv` besides `MeshInv`. As long as nobody
  has left and nobody has started over, the count of each system covers every id it knows
  (`CountsFollow`), because each packet with an id carries the count of its sender, which covers
  it. When the founders have met, each knows the ids of all, so its next count is `Above` them.
  From then on everyone with an id is that far, and whom a late comer first hears of greets it
  with a request that has an id (`Greets`): the count the late comer draws its own id from is
  larger than the one in the request, and so is its id than any founder's.

Only model-checked: liveness (`DeadLeave`, `FlagReturns`, `ScoresAtLast`, `EverythingArrives`,
`AttemptConcluded`, `OneSidedEnds`, `CompletesAtLast`, `ForcedReaches`), which needs fairness and
ENABLED.

## 6. Where the code and its texts disagree

Shown by a run:

* `turn_lost`: the input thread sends its choice and stores `NS_Pending` afterwards; the
  answer to a dead target, "this line will just show to you again", is overwritten, and
  with it the only turn.
* `untargetable`: the prompt offers "'1', '2', '3' to attack a random player (including self)"
  (`Main.cpp:1017`); `sendOrder` (548-595) compares with '0' and '1' and takes the rest for index 2.
  '2' and '3' are the same player, and the one with index 0 cannot be attacked by anybody, himself
  included: he never loses.
* `two_hosts`: `GetHostOrder` is documented as "the order that the hosts will be chosen in". A
  participant whose id is not known yet leaves: the list of those left is complete now, but the
  host is calculated only when a host leaves (`FullyConnectedMesh2.cpp:361`). A lower id
  that came in meanwhile is never considered, and two systems of a mesh at rest are each host to
  somebody. This needs four systems, so `HostsAgree` is about meshes nobody has left. With
  three, for the same reason, a system with an id may have no host at all, and `GetHostSystem`
  returns `UNASSIGNED_RAKNET_GUID` although its comment says it "always returns something".

Read off the models, without a run of their own:

* *Game.* The room counts as full with three entries, named or not (`Main.cpp:726`); a player who
  chooses a class before typing a name has no address, and the assert of a `Send` fails. Every
  check handled after the last class starts a turn of its own (`Main.cpp:1065`), and every lobby
  request handled in a full room calls every other client three times (726-737), and a call that
  comes late takes a client through `NS_INGAME` once more, which sends another check: several turns
  may circulate. They are not stopped by a win: the clients of the fallen leave, but the winner is
  asked for choices as long as a turn is left, and may be told of his victory several times.
  `OneLivingWinner` says what holds all the same, and `WinEndsATurn` that the turn of the win is
  not among them.
* *Flag.* `RpcPickUpFlag` overtakes the SyncVar of the state (`Flag.cs:77`), the carrier's machine
  lets the flag go by its old state, and he can never be made to drop it. Nothing clears
  `m_hasFlag`, so former carriers score on.
* *Reliability.* `highestSequencedReadIndex` is not reset when an ordered message comes off
  the heap; the next sequenced messages are dropped although nothing overtook them.
* *RakPeer.* With `sendConnectionAttemptCount` below 3, `requestsMade` is divided by
  zero (`RakPeer.cpp:5750`), which is why `CountAssumption` excludes it. `AllowIncomingConnections`
  (4040) does not count handshakes on their way, and `ID_OPEN_CONNECTION_REPLY_2` is sent
  although no slot was free (5367).
* *ReadyEvent.* The header says that in the process of completion one cannot "add to the
  wait list, or SetEvent() isReady to false anymore"; the check is commented out
  (`ReadyEvent.cpp:166-168`). It promises an `ID_READY_EVENT_ALL_SET` to the user;
  `PushCompletionPacket` (554-567) is empty. Who removes a system or deletes the event
  tells nobody, and the others keep its last signal: `ViewsCurrent` and `TwoStages` leave
  `Leavers` out.
* *FullyConnectedMesh2.* `ResetHostCalculation` (112-120) clears `hostRakNetGuid` and not
  `lastPushedHost`, so that the same host is not stored again by `CalculateAndPushHost` (726) and
  stays unassigned; `HostKnown` is about meshes in which nobody starts over. When two systems
  that know each other start over at the same time, each receives the other's request without
  an id of its own and with a complete list, and the assertion of `CalculateHost` (508), "Can't
  calculate host without knowing our own", fails.

## 7. Not modelled

* Congestion control: measured times only; every schedule it can choose is allowed by
  `Reliability`.
* Of `Reliability`: unreliable kinds, split messages, priorities, receipts, several
  channels, and more than 2^20 messages: with that many sequenced ones in a row the weight of the heap
  overflows (`ReliabilityLayer.cpp:1443`).
* Of the flag: leaving players (a carrier who leaves takes the flag, a child of his object, with
  him), power-ups, points, the clock of the round, and the start of the game, which compares the
  number of players by `==` (`CTFGameManager.cs:70`).
* Builds of the game with NDEBUG, in which every `Send` is dropped, because it is the argument of
  an assert (`Main.cpp:123`).
* The other plugins of RakNet, which no program of the repository attaches; the multiplayer
  example of Unity; transforms and scenes (geometry); built players, engine data, samples and
  vendored libraries.

## 8. Plan

Done: the game with its client threads, the flag, one reliable channel, connections, ready
events, the choice of a host; the theorems above, with the refinements of all three abstract
specifications proved. What comes next, most important first:

1. `Reliability` with unreliable and split messages (reassembly by `splitPacketId`).
2. The flag game with leaving players, power-ups and the clock of the round; the
   multiplayer example's health.
