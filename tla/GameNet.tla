------------------------------ MODULE GameNet ------------------------------
(***************************************************************************)
(* The connections between the game server and its clients, as Main.cpp    *)
(* uses RakNet: every Send is RELIABLE_ORDERED on channel 0, so a live     *)
(* connection is a FIFO in each direction (OrderedDelivery and Reliability *)
(* state and check that promise of the library).  Messages whose handler   *)
(* only prints (names, hit reports, stats, the winner's name) are not      *)
(* carried; who was announced as winner is kept in GameServer.             *)
(***************************************************************************)
EXTENDS Naturals, Sequences, FiniteSets

CONSTANTS Guids,           \* ToUint32(guid) of the clients that may connect
          MaxConnections,  \* MAX_CONNECTIONS, given to RakPeer::Startup
          Names,           \* the names players may type
          NoName           \* the empty m_name of a fresh SPlayer

ASSUME GuidsAssumption == Guids \subseteq Nat /\ IsFiniteSet(Guids)
ASSUME NamesAssumption == NoName \notin Names
ASSUME MaxConnectionsAssumption == MaxConnections \in Nat \ {0}

VARIABLES toServer,   \* toServer[g]: packets of client g the server has not received
          toClient,   \* toClient[g]: packets of the server client g has not received
          connected   \* the clients that hold one of the server's connection slots

netVars == <<toServer, toClient, connected>>

PlayerClasses == {"Mage", "Rogue", "Fighter"}

\* What the action field of ID_CHECK_ALL_READY can hold: "none" is the packet of a
\* skipped turn, which carries no action at all.
WireActions == {"damage", "heal", "none"}
Targets == {"1", "2", "3", ""}

ServerMsgs ==
  [kind : {"NEW_INCOMING_CONNECTION", "CHECK_STAT"}]
    \cup [kind : {"THEGAME_LOBBY_READY"}, name : Names]
    \cup [kind : {"THEGAME_START"}, class : PlayerClasses]
    \cup [kind : {"CHECK_ALL_READY"}, action : WireActions, target : Targets]

ClientMsgs == {"CONNECTION_REQUEST_ACCEPTED", "PLAYER_RENAME", "CHOOSE_CLASS",
               "MAIN_GAME", "WAITING", "LEAVE"}

NetTypeOK ==
  /\ toServer \in [Guids -> Seq(ServerMsgs)]
  /\ toClient \in [Guids -> Seq(ClientMsgs)]
  /\ connected \subseteq Guids

NetInit ==
  /\ toServer = [g \in Guids |-> <<>>]
  /\ toClient = [g \in Guids |-> <<>>]
  /\ connected = {}

\* The handler of ID_LEAVE never returns, so nothing behind that packet is ever
\* handled: the stream to a client that was sent it is not extended.
Dismissed(g) == \E i \in DOMAIN toClient[g] : toClient[g][i] = "LEAVE"

\* The server posts out[g] to every g.  A packet for a client that holds no
\* connection is dropped inside RakPeer.
Post(out) ==
  toClient' = [g \in Guids |-> IF g \in connected /\ ~Dismissed(g)
                                 THEN toClient[g] \o out[g]
                                 ELSE toClient[g]]

Silence == [g \in Guids |-> <<>>]

\* Client g sends m; a client whose connection is gone reaches nobody.
SendToServer(g, m) ==
  toServer' = IF g \in connected THEN [toServer EXCEPT ![g] = Append(@, m)] ELSE toServer

\* RakPeer on both sides completes a connection while a slot is free: the client's
\* own ID_NEW_INCOMING_CONNECTION is the first packet of its stream to the server.
AcceptConnection(g) ==
  /\ g \notin connected
  /\ Cardinality(connected) < MaxConnections
  /\ connected' = connected \cup {g}
  /\ toClient' = [toClient EXCEPT ![g] = <<"CONNECTION_REQUEST_ACCEPTED">>]
  /\ toServer' = [toServer EXCEPT ![g] = <<[kind |-> "NEW_INCOMING_CONNECTION"]>>]

\* The process of client g ends: what the server had already been sent may arrive
\* up to any point, nothing reaches the client, the slot is freed.
DropConnection(g) ==
  /\ connected' = connected \ {g}
  /\ toClient' = [toClient EXCEPT ![g] = <<>>]
  /\ \E k \in 0..Len(toServer[g]) :
        toServer' = [toServer EXCEPT ![g] = SubSeq(@, 1, k)]
=============================================================================
