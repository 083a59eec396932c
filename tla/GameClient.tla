----------------------------- MODULE GameClient -----------------------------
(***************************************************************************)
(* A client of the game (Main.cpp).  Three of its threads share            *)
(* g_networkState: main starts the peer, InputHandler polls the state      *)
(* without the mutex, blocks on stdin in the branch it chose, sends, and   *)
(* only then stores the next state; PacketHandler stores a state for every *)
(* packet.  Each step below is what one thread does without another        *)
(* thread's store or load of the shared state falling in between.          *)
(***************************************************************************)
EXTENDS GameNet

CONSTANTS Typed,     \* Typed[g]: the names the user of g may type
          Picks,     \* Picks[g]: the classes the user of g may choose
          Moves,     \* the turns users play, packets of ID_CHECK_ALL_READY
          Curious,   \* the users who may ask for their stats
          Quitters   \* the users who may type "quit"

\* '1' asks for a target and sends it, '2' heals, 'f' skips and sends no action.
Choices ==
  {[kind |-> "CHECK_ALL_READY", action |-> "damage", target |-> t] : t \in {"1", "2", "3"}}
    \cup {[kind |-> "CHECK_ALL_READY", action |-> a, target |-> ""] : a \in {"heal", "none"}}

ASSUME UsersAssumption ==
  /\ Typed \in [Guids -> SUBSET Names]
  /\ Picks \in [Guids -> SUBSET PlayerClasses]
  /\ Moves \subseteq Choices
  /\ Curious \subseteq Guids
  /\ Quitters \subseteq Guids

VARIABLES net,        \* g_networkState; "NS_Exited" once the process is gone
          inp,        \* where InputHandler is
          pkt,        \* where PacketHandler is
          doOnce,     \* the static of the NS_CHOOSECLASS branch
          ischecked   \* whether the stats prompt was answered since the last wait

clientVars == <<net, inp, pkt, doOnce, ischecked>>

NetworkStates == {"NS_Init", "NS_PendingStart", "NS_Started", "NS_Lobby",
                  "NS_CHOOSECLASS", "NS_Pending", "NS_INGAME", "NS_Waiting",
                  "NS_INPUTCHOICE", "NS_Exited"}
InputPlaces == {"poll", "name", "class", "stat", "choice",
                "setPending", "setInGame", "setWaiting"}
PacketPlaces == {"receive", "rename", "setPending", "leaving"}

ClientTypeOK ==
  /\ net \in [Guids -> NetworkStates]
  /\ inp \in [Guids -> InputPlaces]
  /\ pkt \in [Guids -> PacketPlaces]
  /\ doOnce \in [Guids -> BOOLEAN]
  /\ ischecked \in [Guids -> BOOLEAN]

ClientInit ==
  /\ net = [g \in Guids |-> "NS_Init"]
  /\ inp = [g \in Guids |-> "poll"]
  /\ pkt = [g \in Guids |-> "receive"]
  /\ doOnce = [g \in Guids |-> FALSE]
  /\ ischecked = [g \in Guids |-> FALSE]

SetState(g, s) == net' = [net EXCEPT ![g] = s]

InputAt(g, from, to) == inp[g] = from /\ inp' = [inp EXCEPT ![g] = to]

(***************************************************************************)
(* Start-up: the user answers 'c', main starts the peer and connects.      *)
(***************************************************************************)
ChooseRole(g) ==
  /\ net[g] = "NS_Init"
  /\ SetState(g, "NS_PendingStart")
  /\ UNCHANGED <<inp, pkt, doOnce, ischecked, netVars>>

StartPeer(g) ==
  /\ net[g] = "NS_PendingStart"
  /\ SetState(g, "NS_Started")
  /\ UNCHANGED <<inp, pkt, doOnce, ischecked, netVars>>

Connect(g) ==
  /\ net[g] = "NS_Started"
  /\ AcceptConnection(g)
  /\ UNCHANGED clientVars

(***************************************************************************)
(* InputHandler.                                                           *)
(***************************************************************************)
\* A branch is entered by the test that reads the state it belongs to.
Poll(g, state, place) ==
  /\ net[g] = state
  /\ InputAt(g, "poll", place)
  /\ UNCHANGED <<net, pkt, doOnce, ischecked, netVars>>

PollLobby(g) == Poll(g, "NS_Lobby", "name")
PollChooseClass(g) == Poll(g, "NS_CHOOSECLASS", IF doOnce[g] THEN "setInGame" ELSE "class")
PollWaiting(g) == ~ischecked[g] /\ Poll(g, "NS_Waiting", "stat")
PollInputChoice(g) == Poll(g, "NS_INPUTCHOICE", "choice")

\* In NS_INGAME nothing is read: the packet goes out at once, without an action.
PollInGame(g) ==
  /\ net[g] = "NS_INGAME"
  /\ InputAt(g, "poll", "setWaiting")
  /\ SendToServer(g, [kind |-> "CHECK_ALL_READY", action |-> "none", target |-> ""])
  /\ UNCHANGED <<net, pkt, doOnce, ischecked, toClient, connected>>

EnterName(g) ==
  /\ InputAt(g, "name", "setPending")
  /\ \E name \in Typed[g] : SendToServer(g, [kind |-> "THEGAME_LOBBY_READY", name |-> name])
  /\ UNCHANGED <<net, pkt, doOnce, ischecked, toClient, connected>>

EnterClass(g) ==
  /\ InputAt(g, "class", "setInGame")
  /\ \E class \in Picks[g] : SendToServer(g, [kind |-> "THEGAME_START", class |-> class])
  /\ doOnce' = [doOnce EXCEPT ![g] = TRUE]
  /\ UNCHANGED <<net, pkt, ischecked, toClient, connected>>

EnterStat(g) ==
  /\ InputAt(g, "stat", "poll")
  /\ \/ g \in Curious /\ SendToServer(g, [kind |-> "CHECK_STAT"])
     \/ UNCHANGED toServer
  /\ ischecked' = [ischecked EXCEPT ![g] = TRUE]
  /\ UNCHANGED <<net, pkt, doOnce, toClient, connected>>

EnterChoice(g) ==
  /\ InputAt(g, "choice", "setPending")
  /\ \E move \in Moves : SendToServer(g, move)
  /\ UNCHANGED <<net, pkt, doOnce, ischecked, toClient, connected>>

\* The store that ends a branch, whatever the packet thread stored meanwhile.
Store(g, place, state) ==
  /\ InputAt(g, place, "poll")
  /\ SetState(g, state)
  /\ UNCHANGED <<pkt, doOnce, ischecked, netVars>>

StorePending(g) == Store(g, "setPending", "NS_Pending")
StoreInGame(g) == Store(g, "setInGame", "NS_INGAME")
StoreWaiting(g) == Store(g, "setWaiting", "NS_Waiting")

(***************************************************************************)
(* PacketHandler.                                                          *)
(***************************************************************************)
GetPacket(g, kind) ==
  /\ pkt[g] = "receive"
  /\ toClient[g] # <<>>
  /\ Head(toClient[g]) = kind
  /\ toClient' = [toClient EXCEPT ![g] = Tail(@)]
  /\ UNCHANGED <<toServer, connected, inp, doOnce>>

OnConnectionAccepted(g) ==
  /\ GetPacket(g, "CONNECTION_REQUEST_ACCEPTED")
  /\ SetState(g, "NS_Lobby")
  /\ UNCHANGED <<pkt, ischecked>>

ChooseClass(g) ==
  /\ GetPacket(g, "CHOOSE_CLASS")
  /\ SetState(g, "NS_CHOOSECLASS")
  /\ UNCHANGED <<pkt, ischecked>>

inputorder(g) ==
  /\ GetPacket(g, "MAIN_GAME")
  /\ SetState(g, "NS_INPUTCHOICE")
  /\ UNCHANGED <<pkt, ischecked>>

waiting(g) ==
  /\ GetPacket(g, "WAITING")
  /\ ischecked' = [ischecked EXCEPT ![g] = FALSE]
  /\ SetState(g, "NS_Waiting")
  /\ UNCHANGED pkt

\* Rename reads stdin inside the packet thread: no packet is handled until the
\* user answers.
Rename(g) ==
  /\ GetPacket(g, "PLAYER_RENAME")
  /\ pkt' = [pkt EXCEPT ![g] = "rename"]
  /\ UNCHANGED <<net, ischecked>>

EnterNewName(g) ==
  /\ pkt[g] = "rename"
  /\ pkt' = [pkt EXCEPT ![g] = "setPending"]
  /\ \E name \in Typed[g] : SendToServer(g, [kind |-> "THEGAME_LOBBY_READY", name |-> name])
  /\ UNCHANGED <<net, inp, doOnce, ischecked, toClient, connected>>

RenameStorePending(g) ==
  /\ pkt[g] = "setPending"
  /\ pkt' = [pkt EXCEPT ![g] = "receive"]
  /\ SetState(g, "NS_Pending")
  /\ UNCHANGED <<inp, doOnce, ischecked, netVars>>

\* leavegame sleeps five seconds, during which InputHandler still runs, and exits;
\* its packet is never given back.
leavegame(g) ==
  /\ pkt[g] = "receive"
  /\ toClient[g] # <<>> /\ Head(toClient[g]) = "LEAVE"
  /\ pkt' = [pkt EXCEPT ![g] = "leaving"]
  /\ UNCHANGED <<net, inp, doOnce, ischecked, netVars>>

Exit(g) ==
  /\ SetState(g, "NS_Exited")
  /\ inp' = [inp EXCEPT ![g] = "poll"]
  /\ pkt' = [pkt EXCEPT ![g] = "receive"]
  /\ DropConnection(g)
  /\ UNCHANGED <<doOnce, ischecked>>

LeaveExit(g) == pkt[g] = "leaving" /\ Exit(g)

\* Both name prompts assert that the answer is not "quit".
Quit(g) ==
  /\ g \in Quitters
  /\ inp[g] = "name" \/ pkt[g] = "rename"
  /\ Exit(g)

UserStep(g) ==
  \/ ChooseRole(g) \/ EnterName(g) \/ EnterClass(g) \/ EnterStat(g) \/ EnterChoice(g)
  \/ EnterNewName(g) \/ Quit(g)

InputStep(g) ==
  \/ PollLobby(g) \/ PollChooseClass(g) \/ PollInGame(g) \/ PollWaiting(g)
  \/ PollInputChoice(g) \/ StorePending(g) \/ StoreInGame(g) \/ StoreWaiting(g)

PacketStep(g) ==
  \/ OnConnectionAccepted(g) \/ ChooseClass(g) \/ inputorder(g) \/ waiting(g)
  \/ Rename(g) \/ RenameStorePending(g) \/ leavegame(g) \/ LeaveExit(g)

ClientStep(g) ==
  StartPeer(g) \/ Connect(g) \/ UserStep(g) \/ InputStep(g) \/ PacketStep(g)
=============================================================================
