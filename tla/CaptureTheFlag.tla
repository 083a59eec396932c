--------------------------- MODULE CaptureTheFlag ---------------------------
(***************************************************************************)
(* The flag of the Unity game.  One player hosts: his machine is server    *)
(* and client at once, and its copies of the game objects are the server's *)
(* copies.  The other machines hold replicas: the flag, the state the flag *)
(* believes to be in (a SyncVar), the player it is attached to, which is   *)
(* never synchronised but set by RpcPickUpFlag, and their own player's     *)
(* m_hasFlag (a SyncVar), by which the player scores and drops the flag.   *)
(*                                                                         *)
(* The networking library is external.  It delivers to each machine in     *)
(* order; a Command called by the host runs at once, called by the client  *)
(* that owns the object it is sent, called by any other it is refused with *)
(* a warning; an RPC is sent at once, to the host's own client through a   *)
(* local queue that the next frame empties; a changed SyncVar is only      *)
(* marked, and sent when its send interval has passed.  Nobody leaves.     *)
(***************************************************************************)
EXTENDS Integers, FiniteSets, SequencesExt

CONSTANTS
  Players,      \* players, each with the machine he plays at
  Host,         \* the one whose machine is the server
  NoPlayer,     \* parent of a flag that lies on the ground
  m_numPlayers, \* the game starts when exactly so many are there
  droppedTime,  \* frames a dropped flag waits until it is available
  MaxInFlight,  \* bound: packets on the way to one machine
  MaxCommands   \* bound: Commands on the way from one machine

ASSUME HostAssumption == Host \in Players
ASSUME NamesAssumption == {NoPlayer, "state"} \cap Players = {}
ASSUME TimeAssumption == droppedTime \in Nat \ {0}
ASSUME BoundAssumption == m_numPlayers \in Nat /\ {MaxInFlight, MaxCommands} \subseteq Nat \ {0}

VARIABLES
  joined,       \* players who are in the game
  m_gameState,  \* of CTFGameManager, on the server
  flag,         \* per machine: the flag is "absent", "spawned", or "started" (Start ran)
  m_state,      \* per machine: what its copy of the flag has for m_state
  parent,       \* per machine: the player its copy of the flag is attached to
  m_droppedTimer, \* on the server
  m_hasFlag,    \* on the server: per player
  own,          \* per machine: m_hasFlag of the player at that machine
  dirty,        \* marked SyncVars: "state", and players whose m_hasFlag changed
  toClient,     \* per machine: packets on their way from the server
  toServer,     \* per machine: Commands on their way to the server
  localRpc      \* RpcPickUpFlag calls for the host's own client, by their player

flagVars == <<flag, m_state, parent, m_droppedTimer>>
hasVars == <<m_hasFlag, own>>
wires == <<toClient, toServer, localRpc>>
ctfVars == <<joined, m_gameState, flagVars, hasVars, dirty, wires>>

States == {"Available", "Dropped", "Possessed"}
Remote == Players \ {Host}
Clients == joined \ {Host}

Packets ==
  [kind : {"Spawn", "State"}, state : States]
    \cup [kind : {"RpcPickUpFlag"}, player : Players] \cup [kind : {"HasFlag"}]

CTFTypeOK ==
  /\ joined \subseteq Players /\ Host \in joined
  /\ m_gameState \in {"GS_WaitingForPlayers", "GS_InGame"}
  /\ flag \in [Players -> {"absent", "spawned", "started"}]
  /\ m_state \in [Players -> States]
  /\ parent \in [Players -> Players \cup {NoPlayer}]
  /\ m_droppedTimer \in 0..droppedTime
  /\ m_hasFlag \in [Players -> BOOLEAN]
  /\ own \in [Players -> BOOLEAN]
  /\ dirty \subseteq {"state"} \cup Remote
  /\ toClient \in [Players -> Seq(Packets)]
  /\ toServer \in [Players -> Seq({"CmdPickUpFlag", "CmdPlayerDropFlag"})]
  /\ localRpc \in Seq(Players)

CTFInit ==
  /\ joined = {Host}
  /\ m_gameState = "GS_WaitingForPlayers"
  /\ flag = [m \in Players |-> "absent"]
  /\ m_state = [m \in Players |-> "Available"]
  /\ parent = [m \in Players |-> NoPlayer]
  /\ m_droppedTimer = droppedTime
  /\ m_hasFlag = [p \in Players |-> FALSE]
  /\ own = [p \in Players |-> FALSE]
  /\ dirty = {}
  /\ toClient = [m \in Players |-> <<>>]
  /\ toServer = [m \in Players |-> <<>>]
  /\ localRpc = <<>>

Room(machines) == \A m \in machines : Len(toClient[m]) < MaxInFlight
MaySend(m) == Len(toServer[m]) < MaxCommands

\* To every client, in order behind what was sent before.
SentToAll(packet) ==
  [m \in Players |-> IF m \in Clients THEN Append(toClient[m], packet) ELSE toClient[m]]

\* m_hasFlag as the machine of its player has it; the host's copy is the server's.
HasFlag(p) == IF p = Host THEN m_hasFlag[p] ELSE own[p]

(***************************************************************************)
(* The server.                                                             *)
(***************************************************************************)
\* A player who comes late is sent the flag with the state it has, but not to whom
\* it is attached.
Join(p) ==
  /\ p \notin joined
  /\ joined' = joined \cup {p}
  /\ toClient' = [toClient EXCEPT ![p] =
                    IF flag[Host] = "absent" THEN <<>>
                    ELSE <<[kind |-> "Spawn", state |-> m_state[Host]]>>]
  /\ UNCHANGED <<m_gameState, flagVars, hasVars, dirty, toServer, localRpc>>

IsNumPlayersReached == Cardinality(joined) = m_numPlayers

\* GS_Ready lasts within this one Update: the flag is spawned and the game begins.
ManagerUpdate ==
  /\ m_gameState = "GS_WaitingForPlayers"
  /\ IsNumPlayersReached
  /\ Room(Clients)
  /\ m_gameState' = "GS_InGame"
  /\ flag' = [flag EXCEPT ![Host] = "started"]
  /\ toClient' = SentToAll([kind |-> "Spawn", state |-> "Available"])
  /\ UNCHANGED <<joined, m_state, parent, m_droppedTimer, hasVars, dirty, toServer, localRpc>>

\* CmdPickUpFlag runs on the server for each of ps: m_hasFlag becomes TRUE, and the
\* change of a remote player's is marked.
CmdPickUpFlag(ps) == m_hasFlag' = [p \in Players |-> p \in ps \/ m_hasFlag[p]]
\* Mutant: nobody is marked.
MarkedNever(ps) == {}

Marked(ps) == {p \in ps \ {Host} : ~m_hasFlag[p]}

\* Mutant: a flag that is not possessed may be picked up, in its cooldown too.
OnTriggerEnterNotPossessed(p) ==
  /\ flag[Host] = "started" /\ p \in joined
  /\ m_state[Host] # "Possessed"
  /\ Room(Clients)
  /\ m_state' = [m_state EXCEPT ![Host] = "Possessed"]
  /\ parent' = [parent EXCEPT ![Host] = p]
  /\ CmdPickUpFlag({p})
  /\ dirty' = dirty \cup {"state"} \cup Marked({p})
  /\ toClient' = SentToAll([kind |-> "RpcPickUpFlag", player |-> p])
  /\ localRpc' = Append(localRpc, p)
  /\ UNCHANGED <<joined, m_gameState, flag, m_droppedTimer, own, toServer>>

OnTriggerEnter(p) ==
  /\ flag[Host] = "started" /\ p \in joined
  /\ m_state[Host] = "Available"
  /\ Room(Clients)
  /\ m_state' = [m_state EXCEPT ![Host] = "Possessed"]
  /\ parent' = [parent EXCEPT ![Host] = p]
  /\ CmdPickUpFlag({p})
  /\ dirty' = dirty \cup {"state"} \cup Marked({p})
  /\ toClient' = SentToAll([kind |-> "RpcPickUpFlag", player |-> p])
  /\ localRpc' = Append(localRpc, p)
  /\ UNCHANGED <<joined, m_gameState, flag, m_droppedTimer, own, toServer>>

\* The flag is dropped if the server has it as the last child of the player, in
\* whatever state it is.
CmdPlayerDropFlag(p) ==
  /\ m_state' = IF parent[Host] = p THEN [m_state EXCEPT ![Host] = "Dropped"] ELSE m_state
  /\ dirty' = IF m_state' = m_state THEN dirty ELSE dirty \cup {"state"}

ServerReceive(p) ==
  /\ toServer[p] # <<>>
  /\ toServer' = [toServer EXCEPT ![p] = Tail(@)]
  /\ \/ /\ Head(toServer[p]) = "CmdPickUpFlag"
        /\ CmdPickUpFlag({p})
        /\ dirty' = dirty \cup Marked({p})
        /\ UNCHANGED m_state
     \/ /\ Head(toServer[p]) = "CmdPlayerDropFlag"
        /\ CmdPlayerDropFlag(p)
        /\ UNCHANGED m_hasFlag
  /\ UNCHANGED <<joined, m_gameState, flag, parent, m_droppedTimer, own, toClient, localRpc>>

\* Mutant: the parent is not reset.
LetGoNot(holder) == holder

\* The server's half of Flag.Update: a dropped flag is let go and waits.
LetGo(holder) == IF m_state[Host] = "Dropped" THEN NoPlayer ELSE holder
\* Mutants: the timer is not reset, is reset too high, or runs only while attached.
Waited(reset, running) ==
  \/ /\ m_state[Host] = "Dropped" /\ m_droppedTimer > 0 /\ running
     /\ m_droppedTimer' = m_droppedTimer - 1
     /\ UNCHANGED m_state
  \/ /\ m_state[Host] = "Dropped" /\ m_droppedTimer = 0 /\ running
     /\ m_state' = [m_state EXCEPT ![Host] = "Available"]
     /\ m_droppedTimer' = reset
  \/ /\ m_state[Host] # "Dropped" \/ ~running
     /\ UNCHANGED <<m_state, m_droppedTimer>>
CountDownNoReset == Waited(0, TRUE)
CountDownTooHigh == Waited(droppedTime + 1, TRUE)
CountDownAttached == Waited(droppedTime, parent[Host] # NoPlayer)
CountDown ==
  \/ /\ m_state[Host] = "Dropped" /\ m_droppedTimer > 0
     /\ m_droppedTimer' = m_droppedTimer - 1
     /\ UNCHANGED m_state
  \/ /\ m_state[Host] = "Dropped" /\ m_droppedTimer = 0
     /\ m_state' = [m_state EXCEPT ![Host] = "Available"]
     /\ m_droppedTimer' = droppedTime
  \/ /\ m_state[Host] # "Dropped"
     /\ UNCHANGED <<m_state, m_droppedTimer>>

\* RpcPickUpFlag on the host's own client attaches the flag once more.
Attached(holder) == IF localRpc = <<>> THEN holder ELSE Last(localRpc)

\* A frame of the host handles the local queue and runs Flag.Update, in either order.
Frame ==
  /\ flag[Host] = "started"
  /\ localRpc # <<>> \/ m_state[Host] = "Dropped"
  /\ \E holder \in {LetGo(Attached(parent[Host])), Attached(LetGo(parent[Host]))} :
       parent' = [parent EXCEPT ![Host] = holder]
  /\ CountDown
  /\ CmdPickUpFlag(Range(localRpc))
  /\ dirty' = dirty \cup (IF m_state' = m_state THEN {} ELSE {"state"}) \cup Marked(Range(localRpc))
  /\ localRpc' = <<>>
  /\ UNCHANGED <<joined, m_gameState, flag, own, toClient, toServer>>

\* The send interval of a marked SyncVar has passed.
SyncState ==
  /\ "state" \in dirty
  /\ Room(Clients)
  /\ dirty' = dirty \ {"state"}
  /\ toClient' = SentToAll([kind |-> "State", state |-> m_state[Host]])
  /\ UNCHANGED <<joined, m_gameState, flagVars, hasVars, toServer, localRpc>>

\* Only the machine of p reads m_hasFlag of p.
SyncHasFlag(p) ==
  /\ p \in dirty
  /\ Room({p})
  /\ dirty' = dirty \ {p}
  /\ toClient' = [toClient EXCEPT ![p] = Append(@, [kind |-> "HasFlag"])]
  /\ UNCHANGED <<joined, m_gameState, flagVars, hasVars, toServer, localRpc>>

(***************************************************************************)
(* The machine of a player.                                                *)
(***************************************************************************)
\* The player runs into another one.  His machine asks for the flag to be dropped if he
\* has it by m_hasFlag and its own copy of the flag is attached to him.
OnCollisionEnter(p) ==
  /\ p \in joined /\ joined # {p}
  /\ HasFlag(p) /\ parent[p] = p
  /\ \/ p = Host /\ CmdPlayerDropFlag(p) /\ UNCHANGED toServer
     \/ /\ p # Host
        /\ MaySend(p)
        /\ toServer' = [toServer EXCEPT ![p] = Append(@, "CmdPlayerDropFlag")]
        /\ UNCHANGED <<m_state, dirty>>
  /\ UNCHANGED <<joined, m_gameState, flag, parent, m_droppedTimer, hasVars, toClient, localRpc>>

\* RpcPickUpFlag on a client: only the machine of that player may send its Command.
AttachFlagToGameObject(m, p) ==
  /\ parent' = [parent EXCEPT ![m] = p]
  /\ \/ m = p /\ MaySend(m)
        /\ toServer' = [toServer EXCEPT ![m] = Append(@, "CmdPickUpFlag")]
     \/ m # p /\ UNCHANGED toServer

ClientReceive(m) ==
  /\ toClient[m] # <<>>
  /\ toClient' = [toClient EXCEPT ![m] = Tail(@)]
  /\ LET packet == Head(toClient[m]) IN
       \/ /\ packet.kind = "Spawn"
          /\ flag' = [flag EXCEPT ![m] = "spawned"]
          /\ m_state' = [m_state EXCEPT ![m] = packet.state]
          /\ UNCHANGED <<parent, own, toServer>>
       \/ /\ packet.kind = "State"
          /\ m_state' = [m_state EXCEPT ![m] = packet.state]
          /\ UNCHANGED <<flag, parent, own, toServer>>
       \/ /\ packet.kind = "RpcPickUpFlag"
          /\ AttachFlagToGameObject(m, packet.player)
          /\ UNCHANGED <<flag, m_state, own>>
       \/ /\ packet.kind = "HasFlag"
          /\ own' = [own EXCEPT ![m] = TRUE]
          /\ UNCHANGED <<flag, m_state, parent, toServer>>
  /\ UNCHANGED <<joined, m_gameState, m_droppedTimer, m_hasFlag, dirty, localRpc>>

\* Start runs in the frame after the flag came, perhaps behind packets that came with it.
FlagStart(m) ==
  /\ m # Host /\ flag[m] = "spawned"
  /\ flag' = [flag EXCEPT ![m] = "started"]
  /\ m_state' = [m_state EXCEPT ![m] = "Available"]
  /\ UNCHANGED <<joined, m_gameState, parent, m_droppedTimer, hasVars, dirty, wires>>

\* The client's half of Flag.Update.
FlagUpdate(m) ==
  /\ m # Host /\ flag[m] = "started"
  /\ m_state[m] = "Dropped" /\ parent[m] # NoPlayer
  /\ parent' = [parent EXCEPT ![m] = NoPlayer]
  /\ UNCHANGED <<joined, m_gameState, flag, m_state, m_droppedTimer, hasVars, dirty, wires>>

CTFNext ==
  \/ ManagerUpdate \/ Frame \/ SyncState
  \/ \E p \in Players : \/ Join(p) \/ OnTriggerEnter(p) \/ ServerReceive(p) \/ SyncHasFlag(p)
                        \/ OnCollisionEnter(p) \/ ClientReceive(p) \/ FlagStart(p) \/ FlagUpdate(p)

CTFSpec == CTFInit /\ [][CTFNext]_ctfVars

(***************************************************************************)
(* What the flag keeps to.                                                 *)
(***************************************************************************)
\* The server's flag behaves as the rules say, taking a possessed flag to be carried by
\* the player it is attached to: nothing that arrives late, the host's own RPC, a second
\* drop of the same collision, moves the flag to another player or skips the cooldown.
Rules ==
  INSTANCE FlagRules WITH
    phase <- m_state[Host],
    carrier <- IF m_state[Host] = "Possessed" THEN parent[Host] ELSE NoPlayer

FlagKeepsRules == Rules!RulesSpec

\* On the server a flag that may be picked up hangs on nobody, and a possessed one on
\* somebody who has m_hasFlag.
ServerAttached ==
  /\ m_state[Host] = "Available" => parent[Host] = NoPlayer
  /\ m_state[Host] = "Possessed" => parent[Host] \in joined /\ m_hasFlag[parent[Host]]

\* Every cooldown is a whole one: it begins with the full time.
WholeCooldown == m_state[Host] # "Dropped" => m_droppedTimer = droppedTime

\* Nothing is on its way between the server and the machine of p, and the machine has
\* run Start and Update since.
Settled(p) ==
  /\ dirty \cap {"state", p} = {} /\ localRpc = <<>>
  /\ toClient[p] = <<>> /\ toServer[p] = <<>>
  /\ flag[p] # "spawned"
  /\ m_state[p] = "Dropped" => parent[p] = NoPlayer

CarriedBy(p) == m_state[Host] = "Possessed" /\ parent[Host] = p

\* Once everything has arrived, the machine of the carrier knows that its player has the
\* flag, so that his points count.
CarrierScores == \A p \in joined : CarriedBy(p) /\ Settled(p) => HasFlag(p)

\* A dropped flag is available again some time later, however often it is dropped.
\* Only the host's frames need to go on.
FlagReturns == m_state[Host] = "Dropped" ~> m_state[Host] = "Available"

\* The points of a carrier who stays undisturbed begin to count, if what was marked is
\* sent and what was sent arrives.
ScoresAtLast == \A p \in Players : CarriedBy(p) ~> HasFlag(p)

FrameFairness == WF_ctfVars(Frame)
DeliveryFairness ==
  \A p \in Players : /\ WF_ctfVars(SyncHasFlag(p))
                     /\ WF_ctfVars(ClientReceive(p))
                     /\ WF_ctfVars(ServerReceive(p))
=============================================================================
