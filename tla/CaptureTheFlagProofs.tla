------------------------ MODULE CaptureTheFlagProofs ------------------------
(***************************************************************************)
(* Proofs about the server's flag, for every set of players, every length  *)
(* of the cooldown and every bound on the packets under way.               *)
(***************************************************************************)
EXTENDS CaptureTheFlag, SequenceTheorems, TLAPS

(***************************************************************************)
(* Types.                                                                  *)
(***************************************************************************)
\* The game starts with every variable in its type.
LEMMA FlagInitType == CTFInit => CTFTypeOK
<1> SUFFICES ASSUME CTFInit PROVE CTFTypeOK
  OBVIOUS
<1>1. Host \in Players /\ droppedTime \in 0..droppedTime
  BY HostAssumption, TimeAssumption
<1>2. <<>> \in Seq(Packets) /\ <<>> \in Seq({"CmdPickUpFlag", "CmdPlayerDropFlag"})
  OBVIOUS
<1> QED
  BY <1>1, <1>2 DEF CTFInit, CTFTypeOK, States

\* A packet sent to all clients is appended to well-typed streams, and not to the host's.
LEMMA SentType ==
  ASSUME CTFTypeOK, NEW packet \in Packets
  PROVE  /\ SentToAll(packet) \in [Players -> Seq(Packets)]
         /\ SentToAll(packet)[Host] = toClient[Host]
<1>1. ASSUME NEW m \in Players
      PROVE  toClient[m] \in Seq(Packets) /\ Append(toClient[m], packet) \in Seq(Packets)
  <2>1. toClient[m] \in Seq(Packets)
    BY DEF CTFTypeOK
  <2> QED
    BY <2>1, AppendProperties
<1> QED
  BY <1>1, HostAssumption DEF SentToAll, Clients

\* A Command is appended to a well-typed stream.
LEMMA CommandType ==
  ASSUME CTFTypeOK, NEW m \in Players, NEW command \in {"CmdPickUpFlag", "CmdPlayerDropFlag"}
  PROVE  [toServer EXCEPT ![m] = Append(@, command)]
           \in [Players -> Seq({"CmdPickUpFlag", "CmdPlayerDropFlag"})]
<1>1. toServer[m] \in Seq({"CmdPickUpFlag", "CmdPlayerDropFlag"})
  BY DEF CTFTypeOK
<1>2. Append(toServer[m], command) \in Seq({"CmdPickUpFlag", "CmdPlayerDropFlag"})
  BY <1>1, AppendProperties
<1> QED
  BY <1>2 DEF CTFTypeOK

\* Marking the SyncVars of players never marks the host's.
LEMMA MarkedType ==
  ASSUME CTFTypeOK, NEW ps \in SUBSET Players
  PROVE  /\ dirty \cup Marked(ps) \subseteq {"state"} \cup Remote
         /\ [p \in Players |-> p \in ps \/ m_hasFlag[p]] \in [Players -> BOOLEAN]
BY DEF CTFTypeOK, Marked, Remote

\* The players whose RPC waits for the host's own client.
LEMMA QueueType ==
  ASSUME CTFTypeOK
  PROVE  /\ Range(localRpc) \in SUBSET Players
         /\ localRpc # <<>> => /\ Len(localRpc) \in 1..Len(localRpc)
                               /\ Last(localRpc) = localRpc[Len(localRpc)]
                               /\ Last(localRpc) \in Players
BY DEF CTFTypeOK, Range, Last

\* The types after an action of the server.
LEMMA ServerActionType ==
  ASSUME CTFTypeOK, \/ ManagerUpdate \/ Frame \/ SyncState
                    \/ \E p \in Players : \/ Join(p) \/ OnTriggerEnter(p)
                                          \/ ServerReceive(p) \/ SyncHasFlag(p)
  PROVE  CTFTypeOK'
<1> USE HostAssumption DEF CTFTypeOK
<1>1. CASE ManagerUpdate
  <2>1. [kind |-> "Spawn", state |-> "Available"] \in Packets
    BY DEF Packets, States
  <2> QED
    BY <1>1, <2>1, SentType DEF ManagerUpdate, hasVars
<1>2. CASE Frame
  <2>1. m_state' \in [Players -> States] /\ m_droppedTimer' \in 0..droppedTime
    <3>1. CountDown
      BY <1>2 DEF Frame
    <3>2. CASE m_state[Host] = "Dropped" /\ m_droppedTimer > 0
      BY <3>1, <3>2, TimeAssumption DEF CountDown
    <3>3. CASE m_state[Host] = "Dropped" /\ m_droppedTimer = 0
      <4>1. m_state' = [m_state EXCEPT ![Host] = "Available"] /\ m_droppedTimer' = droppedTime
        BY <3>1, <3>3 DEF CountDown
      <4>2. droppedTime \in 0..droppedTime
        BY TimeAssumption
      <4>3. m_state' \in [Players -> States]
        BY <4>1 DEF States
      <4> QED
        BY <4>1, <4>2, <4>3
    <3>4. CASE m_state[Host] # "Dropped"
      BY <3>1, <3>4 DEF CountDown
    <3> QED
      BY <3>2, <3>3, <3>4, TimeAssumption
  <2>2. parent' \in [Players -> Players \cup {NoPlayer}]
    BY <1>2, QueueType DEF Frame, LetGo, Attached
  <2>3. m_hasFlag' \in [Players -> BOOLEAN] /\ dirty' \subseteq {"state"} \cup Remote
    BY <1>2, QueueType, MarkedType DEF Frame, CmdPickUpFlag
  <2>4. localRpc' \in Seq(Players)
    BY <1>2 DEF Frame
  <2> QED
    BY <1>2, <2>1, <2>2, <2>3, <2>4 DEF Frame
<1>3. CASE SyncState
  <2>1. [kind |-> "State", state |-> m_state[Host]] \in Packets
    BY DEF Packets
  <2> QED
    BY <1>3, <2>1, SentType DEF SyncState, flagVars, hasVars
<1>4. ASSUME NEW p \in Players, Join(p) PROVE CTFTypeOK'
  <2>1. [kind |-> "Spawn", state |-> m_state[Host]] \in Packets
    BY DEF Packets
  <2>2. <<>> \in Seq(Packets) /\ <<[kind |-> "Spawn", state |-> m_state[Host]]>> \in Seq(Packets)
    BY <2>1
  <2> QED
    BY <1>4, <2>2 DEF Join, flagVars, hasVars
<1>5. ASSUME NEW p \in Players, OnTriggerEnter(p) PROVE CTFTypeOK'
  <2>1. [kind |-> "RpcPickUpFlag", player |-> p] \in Packets
    BY DEF Packets
  <2>2. toClient' \in [Players -> Seq(Packets)]
    BY <1>5, <2>1, SentType DEF OnTriggerEnter
  <2>3. m_hasFlag' \in [Players -> BOOLEAN] /\ dirty' \subseteq {"state"} \cup Remote
    BY <1>5, MarkedType DEF OnTriggerEnter, CmdPickUpFlag
  <2>4. localRpc' \in Seq(Players)
    BY <1>5, AppendProperties DEF OnTriggerEnter
  <2>5. m_state' \in [Players -> States] /\ parent' \in [Players -> Players \cup {NoPlayer}]
    BY <1>5 DEF OnTriggerEnter, States
  <2> QED
    BY <1>5, <2>2, <2>3, <2>4, <2>5 DEF OnTriggerEnter
<1>6. ASSUME NEW p \in Players, ServerReceive(p) PROVE CTFTypeOK'
  <2>1. toServer' \in [Players -> Seq({"CmdPickUpFlag", "CmdPlayerDropFlag"})]
    <3>1. toServer[p] \in Seq({"CmdPickUpFlag", "CmdPlayerDropFlag"}) /\ toServer[p] # <<>>
      BY <1>6 DEF ServerReceive
    <3>2. Tail(toServer[p]) \in Seq({"CmdPickUpFlag", "CmdPlayerDropFlag"})
      BY <3>1, HeadTailProperties
    <3> QED
      BY <1>6, <3>2 DEF ServerReceive
  <2>2. m_state' \in [Players -> States]
    BY <1>6 DEF ServerReceive, CmdPlayerDropFlag, States
  <2>3. m_hasFlag' \in [Players -> BOOLEAN] /\ dirty' \subseteq {"state"} \cup Remote
    BY <1>6, MarkedType DEF ServerReceive, CmdPickUpFlag, CmdPlayerDropFlag
  <2> QED
    BY <1>6, <2>1, <2>2, <2>3 DEF ServerReceive
<1>7. ASSUME NEW p \in Players, SyncHasFlag(p) PROVE CTFTypeOK'
  <2>1. [kind |-> "HasFlag"] \in Packets
    BY DEF Packets
  <2>2. toClient[p] \in Seq(Packets)
    OBVIOUS
  <2>3. Append(toClient[p], [kind |-> "HasFlag"]) \in Seq(Packets)
    BY <2>1, <2>2, AppendProperties
  <2> QED
    BY <1>7, <2>3 DEF SyncHasFlag, flagVars, hasVars
<1> QED
  BY <1>1, <1>2, <1>3, <1>4, <1>5, <1>6, <1>7

\* The types after an action of a player's machine.
LEMMA MachineActionType ==
  ASSUME CTFTypeOK, NEW m \in Players,
         OnCollisionEnter(m) \/ ClientReceive(m) \/ FlagStart(m) \/ FlagUpdate(m)
  PROVE  CTFTypeOK'
<1> USE HostAssumption DEF CTFTypeOK
<1>1. CASE OnCollisionEnter(m)
  <2>1. m_state' \in [Players -> States] /\ dirty' \subseteq {"state"} \cup Remote
    BY <1>1 DEF OnCollisionEnter, CmdPlayerDropFlag, States
  <2>2. toServer' \in [Players -> Seq({"CmdPickUpFlag", "CmdPlayerDropFlag"})]
    BY <1>1, CommandType DEF OnCollisionEnter
  <2> QED
    BY <1>1, <2>1, <2>2 DEF OnCollisionEnter, hasVars
<1>2. CASE ClientReceive(m)
  <2> DEFINE packet == Head(toClient[m])
  <2>1. packet \in Packets /\ Tail(toClient[m]) \in Seq(Packets)
    <3>1. toClient[m] \in Seq(Packets) /\ toClient[m] # <<>>
      BY <1>2 DEF ClientReceive
    <3> QED
      BY <3>1, HeadTailProperties
  <2>2. /\ packet.kind \in {"Spawn", "State"} => packet.state \in States
        /\ packet.kind = "RpcPickUpFlag" => packet.player \in Players
    BY <2>1 DEF Packets
  <2>3. toClient' \in [Players -> Seq(Packets)]
    BY <1>2, <2>1 DEF ClientReceive
  <2>4. toServer' \in [Players -> Seq({"CmdPickUpFlag", "CmdPlayerDropFlag"})]
    BY <1>2, CommandType DEF ClientReceive, AttachFlagToGameObject
  <2>5. flag' \in [Players -> {"absent", "spawned", "started"}] /\ own' \in [Players -> BOOLEAN]
    BY <1>2 DEF ClientReceive
  <2>6. m_state' \in [Players -> States] /\ parent' \in [Players -> Players \cup {NoPlayer}]
    BY <1>2, <2>2 DEF ClientReceive, AttachFlagToGameObject
  <2> QED
    BY <1>2, <2>3, <2>4, <2>5, <2>6 DEF ClientReceive
<1>3. CASE FlagStart(m)
  BY <1>3 DEF FlagStart, hasVars, wires, States
<1>4. CASE FlagUpdate(m)
  BY <1>4 DEF FlagUpdate, hasVars, wires
<1> QED
  BY <1>1, <1>2, <1>3, <1>4

\* Every step keeps every variable in its type.
LEMMA FlagNextType == CTFTypeOK /\ [CTFNext]_ctfVars => CTFTypeOK'
<1>1. CTFTypeOK /\ CTFNext => CTFTypeOK'
  BY ServerActionType, MachineActionType DEF CTFNext
<1>2. CTFTypeOK /\ UNCHANGED ctfVars => CTFTypeOK'
  BY DEF ctfVars, flagVars, hasVars, wires, CTFTypeOK
<1> QED
  BY <1>1, <1>2

\* Every variable of the flag game keeps its type, the timer within the cooldown.
THEOREM FlagTypes == CTFSpec => []CTFTypeOK
<1> QED
  BY FlagInitType, FlagNextType, PTL DEF CTFSpec

(***************************************************************************)
(* The rules of the flag.  The host is never sent a packet, so that what   *)
(* clients receive does not reach the server's copies.  The carrier is     *)
(* safe from the host's own RPC because that is handled in the first frame *)
(* after the possession begins: while the queue holds one, the flag is     *)
(* attached to its player or has just been dropped, with the whole         *)
(* cooldown ahead.                                                         *)
(***************************************************************************)
HostApart == toClient[Host] = <<>> /\ flag[Host] # "spawned"

QueueFits ==
  /\ m_state[Host] = "Available" => localRpc = <<>>
  /\ m_state[Host] = "Possessed" => \A i \in 1..Len(localRpc) : localRpc[i] = parent[Host]
  /\ localRpc # <<>> => m_droppedTimer = droppedTime

FlagInv == CTFTypeOK /\ HostApart /\ ServerAttached /\ WholeCooldown /\ QueueFits

\* The game starts in the invariant, with the flag as the rules begin.
LEMMA FlagInit == CTFInit => FlagInv /\ Rules!RulesInit
<1> SUFFICES ASSUME CTFInit PROVE FlagInv /\ Rules!RulesInit
  OBVIOUS
<1>1. m_state[Host] = "Available" /\ parent[Host] = NoPlayer
  BY HostAssumption DEF CTFInit
<1>2. HostApart /\ ServerAttached /\ WholeCooldown /\ QueueFits
  BY <1>1, HostAssumption DEF CTFInit, HostApart, ServerAttached, WholeCooldown, QueueFits
<1> QED
  BY <1>1, <1>2, FlagInitType DEF FlagInv, Rules!RulesInit

\* A player who touches the available flag becomes the carrier.
LEMMA TriggerKeeps ==
  ASSUME FlagInv, CTFTypeOK', NEW p \in Players, OnTriggerEnter(p)
  PROVE  FlagInv' /\ Rules!PickUp(p)
<1> USE DEF FlagInv, CTFTypeOK
<1>1. localRpc' = <<p>>
  <2>1. localRpc = <<>>
    BY DEF OnTriggerEnter, QueueFits
  <2> QED
    BY <2>1 DEF OnTriggerEnter
<1>2. m_state[Host] = "Available" /\ m_state'[Host] = "Possessed" /\ parent'[Host] = p
  BY HostAssumption DEF OnTriggerEnter
<1>3. p \in joined' /\ m_hasFlag'[p] /\ m_droppedTimer' = droppedTime
  BY <1>2 DEF OnTriggerEnter, CmdPickUpFlag, WholeCooldown
<1>4. HostApart'
  <2>1. toClient'[Host] = toClient[Host]
    BY SentType DEF OnTriggerEnter, Packets
  <2> QED
    BY <2>1 DEF HostApart, OnTriggerEnter
<1>5. ServerAttached' /\ WholeCooldown' /\ QueueFits'
  BY <1>1, <1>2, <1>3 DEF ServerAttached, WholeCooldown, QueueFits
<1> QED
  BY <1>2, <1>4, <1>5 DEF Rules!PickUp

\* The server's handling of a drop: the flag of the carrier is dropped, any other
\* request changes nothing the rules speak of.
LEMMA DropKeeps ==
  ASSUME FlagInv, CTFTypeOK', NEW p \in Players, CmdPlayerDropFlag(p),
         UNCHANGED <<joined, flag, parent, m_droppedTimer, m_hasFlag, toClient, localRpc>>
  PROVE  FlagInv' /\ [Rules!Drop]_(Rules!ruleVars)
<1> USE DEF FlagInv, CTFTypeOK
<1>1. HostApart'
  BY DEF HostApart
<1>2. CASE parent[Host] # p
  <2>1. m_state' = m_state
    BY <1>2 DEF CmdPlayerDropFlag
  <2>2. ServerAttached' /\ WholeCooldown' /\ QueueFits'
    BY <2>1 DEF ServerAttached, WholeCooldown, QueueFits
  <2> QED
    BY <1>1, <2>1, <2>2 DEF Rules!ruleVars
<1>3. CASE parent[Host] = p
  <2>1. m_state[Host] \in {"Dropped", "Possessed"}
    BY <1>3, NamesAssumption, HostAssumption DEF ServerAttached, States
  <2>2. m_state'[Host] = "Dropped"
    BY <1>3, HostAssumption DEF CmdPlayerDropFlag
  <2>3. ServerAttached' /\ WholeCooldown' /\ QueueFits'
    BY <2>2 DEF ServerAttached, WholeCooldown, QueueFits
  <2>4. [Rules!Drop]_(Rules!ruleVars)
    BY <2>1, <2>2 DEF Rules!Drop, Rules!ruleVars
  <2> QED
    BY <1>1, <2>3, <2>4
<1> QED
  BY <1>2, <1>3

\* A frame of the host lets a dropped flag go, ends a cooldown that is over, and leaves
\* a carrier his flag.
LEMMA FrameKeeps ==
  ASSUME FlagInv, CTFTypeOK', Frame
  PROVE  FlagInv' /\ [Rules!Return]_(Rules!ruleVars)
<1> USE DEF FlagInv, CTFTypeOK
<1>1. PICK holder \in {LetGo(Attached(parent[Host])), Attached(LetGo(parent[Host]))} :
        parent' = [parent EXCEPT ![Host] = holder]
  BY DEF Frame
<1>2. parent'[Host] = holder
  BY <1>1, HostAssumption
<1>3. \A q \in Players : m_hasFlag[q] => m_hasFlag'[q]
  BY DEF Frame, CmdPickUpFlag
<1>4. localRpc' = <<>> /\ joined' = joined /\ HostApart'
  BY DEF Frame, HostApart
<1>5. CASE m_state[Host] = "Possessed"
  <2>1. m_state' = m_state /\ m_droppedTimer' = m_droppedTimer
    BY <1>5 DEF Frame, CountDown
  <2>2. holder = parent[Host]
    BY <1>1, <1>5, QueueType DEF LetGo, Attached, QueueFits
  <2>3. ServerAttached' /\ WholeCooldown' /\ QueueFits'
    BY <1>2, <1>3, <1>4, <1>5, <2>1, <2>2 DEF ServerAttached, WholeCooldown, QueueFits
  <2> QED
    BY <1>2, <1>4, <1>5, <2>1, <2>2, <2>3 DEF Rules!ruleVars
<1>6. CASE m_state[Host] = "Available"
  <2>1. localRpc = <<>>
    BY <1>6 DEF QueueFits
  <2> QED
    BY <1>6, <2>1 DEF Frame
<1>7. CASE m_state[Host] = "Dropped" /\ m_droppedTimer > 0
  <2>1. m_state' = m_state
    BY <1>7 DEF Frame, CountDown
  <2>2. ServerAttached' /\ WholeCooldown' /\ QueueFits'
    BY <1>4, <1>7, <2>1 DEF ServerAttached, WholeCooldown, QueueFits
  <2> QED
    BY <1>4, <1>7, <2>1, <2>2 DEF Rules!ruleVars
<1>8. CASE m_state[Host] = "Dropped" /\ m_droppedTimer = 0
  <2>1. m_state'[Host] = "Available" /\ m_droppedTimer' = droppedTime
    BY <1>8, HostAssumption DEF Frame, CountDown
  <2>2. localRpc = <<>>
    BY <1>8, TimeAssumption DEF QueueFits
  <2>3. holder = NoPlayer
    BY <1>1, <1>8, <2>2 DEF LetGo, Attached
  <2>4. ServerAttached' /\ WholeCooldown' /\ QueueFits'
    BY <1>2, <1>4, <2>1, <2>3 DEF ServerAttached, WholeCooldown, QueueFits
  <2> QED
    BY <1>4, <1>8, <2>1, <2>4 DEF Rules!Return, Rules!ruleVars
<1> QED
  BY <1>5, <1>6, <1>7, <1>8, HostAssumption DEF States

\* A step that leaves the server's copies alone keeps the invariant.
LEMMA Untouched ==
  ASSUME FlagInv, CTFTypeOK', HostApart', UNCHANGED <<m_droppedTimer, m_hasFlag, localRpc>>,
         m_state'[Host] = m_state[Host], parent'[Host] = parent[Host], joined \subseteq joined'
  PROVE  FlagInv' /\ UNCHANGED Rules!ruleVars
BY DEF FlagInv, ServerAttached, WholeCooldown, QueueFits, Rules!ruleVars

\* Every step keeps the invariant and is a step of the rules or a stutter.
LEMMA FlagStep ==
  ASSUME FlagInv, [CTFNext]_ctfVars
  PROVE  FlagInv' /\ [Rules!RulesNext]_(Rules!ruleVars)
<1>1. CTFTypeOK /\ CTFTypeOK' /\ HostApart /\ Host \in Players
  BY FlagNextType, HostAssumption DEF FlagInv
<1> DEFINE Kept == FlagInv' /\ UNCHANGED Rules!ruleVars
<1>2. CASE UNCHANGED ctfVars
  BY <1>1, <1>2, Untouched DEF ctfVars, flagVars, hasVars, wires, HostApart
<1>3. ASSUME ManagerUpdate PROVE Kept
  <2>1. toClient'[Host] = toClient[Host]
    BY <1>1, <1>3, SentType DEF ManagerUpdate, Packets, States
  <2>2. HostApart'
    BY <1>1, <1>3, <2>1 DEF ManagerUpdate, HostApart, CTFTypeOK
  <2> QED
    BY <1>1, <1>3, <2>2, Untouched DEF ManagerUpdate, hasVars
<1>4. ASSUME SyncState PROVE Kept
  <2>1. [kind |-> "State", state |-> m_state[Host]] \in Packets
    BY <1>1 DEF Packets, CTFTypeOK
  <2>2. toClient'[Host] = toClient[Host]
    BY <1>1, <1>4, <2>1, SentType DEF SyncState
  <2> QED
    BY <1>1, <1>4, <2>2, Untouched DEF SyncState, flagVars, hasVars, HostApart
<1>5. ASSUME NEW p \in Players, Join(p) PROVE Kept
  <2>1. p # Host
    BY <1>1, <1>5 DEF Join, CTFTypeOK
  <2>2. HostApart'
    BY <1>1, <1>5, <2>1 DEF Join, flagVars, HostApart, CTFTypeOK
  <2> QED
    BY <1>1, <1>5, <2>2, Untouched DEF Join, flagVars, hasVars
<1>6. ASSUME NEW p \in Players, ServerReceive(p)
      PROVE  FlagInv' /\ [Rules!Drop]_(Rules!ruleVars)
  <2>1. CASE CmdPlayerDropFlag(p) /\ UNCHANGED m_hasFlag
    BY <1>1, <1>6, <2>1, DropKeeps DEF ServerReceive
  <2>2. CASE CmdPickUpFlag({p}) /\ UNCHANGED m_state
    <3>1. \A q \in Players : m_hasFlag[q] => m_hasFlag'[q]
      BY <2>2 DEF CmdPickUpFlag
    <3> QED
      BY <1>1, <1>6, <2>2, <3>1 DEF ServerReceive, HostApart, FlagInv, CTFTypeOK,
         ServerAttached, WholeCooldown, QueueFits, Rules!ruleVars
  <2> QED
    BY <1>6, <2>1, <2>2 DEF ServerReceive
<1>7. ASSUME NEW p \in Players, SyncHasFlag(p) PROVE Kept
  <2>1. p # Host
    BY <1>1, <1>7, NamesAssumption DEF SyncHasFlag, CTFTypeOK, Remote
  <2>2. HostApart'
    BY <1>1, <1>7, <2>1 DEF SyncHasFlag, flagVars, HostApart, CTFTypeOK
  <2> QED
    BY <1>1, <1>7, <2>2, Untouched DEF SyncHasFlag, flagVars, hasVars
<1>8. ASSUME NEW p \in Players, OnCollisionEnter(p)
      PROVE  FlagInv' /\ [Rules!Drop]_(Rules!ruleVars)
  <2>1. CASE CmdPlayerDropFlag(p)
    BY <1>1, <1>8, <2>1, DropKeeps DEF OnCollisionEnter, hasVars
  <2>2. CASE UNCHANGED <<m_state, dirty>>
    BY <1>1, <1>8, <2>2, Untouched DEF OnCollisionEnter, hasVars, HostApart
  <2> QED
    BY <1>8, <2>1, <2>2 DEF OnCollisionEnter
<1>9. ASSUME NEW m \in Players, ClientReceive(m) PROVE Kept
  <2>1. m # Host
    BY <1>1, <1>9 DEF ClientReceive, HostApart
  <2>2. m_state'[Host] = m_state[Host]
    BY <1>1, <1>9, <2>1 DEF ClientReceive, CTFTypeOK
  <2>3. parent'[Host] = parent[Host]
    BY <1>1, <1>9, <2>1 DEF ClientReceive, AttachFlagToGameObject, CTFTypeOK
  <2>4. flag'[Host] = flag[Host]
    BY <1>1, <1>9, <2>1 DEF ClientReceive, CTFTypeOK
  <2>5. toClient'[Host] = toClient[Host]
    BY <1>1, <1>9, <2>1 DEF ClientReceive, CTFTypeOK
  <2> QED
    BY <1>1, <1>9, <2>2, <2>3, <2>4, <2>5, Untouched DEF ClientReceive, HostApart
<1>10. ASSUME NEW m \in Players, FlagStart(m) PROVE Kept
  BY <1>1, <1>10, Untouched DEF FlagStart, hasVars, wires, HostApart, CTFTypeOK
<1>11. ASSUME NEW m \in Players, FlagUpdate(m) PROVE Kept
  BY <1>1, <1>11, Untouched DEF FlagUpdate, hasVars, wires, HostApart, CTFTypeOK
<1>12. ASSUME NEW p \in Players, OnTriggerEnter(p) PROVE FlagInv' /\ Rules!PickUp(p)
  BY <1>1, <1>12, TriggerKeeps
<1>13. ASSUME Frame PROVE FlagInv' /\ [Rules!Return]_(Rules!ruleVars)
  BY <1>1, <1>13, FrameKeeps
<1> QED
  BY <1>2, <1>3, <1>4, <1>5, <1>6, <1>7, <1>8, <1>9, <1>10, <1>11, <1>12, <1>13
     DEF CTFNext, Rules!RulesNext

\* The whole invariant, from which the results below are read off.
LEMMA FlagInvariant == CTFSpec => []FlagInv
<1>1. CTFInit => FlagInv
  BY FlagInit
<1>2. FlagInv /\ [CTFNext]_ctfVars => FlagInv'
  BY FlagStep
<1> QED
  BY <1>1, <1>2, PTL DEF CTFSpec

\* A flag that may be picked up hangs on nobody, a possessed one on a player who is
\* there and has m_hasFlag, whatever the host's own RPC does a frame late.
THEOREM CarrierIsHolder == CTFSpec => []ServerAttached
<1>1. FlagInv => ServerAttached
  BY DEF FlagInv
<1> QED
  BY <1>1, FlagInvariant, PTL

\* Every cooldown begins with the full time, also after drops in quick succession.
THEOREM CooldownIsWhole == CTFSpec => []WholeCooldown
<1>1. FlagInv => WholeCooldown
  BY DEF FlagInv
<1> QED
  BY <1>1, FlagInvariant, PTL

\* The server's flag implements the rules: each step is a pick-up of the available flag,
\* a drop by its carrier, its return, or nothing the rules see.
THEOREM FlagImplementsRules == CTFSpec => FlagKeepsRules
<1>1. CTFInit => Rules!RulesInit
  BY FlagInit
<1>2. FlagInv /\ [CTFNext]_ctfVars => [Rules!RulesNext]_(Rules!ruleVars)
  BY FlagStep
<1> QED
  BY <1>1, <1>2, FlagInvariant, PTL DEF CTFSpec, FlagKeepsRules, Rules!RulesSpec

(***************************************************************************)
(* Who knows of his flag.  m_hasFlag of a remote player is never reset, so *)
(* his machine knows it, is being told, or will be: it is marked.          *)
(***************************************************************************)
Tells(packets) == \E i \in 1..Len(packets) : packets[i].kind = "HasFlag"

ToldOrMarked ==
  \A p \in Remote : m_hasFlag[p] => own[p] \/ p \in dirty \/ Tells(toClient[p])

\* Nothing is sent to, asked by or marked for a player who is not there.
NobodyElse ==
  /\ \A p \in Remote \ joined : /\ ~m_hasFlag[p] /\ p \notin dirty
                                /\ toClient[p] = <<>> /\ toServer[p] = <<>>
  /\ Range(localRpc) \subseteq joined

ScoreInv == ToldOrMarked /\ NobodyElse

\* What was on its way is still there behind a new packet.
LEMMA TellsAppend ==
  ASSUME NEW s \in Seq(Packets), NEW packet \in Packets
  PROVE  Tells(s) \/ packet.kind = "HasFlag" => Tells(Append(s, packet))
<1>1. /\ Len(Append(s, packet)) = Len(s) + 1
      /\ \A i \in 1..Len(s) : Append(s, packet)[i] = s[i]
      /\ Append(s, packet)[Len(s) + 1] = packet
  BY AppendProperties
<1>2. Len(s) \in Nat
  BY LenProperties
<1> QED
  BY <1>1, <1>2 DEF Tells

\* Taking another packet leaves it there.
LEMMA TellsTail ==
  ASSUME NEW s \in Seq(Packets), s # <<>>, Tells(s), Head(s).kind # "HasFlag"
  PROVE  Tells(Tail(s))
<1>1. /\ Len(s) \in Nat /\ Len(Tail(s)) = Len(s) - 1
      /\ \A i \in 1..Len(Tail(s)) : Tail(s)[i] = s[i + 1]
      /\ Head(s) = s[1]
  BY HeadTailProperties, LenProperties
<1>2. PICK i \in 1..Len(s) : s[i].kind = "HasFlag"
  BY DEF Tells
<1>3. i # 1
  BY <1>1, <1>2
<1>4. i - 1 \in 1..Len(Tail(s)) /\ Tail(s)[i - 1].kind = "HasFlag"
  BY <1>1, <1>2, <1>3
<1> QED
  BY <1>4 DEF Tells

\* A packet sent to all loses nothing and goes only to players who are there.
LEMMA TellsAll ==
  ASSUME CTFTypeOK, NEW packet \in Packets, NEW p \in Remote
  PROVE  /\ Tells(toClient[p]) => Tells(SentToAll(packet)[p])
         /\ p \notin joined => SentToAll(packet)[p] = toClient[p]
<1>1. p \in Players /\ toClient[p] \in Seq(Packets)
  BY DEF CTFTypeOK, Remote
<1> QED
  BY <1>1, TellsAppend DEF SentToAll, Clients

\* A step of the server that raises m_hasFlag of players who are there, marks them
\* and takes back no other mark.
LEMMA RaisedScores ==
  ASSUME CTFTypeOK, ScoreInv, NEW ps \in SUBSET joined,
         CmdPickUpFlag(ps), Marked(ps) \subseteq dirty', dirty' \subseteq dirty \cup {"state"} \cup ps,
         dirty \ {"state"} \subseteq dirty', UNCHANGED <<joined, own>>,
         \A p \in Remote : Tells(toClient[p]) => Tells(toClient'[p]),
         \A p \in Remote \ joined : toClient'[p] = toClient[p] /\ (toServer[p] = <<>> => toServer'[p] = <<>>),
         Range(localRpc') \subseteq joined
  PROVE  ScoreInv'
<1>1. \A p \in Remote : p \in Players /\ p # "state" /\ p # Host
  BY NamesAssumption DEF Remote
<1>2. ToldOrMarked'
  <2> SUFFICES ASSUME NEW p \in Remote, m_hasFlag'[p]
               PROVE  own'[p] \/ p \in dirty' \/ Tells(toClient'[p])
    BY DEF ToldOrMarked
  <2>1. CASE m_hasFlag[p]
    BY <1>1, <2>1 DEF ScoreInv, ToldOrMarked
  <2>2. CASE ~m_hasFlag[p]
    BY <1>1, <2>2 DEF CmdPickUpFlag, Marked
  <2> QED
    BY <2>1, <2>2
<1>3. NobodyElse'
  BY <1>1 DEF ScoreInv, NobodyElse, CmdPickUpFlag
<1> QED
  BY <1>2, <1>3 DEF ScoreInv

\* A step that leaves m_hasFlag alone.
LEMMA OtherScores ==
  ASSUME CTFTypeOK, ScoreInv, UNCHANGED m_hasFlag, joined \subseteq joined',
         \A p \in Remote : own[p] \/ p \in dirty \/ Tells(toClient[p])
                             => own'[p] \/ p \in dirty' \/ Tells(toClient'[p]),
         \A p \in Remote \ joined' :
           toClient[p] = <<>> /\ toServer[p] = <<>> /\ p \notin dirty
             => toClient'[p] = <<>> /\ toServer'[p] = <<>> /\ p \notin dirty',
         localRpc' = localRpc
  PROVE  ScoreInv'
BY DEF ScoreInv, ToldOrMarked, NobodyElse

\* Every step keeps it.
LEMMA ScoreStep ==
  ASSUME CTFTypeOK, HostApart, ScoreInv, [CTFNext]_ctfVars
  PROVE  ScoreInv'
<1>1. \A p \in Remote : /\ p \in Players /\ p # "state" /\ p # Host
                        /\ toClient[p] \in Seq(Packets)
  BY NamesAssumption DEF Remote, CTFTypeOK
<1>2. CASE UNCHANGED ctfVars
  BY <1>2, OtherScores DEF ctfVars, flagVars, hasVars, wires
<1>3. CASE ManagerUpdate
  <2>1. [kind |-> "Spawn", state |-> "Available"] \in Packets
    BY DEF Packets, States
  <2> QED
    BY <1>3, <2>1, TellsAll, OtherScores DEF ManagerUpdate, hasVars
<1>4. CASE SyncState
  <2>1. [kind |-> "State", state |-> m_state[Host]] \in Packets
    BY HostAssumption DEF Packets, CTFTypeOK
  <2> QED
    BY <1>1, <1>4, <2>1, TellsAll, OtherScores DEF SyncState, flagVars, hasVars
<1>5. CASE Frame
  <2>1. Range(localRpc) \in SUBSET joined
    BY DEF ScoreInv, NobodyElse
  <2>2. Range(localRpc') \subseteq joined
    BY <1>5 DEF Frame, Range
  <2>3. Marked(Range(localRpc)) \subseteq Range(localRpc)
    BY DEF Marked
  <2> QED
    BY <1>5, <2>1, <2>2, <2>3, RaisedScores DEF Frame
<1>6. ASSUME NEW p \in Players, Join(p) PROVE ScoreInv'
  <2>1. p \in Remote /\ ~m_hasFlag[p]
    BY <1>6 DEF Join, CTFTypeOK, Remote, ScoreInv, NobodyElse
  <2>2. \A q \in Players \ {p} : toClient'[q] = toClient[q]
    BY <1>6 DEF Join, CTFTypeOK
  <2>3. ToldOrMarked'
    BY <1>1, <1>6, <2>1, <2>2 DEF Join, hasVars, ScoreInv, ToldOrMarked
  <2>4. NobodyElse'
    BY <1>1, <1>6, <2>2 DEF Join, hasVars, ScoreInv, NobodyElse
  <2> QED
    BY <2>3, <2>4 DEF ScoreInv
<1>7. ASSUME NEW p \in Players, OnTriggerEnter(p) PROVE ScoreInv'
  <2>1. [kind |-> "RpcPickUpFlag", player |-> p] \in Packets
    BY DEF Packets
  <2>2. Range(localRpc') \subseteq joined
    <3>1. localRpc \in Seq(Players)
      BY DEF CTFTypeOK
    <3>2. \A i \in 1..Len(localRpc') : localRpc'[i] \in Range(localRpc) \cup {p}
      BY <1>7, <3>1, AppendProperties, LenProperties DEF OnTriggerEnter, Range
    <3>3. localRpc' \in Seq(Players)
      BY <1>7, <3>1, AppendProperties DEF OnTriggerEnter
    <3> QED
      BY <1>7, <3>2, <3>3 DEF OnTriggerEnter, Range, ScoreInv, NobodyElse
  <2>3. {p} \in SUBSET joined /\ Marked({p}) \subseteq {p}
    BY <1>7 DEF OnTriggerEnter, Marked
  <2> QED
    BY <1>7, <2>1, <2>2, <2>3, TellsAll, RaisedScores DEF OnTriggerEnter
<1>8. ASSUME NEW p \in Players, ServerReceive(p) PROVE ScoreInv'
  <2>1. \A q \in Players \ {p} : toServer'[q] = toServer[q]
    BY <1>8 DEF ServerReceive, CTFTypeOK
  <2>2. \A q \in Remote : toServer[q] = <<>> => toServer'[q] = <<>>
    BY <1>1, <1>8, <2>1 DEF ServerReceive
  <2>3. CASE CmdPickUpFlag({p}) /\ dirty' = dirty \cup Marked({p})
    <3>1. p \in joined
      BY <1>8, HostAssumption DEF ServerReceive, ScoreInv, NobodyElse, Remote, CTFTypeOK
    <3>2. Marked({p}) \subseteq {p} /\ Range(localRpc) \subseteq joined
      BY DEF Marked, ScoreInv, NobodyElse
    <3> QED
      BY <1>8, <2>2, <2>3, <3>1, <3>2, RaisedScores DEF ServerReceive
  <2>4. CASE CmdPlayerDropFlag(p) /\ UNCHANGED m_hasFlag
    BY <1>1, <1>8, <2>2, <2>4, OtherScores DEF ServerReceive, CmdPlayerDropFlag
  <2> QED
    BY <1>8, <2>3, <2>4 DEF ServerReceive
<1>9. ASSUME NEW p \in Players, SyncHasFlag(p) PROVE ScoreInv'
  <2>1. p \in Remote /\ p \in joined
    BY <1>9, NamesAssumption DEF SyncHasFlag, CTFTypeOK, Remote, ScoreInv, NobodyElse
  <2>2. [kind |-> "HasFlag"] \in Packets
    BY DEF Packets
  <2>3. Tells(toClient'[p])
    BY <1>1, <1>9, <2>1, <2>2, TellsAppend DEF SyncHasFlag, CTFTypeOK
  <2>4. \A q \in Players \ {p} : toClient'[q] = toClient[q]
    BY <1>9 DEF SyncHasFlag, CTFTypeOK
  <2> QED
    BY <1>1, <1>9, <2>1, <2>3, <2>4, OtherScores DEF SyncHasFlag, flagVars, hasVars
<1>10. ASSUME NEW p \in Players, OnCollisionEnter(p) PROVE ScoreInv'
  <2>1. dirty \subseteq dirty' /\ dirty' \subseteq dirty \cup {"state"}
    BY <1>10 DEF OnCollisionEnter, CmdPlayerDropFlag
  <2>2. \A q \in Remote \ joined : toServer'[q] = toServer[q]
    BY <1>1, <1>10 DEF OnCollisionEnter, CTFTypeOK
  <2> QED
    BY <1>1, <1>10, <2>1, <2>2, OtherScores DEF OnCollisionEnter, hasVars
<1>11. ASSUME NEW m \in Players, ClientReceive(m) PROVE ScoreInv'
  <2>1. m \in Remote /\ m \in joined
    BY <1>11 DEF ClientReceive, HostApart, Remote, ScoreInv, NobodyElse
  <2>2. \A q \in Players \ {m} : /\ toClient'[q] = toClient[q] /\ own'[q] = own[q]
                                 /\ toServer'[q] = toServer[q]
    BY <1>11 DEF ClientReceive, AttachFlagToGameObject, CTFTypeOK
  <2>3. Tells(toClient[m]) => own'[m] \/ Tells(toClient'[m])
    <3>1. toClient'[m] = Tail(toClient[m]) /\ toClient[m] # <<>>
      BY <1>11 DEF ClientReceive, CTFTypeOK
    <3>2. CASE Head(toClient[m]).kind = "HasFlag"
      BY <1>11, <3>2 DEF ClientReceive, CTFTypeOK
    <3>3. CASE Head(toClient[m]).kind # "HasFlag"
      BY <1>1, <2>1, <3>1, <3>3, TellsTail
    <3> QED
      BY <3>2, <3>3
  <2>4. own[m] => own'[m]
    BY <1>11 DEF ClientReceive, CTFTypeOK
  <2> QED
    BY <1>1, <1>11, <2>1, <2>2, <2>3, <2>4, OtherScores DEF ClientReceive
<1>12. ASSUME NEW m \in Players, FlagStart(m) \/ FlagUpdate(m) PROVE ScoreInv'
  BY <1>12, OtherScores DEF FlagStart, FlagUpdate, hasVars, wires
<1> QED
  BY <1>2, <1>3, <1>4, <1>5, <1>6, <1>7, <1>8, <1>9, <1>10, <1>11, <1>12 DEF CTFNext

\* Once everything has arrived the machine of the carrier knows that its player has the
\* flag, whoever else had it before, whether the RPC or the SyncVar came first.
THEOREM CarrierKnowsAtRest == CTFSpec => []CarrierScores
<1>1. CTFInit => ScoreInv
  BY DEF CTFInit, ScoreInv, ToldOrMarked, NobodyElse, Remote, Range
<1>2. FlagInv /\ ScoreInv /\ [CTFNext]_ctfVars => ScoreInv'
  BY ScoreStep DEF FlagInv
<1>3. ASSUME FlagInv, ScoreInv PROVE CarrierScores
  <2> SUFFICES ASSUME NEW p \in joined, CarriedBy(p), Settled(p) PROVE HasFlag(p)
    BY DEF CarrierScores
  <2>1. p \in Players /\ m_hasFlag[p]
    BY <1>3 DEF FlagInv, CTFTypeOK, CarriedBy, ServerAttached
  <2>2. p \notin dirty /\ ~Tells(toClient[p])
    BY DEF Settled, Tells
  <2> QED
    BY <1>3, <2>1, <2>2 DEF ScoreInv, ToldOrMarked, Remote, HasFlag
<1> QED
  BY <1>1, <1>2, <1>3, FlagInvariant, PTL DEF CTFSpec
=============================================================================
