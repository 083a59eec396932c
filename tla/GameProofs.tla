----------------------------- MODULE GameProofs -----------------------------
(***************************************************************************)
(* Proofs about Game for every set of clients, of names and of users.      *)
(***************************************************************************)
EXTENDS Game, FiniteSetTheorems, SequenceTheorems, WellFoundedInduction, TLAPS

(***************************************************************************)
(* Lemmas about the operators.                                             *)
(***************************************************************************)
\* The search for the next player, when it finds anyone, finds one of them.
LEMMA LeastIn ==
  ASSUME NEW S \in SUBSET Nat, S # {}
  PROVE  Least(S) \in S
<1> DEFINE less == OpToRel(<, Nat)
<1>1. \A x, y \in Nat : y < x => <<y, x>> \in less
  BY DEF OpToRel
<1>2. IsWellFoundedOn(less, Nat)
  BY NatLessThanWellFounded
<1> HIDE DEF less
<1>3. PICK x \in S : \A y \in S : ~ (<<y, x>> \in less)
  BY <1>2, WFMin
<1>4. ASSUME NEW y \in S PROVE x <= y
  <2>1. x \in Nat /\ y \in Nat
    OBVIOUS
  <2>2. ~ (y < x)
    BY <1>1, <1>3, <2>1
  <2> QED
    BY <2>1, <2>2
<1> QED
  BY <1>4 DEF Least

\* The rank of a player among some of the clients is a number, below their number
\* for a player who is one of them.
LEMMA RankBound ==
  ASSUME NEW S \in SUBSET Guids, NEW q \in Guids
  PROVE  /\ Rank(S, q) \in Nat
         /\ q \in S => Rank(S, q) < Cardinality(S)
<1> DEFINE below == {r \in S : r < q}
<1>1. IsFiniteSet(S)
  BY FS_Subset, GuidsAssumption
<1>2. IsFiniteSet(below) /\ Cardinality(below) \in Nat /\ Cardinality(S) \in Nat
  BY <1>1, FS_Subset, FS_CardinalityType
<1>3. ASSUME q \in S PROVE Cardinality(below) < Cardinality(S)
  <2>1. q \notin below /\ below \subseteq S
    BY GuidsAssumption
  <2> QED
    BY <1>1, <1>2, <1>3, <2>1, FS_Subset
<1> QED
  BY <1>2, <1>3 DEF Rank

\* Two clients never have the same rank.
LEMMA RankInjective ==
  ASSUME NEW S \in SUBSET Guids, NEW p \in S, NEW q \in S, p < q
  PROVE  Rank(S, p) < Rank(S, q)
<1> DEFINE belowP == {r \in S : r < p}
           belowQ == {r \in S : r < q}
<1>1. IsFiniteSet(S)
  BY FS_Subset, GuidsAssumption
<1>2. IsFiniteSet(belowQ) /\ Cardinality(belowP) \in Nat /\ Cardinality(belowQ) \in Nat
  BY <1>1, FS_Subset, FS_CardinalityType
<1>3. S \subseteq Nat
  BY GuidsAssumption
<1>4. belowP \subseteq belowQ /\ p \in belowQ /\ p \notin belowP
  <2>1. ASSUME NEW r \in S, r < p PROVE r < q
    BY <1>3, <2>1
  <2>2. ~ (p < p)
    BY <1>3
  <2>3. belowP \subseteq belowQ
    BY <2>1
  <2> QED
    BY <2>2, <2>3
<1>5. Cardinality(belowP) < Cardinality(belowQ)
  BY <1>2, <1>4, FS_Subset
<1> QED
  BY <1>5 DEF Rank

(***************************************************************************)
(* Types: what a handler receives and posts.                               *)
(***************************************************************************)
\* What a handler takes from a client's stream is a packet of its kind, and the rest stays well typed.
LEMMA ReceiveType ==
  ASSUME NetTypeOK, NEW g \in Guids, NEW kind, Receive(g, kind)
  PROVE  /\ toServer' \in [Guids -> Seq(ServerMsgs)]
         /\ connected' = connected
         /\ Head(toServer[g]) \in ServerMsgs
         /\ Head(toServer[g]).kind = kind
<1>1. toServer[g] \in Seq(ServerMsgs) /\ toServer[g] # <<>>
  BY DEF NetTypeOK, Receive
<1>2. Head(toServer[g]) \in ServerMsgs /\ Tail(toServer[g]) \in Seq(ServerMsgs)
  BY <1>1, HeadTailProperties
<1> QED
  BY <1>2 DEF NetTypeOK, Receive

\* What the server posts to each client keeps the streams to the clients well typed.
LEMMA PostType ==
  ASSUME NetTypeOK, NEW out \in [Guids -> Seq(ClientMsgs)], Post(out)
  PROVE  toClient' \in [Guids -> Seq(ClientMsgs)]
<1>1. ASSUME NEW g \in Guids PROVE toClient[g] \o out[g] \in Seq(ClientMsgs)
  <2>1. toClient[g] \in Seq(ClientMsgs) /\ out[g] \in Seq(ClientMsgs)
    BY DEF NetTypeOK
  <2> QED
    BY <2>1, ConcatProperties
<1> QED
  BY <1>1 DEF NetTypeOK, Post

\* The packet sequences the handlers write are sequences of packets clients understand.
LEMMA MessageSeqs ==
  /\ <<>> \in Seq(ClientMsgs)
  /\ \A m \in ClientMsgs : <<m>> \in Seq(ClientMsgs)
  /\ \A m \in ClientMsgs : <<m, m, m>> \in Seq(ClientMsgs)
OBVIOUS

\* A lobby request carries a name, a start request a class.
LEMMA MessageFields ==
  ASSUME NEW m \in ServerMsgs
  PROVE  /\ m.kind = "THEGAME_LOBBY_READY" => m.name \in Names
         /\ m.kind = "THEGAME_START" => m.class \in PlayerClasses
BY DEF ServerMsgs

\* Every class, also of a player without one, has a health, a damage and a heal.
LEMMA ClassTables ==
  \A class \in PlayerClasses \cup {"null"} :
    StartHealth[class] \in Nat /\ Damage[class] \in Nat /\ Heal[class] \in Nat
BY DEF PlayerClasses, StartHealth, Damage, Heal

\* A failed assert leaves all types as they were.
LEMMA StopType ==
  ASSUME TypeOK, NEW cause \in ServerStates, Stop(cause)
  PROVE  ServerTypeOK' /\ toClient' \in [Guids -> Seq(ClientMsgs)]
BY DEF TypeOK, NetTypeOK, ServerTypeOK, Stop, Registered

\* A connection gives every unindexed player a number as its index.
LEMMA OnIncomingConnectionType ==
  ASSUME TypeOK, NEW g \in Guids, OnIncomingConnection(g)
  PROVE  ServerTypeOK' /\ toClient' \in [Guids -> Seq(ClientMsgs)]
<1> USE DEF TypeOK, ServerTypeOK
<1> DEFINE P == Inserted(g)
           D == Registered \cup {g}
<1>1. DOMAIN P = D /\ \A q \in D : P[q] \in PlayerRecords
  BY DEF Inserted, NewPlayer, PlayerRecords, NoIndex
<1>2. D \subseteq Guids /\ Unindexed(P) \in SUBSET Guids
  BY <1>1 DEF Unindexed
<1>3. Cardinality(Unindexed(P)) \in Nat
  BY <1>2, GuidsAssumption, FS_Subset, FS_CardinalityType
<1>4. \A q \in D : Rank(Unindexed(P), q) \in Nat
  BY <1>2, RankBound
<1>5. players' = Indexed(P) /\ playerNUM' = playerNUM + Cardinality(Unindexed(P))
  BY DEF OnIncomingConnection
<1> HIDE DEF P
<1>6. players' = [q \in D |-> IF q \in Unindexed(P)
                               THEN [P[q] EXCEPT !.index = playerNUM + Rank(Unindexed(P), q)]
                               ELSE P[q]]
  BY <1>1, <1>5 DEF Indexed
<1>7. \A q \in D : players'[q] \in PlayerRecords
  BY <1>1, <1>4, <1>6 DEF PlayerRecords
<1>8. Registered' = D
  BY <1>6 DEF Registered
<1>9. UNCHANGED <<server, winners, toClient>>
  BY DEF OnIncomingConnection
<1>10. players' = [q \in D |-> players'[q]]
  BY <1>6
<1> QED
  BY <1>2, <1>3, <1>5, <1>7, <1>8, <1>9, <1>10 DEF NetTypeOK

\* A lobby request stores a name and asks for classes.
LEMMA OnLobbyReadyType ==
  ASSUME TypeOK, NEW g \in Guids, OnLobbyReady(g)
  PROVE  ServerTypeOK' /\ toClient' \in [Guids -> Seq(ClientMsgs)]
<1> DEFINE name == Head(toServer[g]).name
<1>1. name \in Names
  BY ReceiveType, MessageFields DEF TypeOK, OnLobbyReady
<1>2. CASE g \notin Registered
  BY <1>2, StopType DEF OnLobbyReady, ServerStates
<1>3. CASE g \in Registered /\ NameTaken(g, name)
  <2>1. [Silence EXCEPT ![g] = <<"PLAYER_RENAME">>] \in [Guids -> Seq(ClientMsgs)]
    BY MessageSeqs DEF Silence, ClientMsgs
  <2>2. toClient' \in [Guids -> Seq(ClientMsgs)]
    BY <1>3, <2>1, PostType DEF OnLobbyReady, TypeOK
  <2>3. UNCHANGED serverVars
    BY <1>3 DEF OnLobbyReady
  <2> QED
    BY <2>2, <2>3 DEF TypeOK, ServerTypeOK, serverVars, Registered
<1>4. CASE g \in Registered /\ ~NameTaken(g, name)
  <2>1. ChooseClassCalls(g) \in [Guids -> Seq(ClientMsgs)]
    <3>1. /\ <<"CHOOSE_CLASS">> \in Seq(ClientMsgs)
          /\ <<"CHOOSE_CLASS", "CHOOSE_CLASS", "CHOOSE_CLASS">> \in Seq(ClientMsgs)
      BY MessageSeqs DEF ClientMsgs
    <3> QED
      BY <3>1, MessageSeqs DEF ChooseClassCalls, Silence
  <2>2. toClient' \in [Guids -> Seq(ClientMsgs)]
    BY <1>4, <2>1, PostType DEF OnLobbyReady, TypeOK
  <2>3. /\ players' = [players EXCEPT ![g].name = name]
        /\ UNCHANGED <<playerNUM, server, winners>>
    BY <1>4 DEF OnLobbyReady
  <2> QED
    BY <1>1, <2>2, <2>3 DEF TypeOK, ServerTypeOK, Registered, PlayerRecords
<1> QED
  BY <1>2, <1>3, <1>4

\* A start request stores a class and the health that belongs to it.
LEMMA StartGameType ==
  ASSUME TypeOK, NEW g \in Guids, StartGame(g)
  PROVE  ServerTypeOK' /\ toClient' \in [Guids -> Seq(ClientMsgs)]
<1> DEFINE class == Head(toServer[g]).class
<1>1. class \in PlayerClasses
  BY ReceiveType, MessageFields DEF TypeOK, StartGame
<1>2. CASE g \notin Registered
  BY <1>2, StopType DEF StartGame, ServerStates
<1>3. CASE g \in Registered
  <2>1. /\ players' = [players EXCEPT ![g].class = class, ![g].health = StartHealth[class]]
        /\ UNCHANGED <<playerNUM, server, winners, toClient>>
    BY <1>3 DEF StartGame
  <2>2. StartHealth[class] \in Int
    BY <1>1, ClassTables
  <2>3. players'[g] \in PlayerRecords
    BY <1>1, <1>3, <2>1, <2>2 DEF TypeOK, ServerTypeOK, Registered, PlayerRecords
  <2> QED
    BY <2>1, <2>3 DEF TypeOK, NetTypeOK, ServerTypeOK, Registered
<1> QED
  BY <1>2, <1>3

\* The next player is one who is not marked dead.
LEMMA NextPlayerStands ==
  ASSUME NEW P, DOMAIN P \subseteq Guids, NEW g \in Guids, Standing(P) # {}
  PROVE  NextPlayer(P, g) \in Standing(P)
<1> DEFINE after == {q \in Standing(P) : q > g}
<1>1. Standing(P) \in SUBSET Nat /\ after \in SUBSET Nat
  BY GuidsAssumption DEF Standing
<1>2. CASE after # {}
  BY <1>1, <1>2, LeastIn DEF NextPlayer
<1>3. CASE after = {}
  BY <1>1, <1>3, LeastIn DEF NextPlayer
<1> QED
  BY <1>2, <1>3

\* A turn leaves player records that are well typed and registers nobody.
LEMMA AfterActionType ==
  ASSUME TypeOK, NEW g \in Registered, NEW action, NEW target
  PROVE  LET acted == AfterAction(g, action, target)
         IN  /\ DOMAIN acted = Registered
             /\ \A q \in Registered : acted[q] \in PlayerRecords
<1> USE DEF TypeOK, ServerTypeOK
<1>1. players[g].class \in PlayerClasses \cup {"null"} /\ players[g].health \in Int
  BY DEF PlayerRecords
<1>2. Damage[players[g].class] \in Int /\ Heal[players[g].class] \in Int
  BY <1>1, ClassTables
<1>3. /\ DOMAIN Healed(g) = Registered
      /\ \A q \in Registered : Healed(g)[q] \in PlayerRecords
  <2>1. Healed(g) \in {players, [players EXCEPT ![g].health = @ + Heal[players[g].class]]}
    BY DEF Healed
  <2>2. [players[g] EXCEPT !.health = @ + Heal[players[g].class]] \in PlayerRecords
    BY <1>1, <1>2 DEF PlayerRecords
  <2> QED
    BY <2>1, <2>2 DEF Registered
<1>4. /\ DOMAIN Damaged(g, target) = Registered
      /\ \A q \in Registered : Damaged(g, target)[q] \in PlayerRecords
  <2>1. ASSUME NEW q \in Registered
        PROVE  [players[q] EXCEPT !.health = @ - Damage[players[g].class]] \in PlayerRecords
    BY <1>2 DEF PlayerRecords
  <2> QED
    BY <2>1 DEF Damaged
<1> QED
  BY <1>3, <1>4 DEF AfterAction, Registered

\* Marking the dead changes nothing but their isdead.
LEMMA BuriedType ==
  ASSUME NEW P, NEW D, DOMAIN P = D, \A q \in D : P[q] \in PlayerRecords
  PROVE  /\ Buried(P) = [q \in D |-> Buried(P)[q]]
         /\ DOMAIN Buried(P) = D
         /\ \A q \in D : Buried(P)[q] \in PlayerRecords
<1>1. \A q \in D : [P[q] EXCEPT !.isdead = TRUE] \in PlayerRecords
  BY DEF PlayerRecords
<1> QED
  BY <1>1 DEF Buried

\* Passing the turn sends packets clients understand.
LEMMA TurnPacketsType ==
  ASSUME NEW g, NEW next, NEW fallen, NEW won
  PROVE  TurnPackets(g, next, fallen, won) \in [Guids -> Seq(ClientMsgs)]
<1>1. ASSUME NEW a \in {<<>>, <<"LEAVE">>}, NEW b \in {<<>>, <<"WAITING">>},
             NEW c \in {<<>>, <<"MAIN_GAME">>}
      PROVE  a \o b \o c \in Seq(ClientMsgs)
  <2>1. a \in Seq(ClientMsgs) /\ b \in Seq(ClientMsgs) /\ c \in Seq(ClientMsgs)
    BY MessageSeqs DEF ClientMsgs
  <2>2. a \o b \in Seq(ClientMsgs)
    BY <2>1, ConcatProperties
  <2> QED
    BY <2>1, <2>2, ConcatProperties
<1> QED
  BY <1>1 DEF TurnPackets

\* The whole step of passing the turn keeps the types.
LEMMA PassTurnType ==
  ASSUME TypeOK, NEW g \in Registered, NEW action, NEW acted,
         DOMAIN acted = Registered, \A q \in Registered : acted[q] \in PlayerRecords,
         PassTurn(g, action, acted)
  PROVE  ServerTypeOK' /\ toClient' \in [Guids -> Seq(ClientMsgs)]
<1> DEFINE fallen == Fallen(acted)
           buried == Buried(acted)
           next == NextPlayer(buried, g)
           won == Cardinality(fallen) = 2
<1>1. CASE \E cause \in ServerStates : Stop(cause)
  BY <1>1, StopType
<1>2. CASE /\ Standing(buried) # {}
           /\ players' = buried
           /\ winners' = IF won THEN winners \cup {next} ELSE winners
           /\ Post(TurnPackets(g, next, fallen, won))
           /\ UNCHANGED <<playerNUM, server>>
  <2>1. /\ buried = [q \in Registered |-> buried[q]]
        /\ DOMAIN buried = Registered
        /\ \A q \in Registered : buried[q] \in PlayerRecords
    BY BuriedType
  <2>2. next \in Registered
    BY <1>2, <2>1, NextPlayerStands DEF TypeOK, ServerTypeOK, Standing
  <2>3. toClient' \in [Guids -> Seq(ClientMsgs)]
    BY <1>2, TurnPacketsType, PostType DEF TypeOK
  <2>4. Registered' = Registered
    BY <1>2, <2>1 DEF Registered
  <2> HIDE DEF buried, next, won
  <2> QED
    BY <1>2, <2>1, <2>2, <2>3, <2>4 DEF TypeOK, ServerTypeOK
<1> QED
  BY <1>1, <1>2 DEF PassTurn, ServerStates

\* A turn, refused or played, keeps the types.
LEMMA sendOrderType ==
  ASSUME TypeOK, NEW g \in Guids, sendOrder(g)
  PROVE  ServerTypeOK' /\ toClient' \in [Guids -> Seq(ClientMsgs)]
<1> DEFINE msg == Head(toServer[g])
<1>1. CASE UNCHANGED <<serverVars, toClient>>
  BY <1>1 DEF TypeOK, NetTypeOK, ServerTypeOK, serverVars, Registered
<1>2. CASE Stop("unknownPlayer")
  BY <1>2, StopType DEF ServerStates
<1>3. CASE g \in Registered /\ RepeatTurn(g)
  <2>1. CASE Stop("unassignedAddress")
    BY <2>1, StopType DEF ServerStates
  <2>2. CASE Post([Silence EXCEPT ![g] = <<"MAIN_GAME">>]) /\ UNCHANGED serverVars
    <3>1. [Silence EXCEPT ![g] = <<"MAIN_GAME">>] \in [Guids -> Seq(ClientMsgs)]
      BY MessageSeqs DEF Silence, ClientMsgs
    <3>2. toClient' \in [Guids -> Seq(ClientMsgs)]
      BY <2>2, <3>1, PostType DEF TypeOK
    <3> QED
      BY <2>2, <3>2 DEF TypeOK, ServerTypeOK, serverVars, Registered
  <2> QED
    BY <1>3, <2>1, <2>2 DEF RepeatTurn
<1>4. ASSUME NEW action, g \in Registered,
             PassTurn(g, action, AfterAction(g, action, msg.target))
      PROVE  ServerTypeOK' /\ toClient' \in [Guids -> Seq(ClientMsgs)]
  BY <1>4, AfterActionType, PassTurnType
<1> QED
  BY <1>1, <1>2, <1>3, <1>4 DEF sendOrder

\* The status request keeps the types.
LEMMA checkstatType ==
  ASSUME TypeOK, NEW g \in Guids, checkstat(g)
  PROVE  ServerTypeOK' /\ toClient' \in [Guids -> Seq(ClientMsgs)]
<1>1. CASE UNCHANGED <<serverVars, toClient>>
  BY <1>1 DEF TypeOK, NetTypeOK, ServerTypeOK, serverVars, Registered
<1>2. CASE \E cause \in ServerStates : Stop(cause)
  BY <1>2, StopType
<1> QED
  BY <1>1, <1>2 DEF checkstat, ServerStates

\* Every handler of the server keeps the types.
LEMMA ServerStepType ==
  ASSUME TypeOK, NEW g \in Guids, ServerStep(g), UNCHANGED clientVars
  PROVE  TypeOK'
<1>1. \E kind : Receive(g, kind)
  BY DEF ServerStep, OnIncomingConnection, OnLobbyReady, StartGame, checkstat, sendOrder
<1>2. toServer' \in [Guids -> Seq(ServerMsgs)] /\ connected' = connected
  BY <1>1, ReceiveType DEF TypeOK
<1>3. ServerTypeOK' /\ toClient' \in [Guids -> Seq(ClientMsgs)]
  BY OnIncomingConnectionType, OnLobbyReadyType, StartGameType, checkstatType,
     sendOrderType DEF ServerStep
<1>4. ClientTypeOK'
  BY DEF TypeOK, ClientTypeOK, clientVars
<1> QED
  BY <1>2, <1>3, <1>4 DEF TypeOK, NetTypeOK

(***************************************************************************)
(* Types: the clients.                                                     *)
(***************************************************************************)
\* What a client sends keeps the streams to the server well typed.
LEMMA SendToServerType ==
  ASSUME NetTypeOK, NEW g \in Guids, NEW m \in ServerMsgs, SendToServer(g, m),
         UNCHANGED <<toClient, connected>>
  PROVE  NetTypeOK'
<1>1. Append(toServer[g], m) \in Seq(ServerMsgs)
  BY AppendProperties DEF NetTypeOK
<1> QED
  BY <1>1 DEF NetTypeOK, SendToServer

\* A connection keeps the types of the network.
LEMMA AcceptConnectionType ==
  ASSUME NetTypeOK, NEW g \in Guids, AcceptConnection(g)
  PROVE  NetTypeOK'
<1>1. [kind |-> "NEW_INCOMING_CONNECTION"] \in ServerMsgs
  BY DEF ServerMsgs
<1>2. <<[kind |-> "NEW_INCOMING_CONNECTION"]>> \in Seq(ServerMsgs)
  BY <1>1
<1>3. <<"CONNECTION_REQUEST_ACCEPTED">> \in Seq(ClientMsgs)
  BY MessageSeqs DEF ClientMsgs
<1> QED
  BY <1>2, <1>3 DEF NetTypeOK, AcceptConnection

\* A disconnection keeps the types of the network.
LEMMA DropConnectionType ==
  ASSUME NetTypeOK, NEW g \in Guids, DropConnection(g)
  PROVE  NetTypeOK'
<1>1. PICK k \in 0..Len(toServer[g]) :
        toServer' = [toServer EXCEPT ![g] = SubSeq(@, 1, k)]
  BY DEF DropConnection
<1>2. toServer[g] \in Seq(ServerMsgs)
  BY DEF NetTypeOK
<1>3. \A i \in 1..k : toServer[g][i] \in ServerMsgs
  BY <1>2, LenProperties, ElementOfSeq
<1>4. SubSeq(toServer[g], 1, k) \in Seq(ServerMsgs)
  BY <1>2, <1>3, LenProperties, SubSeqProperties
<1>5. <<>> \in Seq(ClientMsgs)
  BY MessageSeqs
<1> QED
  BY <1>1, <1>4, <1>5 DEF NetTypeOK, DropConnection

\* What a client takes from its stream is a packet it understands.
LEMMA GetPacketType ==
  ASSUME NetTypeOK, NEW g \in Guids, NEW kind, GetPacket(g, kind)
  PROVE  NetTypeOK'
<1>1. toClient[g] \in Seq(ClientMsgs) /\ toClient[g] # <<>>
  BY DEF NetTypeOK, GetPacket
<1>2. Tail(toClient[g]) \in Seq(ClientMsgs)
  BY <1>1, HeadTailProperties
<1> QED
  BY <1>2 DEF NetTypeOK, GetPacket

\* What the users make the clients send is a message the server knows.
LEMMA UserMessages ==
  ASSUME NEW g \in Guids
  PROVE  /\ \A name \in Typed[g] : [kind |-> "THEGAME_LOBBY_READY", name |-> name] \in ServerMsgs
         /\ \A class \in Picks[g] : [kind |-> "THEGAME_START", class |-> class] \in ServerMsgs
         /\ [kind |-> "CHECK_STAT"] \in ServerMsgs
         /\ [kind |-> "CHECK_ALL_READY", action |-> "none", target |-> ""] \in ServerMsgs
         /\ Moves \subseteq ServerMsgs
<1>1. Typed[g] \subseteq Names /\ Picks[g] \subseteq PlayerClasses
  BY UsersAssumption
<1>2. Choices \subseteq ServerMsgs
  <2>1. \A t \in {"1", "2", "3"} :
          [kind |-> "CHECK_ALL_READY", action |-> "damage", target |-> t] \in ServerMsgs
    BY DEF ServerMsgs, WireActions, Targets
  <2>2. \A a \in {"heal", "none"} :
          [kind |-> "CHECK_ALL_READY", action |-> a, target |-> ""] \in ServerMsgs
    BY DEF ServerMsgs, WireActions, Targets
  <2> QED
    BY <2>1, <2>2 DEF Choices
<1>3. /\ [kind |-> "CHECK_STAT"] \in ServerMsgs
      /\ [kind |-> "CHECK_ALL_READY", action |-> "none", target |-> ""] \in ServerMsgs
  BY DEF ServerMsgs, WireActions, Targets
<1>4. /\ \A name \in Names : [kind |-> "THEGAME_LOBBY_READY", name |-> name] \in ServerMsgs
      /\ \A class \in PlayerClasses : [kind |-> "THEGAME_START", class |-> class] \in ServerMsgs
  BY DEF ServerMsgs
<1> QED
  BY <1>1, <1>2, <1>3, <1>4, UsersAssumption

\* What a user types keeps the types.
LEMMA UserStepType ==
  ASSUME NetTypeOK, ClientTypeOK, NEW g \in Guids, UserStep(g)
  PROVE  NetTypeOK' /\ ClientTypeOK'
<1> USE DEF ClientTypeOK, NetworkStates, InputPlaces, PacketPlaces
<1>1. CASE ChooseRole(g)
  BY <1>1 DEF ChooseRole, SetState, NetTypeOK, netVars
<1>2. CASE EnterName(g)
  BY <1>2, UserMessages, SendToServerType DEF EnterName, InputAt
<1>3. CASE EnterClass(g)
  BY <1>3, UserMessages, SendToServerType DEF EnterClass, InputAt
<1>4. CASE EnterStat(g)
  <2>1. NetTypeOK'
    <3>1. CASE SendToServer(g, [kind |-> "CHECK_STAT"])
      BY <1>4, <3>1, UserMessages, SendToServerType DEF EnterStat
    <3>2. CASE UNCHANGED toServer
      BY <1>4, <3>2 DEF EnterStat, NetTypeOK
    <3> QED
      BY <1>4, <3>1, <3>2 DEF EnterStat
  <2> QED
    BY <1>4, <2>1 DEF EnterStat, InputAt
<1>5. CASE EnterChoice(g)
  BY <1>5, UserMessages, SendToServerType DEF EnterChoice, InputAt
<1>6. CASE EnterNewName(g)
  BY <1>6, UserMessages, SendToServerType DEF EnterNewName
<1>7. CASE Quit(g)
  BY <1>7, DropConnectionType DEF Quit, Exit, SetState
<1> QED
  BY <1>1, <1>2, <1>3, <1>4, <1>5, <1>6, <1>7 DEF UserStep

\* The polls and the late stores of InputHandler keep the types.
LEMMA InputStepType ==
  ASSUME NetTypeOK, ClientTypeOK, NEW g \in Guids, InputStep(g)
  PROVE  NetTypeOK' /\ ClientTypeOK'
<1> USE DEF ClientTypeOK, NetworkStates, InputPlaces
<1>1. ASSUME NEW state, NEW place \in InputPlaces, Poll(g, state, place)
      PROVE  NetTypeOK' /\ ClientTypeOK'
  BY <1>1 DEF Poll, InputAt, NetTypeOK, netVars
<1>2. ASSUME NEW place, NEW state \in NetworkStates, Store(g, place, state)
      PROVE  NetTypeOK' /\ ClientTypeOK'
  BY <1>2 DEF Store, InputAt, SetState, NetTypeOK, netVars
<1>3. CASE PollInGame(g)
  BY <1>3, UserMessages, SendToServerType DEF PollInGame, InputAt
<1> QED
  BY <1>1, <1>2, <1>3 DEF InputStep, PollLobby, PollChooseClass, PollWaiting,
     PollInputChoice, StorePending, StoreInGame, StoreWaiting

\* Every handler of a client keeps the types.
LEMMA PacketStepType ==
  ASSUME NetTypeOK, ClientTypeOK, NEW g \in Guids, PacketStep(g)
  PROVE  NetTypeOK' /\ ClientTypeOK'
<1> USE DEF ClientTypeOK, NetworkStates, InputPlaces, PacketPlaces, SetState
<1>1. CASE OnConnectionAccepted(g)
  BY <1>1, GetPacketType DEF OnConnectionAccepted, GetPacket
<1>2. CASE ChooseClass(g)
  BY <1>2, GetPacketType DEF ChooseClass, GetPacket
<1>3. CASE inputorder(g)
  BY <1>3, GetPacketType DEF inputorder, GetPacket
<1>4. CASE waiting(g)
  BY <1>4, GetPacketType DEF waiting, GetPacket
<1>5. CASE Rename(g)
  BY <1>5, GetPacketType DEF Rename, GetPacket
<1>6. CASE RenameStorePending(g)
  BY <1>6 DEF RenameStorePending, NetTypeOK, netVars
<1>7. CASE leavegame(g)
  BY <1>7 DEF leavegame, NetTypeOK, netVars
<1>8. CASE LeaveExit(g)
  BY <1>8, DropConnectionType DEF LeaveExit, Exit
<1> QED
  BY <1>1, <1>2, <1>3, <1>4, <1>5, <1>6, <1>7, <1>8 DEF PacketStep

\* Every step of a client's process keeps the types.
LEMMA ClientStepType ==
  ASSUME TypeOK, NEW g \in Guids, ClientStep(g), UNCHANGED serverVars
  PROVE  TypeOK'
<1>1. ASSUME StartPeer(g) PROVE NetTypeOK' /\ ClientTypeOK'
  BY <1>1 DEF StartPeer, SetState, TypeOK, NetTypeOK, ClientTypeOK, NetworkStates, netVars
<1>2. ASSUME Connect(g) PROVE NetTypeOK' /\ ClientTypeOK'
  BY <1>2, AcceptConnectionType DEF Connect, TypeOK, ClientTypeOK, clientVars
<1>3. NetTypeOK' /\ ClientTypeOK'
  BY <1>1, <1>2, UserStepType, InputStepType, PacketStepType DEF ClientStep, TypeOK
<1> QED
  BY <1>3 DEF TypeOK, ServerTypeOK, serverVars, Registered

(***************************************************************************)
(* The variables keep their types in every behaviour of the game: in       *)
(* particular every packet in a stream is one its receiver understands,    *)
(* every player the server knows is a client, with health that stays a     *)
(* number, and every announced winner is a registered player.              *)
(***************************************************************************)
\* The game starts with every variable in its type.
LEMMA InitType == Init => TypeOK
<1> SUFFICES ASSUME Init PROVE TypeOK
  OBVIOUS
<1>1. NetTypeOK
  BY MessageSeqs DEF Init, NetInit, NetTypeOK
<1>2. Registered = {}
  BY DEF Init, ServerInit, Registered
<1>3. ServerTypeOK
  BY <1>2 DEF Init, ServerInit, ServerTypeOK, ServerStates
<1>4. ClientTypeOK
  BY DEF Init, ClientInit, ClientTypeOK, NetworkStates, InputPlaces, PacketPlaces
<1> QED
  BY <1>1, <1>3, <1>4 DEF TypeOK

\* Every step of the game keeps every variable in its type.
LEMMA NextType == TypeOK /\ [Next]_vars => TypeOK'
<1> SUFFICES ASSUME TypeOK, [Next]_vars PROVE TypeOK'
  OBVIOUS
<1>1. CASE Next
  BY <1>1, ServerStepType, ClientStepType DEF Next
<1>2. CASE UNCHANGED vars
  BY <1>2 DEF vars, TypeOK, NetTypeOK, ServerTypeOK, ClientTypeOK, netVars, serverVars,
     clientVars, Registered
<1> QED
  BY <1>1, <1>2

\* Every variable of the game keeps its type: the streams carry only packets their receivers
\* have a handler for, and every announced winner is a registered player.
THEOREM TypeCorrect == Spec => []TypeOK
BY InitType, NextType, PTL DEF Spec

(***************************************************************************)
(* No game packet comes from an unregistered client.  Inductive: a client  *)
(* the server does not know has no connection and nothing in its stream,   *)
(* or the stream still starts with the packet that registers it.           *)
(***************************************************************************)
RegistrationFirst ==
  \A g \in Guids \ Registered :
    \/ toServer[g] = <<>> /\ g \notin connected
    \/ toServer[g] # <<>> /\ Head(toServer[g]).kind = "NEW_INCOMING_CONNECTION"

KnownInv == TypeOK /\ RegistrationFirst /\ NeverUnknownPlayer

\* Entries are only added, and only for the client that has just connected.
LEMMA RegisteredGrows ==
  ASSUME TypeOK, NEW g \in Guids, ServerStep(g)
  PROVE  \/ OnIncomingConnection(g) /\ Registered' = Registered \cup {g}
         \/ ~OnIncomingConnection(g) /\ Registered' = Registered
<1>1. ASSUME OnIncomingConnection(g) PROVE Registered' = Registered \cup {g}
  <2>1. DOMAIN Inserted(g) = Registered \cup {g}
    BY DEF Inserted
  <2>2. players' = Indexed(Inserted(g))
    BY <1>1 DEF OnIncomingConnection
  <2> QED
    BY <2>1, <2>2 DEF Indexed, Registered
<1>2. ASSUME players' = players PROVE Registered' = Registered
  BY <1>2 DEF Registered
<1>3. ASSUME OnLobbyReady(g) PROVE Registered' = Registered
  BY <1>2, <1>3 DEF OnLobbyReady, Stop, serverVars, Registered
<1>4. ASSUME StartGame(g) PROVE Registered' = Registered
  BY <1>2, <1>4 DEF StartGame, Stop, Registered
<1>5. ASSUME checkstat(g) PROVE Registered' = Registered
  BY <1>2, <1>5 DEF checkstat, Stop, serverVars
<1>6. ASSUME sendOrder(g) PROVE Registered' = Registered
  <2>1. ASSUME NEW action, NEW target, g \in Registered,
               PassTurn(g, action, AfterAction(g, action, target))
        PROVE  Registered' = Registered
    <3>1. DOMAIN Buried(AfterAction(g, action, target)) = Registered
      BY <2>1, AfterActionType DEF Buried
    <3>2. players' \in {players, Buried(AfterAction(g, action, target))}
      BY <2>1 DEF PassTurn, Stop
    <3> QED
      BY <3>1, <3>2 DEF Registered
  <2>2. ASSUME RepeatTurn(g) PROVE Registered' = Registered
    BY <1>2, <2>2 DEF RepeatTurn, Stop, serverVars
  <2>3. ASSUME Stop("unknownPlayer") PROVE Registered' = Registered
    BY <1>2, <2>3 DEF Stop
  <2> QED
    BY <1>2, <1>6, <2>1, <2>2, <2>3 DEF sendOrder, serverVars
<1> QED
  BY <1>1, <1>3, <1>4, <1>5, <1>6 DEF ServerStep

\* A handler of the server finds its sender, and leaves the order of registration intact.
LEMMA KnownServer ==
  ASSUME KnownInv, NEW g \in Guids, ServerStep(g)
  PROVE  RegistrationFirst' /\ NeverUnknownPlayer'
<1> USE DEF KnownInv
<1>1. \E kind : Receive(g, kind)
  BY DEF ServerStep, OnIncomingConnection, OnLobbyReady, StartGame, checkstat, sendOrder
<1>2. \A q \in Guids \ {g} : toServer'[q] = toServer[q]
  BY <1>1 DEF Receive, TypeOK, NetTypeOK
<1>3. connected' = connected
  BY <1>1 DEF Receive
<1>4. Registered \subseteq Registered' /\ (OnIncomingConnection(g) => g \in Registered')
  BY RegisteredGrows
<1>5. ASSUME ~OnIncomingConnection(g) PROVE g \in Registered
  <2>1. toServer[g] # <<>> /\ Head(toServer[g]).kind # "NEW_INCOMING_CONNECTION"
    BY <1>5 DEF ServerStep, OnLobbyReady, StartGame, checkstat, sendOrder, Receive
  <2> QED
    BY <2>1 DEF RegistrationFirst
<1>6. RegistrationFirst'
  BY <1>2, <1>3, <1>4, <1>5 DEF RegistrationFirst
<1>7. NeverUnknownPlayer'
  <2>1. CASE OnIncomingConnection(g)
    BY <2>1 DEF OnIncomingConnection, NeverUnknownPlayer
  <2>2. CASE ~OnIncomingConnection(g)
    BY <1>5, <2>2 DEF ServerStep, OnLobbyReady, StartGame, checkstat, sendOrder, Stop,
       RepeatTurn, PassTurn, NeverUnknownPlayer, serverVars
  <2> QED
    BY <2>1, <2>2
<1> QED
  BY <1>6, <1>7

\* All a step of a client does to its stream to the server.
LEMMA ClientNetEffect ==
  ASSUME NEW g \in Guids, ClientStep(g)
  PROVE  \/ UNCHANGED <<toServer, connected>>
         \/ (\E m \in ServerMsgs : SendToServer(g, m)) /\ UNCHANGED connected
         \/ AcceptConnection(g)
         \/ DropConnection(g)
<1>1. CASE StartPeer(g)
  BY <1>1 DEF StartPeer, netVars
<1>2. CASE Connect(g)
  BY <1>2 DEF Connect
<1>3. CASE UserStep(g)
  BY <1>3, UserMessages DEF UserStep, ChooseRole, EnterName, EnterClass, EnterStat,
     EnterChoice, EnterNewName, Quit, Exit, netVars
<1>4. CASE InputStep(g)
  BY <1>4, UserMessages DEF InputStep, PollLobby, PollChooseClass, PollInGame, PollWaiting,
     PollInputChoice, StorePending, StoreInGame, StoreWaiting, Poll, Store, netVars
<1>5. CASE PacketStep(g)
  BY <1>5 DEF PacketStep, OnConnectionAccepted, ChooseClass, inputorder, waiting, Rename,
     RenameStorePending, leavegame, LeaveExit, Exit, GetPacket, netVars
<1> QED
  BY <1>1, <1>2, <1>3, <1>4, <1>5 DEF ClientStep

\* A client sends nothing a handler looks it up for before it has announced itself.
LEMMA KnownClient ==
  ASSUME TypeOK, RegistrationFirst, NEW g \in Guids, ClientStep(g), UNCHANGED serverVars
  PROVE  RegistrationFirst'
<1>1. Registered' = Registered
  BY DEF serverVars, Registered
<1>2. toServer \in [Guids -> Seq(ServerMsgs)]
  BY DEF TypeOK, NetTypeOK
<1>3. CASE UNCHANGED <<toServer, connected>>
  BY <1>1, <1>3 DEF RegistrationFirst
<1>4. ASSUME NEW m \in ServerMsgs, SendToServer(g, m), UNCHANGED connected
      PROVE  RegistrationFirst'
  <2>1. CASE g \notin connected
    BY <1>1, <1>4, <2>1 DEF RegistrationFirst, SendToServer
  <2>2. CASE g \in connected
    <3>1. toServer' = [toServer EXCEPT ![g] = Append(@, m)]
      BY <1>4, <2>2 DEF SendToServer
    <3>2. toServer[g] \in Seq(ServerMsgs)
      BY <1>2
    <3>3. /\ Append(toServer[g], m) # <<>>
          /\ toServer[g] # <<>> => Head(Append(toServer[g], m)) = Head(toServer[g])
      BY <3>2, AppendProperties, HeadTailAppend
    <3> QED
      BY <1>1, <1>2, <1>4, <2>2, <3>1, <3>3 DEF RegistrationFirst
  <2> QED
    BY <2>1, <2>2
<1>5. CASE AcceptConnection(g)
  <2>1. Head(<<[kind |-> "NEW_INCOMING_CONNECTION"]>>) = [kind |-> "NEW_INCOMING_CONNECTION"]
    OBVIOUS
  <2>2. toServer' = [toServer EXCEPT ![g] = <<[kind |-> "NEW_INCOMING_CONNECTION"]>>]
    BY <1>5 DEF AcceptConnection
  <2>3. connected' = connected \cup {g}
    BY <1>5 DEF AcceptConnection
  <2> QED
    BY <1>1, <1>2, <2>1, <2>2, <2>3 DEF RegistrationFirst
<1>6. CASE DropConnection(g)
  <2>1. PICK k \in 0..Len(toServer[g]) :
          toServer' = [toServer EXCEPT ![g] = SubSeq(@, 1, k)]
    BY <1>6 DEF DropConnection
  <2>2. connected' = connected \ {g}
    BY <1>6 DEF DropConnection
  <2>3. toServer[g] \in Seq(ServerMsgs) /\ Len(toServer[g]) \in Nat
    BY <1>2, LenProperties
  <2>4. CASE k = 0
    <3>1. SubSeq(toServer[g], 1, k) = <<>>
      BY <2>4, SubSeqEmpty
    <3> QED
      BY <1>1, <1>2, <2>1, <2>2, <3>1 DEF RegistrationFirst
  <2>5. CASE k # 0
    <3>1. 1 \in 1..Len(toServer[g]) /\ k \in 1..Len(toServer[g])
      BY <2>3, <2>5
    <3>2. SubSeq(toServer[g], 1, k) # <<>>
      BY <2>3, <3>1, SubSeqRecursiveFirst
    <3>3. Head(SubSeq(toServer[g], 1, k)) = Head(toServer[g])
      BY <2>3, <3>1, HeadTailOfSubSeq
    <3>4. toServer[g] # <<>>
      BY <2>3, <3>1, EmptySeq
    <3> DEFINE kept == SubSeq(toServer[g], 1, k)
    <3>5. /\ toServer' = [toServer EXCEPT ![g] = kept]
          /\ kept # <<>> /\ Head(kept) = Head(toServer[g])
      BY <2>1, <3>2, <3>3
    <3> HIDE DEF kept
    <3> QED
      BY <1>1, <1>2, <2>2, <3>4, <3>5 DEF RegistrationFirst
  <2> QED
    BY <2>4, <2>5
<1> QED
  BY <1>3, <1>4, <1>5, <1>6, ClientNetEffect

\* Whatever clients do and however often they come and go, the look-ups of the game
\* handlers find their sender: none of the asserts "somehow player didn't connect" fails.
THEOREM NoUnknownPlayer == Spec => []NeverUnknownPlayer
<1>1. Init => KnownInv
  <2> SUFFICES ASSUME Init PROVE KnownInv
    OBVIOUS
  <2>1. TypeOK
    BY InitType
  <2> QED
    BY <2>1 DEF KnownInv, Init, NetInit, ServerInit, RegistrationFirst, NeverUnknownPlayer
<1>2. KnownInv /\ [Next]_vars => KnownInv'
  <2> SUFFICES ASSUME KnownInv, [Next]_vars PROVE KnownInv'
    OBVIOUS
  <2>1. TypeOK'
    BY NextType DEF KnownInv
  <2>2. ASSUME NEW g \in Guids, ServerStep(g) PROVE KnownInv'
    BY <2>1, <2>2, KnownServer DEF KnownInv
  <2>3. ASSUME NEW g \in Guids, ClientStep(g), UNCHANGED serverVars PROVE KnownInv'
    BY <2>1, <2>3, KnownClient DEF KnownInv, NeverUnknownPlayer, serverVars
  <2>4. CASE UNCHANGED vars
    BY <2>1, <2>4 DEF KnownInv, RegistrationFirst, NeverUnknownPlayer, vars, netVars,
       serverVars, Registered
  <2> QED
    BY <2>2, <2>3, <2>4 DEF Next
<1>3. KnownInv => NeverUnknownPlayer
  BY DEF KnownInv
<1> QED
  BY <1>1, <1>2, <1>3, PTL DEF Spec

(***************************************************************************)
(* Indices.  Inductive: every index handed out is below the counter, so    *)
(* the ones handed out next cannot meet an old one.                        *)
(***************************************************************************)
IndexInv ==
  /\ TypeOK
  /\ \A q \in Registered : players[q].index < playerNUM
  /\ IndicesDistinct

\* An action and what follows from it leave indices, names and classes alone.
LEMMA PassTurnKeeps ==
  ASSUME TypeOK, NEW g \in Guids, g \in Registered, NEW action, NEW target,
         PassTurn(g, action, AfterAction(g, action, target))
  PROVE  /\ playerNUM' = playerNUM
         /\ \A q \in Registered : /\ players'[q].index = players[q].index
                                  /\ players'[q].name = players[q].name
                                  /\ players'[q].class = players[q].class
<1> USE DEF TypeOK, ServerTypeOK
<1> DEFINE acted == AfterAction(g, action, target)
           Same(p, q) == p.index = q.index /\ p.name = q.name /\ p.class = q.class
<1>1. \A q \in Registered : Same(Healed(g)[q], players[q])
  BY DEF Healed, Registered, PlayerRecords
<1>2. \A q \in Registered : Same(Damaged(g, target)[q], players[q])
  BY DEF Damaged, PlayerRecords
<1>3. \A q \in Registered : Same(acted[q], players[q])
  BY <1>1, <1>2 DEF AfterAction
<1>4. DOMAIN acted = Registered /\ \A q \in Registered : acted[q] \in PlayerRecords
  BY AfterActionType
<1> HIDE DEF acted
<1>5. \A q \in Registered : Same(Buried(acted)[q], acted[q])
  BY <1>4 DEF Buried, PlayerRecords
<1>6. players' \in {players, Buried(acted)} /\ playerNUM' = playerNUM
  BY DEF PassTurn, Stop, acted
<1> QED
  BY <1>3, <1>5, <1>6

\* Only a connection gives indices away.
LEMMA IndicesKept ==
  ASSUME TypeOK, NEW g \in Guids, ServerStep(g), ~OnIncomingConnection(g)
  PROVE  /\ playerNUM' = playerNUM
         /\ Registered' = Registered
         /\ \A q \in Registered : players'[q].index = players[q].index
<1> USE DEF TypeOK, ServerTypeOK
<1>1. Registered' = Registered
  BY RegisteredGrows
<1>2. CASE players' = players /\ playerNUM' = playerNUM
  BY <1>1, <1>2
<1>3. CASE OnLobbyReady(g)
  BY <1>1, <1>2, <1>3 DEF OnLobbyReady, Stop, serverVars, Registered, PlayerRecords
<1>4. CASE StartGame(g)
  BY <1>1, <1>2, <1>4 DEF StartGame, Stop, Registered, PlayerRecords
<1>5. CASE checkstat(g)
  BY <1>2, <1>5 DEF checkstat, Stop, serverVars
<1>6. CASE sendOrder(g)
  <2>1. ASSUME NEW action, NEW target, g \in Registered,
               PassTurn(g, action, AfterAction(g, action, target))
        PROVE  /\ playerNUM' = playerNUM
               /\ \A q \in Registered : players'[q].index = players[q].index
    BY <2>1, PassTurnKeeps
  <2>2. ASSUME RepeatTurn(g) PROVE players' = players /\ playerNUM' = playerNUM
    BY <2>2 DEF RepeatTurn, Stop, serverVars
  <2>3. ASSUME Stop("unknownPlayer") PROVE players' = players /\ playerNUM' = playerNUM
    BY <2>3 DEF Stop
  <2> QED
    BY <1>1, <1>6, <2>1, <2>2, <2>3 DEF sendOrder, serverVars
<1> QED
  BY <1>3, <1>4, <1>5, <1>6 DEF ServerStep

\* Giving out ranks behind playerNUM keeps the indices distinct and below the new playerNUM.
LEMMA IndexedDistinct ==
  ASSUME IndexInv, NEW g \in Guids, OnIncomingConnection(g)
  PROVE  /\ \A q \in Registered' : players'[q].index < playerNUM'
         /\ IndicesDistinct'
<1> DEFINE P == Inserted(g)
           D == Registered \cup {g}
           U == Unindexed(P)
           N == Cardinality(U)
<1>1. DOMAIN P = D /\ U = {q \in D : P[q].index = NoIndex}
  BY DEF Inserted, Unindexed
<1>2. \A q \in D \ U : q \in Registered /\ P[q] = players[q]
  BY <1>1 DEF Inserted, NewPlayer
<1>3. U \in SUBSET Guids /\ D \subseteq Nat /\ D \subseteq Guids
  BY <1>1, GuidsAssumption DEF IndexInv, TypeOK, ServerTypeOK
<1>4. N \in Nat
  BY <1>3, GuidsAssumption, FS_Subset, FS_CardinalityType
<1>5. \A q \in U : Rank(U, q) \in Nat /\ Rank(U, q) < N
  BY <1>3, RankBound
<1>6. ASSUME NEW p \in U, NEW q \in U, p # q
      PROVE  Rank(U, p) # Rank(U, q)
  <2>1. p \in Nat /\ q \in Nat
    BY <1>3, GuidsAssumption
  <2>2. CASE p < q
    BY <1>3, <1>5, <2>2, RankInjective
  <2>3. CASE q < p
    BY <1>3, <1>5, <2>3, RankInjective
  <2> QED
    BY <1>6, <2>1, <2>2, <2>3
<1>7. playerNUM \in Nat /\ playerNUM' = playerNUM + N
  BY DEF IndexInv, TypeOK, ServerTypeOK, OnIncomingConnection
<1>8. \A q \in D : P[q] \in PlayerRecords
  BY DEF Inserted, NewPlayer, PlayerRecords, NoIndex, IndexInv, TypeOK, ServerTypeOK
<1>9. Registered' = D
  BY RegisteredGrows DEF ServerStep, IndexInv
<1>10. players' = Indexed(P)
  BY DEF OnIncomingConnection
<1> HIDE DEF P, N
<1>11. \A q \in U : players'[q].index = playerNUM + Rank(U, q)
  BY <1>1, <1>8, <1>10 DEF Indexed, PlayerRecords
<1>12. \A q \in D \ U : players'[q].index = players[q].index
  BY <1>1, <1>2, <1>10 DEF Indexed
<1>13. \A q \in D \ U : players[q].index \in Nat /\ players[q].index < playerNUM
  BY <1>2 DEF IndexInv, TypeOK, ServerTypeOK, PlayerRecords
<1>14. \A p, q \in D \ U : p # q => players[p].index # players[q].index
  BY <1>2 DEF IndexInv, IndicesDistinct
<1> HIDE DEF U
<1>15. \A q \in D : players'[q].index < playerNUM + N
  BY <1>4, <1>5, <1>7, <1>11, <1>12, <1>13
<1>16. ASSUME NEW p \in D, NEW q \in D, p # q
       PROVE  players'[p].index # players'[q].index
  BY <1>5, <1>6, <1>7, <1>11, <1>12, <1>13, <1>14, <1>16
<1> QED
  BY <1>7, <1>9, <1>15, <1>16 DEF IndicesDistinct

\* Indices are below the counter when the game starts,
LEMMA IndexInit == Init => IndexInv
<1> SUFFICES ASSUME Init PROVE IndexInv
  OBVIOUS
<1>1. Registered = {}
  BY DEF Init, ServerInit, Registered
<1> QED
  BY <1>1, InitType DEF IndexInv, IndicesDistinct

\* and after every step of the game.
LEMMA IndexNext == IndexInv /\ [Next]_vars => IndexInv'
<1> SUFFICES ASSUME IndexInv, [Next]_vars PROVE IndexInv'
  OBVIOUS
<1>1. TypeOK'
  BY NextType DEF IndexInv
<1>2. ASSUME NEW g \in Guids, ServerStep(g) PROVE IndexInv'
  <2>1. CASE OnIncomingConnection(g)
    BY <1>1, <2>1, IndexedDistinct DEF IndexInv
  <2>2. CASE ~OnIncomingConnection(g)
    BY <1>1, <1>2, <2>2, IndicesKept DEF IndexInv, IndicesDistinct
  <2> QED
    BY <2>1, <2>2
<1>3. CASE UNCHANGED serverVars
  BY <1>1, <1>3 DEF IndexInv, IndicesDistinct, serverVars, Registered
<1> QED
  BY <1>2, <1>3 DEF Next, vars

\* However many clients connect, in whichever order, before or after earlier ones were
\* given theirs: no two players share an index, so an attack hits at most one player.
THEOREM IndicesStayDistinct == Spec => []IndicesDistinct
<1>1. IndexInv => IndicesDistinct
  BY DEF IndexInv
<1> QED
  BY <1>1, IndexInit, IndexNext, PTL DEF Spec

(***************************************************************************)
(* Names.  Distinctness is inductive by itself, given the types.           *)
(***************************************************************************)
\* Only OnLobbyReady names players: a new entry has no name, an old one keeps its own.
LEMMA NamesKept ==
  ASSUME TypeOK, NEW g \in Guids, ServerStep(g), ~OnLobbyReady(g)
  PROVE  \A q \in Registered' :
           players'[q].name = IF q \in Registered THEN players[q].name ELSE NoName
<1> USE DEF TypeOK, ServerTypeOK
<1>1. CASE OnIncomingConnection(g)
  <2>1. players' = Indexed(Inserted(g)) /\ Registered' = DOMAIN Inserted(g)
    BY <1>1 DEF OnIncomingConnection, Indexed, Registered
  <2>2. \A q \in DOMAIN Inserted(g) : Inserted(g)[q] \in PlayerRecords
    BY DEF Inserted, NewPlayer, PlayerRecords, NoIndex
  <2>3. \A q \in DOMAIN Inserted(g) : Indexed(Inserted(g))[q].name = Inserted(g)[q].name
    BY <2>2 DEF Indexed, PlayerRecords
  <2>4. \A q \in DOMAIN Inserted(g) :
          Inserted(g)[q].name = IF q \in Registered THEN players[q].name ELSE NoName
    BY DEF Inserted, NewPlayer
  <2> QED
    BY <2>1, <2>3, <2>4
<1>2. CASE ~OnIncomingConnection(g)
  <2>1. Registered' = Registered
    BY <1>2, RegisteredGrows
  <2>2. CASE players' = players
    BY <2>1, <2>2
  <2>3. CASE StartGame(g)
    BY <2>1, <2>2, <2>3 DEF StartGame, Stop, Registered, PlayerRecords
  <2>4. CASE checkstat(g)
    BY <2>2, <2>4 DEF checkstat, Stop, serverVars
  <2>5. CASE sendOrder(g)
    BY <2>1, <2>2, <2>5, PassTurnKeeps DEF sendOrder, RepeatTurn, Stop, serverVars
  <2> QED
    BY <1>2, <2>3, <2>4, <2>5 DEF ServerStep
<1> QED
  BY <1>1, <1>2

\* Whatever players type, and in whichever order their names, their renames and the
\* server's answers cross: no two players hold the same name.
THEOREM NamesStayDistinct == Spec => []NamesDistinct
<1>1. Init => TypeOK /\ NamesDistinct
  <2> SUFFICES ASSUME Init PROVE TypeOK /\ NamesDistinct
    OBVIOUS
  <2>1. Registered = {}
    BY DEF Init, ServerInit, Registered
  <2> QED
    BY <2>1, InitType DEF NamesDistinct
<1>2. (TypeOK /\ NamesDistinct) /\ [Next]_vars => (TypeOK /\ NamesDistinct)'
  <2> SUFFICES ASSUME TypeOK, NamesDistinct, [Next]_vars PROVE NamesDistinct'
    BY NextType
  <2>1. ASSUME NEW g \in Guids, OnLobbyReady(g) PROVE NamesDistinct'
    <3>1. CASE players' = players
      BY <3>1 DEF NamesDistinct, Registered
    <3>2. CASE players' # players
      <4> DEFINE name == Head(toServer[g]).name
      <4>1. g \in Registered /\ ~NameTaken(g, name) /\ players' = [players EXCEPT ![g].name = name]
        BY <2>1, <3>2 DEF OnLobbyReady, Stop, serverVars
      <4> HIDE DEF name
      <4>2. Registered' = Registered /\ \A q \in Registered : players[q] \in PlayerRecords
        BY <4>1 DEF Registered, TypeOK, ServerTypeOK
      <4>3. \A q \in Registered : players'[q].name = IF q = g THEN name ELSE players[q].name
        BY <4>1, <4>2 DEF Registered, PlayerRecords
      <4> QED
        BY <4>1, <4>2, <4>3 DEF NamesDistinct, NameTaken
    <3> QED
      BY <3>1, <3>2
  <2>2. ASSUME NEW g \in Guids, ServerStep(g), ~OnLobbyReady(g) PROVE NamesDistinct'
    BY <2>2, NamesKept DEF NamesDistinct
  <2>3. CASE UNCHANGED serverVars
    BY <2>3 DEF NamesDistinct, serverVars, Registered
  <2> QED
    BY <2>1, <2>2, <2>3 DEF Next, vars
<1> QED
  BY <1>1, <1>2, PTL DEF Spec

(***************************************************************************)
(* The fight: health, the search for the next player, the winner; and when *)
(* a client may choose.  Also for rooms with more than three players, and  *)
(* for every move of theirs.                                               *)
(***************************************************************************)

(***************************************************************************)
(* Health.  Inductive by itself, given the types: a hit is taken from a    *)
(* health above zero only, and a heal added to one below the limit only.   *)
(***************************************************************************)
\* An action changes a health by one hit or one heal.
LEMMA ActedHealth ==
  ASSUME TypeOK, HealthBounded, NEW g \in Registered, NEW action, NEW target
  PROVE  \A q \in Registered : LET acted == AfterAction(g, action, target)
                               IN  acted[q].health > -30 /\ acted[q].health < HealBelow + 25
<1> USE DEF TypeOK, ServerTypeOK
<1>1. \A q \in Registered : players[q] \in PlayerRecords /\ players[q].health \in Int
  BY DEF PlayerRecords
<1>2. /\ Damage[players[g].class] \in 0..30
      /\ Heal[players[g].class] \in 0..25
  BY <1>1 DEF PlayerRecords, PlayerClasses, Damage, Heal
<1>3. ASSUME NEW q \in Registered
      PROVE  Healed(g)[q].health > -30 /\ Healed(g)[q].health < HealBelow + 25
  <2>1. CASE q = g /\ players[g].health < HealBelow
    <3>1. Healed(g)[q].health = players[g].health + Heal[players[g].class]
      BY <1>1, <2>1 DEF Healed, Registered, PlayerRecords
    <3> QED
      BY <1>1, <1>2, <2>1, <3>1 DEF HealthBounded, HealBelow
  <2>2. CASE ~(q = g /\ players[g].health < HealBelow)
    BY <2>2 DEF Healed, HealthBounded, Registered
  <2> QED
    BY <2>1, <2>2
<1>4. ASSUME NEW q \in Registered
      PROVE  Damaged(g, target)[q].health > -30 /\ Damaged(g, target)[q].health < HealBelow + 25
  <2>1. CASE q \in Targeted(target) /\ players[q].health > 0
    <3>1. Damaged(g, target)[q].health = players[q].health - Damage[players[g].class]
      BY <1>1, <2>1 DEF Damaged, PlayerRecords
    <3> QED
      BY <1>1, <1>2, <2>1, <3>1 DEF HealthBounded, HealBelow
  <2>2. CASE ~(q \in Targeted(target) /\ players[q].health > 0)
    BY <2>2 DEF Damaged, HealthBounded
  <2> QED
    BY <2>1, <2>2
<1> QED
  BY <1>3, <1>4 DEF AfterAction, HealthBounded

\* What passing the turn does to the players, unless it stops: it marks the fallen.
LEMMA PassTurnPlayers ==
  ASSUME TypeOK, NEW g \in Registered, NEW action, NEW target,
         PassTurn(g, action, AfterAction(g, action, target))
  PROVE  LET acted == AfterAction(g, action, target)
         IN  /\ DOMAIN acted = Registered
             /\ \/ players' = players
                \/ /\ players' = Buried(acted)
                   /\ \A q \in Registered :
                        /\ players'[q].health = acted[q].health
                        /\ players'[q].class = acted[q].class
                        /\ acted[q].health > 0 /\ ~acted[q].isdead => ~players'[q].isdead
<1> DEFINE acted == AfterAction(g, action, target)
<1>1. DOMAIN acted = Registered /\ \A q \in Registered : acted[q] \in PlayerRecords
  BY AfterActionType
<1>2. players' \in {players, Buried(acted)}
  BY DEF PassTurn, Stop
<1> HIDE DEF acted
<1>3. \A q \in Registered : /\ Buried(acted)[q].health = acted[q].health
                            /\ Buried(acted)[q].class = acted[q].class
                            /\ acted[q].health > 0 /\ ~acted[q].isdead
                                 => ~Buried(acted)[q].isdead
  BY <1>1 DEF Buried, Fallen, PlayerRecords
<1> QED
  BY <1>1, <1>2, <1>3 DEF acted

\* A new entry begins like NewPlayer, and the others keep all but a missing index.
LEMMA ConnectedPlayers ==
  ASSUME TypeOK, NEW g \in Guids, OnIncomingConnection(g)
  PROVE  /\ Registered' = Registered \cup {g}
         /\ \A q \in Registered' :
              LET before == IF q \in Registered THEN players[q] ELSE NewPlayer
                  after == players'[q]
              IN  /\ after.health = before.health
                  /\ after.class = before.class
                  /\ after.isdead = before.isdead
                  /\ before.index # NoIndex => after.index = before.index
<1>1. Registered' = Registered \cup {g}
  BY RegisteredGrows DEF ServerStep
<1>2. DOMAIN Inserted(g) = Registered \cup {g}
  BY DEF Inserted
<1>3. \A q \in DOMAIN Inserted(g) :
        /\ Inserted(g)[q] = IF q \in Registered THEN players[q] ELSE NewPlayer
        /\ Inserted(g)[q] \in PlayerRecords
  BY DEF Inserted, NewPlayer, PlayerRecords, NoIndex, TypeOK, ServerTypeOK
<1>4. players' = Indexed(Inserted(g))
  BY DEF OnIncomingConnection
<1> QED
  BY <1>1, <1>2, <1>3, <1>4 DEF Indexed, Unindexed, PlayerRecords

\* A class comes with a health above zero.
LEMMA StartedPlayers ==
  ASSUME TypeOK, NEW g \in Guids, StartGame(g)
  PROVE  \/ players' = players
         \/ /\ g \in Registered /\ Registered' = Registered
            /\ players'[g].health \in 1..100
            /\ players'[g].isdead = players[g].isdead /\ players'[g].class # "null"
            /\ \A q \in Registered : /\ players'[q].index = players[q].index
                                     /\ q # g => players'[q] = players[q]
<1> DEFINE class == Head(toServer[g]).class
<1>1. class \in PlayerClasses
  BY ReceiveType, MessageFields DEF TypeOK, StartGame
<1>2. StartHealth[class] \in 1..100 /\ class # "null"
  BY <1>1 DEF PlayerClasses, StartHealth
<1> HIDE DEF class
<1>3. \/ players' = players
      \/ g \in Registered /\ players' = [players EXCEPT ![g].class = class,
                                                       ![g].health = StartHealth[class]]
  BY DEF StartGame, Stop, class
<1>4. \A q \in Registered : players[q] \in PlayerRecords
  BY DEF TypeOK, ServerTypeOK
<1> QED
  BY <1>2, <1>3, <1>4 DEF Registered, PlayerRecords

\* OnLobbyReady changes nothing of a player but the name, checkstat nothing at all.
LEMMA LobbyPlayers ==
  ASSUME TypeOK, NEW g \in Guids, OnLobbyReady(g) \/ checkstat(g)
  PROVE  /\ Registered' = Registered
         /\ \A q \in Registered :
              /\ players'[q].health = players[q].health
              /\ players'[q].class = players[q].class
              /\ players'[q].isdead = players[q].isdead
              /\ players'[q].index = players[q].index
<1>1. \A q \in Registered : players[q] \in PlayerRecords
  BY DEF TypeOK, ServerTypeOK
<1>2. CASE OnLobbyReady(g)
  <2> DEFINE name == Head(toServer[g]).name
  <2>1. \/ players' = players
        \/ g \in Registered /\ players' = [players EXCEPT ![g].name = name]
    BY <1>2 DEF OnLobbyReady, Stop, serverVars
  <2> HIDE DEF name
  <2> QED
    BY <1>1, <2>1 DEF Registered, PlayerRecords
<1>3. CASE checkstat(g)
  BY <1>3 DEF checkstat, Stop, serverVars, Registered
<1> QED
  BY <1>2, <1>3

\* sendOrder passes the turn with an action the sender may have meant, or changes no player.
LEMMA OrderPlayers ==
  ASSUME TypeOK, NEW g \in Guids, sendOrder(g)
  PROVE  \/ players' = players /\ winners' = winners
            /\ (server' = server \/ server' \in {"unknownPlayer", "unassignedAddress"})
         \/ /\ g \in Registered /\ checkready
            /\ \E action \in {"damage", "heal", "other"} : \E target \in Targets :
                 PassTurn(g, action, AfterAction(g, action, target))
<1> DEFINE msg == Head(toServer[g])
<1>1. msg \in ServerMsgs /\ msg.kind = "CHECK_ALL_READY"
  BY ReceiveType DEF TypeOK, sendOrder
<1> HIDE DEF msg
<1>2. msg.target \in Targets /\ ReadAction(msg.action) \subseteq {"damage", "heal", "other"}
  BY <1>1 DEF ServerMsgs, WireActions, ReadAction
<1> USE DEF msg
<1>3. CASE UNCHANGED <<serverVars, toClient>> \/ Stop("unknownPlayer") \/ RepeatTurn(g)
  BY <1>3 DEF serverVars, Stop, RepeatTurn
<1>4. ASSUME g \in Registered, checkready, NEW action \in ReadAction(msg.action),
             PassTurn(g, action, AfterAction(g, action, msg.target))
      PROVE  \E a \in {"damage", "heal", "other"} : \E t \in Targets :
               PassTurn(g, a, AfterAction(g, a, t))
  BY <1>2, <1>4
<1> QED
  BY <1>3, <1>4 DEF sendOrder

\* No player's health ever leaves the bounds that one hit and one heal allow, however many
\* turns circulate and whatever the uninitialised action turns out to be.
THEOREM HealthStaysBounded == Spec => []HealthBounded
<1>1. Init => TypeOK /\ HealthBounded
  <2> SUFFICES ASSUME Init PROVE TypeOK /\ HealthBounded
    OBVIOUS
  <2>1. Registered = {}
    BY DEF Init, ServerInit, Registered
  <2> QED
    BY <2>1, InitType DEF HealthBounded
<1>2. (TypeOK /\ HealthBounded) /\ [Next]_vars => (TypeOK /\ HealthBounded)'
  <2> SUFFICES ASSUME TypeOK, HealthBounded, [Next]_vars PROVE HealthBounded'
    BY NextType
  <2>1. CASE players' = players
    BY <2>1 DEF HealthBounded, Registered
  <2>2. ASSUME NEW g \in Guids, OnIncomingConnection(g) PROVE HealthBounded'
    <3>1. \A q \in Registered' :
            players'[q].health = IF q \in Registered THEN players[q].health ELSE 0
      BY <2>2, ConnectedPlayers DEF NewPlayer
    <3> QED
      BY <3>1 DEF HealthBounded, HealBelow
  <2>3. ASSUME NEW g \in Guids, OnLobbyReady(g) \/ checkstat(g) PROVE HealthBounded'
    BY <2>3, LobbyPlayers DEF HealthBounded
  <2>4. ASSUME NEW g \in Guids, StartGame(g) PROVE HealthBounded'
    BY <2>1, <2>4, StartedPlayers DEF HealthBounded, HealBelow
  <2>5. ASSUME NEW g \in Guids, sendOrder(g) PROVE HealthBounded'
    <3>1. ASSUME g \in Registered, NEW action, NEW target,
                 PassTurn(g, action, AfterAction(g, action, target))
          PROVE  HealthBounded'
      <4>1. Registered' = Registered
        BY <2>5, RegisteredGrows DEF ServerStep, OnIncomingConnection, sendOrder, Receive
      <4> DEFINE acted == AfterAction(g, action, target)
      <4>2. \A q \in Registered : acted[q].health > -30 /\ acted[q].health < HealBelow + 25
        BY <3>1, ActedHealth
      <4>3. players' = players \/ \A q \in Registered : players'[q].health = acted[q].health
        BY <3>1, PassTurnPlayers
      <4> HIDE DEF acted
      <4> QED
        BY <2>1, <4>1, <4>2, <4>3 DEF HealthBounded
    <3> QED
      BY <2>1, <2>5, <3>1, OrderPlayers
  <2> QED
    BY <2>1, <2>2, <2>3, <2>4, <2>5 DEF Next, ServerStep, vars, serverVars
<1> QED
  BY <1>1, <1>2, PTL DEF Spec

(***************************************************************************)
(* The search for the next player and the winner.  The answers of the      *)
(* prompt select the indices 1 and 2, so whoever has another one is never  *)
(* hit.  The first to connect has index 0: he is never marked dead, the    *)
(* search finds him at the latest, and whenever two have fallen they are   *)
(* the two who can be hit, so the winner is one who cannot.  In a room of  *)
(* three that is the one with index 0.                                     *)
(***************************************************************************)
InReach(q) == players[q].index \in {1, 2}

\* Whoever cannot be hit stands, with a health above zero once he has a class.
Unhurt ==
  \A q \in Registered : ~InReach(q) =>
    ~players[q].isdead /\ (players[q].class # "null" => players[q].health > 0)

\* Somebody has index 0, as soon as anybody has registered.
FirstThere ==
  /\ Registered = {} => playerNUM = 0
  /\ Registered # {} => \E q \in Registered : players[q].index = 0

\* In a room that is not overfull nobody is indexed twice: the sentinel is not handed out.
FewIndices == Cardinality(Registered) <= RoomSize => playerNUM <= Cardinality(Registered)

WinnersSafe == \A w \in winners : ~InReach(w) /\ players[w].class # "null"

FightInv == IndexInv /\ Unhurt /\ FirstThere /\ FewIndices /\ WinnersSafe /\ NeverSpinning

\* What the prompt offers selects the indices 1 and 2.
LEMMA TargetsInReach == \A t \in Targets : TargetIndex(t) \in {1, 2}
BY DEF Targets, TargetIndex

\* An action leaves everyone out of reach standing.
LEMMA ActedUnhurt ==
  ASSUME TypeOK, Unhurt, checkready, NEW g \in Registered,
         NEW action, NEW target \in Targets
  PROVE  \A q \in Registered : ~InReach(q) =>
           LET acted == AfterAction(g, action, target)
           IN  acted[q].health > 0 /\ ~acted[q].isdead
<1> USE DEF TypeOK, ServerTypeOK
<1>1. \A q \in Registered : players[q] \in PlayerRecords /\ players[q].health \in Int
  BY DEF PlayerRecords
<1>2. Heal[players[g].class] \in 0..25
  BY <1>1 DEF PlayerRecords, PlayerClasses, Heal
<1>3. \A q \in Registered : ~InReach(q) => players[q].health > 0 /\ ~players[q].isdead
  BY DEF Unhurt, checkready
<1>4. ASSUME NEW q \in Registered, ~InReach(q)
      PROVE  Healed(g)[q].health > 0 /\ ~Healed(g)[q].isdead
  <2>1. \/ Healed(g)[q] = players[q]
        \/ q = g /\ Healed(g)[q].health = players[g].health + Heal[players[g].class]
             /\ Healed(g)[q].isdead = players[q].isdead
    BY <1>1 DEF Healed, Registered, PlayerRecords
  <2> QED
    BY <1>1, <1>2, <1>3, <1>4, <2>1
<1>5. ASSUME NEW q \in Registered, ~InReach(q)
      PROVE  Damaged(g, target)[q] = players[q]
  <2>1. q \notin Targeted(target)
    BY <1>5, TargetsInReach DEF Targeted, InReach
  <2> QED
    BY <2>1 DEF Damaged
<1> QED
  BY <1>3, <1>4, <1>5 DEF AfterAction

\* Two players who have fallen are the two in reach, so that nobody else is.
LEMMA TwoFallen ==
  ASSUME IndexInv, NEW fallen \in SUBSET Registered, Cardinality(fallen) = 2,
         \A q \in fallen : InReach(q)
  PROVE  \A q \in Registered \ fallen : ~InReach(q)
<1>1. IsFiniteSet(fallen)
  BY GuidsAssumption, FS_Subset DEF IndexInv, TypeOK, ServerTypeOK
<1>2. PICK a \in fallen : TRUE
  <2>1. fallen # {}
    BY FS_EmptySet
  <2> QED
    BY <2>1
<1>3. IsFiniteSet(fallen \ {a}) /\ Cardinality(fallen \ {a}) = 1
  BY <1>1, FS_RemoveElement
<1>4. PICK b : fallen \ {a} = {b}
  BY <1>3, FS_Singleton
<1>5. a # b /\ a \in Registered /\ b \in Registered /\ b \in fallen
  BY <1>4
<1>6. ASSUME NEW q \in Registered \ fallen, InReach(q) PROVE FALSE
  BY <1>2, <1>5, <1>6 DEF IndexInv, IndicesDistinct, InReach
<1> QED
  BY <1>6

\* A whole turn.
LEMMA TurnFought ==
  ASSUME FightInv, checkready, NEW g \in Registered, g \in Guids,
         NEW action, NEW target \in Targets,
         PassTurn(g, action, AfterAction(g, action, target)), Registered' = Registered,
         \A q \in Registered : players'[q].index = players[q].index
  PROVE  Unhurt' /\ WinnersSafe' /\ NeverSpinning'
<1> USE DEF FightInv, IndexInv
<1> DEFINE acted == AfterAction(g, action, target)
           buried == Buried(acted)
           fallen == Fallen(acted)
           next == NextPlayer(buried, g)
<1>1. /\ DOMAIN acted = Registered
      /\ \A q \in Registered : acted[q] \in PlayerRecords
      /\ \A q \in Registered : ~InReach(q) => acted[q].health > 0 /\ ~acted[q].isdead
  BY AfterActionType, ActedUnhurt
<1>2. Unhurt'
  <2>1. \/ players' = players
        \/ \A q \in Registered : players'[q].health = acted[q].health
             /\ (acted[q].health > 0 /\ ~acted[q].isdead => ~players'[q].isdead)
    BY PassTurnPlayers
  <2>2. ASSUME NEW q \in Registered
        PROVE  InReach(q)' = InReach(q)
    BY DEF InReach
  <2>3. \A q \in Registered : acted[q].health \in Int
    BY <1>1 DEF PlayerRecords
  <2> HIDE DEF acted
  <2> QED
    BY <1>1, <2>1, <2>2, <2>3 DEF Unhurt
<1>3. fallen \subseteq Registered /\ \A q \in fallen : InReach(q)
  <2>1. \A q \in Registered : acted[q].health \in Int
    BY <1>1 DEF PlayerRecords
  <2> HIDE DEF acted
  <2> QED
    BY <1>1, <2>1 DEF Fallen
<1>4. /\ DOMAIN buried = Registered
      /\ \A q \in fallen : buried[q].isdead
      /\ \A q \in Registered \ fallen : buried[q] = acted[q]
  <2> HIDE DEF acted
  <2> QED
    BY <1>1 DEF Buried, Fallen, PlayerRecords
<1>5. Standing(buried) # {}
  <2>1. PICK q \in Registered : players[q].index = 0
    BY DEF FirstThere
  <2>2. q \notin fallen /\ ~InReach(q)
    BY <1>3, <2>1 DEF InReach
  <2>3. ~buried[q].isdead
    BY <1>1, <1>4, <2>2
  <2> HIDE DEF buried
  <2> QED
    BY <1>4, <2>3 DEF Standing
<1>6. NeverSpinning'
  BY <1>5 DEF PassTurn, Stop, NeverSpinning
<1>7. WinnersSafe'
  <2>0. \A q \in Registered : players'[q].class # "null"
    BY PassTurnKeeps DEF checkready
  <2>1. \A w \in winners : w \in Registered /\ ~InReach(w)' /\ players'[w].class # "null"
    BY <2>0 DEF TypeOK, ServerTypeOK, WinnersSafe, InReach
  <2>2. CASE winners' = winners
    BY <2>1, <2>2 DEF WinnersSafe
  <2>3. CASE Cardinality(fallen) = 2 /\ winners' = winners \cup {next}
    <3>1. next \in Standing(buried)
      BY <1>4, <1>5, NextPlayerStands DEF TypeOK, ServerTypeOK
    <3>2. PICK w : w = next
      OBVIOUS
    <3> HIDE DEF buried, fallen, next
    <3>3. w \in Registered \ fallen
      BY <1>4, <3>1, <3>2 DEF Standing
    <3>4. ~InReach(w)
      BY <1>3, <2>3, <3>3, TwoFallen
    <3>5. ~InReach(w)' /\ players'[w].class # "null"
      BY <2>0, <3>3, <3>4 DEF InReach
    <3> QED
      BY <2>1, <2>3, <3>2, <3>5 DEF WinnersSafe
  <2> QED
    BY <2>2, <2>3 DEF PassTurn, Stop
<1> QED
  BY <1>2, <1>6, <1>7

\* The first to connect has index 0; who gets another index has one out of reach.
LEMMA FirstConnected ==
  ASSUME FightInv, NEW g \in Guids, OnIncomingConnection(g)
  PROVE  Unhurt' /\ FirstThere' /\ FewIndices' /\ WinnersSafe' /\ NeverSpinning'
<1> USE DEF FightInv, IndexInv
<1> DEFINE P == Inserted(g)
           U == Unindexed(P)
<1>1. /\ Registered' = Registered \cup {g}
      /\ \A q \in Registered' :
           LET before == IF q \in Registered THEN players[q] ELSE NewPlayer
               after == players'[q]
           IN  /\ after.health = before.health
               /\ after.class = before.class
               /\ after.isdead = before.isdead
               /\ before.index # NoIndex => after.index = before.index
  BY ConnectedPlayers
<1>2. DOMAIN P = Registered \cup {g}
  BY DEF Inserted
<1>3. U \in SUBSET Guids /\ Cardinality(U) \in Nat
  <2>1. U \in SUBSET Guids
    BY <1>2 DEF Unindexed, TypeOK, ServerTypeOK
  <2> QED
    BY <2>1, GuidsAssumption, FS_Subset, FS_CardinalityType
<1>4. \A q \in U : players'[q].index = playerNUM + Rank(U, q) /\ Rank(U, q) \in Nat
  <2>1. \A q \in DOMAIN P : P[q] \in PlayerRecords
    BY DEF Inserted, NewPlayer, PlayerRecords, NoIndex, TypeOK, ServerTypeOK
  <2>2. players' = Indexed(P)
    BY DEF OnIncomingConnection
  <2>3. \A q \in U : q \in DOMAIN P /\ q \in Guids
    BY <1>3 DEF Unindexed
  <2> HIDE DEF P
  <2> QED
    BY <1>3, <2>1, <2>2, <2>3, RankBound DEF Indexed, PlayerRecords
<1>5. playerNUM \in Nat /\ \A q \in Registered : players[q].index < playerNUM
                                                 /\ players[q].index \in Nat
  BY DEF TypeOK, ServerTypeOK, PlayerRecords
<1>6. \A q \in Registered : ~InReach(q) => ~InReach(q)'
  <2> SUFFICES ASSUME NEW q \in Registered, ~InReach(q) PROVE ~InReach(q)'
    OBVIOUS
  <2>1. CASE players[q].index # NoIndex
    BY <1>1, <2>1 DEF InReach
  <2>2. CASE players[q].index = NoIndex
    <3>1. q \in U
      BY <1>2, <2>2 DEF Unindexed, Inserted
    <3>2. players'[q].index = playerNUM + Rank(U, q) /\ Rank(U, q) \in Nat
      BY <1>4, <3>1
    <3> HIDE DEF U
    <3> QED
      BY <1>5, <2>2, <3>2 DEF InReach, NoIndex
  <2> QED
    BY <2>1, <2>2
<1>7. \A q \in Registered : InReach(q) => InReach(q)'
  BY <1>1 DEF InReach, NoIndex
<1>8. Unhurt'
  <2>1. \A q \in Registered' : ~InReach(q)' =>
          ~players'[q].isdead /\ (players'[q].class # "null" => players'[q].health > 0)
    BY <1>1, <1>7 DEF Unhurt, NewPlayer
  <2> QED
    BY <2>1 DEF Unhurt
<1>9. WinnersSafe'
  BY <1>1, <1>6 DEF WinnersSafe, OnIncomingConnection, TypeOK, ServerTypeOK
<1>10. FirstThere'
  <2>1. CASE Registered # {}
    <3>1. PICK q \in Registered : players[q].index = 0
      BY <2>1 DEF FirstThere
    <3>2. players'[q].index = 0 /\ q \in Registered'
      BY <1>1, <3>1 DEF NoIndex
    <3> QED
      BY <3>2 DEF FirstThere
  <2>2. CASE Registered = {}
    <3>1. U = {g}
      BY <1>2, <2>2 DEF Unindexed, Inserted, NewPlayer
    <3>2. Rank(U, g) = 0
      <4>1. {r \in U : r < g} = {}
        BY <3>1, GuidsAssumption
      <4> QED
        BY <4>1, FS_EmptySet DEF Rank
    <3>3. players'[g].index = 0 /\ g \in Registered'
      BY <1>1, <1>4, <2>2, <3>1, <3>2 DEF FirstThere
    <3> QED
      BY <3>3 DEF FirstThere
  <2> QED
    BY <2>1, <2>2
<1>11. NeverSpinning'
  BY DEF OnIncomingConnection, NeverSpinning
<1>12. FewIndices'
  <2>1. /\ IsFiniteSet(Registered) /\ Cardinality(Registered) \in Nat
        /\ Cardinality(Registered \cup {g}) =
             IF g \in Registered THEN Cardinality(Registered) ELSE Cardinality(Registered) + 1
    <3>1. IsFiniteSet(Registered)
      BY GuidsAssumption, FS_Subset DEF TypeOK, ServerTypeOK
    <3> QED
      BY <3>1, FS_AddElement, FS_CardinalityType
  <2>2. playerNUM' = playerNUM + Cardinality(U)
    BY DEF OnIncomingConnection
  <2> SUFFICES ASSUME Cardinality(Registered \cup {g}) <= RoomSize
               PROVE  playerNUM + Cardinality(U) <= Cardinality(Registered \cup {g})
    BY <1>1, <2>2 DEF FewIndices
  <2>3. playerNUM <= Cardinality(Registered) /\ playerNUM <= RoomSize
    BY <1>5, <2>1 DEF FewIndices, RoomSize
  <2>4. \A q \in Registered : players[q].index # NoIndex
    BY <1>5, <2>3 DEF RoomSize, NoIndex
  <2>5. U = IF g \in Registered THEN {} ELSE {g}
    BY <1>2, <2>4 DEF Unindexed, Inserted, NewPlayer
  <2>6. Cardinality(U) = IF g \in Registered THEN 0 ELSE 1
    BY <2>5, FS_EmptySet, FS_Singleton
  <2> QED
    BY <1>5, <2>1, <2>3, <2>6
<1> QED
  BY <1>8, <1>9, <1>10, <1>11, <1>12

\* The invariant holds when the game starts,
LEMMA FightInit == Init => FightInv
<1> SUFFICES ASSUME Init PROVE FightInv
  OBVIOUS
<1>1. Registered = {} /\ Cardinality({}) = 0
  BY FS_EmptySet DEF Init, ServerInit, Registered
<1> QED
  BY <1>1, IndexInit DEF FightInv, Unhurt, FirstThere, FewIndices, WinnersSafe, NeverSpinning,
     Init, ServerInit

\* and after every step of it.
LEMMA FightNext == FightInv /\ [Next]_vars => FightInv'
<1> SUFFICES ASSUME FightInv, [Next]_vars
             PROVE  Unhurt' /\ FirstThere' /\ FewIndices' /\ WinnersSafe' /\ NeverSpinning'
  BY IndexNext DEF FightInv
<1> USE DEF FightInv, IndexInv
<1>1. winners \subseteq Registered /\ \A q \in Registered : players[q] \in PlayerRecords
  BY DEF TypeOK, ServerTypeOK
<1>2. ASSUME players' = players, winners' = winners, playerNUM' = playerNUM,
             NeverSpinning'
      PROVE  Unhurt' /\ FirstThere' /\ FewIndices' /\ WinnersSafe' /\ NeverSpinning'
  BY <1>2 DEF Unhurt, FirstThere, FewIndices, WinnersSafe, InReach, Registered
<1>3. ASSUME NEW g \in Guids, OnLobbyReady(g) \/ checkstat(g) \/ StartGame(g)
      PROVE  Unhurt' /\ FirstThere' /\ FewIndices' /\ WinnersSafe' /\ NeverSpinning'
  <2>1. /\ playerNUM' = playerNUM /\ Registered' = Registered
        /\ \A q \in Registered : players'[q].index = players[q].index
    BY <1>3, IndicesKept DEF ServerStep, OnLobbyReady, checkstat, StartGame,
       OnIncomingConnection, Receive
  <2>2. winners' = winners /\ NeverSpinning'
    BY <1>3 DEF OnLobbyReady, checkstat, StartGame, Stop, serverVars, NeverSpinning
  <2>3. Unhurt'
    <3>1. CASE OnLobbyReady(g) \/ checkstat(g)
      BY <2>1, <3>1, LobbyPlayers DEF Unhurt, InReach
    <3>2. CASE StartGame(g)
      BY <1>3, <2>1, <3>2, StartedPlayers DEF Unhurt, InReach
    <3> QED
      BY <1>3, <3>1, <3>2
  <2>4. \A w \in winners : players'[w].class # "null"
    <3>1. CASE OnLobbyReady(g) \/ checkstat(g)
      BY <1>1, <3>1, LobbyPlayers DEF WinnersSafe
    <3>2. CASE StartGame(g)
      BY <1>1, <3>2, StartedPlayers DEF WinnersSafe
    <3> QED
      BY <1>3, <3>1, <3>2
  <2> QED
    BY <1>1, <2>1, <2>2, <2>3, <2>4 DEF FirstThere, FewIndices, WinnersSafe, InReach
<1>4. ASSUME NEW g \in Guids, sendOrder(g)
      PROVE  Unhurt' /\ FirstThere' /\ FewIndices' /\ WinnersSafe' /\ NeverSpinning'
  <2>1. /\ playerNUM' = playerNUM /\ Registered' = Registered
        /\ \A q \in Registered : players'[q].index = players[q].index
    BY <1>4, IndicesKept DEF ServerStep, sendOrder, OnIncomingConnection, Receive
  <2>2. FirstThere' /\ FewIndices'
    BY <2>1 DEF FirstThere, FewIndices
  <2>3. ASSUME g \in Registered, checkready, NEW action, NEW target \in Targets,
               PassTurn(g, action, AfterAction(g, action, target))
        PROVE  Unhurt' /\ WinnersSafe' /\ NeverSpinning'
    BY <2>1, <2>3, TurnFought
  <2>4. CASE players' = players /\ winners' = winners
               /\ (server' = server \/ server' \in {"unknownPlayer", "unassignedAddress"})
    BY <1>2, <2>1, <2>4 DEF NeverSpinning
  <2> QED
    BY <1>4, <2>2, <2>3, <2>4, OrderPlayers
<1>5. ASSUME NEW g \in Guids, OnIncomingConnection(g)
      PROVE  Unhurt' /\ FirstThere' /\ FewIndices' /\ WinnersSafe' /\ NeverSpinning'
  BY <1>5, FirstConnected
<1>6. CASE UNCHANGED serverVars
  BY <1>2, <1>6 DEF serverVars, NeverSpinning
<1> QED
  BY <1>3, <1>4, <1>5, <1>6 DEF Next, ServerStep, vars

\* The do-while of sendOrder ends: however many turns circulate, whoever is hit and
\* whoever heals after he was marked dead, somebody is left who is not.
THEOREM NeverSpins == Spec => []NeverSpinning
<1>1. FightInv => NeverSpinning
  BY DEF FightInv
<1> QED
  BY <1>1, FightInit, FightNext, PTL DEF Spec

\* Whoever sendOrder announces as the winner lives and is never marked dead, however many
\* turns are played after the win; in a room of at most three nobody else is announced.
THEOREM WinnerLives == Spec => []OneLivingWinner
<1>1. FightInv => OneLivingWinner
  <2> SUFFICES ASSUME FightInv PROVE OneLivingWinner
    OBVIOUS
  <2>1. \A w \in winners : w \in Registered /\ ~InReach(w) /\ players[w].class # "null"
    BY DEF FightInv, IndexInv, TypeOK, ServerTypeOK, WinnersSafe
  <2>2. \A w \in winners : players[w].health > 0 /\ ~players[w].isdead
    BY <2>1 DEF FightInv, Unhurt
  <2>3. ASSUME Cardinality(Registered) <= RoomSize, NEW v \in winners, NEW w \in winners
        PROVE  v = w
    <3>1. playerNUM \in Nat /\ Cardinality(Registered) \in Nat
      BY GuidsAssumption, FS_Subset, FS_CardinalityType DEF FightInv, IndexInv, TypeOK, ServerTypeOK
    <3>2. playerNUM <= 3
      BY <2>3, <3>1 DEF FightInv, FewIndices, RoomSize
    <3>3. \A q \in winners : players[q].index \in Nat /\ players[q].index < playerNUM
      BY <2>1 DEF FightInv, IndexInv, TypeOK, ServerTypeOK, PlayerRecords
    <3>4. \A q \in winners : players[q].index = 0
      BY <2>1, <3>1, <3>2, <3>3 DEF InReach
    <3> QED
      BY <2>1, <3>4 DEF FightInv, IndexInv, IndicesDistinct
  <2> QED
    BY <2>2, <2>3 DEF OneLivingWinner
<1> QED
  BY <1>1, FightInit, FightNext, PTL DEF Spec

(***************************************************************************)
(* Before the room is full nobody chooses.  Until the third client has     *)
(* registered, the threads of the clients and the streams in both          *)
(* directions know nothing but the lobby.                                  *)
(***************************************************************************)
Full == Cardinality(Registered) >= RoomSize

LobbyStates == {"NS_Init", "NS_PendingStart", "NS_Started", "NS_Lobby", "NS_Pending", "NS_Exited"}
LobbyPlaces == {"poll", "name", "setPending"}
LobbyPackets == {"CONNECTION_REQUEST_ACCEPTED", "PLAYER_RENAME"}
LobbyRequests == {m \in ServerMsgs : m.kind \in {"NEW_INCOMING_CONNECTION", "THEGAME_LOBBY_READY"}}

InLobby ==
  /\ net \in [Guids -> LobbyStates]
  /\ inp \in [Guids -> LobbyPlaces]
  /\ toClient \in [Guids -> Seq(LobbyPackets)]
  /\ toServer \in [Guids -> Seq(LobbyRequests)]

FullInv == TypeOK /\ (Full \/ InLobby)

\* The number of players never falls.
LEMMA FullStays ==
  ASSUME TypeOK, TypeOK', Registered \subseteq Registered'
  PROVE  Full => Full'
<1>1. IsFiniteSet(Registered')
  BY GuidsAssumption, FS_Subset DEF TypeOK, ServerTypeOK
<1>2. /\ Cardinality(Registered) <= Cardinality(Registered')
      /\ Cardinality(Registered) \in Nat /\ Cardinality(Registered') \in Nat
  BY <1>1, FS_Subset, FS_CardinalityType
<1> QED
  BY <1>2 DEF Full, RoomSize

\* What the server does in the lobby, before and after the room fills.
LEMMA ServerInLobby ==
  ASSUME FullInv, TypeOK', ~Full', NEW g \in Guids, ServerStep(g), UNCHANGED clientVars
  PROVE  InLobby'
<1> USE DEF FullInv
<1>1. ~Full /\ InLobby
  <2>1. Registered \subseteq Registered'
    BY RegisteredGrows
  <2> QED
    BY <2>1, FullStays
<1>2. OnIncomingConnection(g) \/ OnLobbyReady(g)
  <2>1. toServer[g] # <<>> => Head(toServer[g]) \in LobbyRequests
    BY <1>1, HeadTailProperties DEF InLobby
  <2> QED
    BY <2>1 DEF ServerStep, StartGame, checkstat, sendOrder, Receive, LobbyRequests
<1>3. toServer' \in [Guids -> Seq(LobbyRequests)]
  <2>1. toServer[g] # <<>> /\ toServer' = [toServer EXCEPT ![g] = Tail(@)]
    BY <1>2 DEF OnIncomingConnection, OnLobbyReady, Receive
  <2>2. Tail(toServer[g]) \in Seq(LobbyRequests)
    BY <1>1, <2>1, HeadTailProperties DEF InLobby
  <2> QED
    BY <1>1, <2>1, <2>2 DEF InLobby
<1>4. ASSUME NEW out \in [Guids -> Seq(LobbyPackets)], Post(out)
      PROVE  toClient' \in [Guids -> Seq(LobbyPackets)]
  <2>1. ASSUME NEW q \in Guids PROVE toClient[q] \o out[q] \in Seq(LobbyPackets)
    BY <1>1, ConcatProperties DEF InLobby
  <2> QED
    BY <1>1, <1>4, <2>1 DEF InLobby, Post
<1>5. toClient' \in [Guids -> Seq(LobbyPackets)]
  <2>1. CASE toClient' = toClient
    BY <1>1, <2>1 DEF InLobby
  <2>2. CASE Post([Silence EXCEPT ![g] = <<"PLAYER_RENAME">>])
    <3>1. <<>> \in Seq(LobbyPackets) /\ <<"PLAYER_RENAME">> \in Seq(LobbyPackets)
      BY DEF LobbyPackets
    <3>2. [Silence EXCEPT ![g] = <<"PLAYER_RENAME">>] \in [Guids -> Seq(LobbyPackets)]
      BY <3>1 DEF Silence
    <3> QED
      BY <1>4, <2>2, <3>2
  <2>3. CASE OnLobbyReady(g) /\ Post(ChooseClassCalls(g))
    <3>1. ChooseClassCalls(g) = Silence
      BY <1>1 DEF ChooseClassCalls, Full, RoomSize
    <3>2. <<>> \in Seq(LobbyPackets)
      OBVIOUS
    <3>3. Silence \in [Guids -> Seq(LobbyPackets)]
      BY <3>2 DEF Silence
    <3> QED
      BY <1>4, <2>3, <3>1, <3>3
  <2> QED
    BY <1>2, <2>1, <2>2, <2>3 DEF OnIncomingConnection, OnLobbyReady, Stop
<1> QED
  BY <1>1, <1>3, <1>5 DEF InLobby, clientVars

\* What a client sends in the lobby is of the lobby.
LEMMA SentInLobby ==
  ASSUME InLobby, NEW g \in Guids, NEW m \in LobbyRequests, SendToServer(g, m)
  PROVE  toServer' \in [Guids -> Seq(LobbyRequests)]
<1>1. Append(toServer[g], m) \in Seq(LobbyRequests)
  BY AppendProperties DEF InLobby
<1> QED
  BY <1>1 DEF InLobby, SendToServer

\* What a client takes in leaves packets of the lobby.
LEMMA GotInLobby ==
  ASSUME InLobby, NEW g \in Guids, NEW kind, GetPacket(g, kind)
  PROVE  /\ kind \in LobbyPackets
         /\ toClient' \in [Guids -> Seq(LobbyPackets)]
<1>1. toClient[g] \in Seq(LobbyPackets) /\ toClient[g] # <<>>
  BY DEF InLobby, GetPacket
<1>2. Head(toClient[g]) \in LobbyPackets /\ Tail(toClient[g]) \in Seq(LobbyPackets)
  BY <1>1, HeadTailProperties
<1> QED
  BY <1>2 DEF InLobby, GetPacket

\* A lost connection leaves a part of the stream.
LEMMA DroppedInLobby ==
  ASSUME InLobby, NEW g \in Guids, DropConnection(g)
  PROVE  /\ toClient' \in [Guids -> Seq(LobbyPackets)]
         /\ toServer' \in [Guids -> Seq(LobbyRequests)]
<1>1. PICK k \in 0..Len(toServer[g]) :
        toServer' = [toServer EXCEPT ![g] = SubSeq(@, 1, k)]
  BY DEF DropConnection
<1>2. toServer[g] \in Seq(LobbyRequests)
  BY DEF InLobby
<1>3. \A i \in 1..k : toServer[g][i] \in LobbyRequests
  BY <1>2, LenProperties, ElementOfSeq
<1>4. SubSeq(toServer[g], 1, k) \in Seq(LobbyRequests)
  BY <1>2, <1>3, LenProperties, SubSeqProperties
<1>5. <<>> \in Seq(LobbyPackets)
  OBVIOUS
<1> QED
  BY <1>1, <1>4, <1>5 DEF InLobby, DropConnection

\* What a client does in the lobby.
LEMMA ClientInLobby ==
  ASSUME InLobby, NEW g \in Guids, ClientStep(g)
  PROVE  InLobby'
<1> USE DEF LobbyStates, LobbyPlaces
<1>1. /\ \A name \in Typed[g] : [kind |-> "THEGAME_LOBBY_READY", name |-> name] \in LobbyRequests
      /\ [kind |-> "NEW_INCOMING_CONNECTION"] \in LobbyRequests
  BY UsersAssumption DEF LobbyRequests, ServerMsgs
<1>2. CASE StartPeer(g) \/ ChooseRole(g)
  BY <1>2 DEF StartPeer, ChooseRole, SetState, InLobby, netVars
<1>3. CASE Connect(g)
  <2>1. <<[kind |-> "NEW_INCOMING_CONNECTION"]>> \in Seq(LobbyRequests)
    BY <1>1
  <2>2. <<"CONNECTION_REQUEST_ACCEPTED">> \in Seq(LobbyPackets)
    BY DEF LobbyPackets
  <2> QED
    BY <1>3, <2>1, <2>2 DEF Connect, AcceptConnection, InLobby, clientVars
<1>4. CASE EnterName(g)
  BY <1>1, <1>4, SentInLobby DEF EnterName, InputAt, InLobby
<1>5. CASE EnterNewName(g)
  BY <1>1, <1>5, SentInLobby DEF EnterNewName, InLobby
<1>6. CASE Quit(g) \/ LeaveExit(g)
  BY <1>6, DroppedInLobby DEF Quit, LeaveExit, Exit, SetState, InLobby
<1>7. CASE InputStep(g)
  <2>1. CASE PollLobby(g)
    BY <2>1 DEF PollLobby, Poll, InputAt, InLobby, netVars
  <2>2. CASE StorePending(g)
    BY <2>2 DEF StorePending, Store, InputAt, SetState, InLobby, netVars
  <2> QED
    BY <1>7, <2>1, <2>2 DEF InputStep, PollChooseClass, PollInGame, PollWaiting,
       PollInputChoice, StoreInGame, StoreWaiting, Poll, Store, InputAt, InLobby
<1>8. CASE OnConnectionAccepted(g) \/ Rename(g)
  BY <1>8, GotInLobby DEF OnConnectionAccepted, Rename, GetPacket, SetState, InLobby
<1>9. CASE ChooseClass(g) \/ inputorder(g) \/ waiting(g)
  BY <1>9, GotInLobby DEF ChooseClass, inputorder, waiting, LobbyPackets
<1>10. CASE RenameStorePending(g)
  BY <1>10 DEF RenameStorePending, SetState, InLobby, netVars
<1>11. CASE leavegame(g)
  BY <1>11 DEF leavegame, InLobby, netVars
<1>12. CASE EnterClass(g) \/ EnterStat(g) \/ EnterChoice(g)
  BY <1>12 DEF EnterClass, EnterStat, EnterChoice, InputAt, InLobby
<1> QED
  BY <1>2, <1>3, <1>4, <1>5, <1>6, <1>7, <1>8, <1>9, <1>10, <1>11, <1>12
     DEF ClientStep, UserStep, PacketStep

\* However the clients' threads interleave, whoever comes, renames, quits and comes no
\* more: no client is asked for a class or a turn before three players have registered.
THEOREM NobodyChoosesEarly == Spec => []ChoosesOnlyWhenFull
<1>1. Init => FullInv
  <2> SUFFICES ASSUME Init PROVE InLobby
    BY InitType DEF FullInv
  <2>1. <<>> \in Seq(LobbyPackets) /\ <<>> \in Seq(LobbyRequests)
    OBVIOUS
  <2> QED
    BY <2>1 DEF Init, NetInit, ClientInit, InLobby, LobbyStates, LobbyPlaces
<1>2. FullInv /\ [Next]_vars => FullInv'
  <2> SUFFICES ASSUME FullInv, [Next]_vars, ~Full' PROVE InLobby'
    BY NextType DEF FullInv
  <2>1. TypeOK /\ TypeOK'
    BY NextType DEF FullInv
  <2>2. ASSUME NEW g \in Guids, ServerStep(g), UNCHANGED clientVars PROVE InLobby'
    BY <2>1, <2>2, ServerInLobby
  <2>3. ASSUME NEW g \in Guids, ClientStep(g), UNCHANGED serverVars PROVE InLobby'
    <3>1. ~Full
      BY <2>3 DEF Full, Registered, serverVars
    <3> QED
      BY <2>3, <3>1, ClientInLobby DEF FullInv
  <2>4. CASE UNCHANGED vars
    BY <2>4 DEF FullInv, Full, InLobby, vars, netVars, serverVars, clientVars, Registered
  <2> QED
    BY <2>2, <2>3, <2>4 DEF Next
<1>3. FullInv => ChoosesOnlyWhenFull
  BY DEF FullInv, Full, InLobby, LobbyStates, ChoosesOnlyWhenFull
<1> QED
  BY <1>1, <1>2, <1>3, PTL DEF Spec

(***************************************************************************)
(* The turns and where they come from, in the whole game.  What carries a  *)
(* turn, or a call that ends in one, is counted in four finite sets: the   *)
(* places of the checks and of the packets that ask a client for something *)
(* in the streams, and the clients that hold a turn or were called.        *)
(***************************************************************************)
Places(f, G) == {p \in Guids \X Nat : p[2] \in DOMAIN f[p[1]] /\ f[p[1]][p[2]] \in G}

Checking == {m \in ServerMsgs : m.kind = "CHECK_ALL_READY"}
Asking == {"MAIN_GAME", "CHOOSE_CLASS"}

Checks == Places(toServer, Checking)
Asks == Places(toClient, Asking)
Holders == {g \in Guids : Holds(g)}
Callees == {g \in Guids : Called(g)}

\* A stream is finite, and so are the places of any packets in it.
LEMMA PlacesFinite ==
  ASSUME NEW M, NEW f \in [Guids -> Seq(M)], NEW G
  PROVE  IsFiniteSet(Places(f, G)) /\ Cardinality(Places(f, G)) \in Nat
<1> DEFINE F == [g \in Guids |-> {g} \X (1..Len(f[g]))]
           T == {F[g] : g \in Guids}
<1>1. \A g \in Guids : f[g] \in Seq(M) /\ Len(f[g]) \in Nat /\ DOMAIN f[g] = 1..Len(f[g])
  BY LenProperties
<1>2. \A g \in Guids : IsFiniteSet(F[g])
  <2> SUFFICES ASSUME NEW g \in Guids PROVE IsFiniteSet({g} \X (1..Len(f[g])))
    OBVIOUS
  <2>1. IsFiniteSet({g})
    BY FS_Singleton
  <2>2. PICK n \in Int : n = Len(f[g])
    BY <1>1
  <2>3. IsFiniteSet(1..n)
    BY FS_Interval
  <2> QED
    BY <2>1, <2>2, <2>3, FS_Product
<1>3. IsFiniteSet(T)
  <2>1. F \in Surjection(Guids, T)
    BY DEF Surjection
  <2> HIDE DEF F, T
  <2> QED
    BY <2>1, GuidsAssumption, FS_Surjection
<1>4. IsFiniteSet(UNION T)
  BY <1>2, <1>3, FS_UNION
<1>5. Places(f, G) \subseteq UNION T
  <2>1. ASSUME NEW p \in Places(f, G) PROVE p \in F[p[1]] /\ p[1] \in Guids
    BY <1>1 DEF Places
  <2> HIDE DEF F
  <2> QED
    BY <2>1
<1> QED
  BY <1>4, <1>5, FS_Subset, FS_CardinalityType

LEMMA ClientsFinite ==
  ASSUME NEW S \in SUBSET Guids
  PROVE  IsFiniteSet(S) /\ Cardinality(S) \in Nat
BY GuidsAssumption, FS_Subset, FS_CardinalityType

\* Turns and calls, counted together.
Account == Cardinality(Checks) + Cardinality(Asks) + Cardinality(Holders) + Cardinality(Callees)

LEMMA AccountIs ==
  ASSUME NetTypeOK
  PROVE  /\ Turns + Calls = Account
         /\ Cardinality(Checks) \in Nat /\ Cardinality(Asks) \in Nat
         /\ Cardinality(Holders) \in Nat /\ Cardinality(Callees) \in Nat
<1> DEFINE Prompts == Places(toClient, {"MAIN_GAME"})
           CallPackets == Places(toClient, {"CHOOSE_CLASS"})
<1>1. /\ toServer \in [Guids -> Seq(ServerMsgs)] /\ toClient \in [Guids -> Seq(ClientMsgs)]
      /\ \A g \in Guids : /\ toServer[g] \in Seq(ServerMsgs) /\ toClient[g] \in Seq(ClientMsgs)
                          /\ DOMAIN toServer[g] = 1..Len(toServer[g]) /\ Len(toServer[g]) \in Nat
                          /\ DOMAIN toClient[g] = 1..Len(toClient[g]) /\ Len(toClient[g]) \in Nat
  BY LenProperties DEF NetTypeOK
<1>2. \A g \in Guids : \A i \in DOMAIN toServer[g] : i \in Nat /\ toServer[g][i] \in ServerMsgs
  BY <1>1, ElementOfSeq
<1>3. \A g \in Guids : \A i \in DOMAIN toClient[g] : i \in Nat
  BY <1>1
<1>4. Checks = Carrying(toServer, LAMBDA m : m.kind = "CHECK_ALL_READY")
  BY <1>2 DEF Checks, Checking, Places, Carrying
<1>5. Prompts = Carrying(toClient, LAMBDA m : m = "MAIN_GAME")
  BY <1>3 DEF Places, Carrying
<1>6. CallPackets = Carrying(toClient, LAMBDA m : m = "CHOOSE_CLASS")
  BY <1>3 DEF Places, Carrying
<1>7. Asks = Prompts \cup CallPackets /\ Prompts \cap CallPackets = {}
  BY DEF Asks, Asking, Places
<1>8. /\ IsFiniteSet(Prompts) /\ Cardinality(Prompts) \in Nat
      /\ IsFiniteSet(CallPackets) /\ Cardinality(CallPackets) \in Nat
      /\ Cardinality(Checks) \in Nat
      /\ Cardinality(Holders) \in Nat /\ Cardinality(Callees) \in Nat
  BY <1>1, PlacesFinite, ClientsFinite DEF Checks, Holders, Callees
<1>9. Turns = Cardinality(Checks) + Cardinality(Prompts) + Cardinality(Holders)
  BY <1>4, <1>5 DEF Turns, Holders
<1>10. Calls = Cardinality(CallPackets) + Cardinality(Callees)
  BY <1>6 DEF Calls, Callees
<1> HIDE DEF Prompts, CallPackets
<1>11. Cardinality(Asks) = Cardinality(Prompts) + Cardinality(CallPackets)
  <2>1. Cardinality(Prompts \cap CallPackets) = 0
    BY <1>7, FS_EmptySet
  <2>2. Cardinality(Prompts \cup CallPackets)
          = Cardinality(Prompts) + Cardinality(CallPackets) - Cardinality(Prompts \cap CallPackets)
    BY <1>8, FS_Union
  <2> QED
    BY <1>7, <1>8, <2>1, <2>2
<1> QED
  BY <1>8, <1>9, <1>10, <1>11 DEF Account

LEMMA OneMore ==
  ASSUME NEW S, NEW T, NEW x, IsFiniteSet(T), S \subseteq T \cup {x}
  PROVE  IsFiniteSet(S) /\ Cardinality(S) <= Cardinality(T) + 1
<1>1. IsFiniteSet(T \cup {x}) /\ Cardinality(T \cup {x}) <= Cardinality(T) + 1
      /\ Cardinality(T) \in Nat /\ Cardinality(T \cup {x}) \in Nat
  BY FS_AddElement, FS_CardinalityType
<1>2. IsFiniteSet(S) /\ Cardinality(S) <= Cardinality(T \cup {x}) /\ Cardinality(S) \in Nat
  BY <1>1, FS_Subset, FS_CardinalityType
<1> QED
  BY <1>1, <1>2

\* The first packet of a stream is taken.
LEMMA OneTaken ==
  ASSUME NEW M, NEW f \in [Guids -> Seq(M)], NEW g \in Guids, f[g] # <<>>, NEW G,
         NEW h, h = [f EXCEPT ![g] = Tail(@)]
  PROVE  /\ Cardinality(Places(h, G)) <= Cardinality(Places(f, G))
         /\ Head(f[g]) \in G => Cardinality(Places(h, G)) + 1 <= Cardinality(Places(f, G))
<1>0. IsFiniteSet(Places(f, G))
  BY PlacesFinite
<1>1. /\ Len(f[g]) \in Nat /\ Len(f[g]) >= 1 /\ Head(f[g]) = f[g][1] /\ h[g] = Tail(f[g])
      /\ Len(h[g]) = Len(f[g]) - 1 /\ \A i \in 1..Len(h[g]) : h[g][i] = f[g][i + 1]
      /\ DOMAIN f[g] = 1..Len(f[g]) /\ DOMAIN h[g] = 1..Len(h[g])
  <2>1. f[g] \in Seq(M) /\ h[g] = Tail(f[g])
    OBVIOUS
  <2> QED
    BY <2>1, HeadTailProperties, LenProperties, EmptySeq
<1>2. \A q \in Guids \ {g} : h[q] = f[q]
  OBVIOUS
<1> DEFINE D == Places(f, G) \ {<<g, 1>>}
           F == [p \in Places(h, G) |-> IF p[1] = g THEN <<g, p[2] + 1>> ELSE p]
<1>3. ASSUME NEW p \in Places(h, G) PROVE F[p] \in D
  <2>1. p = <<p[1], p[2]>> /\ p[1] \in Guids /\ p[2] \in Nat
        /\ p[2] \in DOMAIN h[p[1]] /\ h[p[1]][p[2]] \in G
    BY DEF Places
  <2>2. CASE p[1] = g
    <3>1. p[2] \in 1..Len(h[g]) /\ p[2] + 1 \in 1..Len(f[g]) /\ p[2] + 1 # 1 /\ p[2] + 1 \in Nat
      BY <1>1, <2>1, <2>2
    <3>2. f[g][p[2] + 1] \in G
      BY <1>1, <2>1, <2>2, <3>1
    <3>3. <<g, p[2] + 1>> \in Places(f, G)
      BY <1>1, <3>1, <3>2 DEF Places
    <3> QED
      BY <2>2, <3>1, <3>3
  <2>3. CASE p[1] # g
    <3>1. h[p[1]] = f[p[1]]
      BY <1>2, <2>1, <2>3
    <3>2. p \in Places(f, G)
      BY <2>1, <3>1 DEF Places
    <3> QED
      BY <2>1, <2>3, <3>2
  <2> QED
    BY <2>2, <2>3
<1>4. ASSUME NEW p \in Places(h, G), NEW q \in Places(h, G), F[p] = F[q] PROVE p = q
  <2>1. p = <<p[1], p[2]>> /\ q = <<q[1], q[2]>> /\ p[2] \in Nat /\ q[2] \in Nat
    BY DEF Places
  <2>2. F[p] = (IF p[1] = g THEN <<g, p[2] + 1>> ELSE p)
        /\ F[q] = (IF q[1] = g THEN <<g, q[2] + 1>> ELSE q)
    OBVIOUS
  <2>3. F[p][1] = p[1] /\ F[q][1] = q[1]
    BY <2>2
  <2>4. CASE p[1] = g
    <3>1. <<g, p[2] + 1>> = <<g, q[2] + 1>>
      BY <1>4, <2>2, <2>3, <2>4
    <3>2. p[2] + 1 = q[2] + 1
      BY <3>1
    <3> QED
      BY <1>4, <2>1, <2>3, <3>2
  <2>5. CASE p[1] # g
    BY <1>4, <2>2, <2>3, <2>5
  <2> QED
    BY <2>4, <2>5
<1>5. F \in Injection(Places(h, G), D)
  <2>1. F \in [Places(h, G) -> D]
    BY <1>3
  <2> HIDE DEF F, D
  <2> QED
    BY <1>4, <2>1 DEF Injection, IsInjective
<1>6. /\ IsFiniteSet(D) /\ Cardinality(D) \in Nat /\ Cardinality(Places(f, G)) \in Nat
      /\ Cardinality(D) <= Cardinality(Places(f, G))
      /\ <<g, 1>> \in Places(f, G) => Cardinality(D) = Cardinality(Places(f, G)) - 1
  <2>1. /\ IsFiniteSet(D)
        /\ Cardinality(D) = IF <<g, 1>> \in Places(f, G) THEN Cardinality(Places(f, G)) - 1
                            ELSE Cardinality(Places(f, G))
    BY <1>0, FS_RemoveElement
  <2>2. Cardinality(D) \in Nat /\ Cardinality(Places(f, G)) \in Nat
    BY <1>0, <2>1, FS_CardinalityType
  <2> HIDE DEF D
  <2> QED
    BY <2>1, <2>2
<1>7. Head(f[g]) \in G => <<g, 1>> \in Places(f, G)
  BY <1>1 DEF Places
<1> HIDE DEF F, D
<1>8. Cardinality(Places(h, G)) <= Cardinality(D)
      /\ Cardinality(Places(h, G)) \in Nat
  BY <1>5, <1>6, FS_Injection, FS_CardinalityType
<1> QED
  BY <1>6, <1>7, <1>8


\* The stream of one client is replaced by one that has no more of these packets.
LEMMA NoneAdded ==
  ASSUME NEW M, NEW f \in [Guids -> Seq(M)], NEW g \in Guids, NEW s \in Seq(M), NEW G,
         NEW h, h = [f EXCEPT ![g] = s],
         \A i \in DOMAIN s : s[i] \in G => i \in DOMAIN f[g] /\ f[g][i] \in G
  PROVE  Cardinality(Places(h, G)) <= Cardinality(Places(f, G))
<1>1. Places(h, G) \subseteq Places(f, G)
  BY DEF Places
<1> QED
  BY <1>1, PlacesFinite, FS_Subset

\* A packet is added to the stream of one client.
LEMMA OneAdded ==
  ASSUME NEW M, NEW f \in [Guids -> Seq(M)], NEW g \in Guids, NEW m \in M, NEW G,
         NEW h, h = [f EXCEPT ![g] = Append(@, m)]
  PROVE  /\ Cardinality(Places(h, G)) <= Cardinality(Places(f, G)) + 1
         /\ m \notin G => Cardinality(Places(h, G)) <= Cardinality(Places(f, G))
<1>1. PICK s : s = Append(f[g], m)
  OBVIOUS
<1>2. /\ s \in Seq(M) /\ Len(f[g]) \in Nat
      /\ \A i \in 1..Len(f[g]) : s[i] = f[g][i]
      /\ s[Len(f[g]) + 1] = m
      /\ DOMAIN s = 1..(Len(f[g]) + 1) /\ DOMAIN f[g] = 1..Len(f[g])
  <2>1. f[g] \in Seq(M)
    OBVIOUS
  <2> QED
    BY <1>1, <2>1, AppendProperties, LenProperties
<1>3. h = [f EXCEPT ![g] = s] /\ h[g] = s /\ \A q \in Guids \ {g} : h[q] = f[q]
  BY <1>1
<1>4. ASSUME NEW p \in Places(h, G), p \notin Places(f, G)
      PROVE  p = <<g, Len(f[g]) + 1>> /\ m \in G
  <2>1. /\ p = <<p[1], p[2]>> /\ p[1] \in Guids /\ p[2] \in Nat
        /\ p[2] \in DOMAIN h[p[1]] /\ h[p[1]][p[2]] \in G
        /\ ~(p[2] \in DOMAIN f[p[1]] /\ f[p[1]][p[2]] \in G)
    BY <1>4 DEF Places
  <2>2. p[1] = g
    BY <1>3, <2>1
  <2>3. p[2] \in 1..(Len(f[g]) + 1) /\ p[2] \notin 1..Len(f[g])
    BY <1>2, <1>3, <2>1, <2>2
  <2>4. p[2] = Len(f[g]) + 1
    BY <1>2, <2>3
  <2> QED
    BY <1>2, <1>3, <2>1, <2>2, <2>4
<1>5. Cardinality(Places(h, G)) <= Cardinality(Places(f, G)) + 1
  <2>1. PICK x : x = <<g, Len(f[g]) + 1>>
    OBVIOUS
  <2>2. Places(h, G) \subseteq Places(f, G) \cup {x}
    BY <1>4, <2>1
  <2> QED
    BY <2>2, PlacesFinite, OneMore
<1>6. m \notin G => Places(h, G) \subseteq Places(f, G)
  BY <1>4
<1> QED
  BY <1>5, <1>6, PlacesFinite, FS_Subset

\* Whom the server asks for something, with the last packet it posts to him.
AsksOnly(out, n) ==
  \A q \in Guids : \A i \in 1..Len(out[q]) : out[q][i] \in Asking => q = n /\ i = Len(out[q])
AsksNobody(out) == \A q \in Guids : \A i \in 1..Len(out[q]) : out[q][i] \notin Asking

\* What the server posts asks for one thing more at most, and for nothing when it asks nobody.
LEMMA TurnPosted ==
  ASSUME NetTypeOK, NEW out \in [Guids -> Seq(ClientMsgs)], Post(out), NEW n, AsksOnly(out, n)
  PROVE  /\ Cardinality(Asks') <= Cardinality(Asks) + 1
         /\ AsksNobody(out) => Cardinality(Asks') <= Cardinality(Asks)
<1>1. toClient \in [Guids -> Seq(ClientMsgs)] /\ IsFiniteSet(Asks)
  BY PlacesFinite DEF NetTypeOK, Asks
<1>2. \A q \in Guids : toClient[q] \o out[q] \in Seq(ClientMsgs)
  BY <1>1, ConcatProperties
<1>3. \A q \in Guids : toClient'[q] = toClient[q] \/ toClient'[q] = toClient[q] \o out[q]
  BY DEF Post
<1>4. /\ Asks = {p \in Guids \X Nat : p[2] \in DOMAIN toClient[p[1]] /\ toClient[p[1]][p[2]] \in Asking}
      /\ Asks' = {p \in Guids \X Nat : p[2] \in DOMAIN toClient'[p[1]] /\ toClient'[p[1]][p[2]] \in Asking}
  BY DEF Asks, Places
<1>5. ASSUME NEW p \in Asks', p \notin Asks
      PROVE  /\ p = <<n, Len(toClient'[n])>>
             /\ \E q \in Guids : \E i \in 1..Len(out[q]) : out[q][i] \in Asking
  <2>1. PICK q \in Guids, k \in Nat : p = <<q, k>> /\ k \in DOMAIN toClient'[q] /\ toClient'[q][k] \in Asking
    BY <1>4
  <2>2. ~(k \in DOMAIN toClient[q] /\ toClient[q][k] \in Asking)
    BY <1>4, <1>5, <2>1
  <2>3. toClient'[q] = toClient[q] \o out[q]
    BY <1>3, <2>1, <2>2
  <2>4. /\ Len(toClient[q]) \in Nat /\ Len(out[q]) \in Nat
        /\ DOMAIN toClient[q] = 1..Len(toClient[q])
        /\ Len(toClient'[q]) = Len(toClient[q]) + Len(out[q])
        /\ DOMAIN toClient'[q] = 1..(Len(toClient[q]) + Len(out[q]))
        /\ \A i \in 1..(Len(toClient[q]) + Len(out[q])) :
             toClient'[q][i] = IF i <= Len(toClient[q]) THEN toClient[q][i]
                               ELSE out[q][i - Len(toClient[q])]
    <3>1. toClient[q] \in Seq(ClientMsgs) /\ out[q] \in Seq(ClientMsgs)
      BY <1>1
    <3>2. PICK s : s = toClient[q] \o out[q]
      OBVIOUS
    <3>3. /\ Len(s) = Len(toClient[q]) + Len(out[q]) /\ s \in Seq(ClientMsgs)
          /\ \A i \in 1..(Len(toClient[q]) + Len(out[q])) :
               s[i] = IF i <= Len(toClient[q]) THEN toClient[q][i] ELSE out[q][i - Len(toClient[q])]
      BY <3>1, <3>2, ConcatProperties
    <3>4. /\ Len(toClient[q]) \in Nat /\ Len(out[q]) \in Nat
          /\ DOMAIN toClient[q] = 1..Len(toClient[q]) /\ DOMAIN s = 1..Len(s)
      BY <3>1, <3>3, LenProperties
    <3> QED
      BY <2>3, <3>2, <3>3, <3>4
  <2> DEFINE i == k - Len(toClient[q])
  <2>5. i \in 1..Len(out[q]) /\ out[q][i] \in Asking /\ k = Len(toClient[q]) + i
    <3>1. k \in 1..(Len(toClient[q]) + Len(out[q]))
      BY <2>1, <2>4
    <3>2. CASE k <= Len(toClient[q])
      <4>1. toClient[q][k] \in Asking /\ k \in DOMAIN toClient[q]
        BY <2>1, <2>4, <3>1, <3>2
      <4> QED
        BY <2>2, <4>1
    <3>3. CASE ~(k <= Len(toClient[q]))
      <4>1. out[q][k - Len(toClient[q])] \in Asking
        BY <2>1, <2>4, <3>1, <3>3
      <4>2. k - Len(toClient[q]) \in 1..Len(out[q]) /\ k = Len(toClient[q]) + (k - Len(toClient[q]))
        BY <2>4, <3>1, <3>3
      <4> QED
        BY <4>1, <4>2
    <3> QED
      BY <3>2, <3>3
  <2>6. q = n /\ i = Len(out[q])
    BY <2>5 DEF AsksOnly
  <2>7. k = Len(toClient'[q])
    BY <2>4, <2>5, <2>6
  <2> QED
    BY <2>1, <2>5, <2>6, <2>7
<1>6. Cardinality(Asks') <= Cardinality(Asks) + 1
  <2>1. PICK S, x : S = Asks' /\ x = <<n, Len(toClient'[n])>>
    OBVIOUS
  <2>2. S \subseteq Asks \cup {x}
    BY <1>5, <2>1
  <2> QED
    BY <1>1, <2>1, <2>2, OneMore
<1>7. ASSUME AsksNobody(out)
      PROVE  Cardinality(Asks') <= Cardinality(Asks)
  <2>1. PICK S : S = Asks'
    OBVIOUS
  <2>2. S \subseteq Asks
    BY <1>5, <1>7, <2>1 DEF AsksNobody
  <2> QED
    BY <1>1, <2>1, <2>2, FS_Subset
<1> QED
  BY <1>6, <1>7

\* A turn that is passed on is passed on to the next player, and to nobody with the win.
LEMMA OneAsked ==
  ASSUME NEW g, NEW next, NEW fallen, NEW won \in BOOLEAN
  PROVE  /\ TurnPackets(g, next, fallen, won) \in [Guids -> Seq(ClientMsgs)]
         /\ AsksOnly(TurnPackets(g, next, fallen, won), next)
         /\ won => AsksNobody(TurnPackets(g, next, fallen, won))
<1> DEFINE out == TurnPackets(g, next, fallen, won)
<1>1. ASSUME NEW a \in {<<>>, <<"LEAVE">>}, NEW b \in {<<>>, <<"WAITING">>},
             NEW c \in {<<>>, <<"MAIN_GAME">>}, NEW s, s = a \o b \o c
      PROVE  /\ s \in Seq(ClientMsgs)
             /\ \A i \in 1..Len(s) : s[i] \in Asking => c # <<>> /\ i = Len(s)
  <2>1. a \in Seq(ClientMsgs) /\ b \in Seq(ClientMsgs) /\ c \in Seq(ClientMsgs)
    <3>1. "LEAVE" \in ClientMsgs /\ "WAITING" \in ClientMsgs /\ "MAIN_GAME" \in ClientMsgs
      BY DEF ClientMsgs
    <3>2. /\ <<>> \in Seq(ClientMsgs) /\ <<"LEAVE">> \in Seq(ClientMsgs)
          /\ <<"WAITING">> \in Seq(ClientMsgs) /\ <<"MAIN_GAME">> \in Seq(ClientMsgs)
      BY <3>1
    <3> QED
      BY <3>2
  <2>2. /\ Len(a) \in Nat /\ Len(b) \in Nat /\ Len(c) \in 0..1 /\ (Len(c) = 1 => c # <<>>)
        /\ \A i \in 1..Len(a) : a[i] \notin Asking
        /\ \A i \in 1..Len(b) : b[i] \notin Asking
    BY DEF Asking
  <2>3. PICK t : t = a \o b
    OBVIOUS
  <2>4. /\ t \in Seq(ClientMsgs) /\ Len(t) = Len(a) + Len(b)
        /\ \A i \in 1..(Len(a) + Len(b)) : t[i] = IF i <= Len(a) THEN a[i] ELSE b[i - Len(a)]
    BY <2>1, <2>3, ConcatProperties
  <2>5. \A i \in 1..Len(t) : t[i] \notin Asking
    BY <2>2, <2>4
  <2>6. /\ s \in Seq(ClientMsgs) /\ Len(s) = Len(t) + Len(c) /\ Len(t) \in Nat
        /\ \A i \in 1..(Len(t) + Len(c)) : s[i] = IF i <= Len(t) THEN t[i] ELSE c[i - Len(t)]
    BY <1>1, <2>1, <2>3, <2>4, ConcatProperties, LenProperties
  <2> QED
    BY <2>2, <2>5, <2>6
<1>2. ASSUME NEW q \in Guids
      PROVE  /\ out[q] \in Seq(ClientMsgs)
             /\ \A i \in 1..Len(out[q]) :
                  out[q][i] \in Asking => ~won /\ q = next /\ i = Len(out[q])
  <2>1. PICK a \in {<<>>, <<"LEAVE">>}, b \in {<<>>, <<"WAITING">>}, c \in {<<>>, <<"MAIN_GAME">>} :
          out[q] = a \o b \o c /\ (c # <<>> => q = next /\ ~won)
    BY DEF TurnPackets
  <2> HIDE DEF out
  <2> QED
    BY <1>1, <2>1
<1>3. out \in [Guids -> Seq(ClientMsgs)]
  BY <1>2 DEF TurnPackets
<1> HIDE DEF out
<1>4. AsksOnly(out, next) /\ (won => AsksNobody(out))
  BY <1>2 DEF AsksOnly, AsksNobody
<1> QED
  BY <1>3, <1>4 DEF out

\* The four numbers are numbers, before and after a step.
Numbers ==
  /\ Cardinality(Checks) \in Nat /\ Cardinality(Asks) \in Nat
  /\ Cardinality(Holders) \in Nat /\ Cardinality(Callees) \in Nat

LEMMA NumbersAre == NetTypeOK => Turns + Calls = Account /\ Numbers /\ Account \in Nat
<1> SUFFICES ASSUME NetTypeOK PROVE Turns + Calls = Account /\ Numbers /\ Account \in Nat
  OBVIOUS
<1> QED
  BY AccountIs DEF Account, Numbers

\* What a step may do: turns and calls become no more, and with the win they become fewer.
AccountKept == Account' <= Account /\ (winners' # winners => Account' + 1 <= Account)

LEMMA Balance ==
  ASSUME Numbers, Numbers',
         NEW i \in Int, Cardinality(Checks') <= Cardinality(Checks) + i,
         NEW j \in Int, Cardinality(Asks') <= Cardinality(Asks) + j,
         NEW k \in Int, Cardinality(Holders') + Cardinality(Callees')
                          <= Cardinality(Holders) + Cardinality(Callees) + k,
         i + j + k <= 0, winners' = winners \/ i + j + k <= -1
  PROVE  AccountKept
<1>1. PICK a, b, c, d : /\ a = Cardinality(Checks) /\ b = Cardinality(Asks)
                        /\ c = Cardinality(Holders) /\ d = Cardinality(Callees)
  OBVIOUS
<1>2. PICK e, f, g, h : /\ e = Cardinality(Checks') /\ f = Cardinality(Asks')
                        /\ g = Cardinality(Holders') /\ h = Cardinality(Callees')
  OBVIOUS
<1>3. a \in Nat /\ b \in Nat /\ c \in Nat /\ d \in Nat /\ Account = a + b + c + d
  BY <1>1 DEF Numbers, Account
<1>4. e \in Nat /\ f \in Nat /\ g \in Nat /\ h \in Nat /\ Account' = e + f + g + h
  BY <1>2 DEF Numbers, Account
<1>5. e <= a + i /\ f <= b + j /\ g + h <= c + d + k
  BY <1>1, <1>2
<1>6. e + f + g + h <= a + b + c + d
      /\ (i + j + k <= -1 => e + f + g + h + 1 <= a + b + c + d)
  BY <1>3, <1>4, <1>5
<1> QED
  BY <1>3, <1>4, <1>6 DEF AccountKept

\* The server takes one packet of a stream, with one check less when it is one.
LEMMA TurnReceived ==
  ASSUME NetTypeOK, NEW g \in Guids, NEW kind, Receive(g, kind)
  PROVE  /\ Cardinality(Checks') <= Cardinality(Checks)
         /\ kind = "CHECK_ALL_READY" => Cardinality(Checks') + 1 <= Cardinality(Checks)
<1>1. PICK f, h : f = toServer /\ h = toServer'
  OBVIOUS
<1>2. f \in [Guids -> Seq(ServerMsgs)] /\ f[g] # <<>> /\ h = [f EXCEPT ![g] = Tail(@)]
  BY <1>1 DEF NetTypeOK, Receive
<1>3. kind = "CHECK_ALL_READY" => Head(f[g]) \in Checking
  BY <1>1, ReceiveType DEF Checking
<1>4. Checks = Places(f, Checking) /\ Checks' = Places(h, Checking)
  BY <1>1 DEF Checks, Places, Checking
<1>5. PICK G : G = Checking
  OBVIOUS
<1>6. /\ Cardinality(Places(h, G)) <= Cardinality(Places(f, G))
      /\ Head(f[g]) \in G => Cardinality(Places(h, G)) + 1 <= Cardinality(Places(f, G))
  BY <1>2, OneTaken
<1> QED
  BY <1>3, <1>4, <1>5, <1>6

\* Only OnLobbyReady calls; whatever else the server handles, it passes on at most the
\* turn it took, and with the win it passes on none.
LEMMA ServerTurn ==
  ASSUME TypeOK, TypeOK', NEW g \in Guids, ServerStep(g), UNCHANGED clientVars,
         ~OnLobbyReady(g)
  PROVE  AccountKept
<1>1. NetTypeOK /\ Numbers /\ Numbers'
  <2>1. (NetTypeOK => Numbers)'
    BY NumbersAre, PTL
  <2> QED
    BY <2>1, NumbersAre DEF TypeOK
<1>2. Cardinality(Holders') + Cardinality(Callees')
        <= Cardinality(Holders) + Cardinality(Callees) + 0
  <2>1. Holders' = Holders /\ Callees' = Callees
    BY DEF Holders, Holds, Callees, Called, clientVars
  <2> QED
    BY <1>1, <2>1 DEF Numbers
<1>3. ASSUME NEW kind, Receive(g, kind), toClient' = toClient, winners' = winners
      PROVE  AccountKept
  <2>1. Cardinality(Checks') <= Cardinality(Checks) + 0
    BY <1>1, <1>3, TurnReceived DEF Numbers
  <2>2. Cardinality(Asks') <= Cardinality(Asks) + 0
    BY <1>1, <1>3 DEF Asks, Places, Numbers
  <2>3. 0 + 0 + 0 <= 0 /\ 0 \in Int
    OBVIOUS
  <2> QED
    BY <1>1, <1>2, <1>3, <2>1, <2>2, <2>3, Balance
<1>4. ASSUME Receive(g, "CHECK_ALL_READY"), NEW out \in [Guids -> Seq(ClientMsgs)], Post(out),
             NEW next, AsksOnly(out, next), winners' = winners \/ AsksNobody(out)
      PROVE  AccountKept
  <2>1. Cardinality(Checks') <= Cardinality(Checks) + (-1)
    <3>1. Cardinality(Checks') + 1 <= Cardinality(Checks)
      BY <1>1, <1>4, TurnReceived
    <3> QED
      BY <1>1, <3>1 DEF Numbers
  <2>2. /\ Cardinality(Asks') <= Cardinality(Asks) + 1
        /\ AsksNobody(out) => Cardinality(Asks') <= Cardinality(Asks) + 0
    BY <1>1, <1>4, TurnPosted DEF Numbers
  <2>3. -1 \in Int /\ 0 \in Int /\ 1 \in Int /\ -1 + 1 + 0 <= 0 /\ -1 + 0 + 0 <= -1
        /\ -1 + 0 + 0 <= 0
    OBVIOUS
  <2>4. CASE AsksNobody(out)
    BY <1>1, <1>2, <2>1, <2>2, <2>3, <2>4, Balance
  <2>5. CASE ~AsksNobody(out)
    BY <1>1, <1>2, <1>4, <2>1, <2>2, <2>3, <2>5, Balance
  <2> QED
    BY <2>4, <2>5
<1>5. CASE OnIncomingConnection(g)
  BY <1>3, <1>5 DEF OnIncomingConnection
<1>6. CASE StartGame(g)
  BY <1>3, <1>6 DEF StartGame, Stop
<1>7. CASE checkstat(g)
  BY <1>3, <1>7 DEF checkstat, Stop, serverVars
<1>8. CASE sendOrder(g)
  <2>1. Receive(g, "CHECK_ALL_READY")
    BY <1>8 DEF sendOrder
  <2>2. CASE toClient' = toClient /\ winners' = winners
    BY <1>3, <2>1, <2>2
  <2>3. ASSUME RepeatTurn(g), ~(toClient' = toClient /\ winners' = winners) PROVE AccountKept
    <3> DEFINE out == [Silence EXCEPT ![g] = <<"MAIN_GAME">>]
    <3>1. Post(out) /\ winners' = winners
      BY <2>3 DEF RepeatTurn, Stop, serverVars
    <3>2. \A q \in Guids : out[q] = IF q = g THEN <<"MAIN_GAME">> ELSE <<>>
      BY DEF Silence
    <3>3. out \in [Guids -> Seq(ClientMsgs)]
      <4>1. <<>> \in Seq(ClientMsgs) /\ <<"MAIN_GAME">> \in Seq(ClientMsgs)
        BY DEF ClientMsgs
      <4> QED
        BY <4>1 DEF Silence
    <3>4. AsksOnly(out, g)
      <4>1. ASSUME NEW q \in Guids, NEW i \in 1..Len(out[q]), out[q][i] \in Asking
            PROVE  q = g /\ i = Len(out[q])
        <5>1. Len(<<>>) = 0 /\ Len(<<"MAIN_GAME">>) = 1
          OBVIOUS
        <5>2. CASE q = g
          <6>1. out[q] = <<"MAIN_GAME">>
            BY <3>2, <5>2
          <6> HIDE DEF out
          <6>2. i \in 1..1 /\ Len(out[q]) = 1
            BY <5>1, <6>1
          <6>3. i = Len(out[q])
            BY <6>2
          <6> QED
            BY <5>2, <6>3
        <5>3. CASE q # g
          BY <3>2, <4>1, <5>1, <5>3
        <5> QED
          BY <5>2, <5>3
      <4> QED
        BY <4>1 DEF AsksOnly
    <3> HIDE DEF out
    <3> QED
      BY <1>4, <2>1, <3>1, <3>3, <3>4
  <2>4. ASSUME NEW action, NEW acted, PassTurn(g, action, acted),
               ~(toClient' = toClient /\ winners' = winners)
        PROVE  AccountKept
    <3> DEFINE fallen == Fallen(acted)
               next == NextPlayer(Buried(acted), g)
               won == Cardinality(fallen) = 2
    <3>1. /\ Post(TurnPackets(g, next, fallen, won))
          /\ winners' = IF won THEN winners \cup {next} ELSE winners
      BY <2>4 DEF PassTurn, Stop
    <3> HIDE DEF fallen, next
    <3>2. won \in BOOLEAN
      OBVIOUS
    <3> HIDE DEF won
    <3>3. PICK out : out = TurnPackets(g, next, fallen, won)
      OBVIOUS
    <3>4. /\ out \in [Guids -> Seq(ClientMsgs)] /\ AsksOnly(out, next)
          /\ won => AsksNobody(out)
      BY <3>2, <3>3, OneAsked
    <3> QED
      BY <1>4, <2>1, <3>1, <3>2, <3>3, <3>4
  <2>5. \/ toClient' = toClient /\ winners' = winners
        \/ RepeatTurn(g)
        \/ \E action, acted : PassTurn(g, action, acted)
    BY <1>8 DEF sendOrder, Stop, serverVars
  <2> QED
    BY <2>2, <2>3, <2>4, <2>5
<1> QED
  BY <1>5, <1>6, <1>7, <1>8 DEF ServerStep

(***************************************************************************)
(* A client.  Only its own thread places and state change, so the clients  *)
(* that hold a turn or are called change by what it is worth itself.       *)
(***************************************************************************)
HeldAt(n, i) == i = "choice" \/ (n = "NS_INPUTCHOICE" /\ i # "setPending")
CalledAt(n, i) == \/ i \in {"class", "setInGame"}
                  \/ n \in {"NS_CHOOSECLASS", "NS_INGAME"} /\ i \notin {"setPending", "setWaiting"}
Worth(n, i) == (IF HeldAt(n, i) THEN 1 ELSE 0) + (IF CalledAt(n, i) THEN 1 ELSE 0)

LEMMA OneDiffers ==
  ASSUME NEW S \in SUBSET Guids, NEW T \in SUBSET Guids, NEW g \in Guids, S \ {g} = T \ {g}
  PROVE  Cardinality(S) + (IF g \in T THEN 1 ELSE 0) = Cardinality(T) + (IF g \in S THEN 1 ELSE 0)
<1>1. /\ IsFiniteSet(S) /\ Cardinality(S) \in Nat /\ IsFiniteSet(T) /\ Cardinality(T) \in Nat
  BY ClientsFinite
<1>2. /\ Cardinality(S \ {g}) = IF g \in S THEN Cardinality(S) - 1 ELSE Cardinality(S)
      /\ Cardinality(T \ {g}) = IF g \in T THEN Cardinality(T) - 1 ELSE Cardinality(T)
  BY <1>1, FS_RemoveElement
<1> QED
  BY <1>1, <1>2

LEMMA OneClient ==
  ASSUME NEW g \in Guids, \A q \in Guids \ {g} : net'[q] = net[q] /\ inp'[q] = inp[q],
         Numbers, Numbers'
  PROVE  Cardinality(Holders') + Cardinality(Callees') + Worth(net[g], inp[g])
           = Cardinality(Holders) + Cardinality(Callees) + Worth(net'[g], inp'[g])
<1>1. PICK A, B, C, D : A = Holders /\ B = Holders' /\ C = Callees /\ D = Callees'
  OBVIOUS
<1>2. /\ A \in SUBSET Guids /\ B \in SUBSET Guids /\ A \ {g} = B \ {g}
      /\ C \in SUBSET Guids /\ D \in SUBSET Guids /\ C \ {g} = D \ {g}
  BY <1>1 DEF Holders, Holds, Callees, Called
<1>3. /\ g \in A <=> HeldAt(net[g], inp[g])
      /\ g \in B <=> HeldAt(net'[g], inp'[g])
      /\ g \in C <=> CalledAt(net[g], inp[g])
      /\ g \in D <=> CalledAt(net'[g], inp'[g])
  BY <1>1 DEF Holders, Holds, Callees, Called, HeldAt, CalledAt
<1>4. /\ Cardinality(A) + (IF g \in B THEN 1 ELSE 0) = Cardinality(B) + (IF g \in A THEN 1 ELSE 0)
      /\ Cardinality(C) + (IF g \in D THEN 1 ELSE 0) = Cardinality(D) + (IF g \in C THEN 1 ELSE 0)
  BY <1>2, OneDiffers
<1>5. /\ Cardinality(A) \in Nat /\ Cardinality(B) \in Nat
      /\ Cardinality(C) \in Nat /\ Cardinality(D) \in Nat
  BY <1>1 DEF Numbers
<1>6. Cardinality(B) + Cardinality(D) + Worth(net[g], inp[g])
        = Cardinality(A) + Cardinality(C) + Worth(net'[g], inp'[g])
  BY <1>3, <1>4, <1>5 DEF Worth
<1> QED
  BY <1>1, <1>6

\* What a client does to the streams is paid by what it gives up itself.
LEMMA ClientBalance ==
  ASSUME Numbers, Numbers', NEW g \in Guids, winners' = winners,
         \A q \in Guids \ {g} : net'[q] = net[q] /\ inp'[q] = inp[q],
         NEW i \in Int, Cardinality(Checks') <= Cardinality(Checks) + i,
         NEW j \in Int, Cardinality(Asks') <= Cardinality(Asks) + j,
         i + j + Worth(net'[g], inp'[g]) <= Worth(net[g], inp[g])
  PROVE  AccountKept
<1>1. PICK v, w : v = Worth(net[g], inp[g]) /\ w = Worth(net'[g], inp'[g])
  OBVIOUS
<1>2. v \in Int /\ w \in Int /\ i + j + (w - v) <= 0 /\ w - v \in Int
  <2>1. v \in Int /\ w \in Int
    BY <1>1 DEF Worth
  <2> QED
    BY <1>1, <2>1
<1>3. PICK a, b, c, d : /\ a = Cardinality(Holders) /\ b = Cardinality(Holders')
                        /\ c = Cardinality(Callees) /\ d = Cardinality(Callees')
  OBVIOUS
<1>4. a \in Nat /\ b \in Nat /\ c \in Nat /\ d \in Nat /\ b + d + v = a + c + w
  BY <1>1, <1>3, OneClient DEF Numbers
<1>5. b + d <= a + c + (w - v)
  BY <1>2, <1>4
<1>6. Cardinality(Holders') + Cardinality(Callees')
        <= Cardinality(Holders) + Cardinality(Callees) + (w - v)
  BY <1>3, <1>5
<1> QED
  BY <1>2, <1>6, Balance

\* A client sends one packet.
LEMMA TurnSent ==
  ASSUME NetTypeOK, Numbers, NEW g \in Guids, NEW m \in ServerMsgs, SendToServer(g, m)
  PROVE  /\ Cardinality(Checks') <= Cardinality(Checks) + 1
         /\ m.kind # "CHECK_ALL_READY" => Cardinality(Checks') <= Cardinality(Checks)
<1>1. PICK f, h, G : f = toServer /\ h = toServer' /\ G = Checking
  OBVIOUS
<1>2. f \in [Guids -> Seq(ServerMsgs)] /\ (h = f \/ h = [f EXCEPT ![g] = Append(@, m)])
  BY <1>1 DEF NetTypeOK, SendToServer
<1>3. Checks = Places(f, G) /\ Checks' = Places(h, G) /\ (m.kind # "CHECK_ALL_READY" => m \notin G)
  BY <1>1 DEF Checks, Places, Checking
<1>4. CASE h = f
  BY <1>3, <1>4 DEF Numbers
<1>5. CASE h = [f EXCEPT ![g] = Append(@, m)]
  BY <1>2, <1>3, <1>5, OneAdded
<1> QED
  BY <1>2, <1>4, <1>5

\* A client takes one packet.
LEMMA TurnTaken ==
  ASSUME NetTypeOK, NEW g \in Guids, NEW kind, GetPacket(g, kind)
  PROVE  /\ Cardinality(Asks') <= Cardinality(Asks)
         /\ kind \in Asking => Cardinality(Asks') + 1 <= Cardinality(Asks)
<1>1. PICK f, h, G : f = toClient /\ h = toClient' /\ G = Asking
  OBVIOUS
<1>2. /\ f \in [Guids -> Seq(ClientMsgs)] /\ f[g] # <<>> /\ h = [f EXCEPT ![g] = Tail(@)]
      /\ Head(f[g]) = kind
  BY <1>1 DEF NetTypeOK, GetPacket
<1>3. Asks = Places(f, G) /\ Asks' = Places(h, G)
  BY <1>1 DEF Asks, Places, Asking
<1> QED
  BY <1>1, <1>2, <1>3, OneTaken

\* A process that ends, and one that connects, leave nothing in its streams that was not there.
LEMMA StreamsCut ==
  ASSUME NetTypeOK, NEW g \in Guids, DropConnection(g) \/ AcceptConnection(g)
  PROVE  /\ Cardinality(Checks') <= Cardinality(Checks)
         /\ Cardinality(Asks') <= Cardinality(Asks)
<1>1. PICK f, h, G : f = toServer /\ h = toServer' /\ G = Checking
  OBVIOUS
<1>2. PICK fc, hc, H : fc = toClient /\ hc = toClient' /\ H = Asking
  OBVIOUS
<1>3. f \in [Guids -> Seq(ServerMsgs)] /\ fc \in [Guids -> Seq(ClientMsgs)]
  BY <1>1, <1>2 DEF NetTypeOK
<1>4. /\ Checks = Places(f, G) /\ Checks' = Places(h, G)
      /\ Asks = Places(fc, H) /\ Asks' = Places(hc, H)
  BY <1>1, <1>2 DEF Checks, Asks, Places, Checking, Asking
<1>5. \E s \in Seq(ServerMsgs) : /\ h = [f EXCEPT ![g] = s]
                                 /\ \A i \in DOMAIN s : s[i] \in G => i \in DOMAIN f[g] /\ f[g][i] \in G
  <2>1. CASE DropConnection(g)
    <3>1. PICK k \in 0..Len(f[g]) : h = [f EXCEPT ![g] = SubSeq(@, 1, k)]
      BY <1>1, <2>1 DEF DropConnection
    <3>2. PICK s : s = SubSeq(f[g], 1, k)
      OBVIOUS
    <3>3. /\ f[g] \in Seq(ServerMsgs) /\ Len(f[g]) \in Nat /\ k \in Nat /\ k <= Len(f[g])
          /\ DOMAIN f[g] = 1..Len(f[g])
      BY <1>3, LenProperties
    <3>4. s = [i \in 1..k |-> f[g][i]]
      BY <3>2, <3>3
    <3>5. \A i \in 1..k : i \in DOMAIN f[g] /\ f[g][i] \in ServerMsgs
      BY <3>3, ElementOfSeq
    <3>6. s \in Seq(ServerMsgs)
      BY <3>3, <3>4, <3>5, IsASeq
    <3>7. \A i \in DOMAIN s : s[i] \in G => i \in DOMAIN f[g] /\ f[g][i] \in G
      BY <3>4, <3>5
    <3> QED
      BY <1>3, <3>1, <3>2, <3>6, <3>7
  <2>2. CASE AcceptConnection(g)
    <3>1. PICK m : m = [kind |-> "NEW_INCOMING_CONNECTION"]
      OBVIOUS
    <3>2. m \in ServerMsgs /\ m \notin G
      BY <1>1, <3>1 DEF ServerMsgs, Checking
    <3>3. <<m>> \in Seq(ServerMsgs) /\ DOMAIN <<m>> = {1} /\ <<m>>[1] = m
      BY <3>2
    <3>4. h = [f EXCEPT ![g] = <<m>>]
      BY <1>1, <2>2, <3>1 DEF AcceptConnection
    <3> QED
      BY <3>2, <3>3, <3>4
  <2> QED
    BY <2>1, <2>2
<1>6. \E s \in Seq(ClientMsgs) : /\ hc = [fc EXCEPT ![g] = s]
                                 /\ \A i \in DOMAIN s : s[i] \notin H
  <2>1. CASE DropConnection(g)
    <3>1. <<>> \in Seq(ClientMsgs) /\ DOMAIN <<>> = {}
      OBVIOUS
    <3>2. hc = [fc EXCEPT ![g] = <<>>]
      BY <1>2, <2>1 DEF DropConnection
    <3> QED
      BY <3>1, <3>2
  <2>2. CASE AcceptConnection(g)
    <3>1. PICK m : m = "CONNECTION_REQUEST_ACCEPTED"
      OBVIOUS
    <3>2. m \in ClientMsgs /\ m \notin H
      BY <1>2, <3>1 DEF ClientMsgs, Asking
    <3>3. <<m>> \in Seq(ClientMsgs) /\ DOMAIN <<m>> = {1} /\ <<m>>[1] = m
      BY <3>2
    <3>4. hc = [fc EXCEPT ![g] = <<m>>]
      BY <1>2, <2>2, <3>1 DEF AcceptConnection
    <3> QED
      BY <3>2, <3>3, <3>4
  <2> QED
    BY <2>1, <2>2
<1>7. Cardinality(Places(h, G)) <= Cardinality(Places(f, G))
  BY <1>3, <1>5, NoneAdded
<1>8. Cardinality(Places(hc, H)) <= Cardinality(Places(fc, H))
  <2>1. PICK s \in Seq(ClientMsgs) : /\ hc = [fc EXCEPT ![g] = s]
                                     /\ \A i \in DOMAIN s : s[i] \notin H
    BY <1>6
  <2> QED
    BY <1>3, <2>1, NoneAdded
<1> QED
  BY <1>4, <1>7, <1>8

\* A client that sends a check gives up the turn it held or the call it answered; one that
\* is told of a turn or called took the packet that told it.
LEMMA ClientTurn ==
  ASSUME TypeOK, TypeOK', NEW g \in Guids, ClientStep(g), UNCHANGED serverVars
  PROVE  AccountKept
<1> DEFINE Others == \A q \in Guids \ {g} : net'[q] = net[q] /\ inp'[q] = inp[q]
           Before == Worth(net[g], inp[g])
           After == Worth(net'[g], inp'[g])
<1>1. /\ NetTypeOK /\ Numbers /\ Numbers' /\ winners' = winners
      /\ net \in [Guids -> NetworkStates] /\ inp \in [Guids -> InputPlaces]
  <2>1. (NetTypeOK => Numbers)'
    BY NumbersAre, PTL
  <2> QED
    BY <2>1, NumbersAre DEF TypeOK, ClientTypeOK, serverVars
<1>2. Before \in Int /\ After \in Int
  BY DEF Worth
<1>3. ASSUME UNCHANGED <<toServer, toClient>>, Others, After <= Before
      PROVE  AccountKept
  <2>1. Checks' = Checks /\ Asks' = Asks
    BY <1>3 DEF Checks, Asks, Places
  <2>2. Cardinality(Checks') <= Cardinality(Checks) + 0 /\ Cardinality(Asks') <= Cardinality(Asks) + 0
    BY <1>1, <2>1 DEF Numbers
  <2>3. 0 + 0 + After <= Before /\ 0 \in Int
    BY <1>2, <1>3
  <2> QED
    BY <1>1, <1>3, <2>2, <2>3, ClientBalance
<1>4. ASSUME NEW m \in ServerMsgs, SendToServer(g, m), toClient' = toClient, Others,
             m.kind = "CHECK_ALL_READY" => After + 1 <= Before,
             m.kind # "CHECK_ALL_READY" => After <= Before
      PROVE  AccountKept
  <2>1. Asks' = Asks
    BY <1>4 DEF Asks, Places
  <2>2. Cardinality(Asks') <= Cardinality(Asks) + 0 /\ 0 \in Int /\ 1 \in Int
    BY <1>1, <2>1 DEF Numbers
  <2>3. CASE m.kind = "CHECK_ALL_READY"
    <3>1. Cardinality(Checks') <= Cardinality(Checks) + 1
      BY <1>1, <1>4, TurnSent
    <3>2. 1 + 0 + After <= Before
      BY <1>2, <1>4, <2>3
    <3> QED
      BY <1>1, <1>4, <2>2, <3>1, <3>2, ClientBalance
  <2>4. CASE m.kind # "CHECK_ALL_READY"
    <3>1. Cardinality(Checks') <= Cardinality(Checks) + 0
      BY <1>1, <1>4, <2>4, TurnSent DEF Numbers
    <3>2. 0 + 0 + After <= Before
      BY <1>2, <1>4, <2>4
    <3> QED
      BY <1>1, <1>4, <2>2, <3>1, <3>2, ClientBalance
  <2> QED
    BY <2>3, <2>4
<1>5. ASSUME NEW kind, GetPacket(g, kind), Others, After <= Before + 1,
             kind \notin Asking => After <= Before
      PROVE  AccountKept
  <2>1. toServer' = toServer /\ Checks' = Checks
    BY <1>5 DEF GetPacket, Checks, Places
  <2>2. Cardinality(Checks') <= Cardinality(Checks) + 0 /\ 0 \in Int /\ -1 \in Int
    BY <1>1, <2>1 DEF Numbers
  <2>3. CASE kind \in Asking
    <3>1. Cardinality(Asks') + 1 <= Cardinality(Asks)
      BY <1>1, <1>5, <2>3, TurnTaken
    <3>2. Cardinality(Asks') <= Cardinality(Asks) + (-1)
      BY <1>1, <3>1 DEF Numbers
    <3>3. 0 + (-1) + After <= Before
      BY <1>2, <1>5
    <3> QED
      BY <1>1, <1>5, <2>2, <3>2, <3>3, ClientBalance
  <2>4. CASE kind \notin Asking
    <3>1. Cardinality(Asks') <= Cardinality(Asks) + 0
      BY <1>1, <1>5, TurnTaken DEF Numbers
    <3>2. 0 + 0 + After <= Before
      BY <1>2, <1>5, <2>4
    <3> QED
      BY <1>1, <1>5, <2>2, <3>1, <3>2, ClientBalance
  <2> QED
    BY <2>3, <2>4
<1>6. ASSUME DropConnection(g) \/ AcceptConnection(g), Others, After <= Before
      PROVE  AccountKept
  <2>1. Cardinality(Checks') <= Cardinality(Checks) + 0 /\ Cardinality(Asks') <= Cardinality(Asks) + 0
    BY <1>1, <1>6, StreamsCut DEF Numbers
  <2>2. 0 + 0 + After <= Before /\ 0 \in Int
    BY <1>2, <1>6
  <2> QED
    BY <1>1, <1>6, <2>1, <2>2, ClientBalance
<1> USE DEF Worth, HeldAt, CalledAt
<1>7. CASE ChooseRole(g) \/ StartPeer(g)
  <2>1. /\ UNCHANGED <<toServer, toClient>> /\ Others
        /\ net[g] \in {"NS_Init", "NS_PendingStart"} /\ inp'[g] = inp[g]
        /\ net'[g] \in {"NS_PendingStart", "NS_Started"}
    BY <1>1, <1>7 DEF ChooseRole, StartPeer, SetState, netVars
  <2> QED
    BY <1>3, <2>1
<1>8. CASE Connect(g)
  BY <1>6, <1>8 DEF Connect, clientVars
<1>9. CASE PollLobby(g) \/ PollChooseClass(g) \/ PollWaiting(g) \/ PollInputChoice(g)
  <2>1. /\ UNCHANGED <<toServer, toClient>> /\ Others /\ net'[g] = net[g] /\ inp[g] = "poll"
        /\ \/ net[g] = "NS_Lobby" /\ inp'[g] = "name"
           \/ net[g] = "NS_CHOOSECLASS" /\ inp'[g] \in {"class", "setInGame"}
           \/ net[g] = "NS_Waiting" /\ inp'[g] = "stat"
           \/ net[g] = "NS_INPUTCHOICE" /\ inp'[g] = "choice"
    BY <1>1, <1>9 DEF PollLobby, PollChooseClass, PollWaiting, PollInputChoice, Poll, InputAt, netVars
  <2> QED
    BY <1>3, <2>1
<1>10. CASE StorePending(g) \/ StoreInGame(g) \/ StoreWaiting(g)
  <2>1. /\ UNCHANGED <<toServer, toClient>> /\ Others /\ inp'[g] = "poll"
        /\ \/ inp[g] = "setPending" /\ net'[g] = "NS_Pending"
           \/ inp[g] = "setInGame" /\ net'[g] = "NS_INGAME"
           \/ inp[g] = "setWaiting" /\ net'[g] = "NS_Waiting"
    BY <1>1, <1>10 DEF StorePending, StoreInGame, StoreWaiting, Store, InputAt, SetState, netVars
  <2> QED
    BY <1>3, <2>1
<1>11. CASE PollInGame(g)
  <2>1. PICK m \in ServerMsgs : /\ m = [kind |-> "CHECK_ALL_READY", action |-> "none", target |-> ""]
                                /\ SendToServer(g, m)
    BY <1>11, UserMessages DEF PollInGame
  <2>2. /\ toClient' = toClient /\ Others /\ m.kind = "CHECK_ALL_READY"
        /\ net[g] = "NS_INGAME" /\ net'[g] = "NS_INGAME" /\ inp[g] = "poll" /\ inp'[g] = "setWaiting"
    BY <1>1, <1>11, <2>1 DEF PollInGame, InputAt
  <2>3. After + 1 <= Before
    BY <2>2
  <2> HIDE DEF After, Before, Others
  <2> QED
    BY <1>4, <2>1, <2>2, <2>3
<1>12. CASE EnterName(g)
  <2>1. PICK m \in ServerMsgs : m.kind = "THEGAME_LOBBY_READY" /\ SendToServer(g, m)
    BY <1>12, UserMessages DEF EnterName
  <2>2. /\ toClient' = toClient /\ Others
        /\ net'[g] = net[g] /\ inp[g] = "name" /\ inp'[g] = "setPending"
    BY <1>1, <1>12 DEF EnterName, InputAt
  <2> QED
    BY <1>4, <2>1, <2>2
<1>13. CASE EnterClass(g)
  <2>1. PICK m \in ServerMsgs : m.kind = "THEGAME_START" /\ SendToServer(g, m)
    BY <1>13, UserMessages DEF EnterClass
  <2>2. /\ toClient' = toClient /\ Others
        /\ net'[g] = net[g] /\ inp[g] = "class" /\ inp'[g] = "setInGame"
    BY <1>1, <1>13 DEF EnterClass, InputAt
  <2> QED
    BY <1>4, <2>1, <2>2
<1>14. CASE EnterStat(g)
  <2>1. /\ toClient' = toClient /\ Others
        /\ net'[g] = net[g] /\ inp[g] = "stat" /\ inp'[g] = "poll"
    BY <1>1, <1>14 DEF EnterStat, InputAt
  <2>2. CASE toServer' = toServer
    BY <1>3, <2>1, <2>2
  <2>3. CASE SendToServer(g, [kind |-> "CHECK_STAT"])
    <3>1. PICK m \in ServerMsgs : m.kind = "CHECK_STAT" /\ SendToServer(g, m)
      BY <2>3, UserMessages
    <3> QED
      BY <1>4, <2>1, <3>1
  <2> QED
    BY <1>14, <2>2, <2>3 DEF EnterStat
<1>15. CASE EnterChoice(g)
  <2>1. PICK m \in ServerMsgs : m \in Choices /\ SendToServer(g, m)
    BY <1>15, UserMessages, UsersAssumption DEF EnterChoice
  <2>2. m.kind = "CHECK_ALL_READY"
    <3>1. \A a, t : [kind |-> "CHECK_ALL_READY", action |-> a, target |-> t].kind = "CHECK_ALL_READY"
      OBVIOUS
    <3>2. \E a, t : m = [kind |-> "CHECK_ALL_READY", action |-> a, target |-> t]
      BY <2>1 DEF Choices
    <3> QED
      BY <3>1, <3>2
  <2>3. /\ toClient' = toClient /\ Others
        /\ net'[g] = net[g] /\ inp[g] = "choice" /\ inp'[g] = "setPending"
    BY <1>1, <1>15 DEF EnterChoice, InputAt
  <2> QED
    BY <1>4, <2>1, <2>2, <2>3
<1>16. CASE EnterNewName(g)
  <2>1. PICK m \in ServerMsgs : m.kind = "THEGAME_LOBBY_READY" /\ SendToServer(g, m)
    BY <1>16, UserMessages DEF EnterNewName
  <2>2. toClient' = toClient /\ Others /\ net' = net /\ inp' = inp
    BY <1>16 DEF EnterNewName
  <2> QED
    BY <1>4, <2>1, <2>2
<1>17. CASE Quit(g) \/ LeaveExit(g)
  <2>1. DropConnection(g) /\ Others /\ net'[g] = "NS_Exited" /\ inp'[g] = "poll"
    BY <1>1, <1>17 DEF Quit, LeaveExit, Exit, SetState
  <2> QED
    BY <1>6, <2>1
<1>18. CASE ChooseClass(g) \/ inputorder(g)
  <2>1. /\ \E kind : GetPacket(g, kind) /\ kind \in Asking
        /\ Others /\ inp'[g] = inp[g] /\ net'[g] \in {"NS_CHOOSECLASS", "NS_INPUTCHOICE"}
    BY <1>1, <1>18 DEF ChooseClass, inputorder, GetPacket, SetState, Asking
  <2> QED
    BY <1>5, <2>1
<1>19. CASE OnConnectionAccepted(g) \/ waiting(g) \/ Rename(g)
  <2>1. /\ \E kind : GetPacket(g, kind)
        /\ Others /\ inp'[g] = inp[g] /\ net'[g] \in {"NS_Lobby", "NS_Waiting", net[g]}
    BY <1>1, <1>19 DEF OnConnectionAccepted, waiting, Rename, GetPacket, SetState
  <2> QED
    BY <1>5, <2>1
<1>20. CASE RenameStorePending(g) \/ leavegame(g)
  <2>1. /\ UNCHANGED <<toServer, toClient>>
        /\ Others /\ inp'[g] = inp[g] /\ net'[g] \in {"NS_Pending", net[g]}
    BY <1>1, <1>20 DEF RenameStorePending, leavegame, SetState, netVars
  <2> QED
    BY <1>3, <2>1
<1> QED
  BY <1>7, <1>8, <1>9, <1>10, <1>11, <1>12, <1>13, <1>14, <1>15, <1>16, <1>17, <1>18, <1>19, <1>20
     DEF ClientStep, UserStep, InputStep, PacketStep

\* Whatever happens but a lobby request, turns and calls are kept.
LEMMA TurnsKept ==
  ASSUME TypeOK, TypeOK', [Next]_vars
  PROVE  \/ \E g \in Guids : OnLobbyReady(g) /\ winners' = winners
         \/ /\ Turns' + Calls' <= Turns + Calls
            /\ winners' # winners => Turns' + Calls' < Turns + Calls
<1>1. (\E g \in Guids : OnLobbyReady(g) /\ winners' = winners) \/ AccountKept
  <2>1. CASE Next
    <3>1. PICK g \in Guids : \/ ServerStep(g) /\ UNCHANGED clientVars
                             \/ ClientStep(g) /\ UNCHANGED serverVars
      BY <2>1 DEF Next
    <3>2. OnLobbyReady(g) => winners' = winners
      BY DEF OnLobbyReady, Stop, serverVars
    <3> QED
      BY <3>1, <3>2, ServerTurn, ClientTurn
  <2>2. CASE UNCHANGED vars
    <3>1. /\ Checks' = Checks /\ Asks' = Asks /\ Holders' = Holders /\ Callees' = Callees
          /\ winners' = winners
      BY <2>2 DEF Checks, Asks, Holders, Callees, Holds, Called, Places, vars, netVars,
                  clientVars, serverVars
    <3> QED
      BY <3>1, NumbersAre DEF AccountKept, Account, TypeOK
  <2> QED
    BY <2>1, <2>2
<1>2. Turns + Calls = Account /\ Account \in Nat
  BY NumbersAre DEF TypeOK
<1>3. Turns' + Calls' = Account' /\ Account' \in Nat
  <2>1. (NetTypeOK => Turns + Calls = Account /\ Account \in Nat)'
    BY NumbersAre, PTL
  <2> QED
    BY <2>1 DEF TypeOK
<1>4. PICK m, n : m = Account /\ n = Account'
  OBVIOUS
<1>5. m \in Nat /\ n \in Nat /\ m = Turns + Calls /\ n = Turns' + Calls'
  BY <1>2, <1>3, <1>4
<1>6. AccountKept => n <= m /\ (winners' # winners => n + 1 <= m)
  BY <1>4 DEF AccountKept
<1>7. AccountKept => n <= m /\ (winners' # winners => n < m)
  BY <1>5, <1>6
<1> QED
  BY <1>1, <1>5, <1>7

\* Only OnLobbyReady in Main.cpp brings turns into the game.  Whichever calls to choose a
\* class are repeated or overwritten, whichever targets are refused, whoever is buried or
\* leaves, and however the stores of InputHandler and PacketHandler to g_networkState
\* interleave, a call becomes one turn at most and a turn is passed on at most once.
THEOREM TurnsNeverMultiply == Spec => TurnsComeFromCalls
<1>1. TypeOK /\ TypeOK' /\ [Next]_vars
        => [(\E g \in Guids : OnLobbyReady(g)) \/ Turns' + Calls' <= Turns + Calls]_vars
  BY TurnsKept
<1> QED
  BY <1>1, TypeCorrect, PTL DEF Spec, TurnsComeFromCalls

\* The turn with which sendOrder announces a winner is not passed on, from whatever state
\* of the game and with however many other turns in circulation.
THEOREM NoTurnFromTheWin == Spec => WinEndsATurn
<1>1. TypeOK /\ TypeOK' /\ [Next]_vars
        => [winners' # winners => Turns' + Calls' < Turns + Calls]_vars
  BY TurnsKept
<1> QED
  BY <1>1, TypeCorrect, PTL DEF Spec, WinEndsATurn
=============================================================================
