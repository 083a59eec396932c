----------------------------- MODULE GameServer -----------------------------
(***************************************************************************)
(* The server of the three-player game (Main.cpp): its packet thread takes *)
(* one packet at a time and runs its handler to completion, so one action  *)
(* is one handler.                                                         *)
(***************************************************************************)
EXTENDS GameNet, Integers

VARIABLES players,    \* m_players: registered guid -> SPlayer
          playerNUM,  \* the next index to hand out
          server,     \* "running", or how the packet thread came to a stop
          winners     \* whom winCondition announced so far

serverVars == <<players, playerNUM, server, winners>>

NoIndex == 4   \* the initial SPlayer::index, which marks "no index yet"
RoomSize == 3  \* the room is full with this many entries

NewPlayer == [name |-> NoName, class |-> "null", health |-> 0,
              index |-> NoIndex, isdead |-> FALSE]

StartHealth == [Mage |-> 60, Rogue |-> 85, Fighter |-> 100, null |-> 0]
Damage == [Mage |-> 30, Rogue |-> 20, Fighter |-> 15, null |-> 0]
Heal == [Mage |-> 25, Rogue |-> 10, Fighter |-> 15, null |-> 0]
HealBelow == 100

ServerStates == {"running", "unknownPlayer", "unassignedAddress", "spinning"}

PlayerRecords ==
  [name : Names \cup {NoName}, class : PlayerClasses \cup {"null"}, health : Int,
   index : Nat, isdead : BOOLEAN]

Registered == DOMAIN players

ServerTypeOK ==
  /\ Registered \subseteq Guids
  /\ players = [q \in Registered |-> players[q]]
  /\ \A q \in Registered : players[q] \in PlayerRecords
  /\ playerNUM \in Nat
  /\ server \in ServerStates
  /\ winners \subseteq Registered

\* playeraddress is set together with the name, in OnLobbyReady.
Addressed(g) == players[g].name # NoName

(***************************************************************************)
(* Receiving.  A handler that looks its sender up asserts that it is there.*)
(***************************************************************************)
Receive(g, kind) ==
  /\ server = "running"
  /\ toServer[g] # <<>>
  /\ Head(toServer[g]).kind = kind
  /\ toServer' = [toServer EXCEPT ![g] = Tail(@)]
  /\ UNCHANGED connected

Stop(cause) ==
  /\ server' = cause
  /\ UNCHANGED <<players, playerNUM, winners, toClient>>

(***************************************************************************)
(* OnIncomingConnection: insert, then index every entry that has none, in  *)
(* the order of the map's keys.                                            *)
(***************************************************************************)
\* Mutant: the entry is not created.
InsertedNothing(g) == players

Inserted(g) ==
  [q \in Registered \cup {g} |-> IF q \in Registered THEN players[q] ELSE NewPlayer]

Unindexed(P) == {q \in DOMAIN P : P[q].index = NoIndex}

Rank(S, q) == Cardinality({r \in S : r < q})

\* Mutant: indices count from one before the next index.
IndexedTooLow(P) ==
  [q \in DOMAIN P |-> IF q \in Unindexed(P)
                        THEN [P[q] EXCEPT !.index = playerNUM + Rank(Unindexed(P), q) - 1]
                        ELSE P[q]]

Indexed(P) ==
  [q \in DOMAIN P |-> IF q \in Unindexed(P)
                        THEN [P[q] EXCEPT !.index = playerNUM + Rank(Unindexed(P), q)]
                        ELSE P[q]]

\* Mutant: playerNUM is not advanced.
OnIncomingConnectionNoCount(g) ==
  /\ Receive(g, "NEW_INCOMING_CONNECTION")
  /\ players' = Indexed(Inserted(g))
  /\ UNCHANGED <<playerNUM, server, winners, toClient>>

OnIncomingConnection(g) ==
  /\ Receive(g, "NEW_INCOMING_CONNECTION")
  /\ players' = Indexed(Inserted(g))
  /\ playerNUM' = playerNUM + Cardinality(Unindexed(Inserted(g)))
  /\ UNCHANGED <<server, winners, toClient>>

(***************************************************************************)
(* ID_THEGAME_LOBBY_READY: PlayerExit refuses a name another player has,   *)
(* OnLobbyReady stores it and, when the room is full, starts the choice of *)
(* classes: one broadcast per player to all but the sender, one to it.     *)
(***************************************************************************)
\* Mutant: names are not compared.
NameTakenNever(g, name) == FALSE

NameTaken(g, name) == \E q \in Registered \ {g} : players[q].name = name

\* Mutant: the room counts as full one player early.
ChooseClassCallsEarly(g) ==
  IF Cardinality(Registered) < RoomSize - 1 THEN Silence
  ELSE [q \in Guids |-> <<"CHOOSE_CLASS">>]

ChooseClassCalls(g) ==
  IF Cardinality(Registered) # RoomSize THEN Silence
  ELSE [q \in Guids |-> IF q = g THEN <<"CHOOSE_CLASS">>
                          ELSE <<"CHOOSE_CLASS", "CHOOSE_CLASS", "CHOOSE_CLASS">>]

OnLobbyReady(g) ==
  /\ Receive(g, "THEGAME_LOBBY_READY")
  /\ LET name == Head(toServer[g]).name IN
     IF g \notin Registered THEN Stop("unknownPlayer")
     ELSE IF NameTaken(g, name)
       THEN /\ Post([Silence EXCEPT ![g] = <<"PLAYER_RENAME">>])
            /\ UNCHANGED serverVars
       ELSE /\ players' = [players EXCEPT ![g].name = name]
            /\ Post(ChooseClassCalls(g))
            /\ UNCHANGED <<playerNUM, server, winners>>

(***************************************************************************)
(* ID_THEGAME_START and ID_CHECK_STAT.                                     *)
(***************************************************************************)
StartGame(g) ==
  /\ Receive(g, "THEGAME_START")
  /\ LET class == Head(toServer[g]).class IN
     IF g \notin Registered THEN Stop("unknownPlayer")
     ELSE /\ players' = [players EXCEPT ![g].class = class,
                                        ![g].health = StartHealth[class]]
          /\ UNCHANGED <<playerNUM, server, winners, toClient>>

\* The reply is a packet the client only prints.
checkstat(g) ==
  /\ Receive(g, "CHECK_STAT")
  /\ IF g \notin Registered THEN Stop("unknownPlayer")
     ELSE IF ~Addressed(g) THEN Stop("unassignedAddress")
     ELSE UNCHANGED <<serverVars, toClient>>

(***************************************************************************)
(* ID_CHECK_ALL_READY: sendOrder, once no player is without a class.       *)
(***************************************************************************)
checkready == \A q \in Registered : players[q].class # "null"

\* bs.Read fails on a packet without an action and leaves currentstats as it was
\* on the stack: any value, "other" being one that is no enumerator.
ReadAction(wire) == IF wire = "none" THEN {"damage", "heal", "other"} ELSE {wire}

\* The index an answer selects.  The server compares with '0' and '1' and takes
\* everything else, also an empty answer, for index 2.
TargetIndex(target) == IF target = "0" THEN 0 ELSE IF target = "1" THEN 1 ELSE 2

Targeted(target) == {q \in Registered : players[q].index = TargetIndex(target)}

WrongTarget(action, target) ==
  action = "damage" /\ \E q \in Targeted(target) : players[q].health <= 0

\* Mutant: healing has no limit.
HealedAlways(g) == [players EXCEPT ![g].health = @ + Heal[players[g].class]]

Healed(g) ==
  IF players[g].health < HealBelow
    THEN [players EXCEPT ![g].health = @ + Heal[players[g].class]]
    ELSE players

Damaged(g, target) ==
  [q \in Registered |->
     IF q \in Targeted(target) /\ players[q].health > 0
       THEN [players[q] EXCEPT !.health = @ - Damage[players[g].class]]
       ELSE players[q]]

AfterAction(g, action, target) ==
  CASE action = "heal" -> Healed(g)
    [] action = "damage" -> Damaged(g, target)
    [] OTHER -> players

\* Recomputed by every sendOrder, so it counts whoever is at or below zero now.
Fallen(P) == {q \in DOMAIN P : P[q].health <= 0}

\* Mutant: isdead is set outside the test of the health.
BuriedAll(P) == [q \in DOMAIN P |-> [P[q] EXCEPT !.isdead = TRUE]]

Buried(P) ==
  [q \in DOMAIN P |-> IF q \in Fallen(P) THEN [P[q] EXCEPT !.isdead = TRUE] ELSE P[q]]

Standing(P) == {q \in DOMAIN P : ~P[q].isdead}

Least(S) == CHOOSE q \in S : \A r \in S : q <= r

\* Mutant: the do-while takes the next entry, dead or not.
NextPlayerAny(P, g) ==
  LET after == {q \in DOMAIN P : q > g}
  IN  IF after # {} THEN Least(after) ELSE Least(DOMAIN P)

\* The do-while over the map: the next entry after g, cyclically, not marked dead.
NextPlayer(P, g) ==
  LET after == {q \in Standing(P) : q > g}
  IN  IF after # {} THEN Least(after) ELSE Least(Standing(P))

\* Mutants: the turn is passed on although the game is won; the player who just acted
\* is asked again as well; he is not dismissed when his own hit killed him.
TurnPacketsAlsoWon(g, next, fallen, won) ==
  [q \in Guids |-> (IF q \in fallen THEN <<"LEAVE">> ELSE <<>>)
                     \o (IF q = g /\ ~won THEN <<"WAITING">> ELSE <<>>)
                     \o (IF q = next THEN <<"MAIN_GAME">> ELSE <<>>)]
TurnPacketsTwice(g, next, fallen, won) ==
  [q \in Guids |-> (IF q \in fallen THEN <<"LEAVE">> ELSE <<>>)
                     \o (IF q \in {g, next} /\ ~won THEN <<"MAIN_GAME">> ELSE <<>>)]
TurnPacketsNotSelf(g, next, fallen, won) ==
  [q \in Guids |-> (IF q \in fallen \ {g} THEN <<"LEAVE">> ELSE <<>>)
                     \o (IF q = g /\ ~won THEN <<"WAITING">> ELSE <<>>)
                     \o (IF q = next /\ ~won THEN <<"MAIN_GAME">> ELSE <<>>)]

TurnPackets(g, next, fallen, won) ==
  [q \in Guids |-> (IF q \in fallen THEN <<"LEAVE">> ELSE <<>>)
                     \o (IF q = g /\ ~won THEN <<"WAITING">> ELSE <<>>)
                     \o (IF q = next /\ ~won THEN <<"MAIN_GAME">> ELSE <<>>)]

\* Everything sendOrder does after a valid action: report it, bury the fallen, find
\* the next player, announce the winner or pass the turn.
PassTurn(g, action, acted) ==
  LET fallen == Fallen(acted)
      buried == Buried(acted)
      next == NextPlayer(buried, g)
      won == Cardinality(fallen) = 2
      before == fallen \cup (IF action = "other" THEN {} ELSE {g})
      after == IF won THEN {next} ELSE {g, next}
  IN  IF \E q \in before : ~Addressed(q) THEN Stop("unassignedAddress")
      ELSE IF Standing(buried) = {} THEN Stop("spinning")
      ELSE IF \E q \in after : ~Addressed(q) THEN Stop("unassignedAddress")
      ELSE /\ players' = buried
           /\ winners' = IF won THEN winners \cup {next} ELSE winners
           /\ Post(TurnPackets(g, next, fallen, won))
           /\ UNCHANGED <<playerNUM, server>>

RepeatTurn(g) ==
  IF ~Addressed(g) THEN Stop("unassignedAddress")
  ELSE /\ Post([Silence EXCEPT ![g] = <<"MAIN_GAME">>])
       /\ UNCHANGED serverVars

sendOrder(g) ==
  /\ Receive(g, "CHECK_ALL_READY")
  /\ LET msg == Head(toServer[g]) IN
     IF ~checkready THEN UNCHANGED <<serverVars, toClient>>
     ELSE IF g \notin Registered THEN Stop("unknownPlayer")
     ELSE \E action \in ReadAction(msg.action) :
            IF WrongTarget(action, msg.target) THEN RepeatTurn(g)
            ELSE PassTurn(g, action, AfterAction(g, action, msg.target))

ServerInit ==
  /\ players = [q \in {} |-> NewPlayer]
  /\ playerNUM = 0
  /\ server = "running"
  /\ winners = {}

ServerStep(g) ==
  \/ OnIncomingConnection(g)
  \/ OnLobbyReady(g)
  \/ StartGame(g)
  \/ checkstat(g)
  \/ sendOrder(g)
=============================================================================
