------------------------------- MODULE MCGame -------------------------------
(* Game with three clients, for TLC. *)
EXTENDS Game

\* Everyone types a name of their own; or player 2 may also type that of player 1.
OwnNames == [g \in Guids |-> {<<"n", g>>}]
OneCopies == [g \in Guids |-> IF g = 2 THEN {<<"n", 1>>, <<"n", 2>>} ELSE {<<"n", g>>}]
AllOwnNames == {<<"n", g>> : g \in Guids}

MageOnly == [g \in Guids |-> {"Mage"}]

Turn(action, target) == [kind |-> "CHECK_ALL_READY", action |-> action, target |-> target]
Attacks == {Turn("damage", "1"), Turn("damage", "2")}
AttacksHealAndSkip == Attacks \cup {Turn("heal", ""), Turn("none", "")}

\* The lobby ends with the first class chosen: no state is explored behind it.
LobbyBound == \A g \in Guids : ~doOnce[g]

(***************************************************************************)
(* The end of the lobby, which TLC starts battles from: the players have   *)
(* entered in the order of their guids, one by one, and everyone has a     *)
(* name of their own.  The clients in `choosing` have been called and      *)
(* their users have not chosen yet; of the others, who wait, those in      *)
(* `late` have sent a check that the server still has to handle.           *)
(***************************************************************************)
NamesTyped == {name \in [Guids -> Names] : \A g, h \in Guids :
                 name[g] \in Typed[g] /\ (g # h => name[g] # name[h])}
ClassesPicked == {class \in [Guids -> PlayerClasses] : \A g \in Guids : class[g] \in Picks[g]}

Lobbied(name, class) ==
  [g \in Guids |-> [name |-> name[g], class |-> class[g], health |-> StartHealth[class[g]],
                    index |-> Rank(Guids, g), isdead |-> FALSE]]

LobbyEnds(choosing, late) ==
  /\ connected = Guids
  /\ toServer = [g \in Guids |-> IF g \in late THEN <<Turn("none", "")>> ELSE <<>>]
  /\ toClient = Silence
  /\ \E name \in NamesTyped, class \in ClassesPicked :
       players = Lobbied(name, [g \in Guids |-> IF g \in choosing THEN "null" ELSE class[g]])
  /\ playerNUM = Cardinality(Guids)
  /\ server = "running"
  /\ winners = {}
  /\ net = [g \in Guids |-> IF g \in choosing THEN "NS_CHOOSECLASS" ELSE "NS_Waiting"]
  /\ inp = [g \in Guids |-> "poll"]
  /\ pkt = [g \in Guids |-> "receive"]
  /\ doOnce = [g \in Guids |-> g \notin choosing]
  /\ ischecked = [g \in Guids |-> FALSE]

\* One check is left, that of the last player to choose: a game with a single turn.
OneTurnSpec == (\E last \in Guids : LobbyEnds({}, {last})) /\ [][Next]_vars

\* Player 2 has not chosen and the check of player 3 is late: when it comes after the
\* class of player 2, both checks start a turn.
LateChoiceSpec == LobbyEnds({2}, {3}) /\ [][Next]_vars /\ Fairness

(***************************************************************************)
(* Bounds of the battle.  Among Mages (60 health, 30 damage, 25 heal) the  *)
(* health modulo 30 counts the heals of a player.  Player 2 heals, twice   *)
(* at most: up to the limit of 100 while one turn or call is left and      *)
(* nobody has been hit, or after he was marked dead.  While two are left,  *)
(* nobody asks for stats and nobody attacks with the answer '2'; users     *)
(* skip their turn only after player 2 healed and before he is dead.       *)
(***************************************************************************)
Heals(g) == players[g].health % 30

TwoHealsAtMost ==
  /\ \A g \in Registered : Heals(g) \in (IF g = 2 THEN {0, 25, 20} ELSE {0})
  /\ Heals(2) # 0 =>
       \/ players[2].isdead
       \/ /\ Turns + Calls <= 1
          /\ players[2].health > 60
          /\ \A g \in Registered \ {2} : players[g].health = 60

OneTargetForTwo ==
  Turns + Calls > 1 => \A g \in Guids :
    /\ inp[g] # "stat"
    /\ \A i \in DOMAIN toServer[g] :
         toServer[g][i].kind = "CHECK_ALL_READY" => toServer[g][i].target # "2"

SkipAfterHeal ==
  Heals(2) = 0 \/ players[2].isdead => \A g \in Guids :
    inp[g] = "setPending" /\ toServer[g] # <<>> =>
      toServer[g][Len(toServer[g])] # Turn("none", "")

BattleBound == TwoHealsAtMost /\ OneTargetForTwo /\ SkipAfterHeal
=============================================================================
