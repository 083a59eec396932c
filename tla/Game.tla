-------------------------------- MODULE Game --------------------------------
(***************************************************************************)
(* The whole game: the server's packet thread and, for every client, its   *)
(* threads, its user and the two FIFO streams of its connection.           *)
(***************************************************************************)
EXTENDS GameServer, GameClient

vars == <<netVars, serverVars, clientVars>>

Init == NetInit /\ ServerInit /\ ClientInit

Next ==
  \E g \in Guids : \/ ServerStep(g) /\ UNCHANGED clientVars
                   \/ ClientStep(g) /\ UNCHANGED serverVars

Spec == Init /\ [][Next]_vars

\* Every variable has its type; the health is any integer.
TypeOK == NetTypeOK /\ ServerTypeOK /\ ClientTypeOK

(***************************************************************************)
(* The server.                                                             *)
(***************************************************************************)
\* No packet of a game handler comes from a guid that has no entry: the asserts
\* "somehow player didn't connect" of PlayerExit, OnLobbyReady, StartGame,
\* sendOrder and checkstat hold.
NeverUnknownPlayer == server # "unknownPlayer"

\* The do-while of sendOrder always finds a player who is not dead.
NeverSpinning == server # "spinning"

\* Two players never share the index by which they are shown and attacked.
IndicesDistinct ==
  \A p, q \in Registered : p # q => players[p].index # players[q].index

\* Two players never hold the same name, whatever they typed and in whichever
\* order their requests and their renames arrived.
NamesDistinct ==
  \A p, q \in Registered : p # q /\ players[p].name = players[q].name
                             => players[p].name = NoName

\* Whoever sendOrder announces as the winner stands and stays so, although turns are
\* still played after the win; and in a room of at most RoomSize it is always the same
\* player.
OneLivingWinner ==
  /\ \A w \in winners : players[w].health > 0 /\ ~players[w].isdead
  /\ Cardinality(Registered) <= RoomSize => \A v, w \in winners : v = w

\* "Enter '1', '2', '3' to attack a random player (including self)": while a user
\* chooses, every player is the target of one of these answers.
AnyoneCanBeAttacked ==
  \A g \in Guids : inp[g] = "choice" =>
    \A q \in Registered : \E t \in {"1", "2", "3"} : q \in Targeted(t)

\* A client is asked for its class, and later for its turns, only once the room has
\* been full: RoomSize players have registered.
ChoosesOnlyWhenFull ==
  \A g \in Guids :
    net[g] \in {"NS_CHOOSECLASS", "NS_INGAME", "NS_Waiting", "NS_INPUTCHOICE"}
      => Cardinality(Registered) >= RoomSize

(***************************************************************************)
(* The turns.  A turn is in circulation as an ID_CHECK_ALL_READY on its    *)
(* way to the server, as an ID_MAIN_GAME on its way to a client, or held   *)
(* by a client that was told so and has not sent its choice.               *)
(* Where turns come from: a call to choose a class is an ID_CHOOSE_CLASS   *)
(* on its way to a client, or a client whose InputHandler is still to go   *)
(* through NS_CHOOSECLASS or NS_INGAME, which ends by sending a check.     *)
(***************************************************************************)
Holds(g) == inp[g] = "choice" \/ (net[g] = "NS_INPUTCHOICE" /\ inp[g] # "setPending")

Called(g) ==
  \/ inp[g] \in {"class", "setInGame"}
  \/ net[g] \in {"NS_CHOOSECLASS", "NS_INGAME"} /\ inp[g] \notin {"setPending", "setWaiting"}

\* The places of the packets in the streams of `chan` that satisfy Carries.
Carrying(chan, Carries(_)) ==
  UNION {{g} \X {i \in DOMAIN chan[g] : Carries(chan[g][i])} : g \in Guids}

Turns ==
  Cardinality(Carrying(toServer, LAMBDA m : m.kind = "CHECK_ALL_READY"))
    + Cardinality(Carrying(toClient, LAMBDA m : m = "MAIN_GAME"))
    + Cardinality({g \in Guids : Holds(g)})

Calls ==
  Cardinality(Carrying(toClient, LAMBDA m : m = "CHOOSE_CLASS"))
    + Cardinality({g \in Guids : Called(g)})

\* Only OnLobbyReady, which calls everyone to choose a class, brings turns into the
\* game: whichever calls are repeated or overwritten, whichever targets are refused,
\* whoever dies or leaves, and however the threads of the clients interleave, a call
\* becomes one turn at most and a turn is passed on at most once.
TurnsComeFromCalls ==
  [][(\E g \in Guids : OnLobbyReady(g)) \/ Turns' + Calls' <= Turns + Calls]_vars

\* The turn that decides the game is not passed on; the others, which the checks of
\* several calls started, may still be played.
WinEndsATurn == [][winners' # winners => Turns' + Calls' < Turns + Calls]_vars

\* A player's health stays within one hit below zero and one heal above the limit up
\* to which healing is allowed, since the limit is tested before the heal is added.
HealthBounded ==
  \A q \in Registered :
    /\ players[q].health > -30
    /\ players[q].health < HealBelow + 25

\* While nobody has won, somebody has the turn or a packet that carries it is on its
\* way: "this line will just show to you again".
TurnNeverLost == winners = {} /\ server = "running" => Turns > 0

(***************************************************************************)
(* Progress.  The packet thread of a client keeps running.  Nothing else   *)
(* is assumed: users need not answer, InputHandler may stay blocked, the   *)
(* server may stop.                                                        *)
(***************************************************************************)
Fairness == \A g \in Guids : WF_vars(PacketStep(g) /\ UNCHANGED serverVars)

\* The process of a player who was marked dead ends.
DeadLeave ==
  \A g \in Guids : (g \in Registered /\ players[g].isdead) ~> net[g] = "NS_Exited"
=============================================================================
