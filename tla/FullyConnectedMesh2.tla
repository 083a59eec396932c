-------------------------- MODULE FullyConnectedMesh2 --------------------------
(***************************************************************************)
(* How the plugin FullyConnectedMesh2 makes the peers of a mesh agree on   *)
(* one host, the one that has been there longest, without a vote: each     *)
(* system draws an id, whose high part is the number of connections it has *)
(* heard of and whose low part is random, tells it to its participants,    *)
(* and takes who has the lowest id it knows for the host.  Systems come,   *)
(* leave while the ids are still being exchanged, and start over.          *)
(*                                                                         *)
(* Left out: the verified join, user contexts, and the connecting itself,  *)
(* which other plugins and users do.  Packets are RELIABLE_ORDERED on one  *)
(* channel: a stream for each direction of a connection.                   *)
(***************************************************************************)
EXTENDS Naturals, Sequences, FiniteSets

CONSTANTS Systems,     \* the systems, by guid
          Founders,    \* the systems that meet first
          startupTime, \* when each system started
          Draws,       \* bound: random numbers are 0..Draws - 1
          Resetters,   \* whose users call ResetHostCalculation, once
          MaxUpsets,   \* bound: systems that leave, or start over
          UNASSIGNED_RAKNET_GUID

ASSUME MeshAssumption ==
  /\ UNASSIGNED_RAKNET_GUID \notin Systems
  /\ Founders \subseteq Systems /\ Resetters \subseteq Systems
  /\ startupTime \in [Systems -> Nat]
  /\ Draws \in Nat \ {0} /\ MaxUpsets \in Nat

VARIABLES
  fcm2ParticipantList,  \* of each system: the participants and their ids, NoId where unknown
  totalConnectionCount, \* of each system
  ourFCMGuid,           \* of each system
  hostRakNetGuid,       \* of each system
  lastPushedHost,       \* of each system: the host its user was last told
  streams,              \* streams[a][b]: packets of a on their way to b
  connected,            \* the pairs <<a, b>> connected
  untold,               \* the pairs <<a, b>>: a's plugin has not been told that b connected
  lost,                 \* the pairs <<a, b>>: a's plugin has not been told that b is gone
  left,                 \* the systems that have left
  reset,                \* the systems that have called ResetHostCalculation
  drawn                 \* the random numbers drawn

own == <<fcm2ParticipantList, totalConnectionCount, ourFCMGuid, hostRakNetGuid, lastPushedHost>>
net == <<streams, connected, untold, lost, left, reset>>
meshVars == <<own, net, drawn>>

NoId == 0
NoHost == UNASSIGNED_RAKNET_GUID

\* ourFCMGuid: the count in the high half, the random number in the low one.
Id(count, random) == count * Draws + random

\* Numbers of connections grow by one with each system that joins.
Packets == [type : {"REQUEST_FCMGUID", "INFORM_FCMGUID"}, fcmGuid : Nat, count : Nat]
             \cup [type : {"RESPOND_CONNECTION_COUNT", "UPDATE_MIN_TOTAL_CONNECTION_COUNT"},
                   count : Nat]

MeshTypeOK ==
  /\ \A a \in Systems : \E others \in SUBSET (Systems \ {a}) :
       fcm2ParticipantList[a] \in [others -> Nat]
  /\ totalConnectionCount \in [Systems -> Nat]
  /\ ourFCMGuid \in [Systems -> Nat]
  /\ hostRakNetGuid \in [Systems -> Systems \cup {NoHost}]
  /\ lastPushedHost \in [Systems -> Systems \cup {NoHost}]
  /\ streams \in [Systems -> [Systems -> Seq(Packets)]]
  /\ {connected, untold, lost} \subseteq SUBSET (Systems \X Systems)
  /\ left \subseteq Systems /\ reset \subseteq Resetters
  /\ drawn \subseteq 0..Draws - 1

MeshInit ==
  /\ fcm2ParticipantList = [a \in Systems |-> [b \in {} |-> NoId]]
  /\ totalConnectionCount = [a \in Systems |-> 0]
  /\ ourFCMGuid = [a \in Systems |-> NoId]
  /\ hostRakNetGuid = [a \in Systems |-> NoHost]
  /\ lastPushedHost = [a \in Systems |-> NoHost]
  /\ streams = [a \in Systems |-> [b \in Systems |-> <<>>]]
  /\ connected = {} /\ untold = {} /\ lost = {}
  /\ left = {} /\ reset = {} /\ drawn = {}

-----------------------------------------------------------------------------
\* The state of one system while it handles a packet or a call: s has what it keeps, and
\* out the packets it has sent to each other system.
State(a) == [list |-> fcm2ParticipantList[a], total |-> totalConnectionCount[a],
             id |-> ourFCMGuid[a], host |-> hostRakNetGuid[a], pushed |-> lastPushedHost[a],
             out |-> [b \in Systems |-> <<>>]]

Store(a, s) ==
  /\ fcm2ParticipantList' = [fcm2ParticipantList EXCEPT ![a] = s.list]
  /\ totalConnectionCount' = [totalConnectionCount EXCEPT ![a] = s.total]
  /\ ourFCMGuid' = [ourFCMGuid EXCEPT ![a] = s.id]
  /\ hostRakNetGuid' = [hostRakNetGuid EXCEPT ![a] = s.host]
  /\ lastPushedHost' = [lastPushedHost EXCEPT ![a] = s.pushed]

\* Nothing is sent where there is no connection.
Sent(a, s, b) == IF <<a, b>> \in connected THEN streams[a][b] \o s.out[b] ELSE streams[a][b]

SendTo(s, b, packet) == [s EXCEPT !.out[b] = Append(@, packet)]

IncrementTotalConnectionCount(s, i) == [s EXCEPT !.total = IF i > @ THEN i ELSE @]

\* Mutant: the count sent leaves out the system that sends it.
CountOfTheOthers(s, b) ==
  SendTo(s, b, [type |-> "REQUEST_FCMGUID", fcmGuid |-> s.id,
                count |-> IF s.id = NoId THEN 0 ELSE s.total - 1])

SendFCMGuidRequest(s, b) ==
  SendTo(s, b, [type |-> "REQUEST_FCMGUID", fcmGuid |-> s.id,
                count |-> IF s.id = NoId THEN 0 ELSE s.total])

Inform(s) == [type |-> "INFORM_FCMGUID", fcmGuid |-> s.id, count |-> s.total]

\* Mutant: the count that is answered leaves out the two that connect: -1 for the younger.
CountOfOthers(s, b, count) ==
  SendTo(s, b, [type |-> "RESPOND_CONNECTION_COUNT", count |-> count - 2])

SendConnectionCountResponse(s, b, count) ==
  SendTo(s, b, [type |-> "RESPOND_CONNECTION_COUNT", count |-> count])

\* Mutant: an id is believed only of who was no participant.
FirstIdOnly(s, b, theirFCMGuid) ==
  IF b \in DOMAIN s.list THEN s
  ELSE SendFCMGuidRequest([s EXCEPT !.list = [c \in DOMAIN @ \cup {b} |->
                                                IF c = b THEN theirFCMGuid ELSE @[c]]], b)

AddParticipantInternal(s, b, theirFCMGuid) ==
  IF b \in DOMAIN s.list
  THEN [s EXCEPT !.list[b] = IF theirFCMGuid # NoId THEN theirFCMGuid ELSE @]
  ELSE SendFCMGuidRequest([s EXCEPT !.list = [c \in DOMAIN @ \cup {b} |->
                                                IF c = b THEN theirFCMGuid ELSE @[c]]], b)

\* AssignOurFCMGuid, and SendOurFCMGuid to every participant.
AssignAndInform(s, random) ==
  LET assigned == [s EXCEPT !.id = Id(s.total, random)]
  IN [assigned EXCEPT !.out = [b \in Systems |->
        IF b \in DOMAIN s.list THEN Append(s.out[b], Inform(assigned)) ELSE s.out[b]]]

\* CalculateHost of system a: who has the lowest id of those known.
CalculateHost(a, s) ==
  LET lower == {b \in DOMAIN s.list : s.list[b] # NoId /\ s.list[b] < s.id}
  IN IF lower = {} THEN a
     ELSE CHOOSE b \in lower : \A c \in lower : s.list[b] <= s.list[c]

ParticipantListComplete(s) == \A b \in DOMAIN s.list : s.list[b] # NoId

\* Mutant: a host once chosen is not replaced by another one.
ChosenOnce(a, s) ==
  LET host == CalculateHost(a, s)
  IN IF ParticipantListComplete(s) /\ s.pushed = NoHost
     THEN [s EXCEPT !.host = host, !.pushed = host]
     ELSE s

CalculateAndPushHost(a, s) ==
  LET host == CalculateHost(a, s)
  IN IF ParticipantListComplete(s) /\ host # s.pushed
     THEN [s EXCEPT !.host = host, !.pushed = host]
     ELSE s

-----------------------------------------------------------------------------
\* The handlers: system a has received a packet from b.  The random number is used if the
\* system draws one.

\* Who handles the request of one that started later has run longer; the other way round
\* the time the request was under way may make it seem so.  Who starts over runs from then.
RunsLonger(a, b) ==
  IF a \notin reset /\ startupTime[a] <= startupTime[b] THEN {TRUE} ELSE BOOLEAN

AfterRequest(a, b, packet, longer, random) ==
  LET s == AddParticipantInternal(State(a), b, packet.fcmGuid)
      handled ==
        IF s.id = NoId
        THEN IF packet.fcmGuid = NoId
             THEN SendConnectionCountResponse(s, b, IF longer THEN 2 ELSE 1)
             ELSE AssignAndInform(IncrementTotalConnectionCount(s, packet.count + 1), random)
        ELSE IF packet.fcmGuid = NoId
             THEN SendConnectionCountResponse(s, b, s.total + 1)
             ELSE LET counted == IncrementTotalConnectionCount(s, packet.count)
                  IN SendTo(counted, b, Inform(counted))
  IN CalculateAndPushHost(a, handled)

AfterConnectionCount(a, packet, random) ==
  LET counted == IncrementTotalConnectionCount(State(a), packet.count)
      assigned == [counted EXCEPT !.id = Id(counted.total, random)]
      atLeastTwo == IncrementTotalConnectionCount(assigned, 2)
  IN IF counted.id # NoId THEN IncrementTotalConnectionCount(counted, 2)
     ELSE CalculateAndPushHost(a,
            [atLeastTwo EXCEPT !.out = [b \in Systems |->
               IF b \in DOMAIN counted.list THEN <<Inform(atLeastTwo)>> ELSE <<>>]])

\* Mutant: the host is calculated only by who draws an id.
InformNotCalculated(a, b, packet, random) ==
  LET counted == IncrementTotalConnectionCount(State(a), packet.count)
      added == AddParticipantInternal(counted, b, packet.fcmGuid)
  IN IF added.id # NoId THEN added
     ELSE CalculateAndPushHost(a, AssignAndInform(added, random))

AfterInform(a, b, packet, random) ==
  LET counted == IncrementTotalConnectionCount(State(a), packet.count)
      added == AddParticipantInternal(counted, b, packet.fcmGuid)
      minimum == [type |-> "UPDATE_MIN_TOTAL_CONNECTION_COUNT", count |-> added.total]
      relayed == IF b \in DOMAIN counted.list THEN added
                 ELSE [added EXCEPT !.out = [c \in Systems |->
                         IF c \in DOMAIN counted.list THEN <<minimum>> ELSE @[c]]]
  IN CalculateAndPushHost(a, IF relayed.id = NoId THEN AssignAndInform(relayed, random)
                             ELSE relayed)

After(a, b, packet, longer, random) ==
  CASE packet.type = "REQUEST_FCMGUID" -> AfterRequest(a, b, packet, longer, random)
    [] packet.type = "RESPOND_CONNECTION_COUNT" -> AfterConnectionCount(a, packet, random)
    [] packet.type = "INFORM_FCMGUID" -> AfterInform(a, b, packet, random)
    [] packet.type = "UPDATE_MIN_TOTAL_CONNECTION_COUNT"
         -> IncrementTotalConnectionCount(State(a), packet.count)

\* Two systems that draw the same number are left out: it has 32 bits.
Randoms(a) == IF ourFCMGuid[a] = NoId THEN (0..Draws - 1) \ drawn ELSE {0}

OnReceive(a, b) ==
  /\ streams[b][a] # <<>> /\ <<a, b>> \notin untold
  /\ \E longer \in RunsLonger(a, b), random \in Randoms(a) :
       LET s == After(a, b, Head(streams[b][a]), longer, random)
       IN /\ Store(a, s)
          /\ streams' = [streams EXCEPT ![a] = [c \in Systems |-> Sent(a, s, c)],
                                        ![b][a] = Tail(@)]
          /\ drawn' = IF s.id = ourFCMGuid[a] THEN drawn ELSE drawn \cup {random}
  /\ UNCHANGED <<connected, untold, lost, left, reset>>

\* OnNewConnection: with autoParticipateConnections a new connection is a participant,
\* if it still is connected.
OnNewConnection(a, b) ==
  /\ <<a, b>> \in untold
  /\ untold' = untold \ {<<a, b>>}
  /\ LET s == IF <<a, b>> \in connected THEN AddParticipantInternal(State(a), b, NoId)
              ELSE State(a)
     IN Store(a, s) /\ streams' = [streams EXCEPT ![a] = [c \in Systems |-> Sent(a, s, c)]]
  /\ UNCHANGED <<connected, lost, left, reset, drawn>>

\* Mutant: the host that is gone stays.
HostStays(a, b) ==
  LET s == State(a)
  IN [s EXCEPT !.list = [c \in DOMAIN @ \ {b} |-> @[c]]]

\* A host is chosen anew only when the one that is gone was host, and then also among
\* participants whose ids are not all known.
AfterClosedConnection(a, b) ==
  LET s == [State(a) EXCEPT !.list = [c \in DOMAIN @ \ {b} |-> @[c]]]
      host == CalculateHost(a, s)
  IN IF b \in DOMAIN fcm2ParticipantList[a] /\ s.host = b /\ s.id # NoId
     THEN [s EXCEPT !.host = host, !.pushed = host]
     ELSE s

OnClosedConnection(a, b) ==
  /\ <<a, b>> \in lost \ untold
  /\ lost' = lost \ {<<a, b>>}
  /\ Store(a, AfterClosedConnection(a, b))
  /\ UNCHANGED <<streams, connected, untold, left, reset, drawn>>

MayUpset == Cardinality(left) + Cardinality(reset) < MaxUpsets

\* ResetHostCalculation.  lastPushedHost stays, and the participants keep the ids known.
ResetHostCalculation(a) ==
  /\ a \in Resetters \ reset
  /\ a \notin left
  /\ MayUpset
  /\ reset' = reset \cup {a}
  /\ LET cleared == [State(a) EXCEPT !.host = NoHost, !.total = 0, !.id = NoId]
         request == SendFCMGuidRequest(cleared, a).out[a]
         s == [cleared EXCEPT !.out = [b \in Systems |->
                 IF b \in DOMAIN cleared.list THEN request ELSE <<>>]]
     IN Store(a, s) /\ streams' = [streams EXCEPT ![a] = [c \in Systems |-> Sent(a, s, c)]]
  /\ UNCHANGED <<connected, untold, lost, left, drawn>>

-----------------------------------------------------------------------------
\* RakPeer and its users: systems connect, the founders first and the others, each to one
\* that has an id, when the founders have settled; and they leave for ever.
Settled(group) ==
  /\ \A a, b \in group \ left : a # b => <<a, b>> \in connected /\ streams[a][b] = <<>>
  /\ \A p \in untold \cup lost : p[1] \notin group

FoundersMet == Settled(Founders) /\ \A f \in Founders \ left : ourFCMGuid[f] # NoId

Connect(a, b) ==
  /\ a # b /\ {a, b} \cap left = {}
  /\ {<<a, b>>, <<b, a>>} \cap (connected \cup lost) = {}
  /\ \/ {a, b} \subseteq Founders
     \/ FoundersMet /\ \E c \in {a, b} : ourFCMGuid[c] # NoId
  /\ connected' = connected \cup {<<a, b>>, <<b, a>>}
  /\ untold' = untold \cup {<<a, b>>, <<b, a>>}
  /\ UNCHANGED <<own, streams, lost, left, reset, drawn>>

Leave(a) ==
  /\ a \notin left
  /\ MayUpset
  /\ left' = left \cup {a}
  /\ lost' = {p \in lost : p[1] # a} \cup {p \in connected : p[2] = a}
  /\ connected' = {p \in connected : a \notin {p[1], p[2]}}
  /\ untold' = {p \in untold : p[1] # a}
  /\ streams' = [b \in Systems |-> [c \in Systems |->
                   IF a \in {b, c} THEN <<>> ELSE streams[b][c]]]
  /\ UNCHANGED <<own, reset, drawn>>

-----------------------------------------------------------------------------
NetworkStep ==
  \E a \in Systems : \E b \in Systems \ {a} :
    Connect(a, b) \/ OnReceive(a, b) \/ OnNewConnection(a, b) \/ OnClosedConnection(a, b)

MeshNext ==
  \/ NetworkStep
  \/ \E a \in Systems : ResetHostCalculation(a) \/ Leave(a)

MeshSpec == MeshInit /\ [][MeshNext]_meshVars

-----------------------------------------------------------------------------
(* Properties.  They are about a mesh that has come to rest: everyone present is connected
   to everyone present, and no packet and no notice is under way. *)

GetHostSystem(a) == IF ourFCMGuid[a] = NoId THEN a ELSE hostRakNetGuid[a]

Present == Systems \ left
AtRest == Settled(Systems) /\ Cardinality(Present) > 1

\* No two systems of a mesh at rest have different hosts, whoever started over while the
\* ids were exchanged, unless one has left.
HostsAgree ==
  AtRest /\ left = {} => \A a, b \in {c \in Systems : hostRakNetGuid[c] # NoHost} :
    hostRakNetGuid[a] = hostRakNetGuid[b]

\* The host of everyone in a mesh at rest is there, whoever left and in whatever order
\* the others were told.
HostIsPresent == AtRest => \A a \in Present : hostRakNetGuid[a] \in Present \cup {NoHost}

\* Everyone in a mesh at rest has a host, when nobody left and nobody started over.
HostKnown == AtRest /\ left \cup reset = {} => \A a \in Systems : hostRakNetGuid[a] # NoHost

\* In a mesh at rest everyone has an id and everyone knows it, so that GetHostOrder puts
\* the same systems into the same order wherever it is called.
IdsKnown ==
  AtRest => \A a, b \in Present : a # b =>
    /\ ourFCMGuid[b] # NoId
    /\ b \in DOMAIN fcm2ParticipantList[a]
    /\ fcm2ParticipantList[a][b] = ourFCMGuid[b]

\* Unless somebody left or started over, nobody who came after the founders had settled is
\* host: he has a higher id than any of them, whomever he met first.
FoundersFirst ==
  AtRest /\ left \cup reset = {} /\ Founders # {} =>
    \A a \in Systems : hostRakNetGuid[a] \in Founders \cup {NoHost}

\* The first of GetHostOrder.
IdSeen(a, b) == IF b = a THEN ourFCMGuid[a] ELSE fcm2ParticipantList[a][b]
FirstInOrder(a) ==
  LET known == IF ourFCMGuid[a] = NoId THEN {a} ELSE {a} \cup DOMAIN fcm2ParticipantList[a]
  IN {b \in known : \A c \in known : IdSeen(a, b) <= IdSeen(a, c)}

\* In a mesh at rest the order that GetHostOrder gives "is also the order that the hosts
\* will be chosen in", as its comment says: the first of it is host.
FirstIsHost == AtRest => \A a \in Present : GetHostSystem(a) \in FirstInOrder(a)
=============================================================================
