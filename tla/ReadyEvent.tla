------------------------------ MODULE ReadyEvent ------------------------------
(***************************************************************************)
(* ReadyEvent, the plugin by which peers agree that all of them are ready  *)
(* for one event: in a first stage each knows that everyone it waits for   *)
(* is ready (ALL_SET), in a second that everyone it waits for knows as     *)
(* much of those it waits for itself (IsEventCompleted).  Users signal,    *)
(* take it back, change whom they wait for, forget the event and force it; *)
(* connections break and are made again.                                   *)
(*                                                                         *)
(* One event is modelled: the nodes of two events share nothing.  Messages *)
(* are RELIABLE_ORDERED on one channel: a stream for each direction of a   *)
(* connection.                                                             *)
(***************************************************************************)
EXTENDS Naturals, Sequences

CONSTANTS Systems,     \* the systems, by guid
          Forcers,     \* whose users call ForceCompletion
          Leavers,     \* whose users remove systems or delete the event
          MaxWhims     \* bound: steps of users that take something back, and lost connections

ASSUME SystemsAssumption == Forcers \subseteq Systems /\ Leavers \subseteq Systems
ASSUME WhimsAssumption == MaxWhims \in Nat

VARIABLES
  eventStatus, \* of each system; NoEvent where readyEventNodeList has no node
  systemList,  \* of each system's node: what was received from and sent to whom it waits for
  streams,     \* streams[a][b]: packets of a on their way to b
  connected,   \* the pairs <<a, b>> whose connection is open at a
  lost,        \* the pairs <<a, b>> whose end a has not been told of
  whims        \* bounded steps so far

readyVars == <<eventStatus, systemList, streams, connected, lost, whims>>

Signals == {"UNSET", "SET", "ALL_SET"}
Statuses == Signals \cup {"FORCE_ALL_SET"}
NoEvent == "no event"
Packets == Statuses \cup {"QUERY"}

RemoteSystems == [lastReceivedStatus : Signals, lastSentStatus : Statuses]
NewSystem == [lastReceivedStatus |-> "UNSET", lastSentStatus |-> "UNSET"]
Nobody == [b \in {} |-> NewSystem]

ReadyTypeOK ==
  /\ eventStatus \in [Systems -> Statuses \cup {NoEvent}]
  /\ DOMAIN systemList = Systems
  /\ \A a \in Systems : \E others \in SUBSET (Systems \ {a}) :
       systemList[a] \in [others -> RemoteSystems]
  /\ streams \in [Systems -> [Systems -> Seq(Packets)]]
  /\ connected \subseteq Systems \X Systems
  /\ lost \subseteq Systems \X Systems
  /\ whims \in 0..MaxWhims

ReadyInit ==
  /\ eventStatus = [a \in Systems |-> NoEvent]
  /\ systemList = [a \in Systems |-> Nobody]
  /\ streams = [a \in Systems |-> [b \in Systems |-> <<>>]]
  /\ connected = {p \in Systems \X Systems : p[1] # p[2]}
  /\ lost = {}
  /\ whims = 0

-----------------------------------------------------------------------------
\* The methods that the operations share.
HasEvent(a) == eventStatus[a] # NoEvent
Waits(a, b) == b \in DOMAIN systemList[a]

AnyUnset(list) == \E b \in DOMAIN list : list[b].lastReceivedStatus = "UNSET"

\* Mutant: the first stage is taken for completion.
CompletedFirstStage(a) == eventStatus[a] \in {"ALL_SET", "FORCE_ALL_SET"}

\* IsEventCompletedByIndex.
Completed(a) ==
  \/ eventStatus[a] = "FORCE_ALL_SET"
  \/ /\ eventStatus[a] = "ALL_SET"
     /\ \A b \in DOMAIN systemList[a] : systemList[a][b].lastReceivedStatus = "ALL_SET"

\* UpdateReadyStatus, what it makes of a status.
Updated(status, list) ==
  CASE status = "SET" /\ ~AnyUnset(list) -> "ALL_SET"
    [] status = "ALL_SET" /\ AnyUnset(list) -> "SET"
    [] OTHER -> status

\* Send: nothing is sent where there is no connection.
Sent(a, b, packets) ==
  IF <<a, b>> \in connected THEN streams[a][b] \o packets ELSE streams[a][b]

\* UpdateReadyStatus of a node with this status and list, and BroadcastReadyUpdate; the
\* systems in asked were sent a query before.
Update(a, status, list, asked) ==
  LET new == Updated(status, list)
      query(b) == IF b \in asked THEN <<"QUERY">> ELSE <<>>
      signal(b) == IF b \in DOMAIN list /\ list[b].lastSentStatus # new THEN <<new>> ELSE <<>>
  IN /\ eventStatus' = [eventStatus EXCEPT ![a] = new]
     /\ systemList' = [systemList EXCEPT ![a] =
                         [b \in DOMAIN list |-> [list[b] EXCEPT !.lastSentStatus = new]]]
     /\ streams' = [streams EXCEPT ![a] =
                      [b \in Systems |-> Sent(a, b, query(b) \o signal(b))]]

Without(list, gone) == [b \in DOMAIN list \ gone |-> list[b]]

Whim == whims < MaxWhims /\ whims' = whims + 1

-----------------------------------------------------------------------------
\* The user's calls.

\* SetEvent(eventId, true).  A new event is set and nobody is told of it.
SetReady(a) ==
  /\ eventStatus[a] \in {NoEvent, "UNSET"}
  /\ IF HasEvent(a) THEN Update(a, "SET", systemList[a], {})
     ELSE /\ eventStatus' = [eventStatus EXCEPT ![a] = "SET"]
          /\ UNCHANGED <<systemList, streams>>
  /\ UNCHANGED <<connected, lost, whims>>

\* SetEvent(eventId, false): a new event, or one that is set.
SetUnready(a) ==
  /\ \/ ~HasEvent(a) /\ UNCHANGED whims
     \/ eventStatus[a] \in {"SET", "ALL_SET"} /\ Whim
  /\ Update(a, "UNSET", systemList[a], {})
  /\ UNCHANGED <<connected, lost>>

\* Mutant: the status is stored, and nobody is told.
ForceSilently(a) ==
  /\ a \in Forcers /\ eventStatus[a] # "FORCE_ALL_SET"
  /\ eventStatus' = [eventStatus EXCEPT ![a] = "FORCE_ALL_SET"]
  /\ Whim
  /\ UNCHANGED <<systemList, streams, connected, lost>>

ForceCompletion(a) ==
  /\ a \in Forcers
  /\ eventStatus[a] # "FORCE_ALL_SET"
  /\ Update(a, "FORCE_ALL_SET", systemList[a], {})
  /\ Whim
  /\ UNCHANGED <<connected, lost>>

DeleteEvent(a) ==
  /\ a \in Leavers
  /\ HasEvent(a)
  /\ eventStatus' = [eventStatus EXCEPT ![a] = NoEvent]
  /\ systemList' = [systemList EXCEPT ![a] = Nobody]
  /\ Whim
  /\ UNCHANGED <<streams, connected, lost>>

\* AddToWaitList of one system, or of all that are connected.
Connected(a) == {b \in Systems : <<a, b>> \in connected}

AddToWaitList(a, added) ==
  LET new == added \ DOMAIN systemList[a]
      list == [b \in DOMAIN systemList[a] \cup new |->
                 IF b \in new THEN NewSystem ELSE systemList[a][b]]
  IN /\ new # {}
     /\ Update(a, IF HasEvent(a) THEN eventStatus[a] ELSE "UNSET", list, new)
     /\ UNCHANGED <<connected, lost, whims>>

\* RemoveFromWaitList of one system, or of all.
RemoveFromWaitList(a, removed) ==
  /\ a \in Leavers
  /\ HasEvent(a)
  /\ Update(a, eventStatus[a], Without(systemList[a], removed), {})
  /\ Whim
  /\ UNCHANGED <<connected, lost>>

-----------------------------------------------------------------------------
\* What arrives at b from a.
Receive(a, b) == streams' = [streams EXCEPT ![a][b] = Tail(@)]

\* Update at b while a packet from a is taken from its stream.
ReceiveAndUpdate(a, b, status, list) ==
  LET new == Updated(status, list)
      signal(c) == IF c \in DOMAIN list /\ list[c].lastSentStatus # new THEN <<new>> ELSE <<>>
  IN /\ eventStatus' = [eventStatus EXCEPT ![b] = new]
     /\ systemList' = [systemList EXCEPT ![b] =
                         [c \in DOMAIN list |-> [list[c] EXCEPT !.lastSentStatus = new]]]
     /\ streams' = [streams EXCEPT ![b] = [c \in Systems |-> Sent(b, c, signal(c))],
                                   ![a][b] = Tail(@)]

\* Mutant: the status is recorded and nothing follows from it.
OnlyRecorded(a, b, status) ==
  /\ Receive(a, b)
  /\ systemList' = IF Waits(b, a) THEN [systemList EXCEPT ![b][a].lastReceivedStatus = status]
                   ELSE systemList
  /\ UNCHANGED <<eventStatus, connected, lost, whims>>

OnReadyEventPacketUpdate(a, b, status) ==
  LET list == [systemList[b] EXCEPT ![a].lastReceivedStatus = status]
  IN /\ IF ~Waits(b, a) \/ systemList[b][a].lastReceivedStatus = status
        THEN Receive(a, b) /\ UNCHANGED <<eventStatus, systemList>>
        ELSE IF eventStatus[b] = "FORCE_ALL_SET"
        THEN /\ Receive(a, b)
             /\ systemList' = [systemList EXCEPT ![b] = list]
             /\ UNCHANGED eventStatus
        ELSE ReceiveAndUpdate(a, b, eventStatus[b], list)
     /\ UNCHANGED <<connected, lost, whims>>

\* Mutant: a forced completion is handled like any other status.
ForceAsUpdate(a, b) == OnReadyEventPacketUpdate(a, b, "FORCE_ALL_SET")

\* Nobody else is told: who forced the event has told everyone it waits for.
OnReadyEventForceAllSet(a, b) ==
  /\ Receive(a, b)
  /\ eventStatus' = IF HasEvent(b) THEN [eventStatus EXCEPT ![b] = "FORCE_ALL_SET"]
                    ELSE eventStatus
  /\ UNCHANGED <<systemList, connected, lost, whims>>

\* Mutant: a query is answered only with what was not sent before.
OnQueryNotForced(a, b) ==
  /\ IF Waits(b, a) /\ eventStatus[b] # systemList[b][a].lastSentStatus
     THEN /\ streams' = [streams EXCEPT ![a][b] = Tail(@),
                                        ![b][a] = Sent(b, a, <<eventStatus[b]>>)]
          /\ systemList' = [systemList EXCEPT ![b][a].lastSentStatus = eventStatus[b]]
     ELSE Receive(a, b) /\ UNCHANGED systemList
  /\ UNCHANGED <<eventStatus, connected, lost, whims>>

\* A query is answered unless the status is the default; the answer counts as sent.
OnReadyEventQuery(a, b) ==
  /\ IF Waits(b, a) /\ (eventStatus[b] # "UNSET"
                        \/ systemList[b][a].lastSentStatus # "UNSET")
     THEN /\ streams' = [streams EXCEPT ![a][b] = Tail(@),
                                        ![b][a] = Sent(b, a, <<eventStatus[b]>>)]
          /\ systemList' = [systemList EXCEPT ![b][a].lastSentStatus = eventStatus[b]]
     ELSE Receive(a, b) /\ UNCHANGED systemList
  /\ UNCHANGED <<eventStatus, connected, lost, whims>>

OnReceive(a, b) ==
  /\ streams[a][b] # <<>>
  /\ LET packet == Head(streams[a][b])
     IN \/ packet \in Signals /\ OnReadyEventPacketUpdate(a, b, packet)
        \/ packet = "FORCE_ALL_SET" /\ OnReadyEventForceAllSet(a, b)
        \/ packet = "QUERY" /\ OnReadyEventQuery(a, b)

\* OnClosedConnection: RemoveFromAllLists.  UpdateReadyStatus runs also when the system
\* was not in the list.
OnClosedConnection(a, b) ==
  /\ <<a, b>> \in lost
  /\ lost' = lost \ {<<a, b>>}
  /\ IF HasEvent(a) THEN Update(a, eventStatus[a], Without(systemList[a], {b}), {})
     ELSE UNCHANGED <<eventStatus, systemList, streams>>
  /\ UNCHANGED <<connected, whims>>

-----------------------------------------------------------------------------
\* RakPeer: a connection breaks, and what was under way is lost; each side is told of it,
\* and a new one can be made when both were.
Break(a, b) ==
  /\ {<<a, b>>, <<b, a>>} \subseteq connected
  /\ connected' = connected \ {<<a, b>>, <<b, a>>}
  /\ lost' = lost \cup {<<a, b>>, <<b, a>>}
  /\ streams' = [streams EXCEPT ![a][b] = <<>>, ![b][a] = <<>>]
  /\ Whim
  /\ UNCHANGED <<eventStatus, systemList>>

Reconnect(a, b) ==
  /\ a # b
  /\ {<<a, b>>, <<b, a>>} \cap (connected \cup lost) = {}
  /\ connected' = connected \cup {<<a, b>>, <<b, a>>}
  /\ UNCHANGED <<eventStatus, systemList, streams, lost, whims>>

-----------------------------------------------------------------------------
UserCall(a) ==
  \/ SetReady(a) \/ SetUnready(a) \/ ForceCompletion(a) \/ DeleteEvent(a)
  \/ AddToWaitList(a, Connected(a))
  \/ \E b \in Connected(a) : AddToWaitList(a, {b})
  \/ RemoveFromWaitList(a, DOMAIN systemList[a])
  \/ \E b \in DOMAIN systemList[a] : RemoveFromWaitList(a, {b})

ReadyNext ==
  \E a \in Systems :
    \/ UserCall(a)
    \/ \E b \in Systems \ {a} :
         OnReceive(a, b) \/ OnClosedConnection(a, b) \/ Break(a, b) \/ Reconnect(a, b)

ReadySpec == ReadyInit /\ [][ReadyNext]_readyVars

\* Packets arrive, and plugins are told of lost connections.
ReadyFairness ==
  \A a \in Systems : \A b \in Systems \ {a} :
    WF_readyVars(OnReceive(a, b)) /\ WF_readyVars(OnClosedConnection(a, b))

-----------------------------------------------------------------------------
(* Properties. *)

Mutual(a, b) == Waits(a, b) /\ Waits(b, a) /\ <<a, b>> \in connected
\* Nothing that tells b of a is under way, and nothing that asks for it.
Quiet(a, b) ==
  streams[a][b] = <<>> /\ \A i \in DOMAIN streams[b][a] : streams[b][a][i] # "QUERY"
View(b, a) == systemList[b][a].lastReceivedStatus

\* What b believes of a is what a is, once a's packets have arrived: however often either
\* changed its mind, queried or was cut off.
ViewsCurrentOf(a) ==
  \A b \in Systems : Mutual(a, b) /\ Quiet(a, b) /\ eventStatus[a] # "FORCE_ALL_SET" =>
    View(b, a) = eventStatus[a]

\* The views of all who neither removed anyone nor forgot the event.
ViewsCurrent == \A a \in Systems \ Leavers : ViewsCurrentOf(a)

\* Completion, the second stage: who completed an event of its own accord waits for
\* nobody who is not ready to all it waits for in turn, but for what is under way.
TwoStages ==
  \A a \in Systems : Completed(a) /\ eventStatus[a] # "FORCE_ALL_SET" =>
    \A b \in DOMAIN systemList[a] \ Leavers : Mutual(a, b) /\ Quiet(b, a) =>
      /\ eventStatus[b] \in {"ALL_SET", "FORCE_ALL_SET"}
      /\ eventStatus[b] = "ALL_SET" =>
           \A c \in DOMAIN systemList[b] \ Leavers : Mutual(b, c) /\ Quiet(c, b) =>
             eventStatus[c] # "UNSET"

\* Nobody who waits for each other and is ready stays uncompleted.
AllReady ==
  /\ \A a \in Systems : eventStatus[a] \in {"SET", "ALL_SET"}
  /\ \A a \in Systems : \A b \in Systems \ {a} : Mutual(a, b)
CompletesAtLast == <>[]AllReady => <>[](\A a \in Systems : Completed(a))

\* A forced completion reaches everyone who waits for the one who forced it.
ForcedReaches ==
  \A a \in Systems : \A b \in Systems \ {a} :
    eventStatus[a] = "FORCE_ALL_SET" /\ Mutual(a, b)
      ~> eventStatus[b] = "FORCE_ALL_SET" \/ ~(Mutual(a, b) /\ eventStatus[a] = "FORCE_ALL_SET")
=============================================================================
