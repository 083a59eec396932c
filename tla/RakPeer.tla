------------------------------- MODULE RakPeer -------------------------------
(***************************************************************************)
(* How RakPeers connect and part: the unconnected handshake, whose         *)
(* datagrams are lost, repeated, delayed and reordered; the three reliable *)
(* messages that follow it; the ways a connection ends; and what the user  *)
(* of each peer is told of it all.  A peer may crash and start again at    *)
(* the same address.  One network thread runs RunUpdateCycle; the user's   *)
(* thread only queues requests and commands for it.                        *)
(*                                                                         *)
(* Left out: MTU detection, security (off by default), the limits of       *)
(* connection frequency (off), pings but for what they detect, plugins.    *)
(* A datagram of a connection does not arrive once its sender has closed   *)
(* that connection; it may well reach a later connection of its receiver.  *)
(***************************************************************************)
EXTENDS RemoteSystems

CONSTANTS Targets,                    \* whom each peer's user connects to
          maximumIncomingConnections, \* SetMaximumIncomingConnections of each peer
          sendConnectionAttemptCount,
          RightPasswords,             \* whether the password of a call is right
          Closers,                    \* the peers whose users close connections
          MaxCalls,                   \* bound: calls of Connect of each peer
          MaxOrdered,                 \* bound: ordered messages of a connection when data is sent
          MaxLostAcks                 \* bound: messages at a time whose acknowledgement was lost

ASSUME TargetsAssumption ==
  Targets \in [Peers -> SUBSET Peers] /\ \A p \in Peers : p \notin Targets[p]
ASSUME IncomingAssumption ==
  \A p \in Peers : maximumIncomingConnections[p] \in 0..maximumNumberOfPeers[p]
ASSUME ClosersAssumption == Closers \subseteq Peers
\* Fewer would be divided by NUM_MTU_SIZES to zero, and requestsMade by that.
ASSUME CountAssumption == sendConnectionAttemptCount \in Nat /\ sendConnectionAttemptCount >= 3
ASSUME PasswordsAssumption == RightPasswords \subseteq BOOLEAN
ASSUME CallsAssumption == {MaxCalls, MaxOrdered} \subseteq [Peers -> Nat] /\ MaxLostAcks \in Nat

VARIABLES
  starts,     \* how often each peer was started again; with its address, myGuid
  systems,    \* RemoteSystems of each peer
  requestedConnectionQueue, \* of each peer: the request to each address, or NoRequest
  bufferedCommands,         \* of each peer: the systems its user has told it to close
  banList,    \* of each peer
  datagrams,  \* unconnected datagrams ever sent
  told,       \* told[p][q]: the last packet about q that Receive gave to p's user
  calls       \* calls of Connect so far

peerVars == <<starts, systems, requestedConnectionQueue, bufferedCommands, banList,
              datagrams, told, calls>>

myGuid(p) == <<p, starts[p]>>

Requests == [requestsMade : Nat, right : BOOLEAN]
NoRequest == [requestsMade |-> 0]
Pending(p, q) == requestedConnectionQueue[p][q] # NoRequest

Refusals == {"ALREADY_CONNECTED", "NO_FREE_INCOMING_CONNECTIONS", "CONNECTION_BANNED"}
Plain == {"OPEN_CONNECTION_REQUEST_1", "OPEN_CONNECTION_REPLY_1"} \cup Refusals
WithGuid == {"OPEN_CONNECTION_REQUEST_2", "OPEN_CONNECTION_REPLY_2"}
Datagrams == [kind : Plain, from : Peers, to : Peers]
               \cup [kind : WithGuid, from : Peers, to : Peers, guid : Guids]

-----------------------------------------------------------------------------
\* What is read of the systems, here and by the actions.
Known(p, q) == IsActive(systems[p], q)
System(p, q) == Entry(systems[p], q)
InMode(p, q, modes) == Known(p, q) /\ System(p, q).connectMode \in modes

\* A call of Connect that has not been answered.
Asked(p, q) == Pending(p, q) \/ InMode(p, q, {"REQUESTED_CONNECTION"})

\* The promise these peers keep.
L == INSTANCE Lifecycle WITH
       asked <- [p \in Peers |-> [q \in Peers |-> Asked(p, q)]],
       leaving <- [p \in Peers |-> [q \in Peers |-> InMode(p, q, Disconnecting)]]

RemoteTypeOK ==
  /\ DOMAIN starts = Peers /\ \A p \in Peers : starts[p] \in 0..MaxRestarts[p]
  /\ DOMAIN systems = Peers /\ \A p \in Peers : systems[p] \in SystemLists(p)
  /\ requestedConnectionQueue \in [Peers -> [Peers -> Requests \cup {NoRequest}]]
  /\ bufferedCommands \in [Peers -> SUBSET Peers]
  /\ banList \in [Peers -> SUBSET Peers]
  /\ datagrams \subseteq Datagrams
  /\ told \in [Peers -> [Peers -> L!Notices]]
  /\ calls \in [Peers -> Nat]

RemoteInit ==
  /\ starts = [p \in Peers |-> 0]
  /\ systems = [p \in Peers |-> NoSystems(p)]
  /\ requestedConnectionQueue = [p \in Peers |-> [q \in Peers |-> NoRequest]]
  /\ bufferedCommands = [p \in Peers |-> {}]
  /\ banList = [p \in Peers |-> {}]
  /\ datagrams = {}
  /\ told = [p \in Peers |-> [q \in Peers |-> "none"]]
  /\ calls = [p \in Peers |-> 0]

-----------------------------------------------------------------------------
\* What the actions do.
Tell(p, q, notice) == told' = [told EXCEPT ![p][q] = notice]
SendPlain(p, q, kind) ==
  datagrams' = datagrams \cup {[kind |-> kind, from |-> p, to |-> q]}
SendWithGuid(p, q, kind) ==
  datagrams' = datagrams \cup {[kind |-> kind, from |-> p, to |-> q, guid |-> myGuid(p)]}

\* SendImmediate: nothing is sent any more in a mode that ends the connection.
Sent(e, kind) ==
  IF e.connectMode \in Disconnecting THEN e ELSE [e EXCEPT !.layer = Enqueued(@, kind)]

Dequeue(p, q) ==
  requestedConnectionQueue' = [requestedConnectionQueue EXCEPT ![p][q] = NoRequest]

-----------------------------------------------------------------------------
\* The user's thread.

\* Connect: refused while the address is active or a request to it is queued.
Connect(p, q) ==
  /\ q \in Targets[p]
  /\ calls[p] < MaxCalls[p]
  /\ ActiveWith(systems[p], q) = {}
  /\ ~Pending(p, q)
  /\ \E right \in RightPasswords :
       requestedConnectionQueue' =
         [requestedConnectionQueue EXCEPT ![p][q] = [requestsMade |-> 0, right |-> right]]
  /\ calls' = [calls EXCEPT ![p] = @ + 1]
  /\ UNCHANGED <<starts, systems, bufferedCommands, banList, datagrams, told>>

\* CloseConnection, with a notification.  The user closes what is being connected, what
\* it was told is open, or was told so until a moment ago: the end may still wait to be
\* received.
CloseConnection(p, q) ==
  /\ p \in Closers
  /\ told[p][q] \in L!Open \cup L!Ended \/ InMode(p, q, {"REQUESTED_CONNECTION"})
  /\ q \notin bufferedCommands[p]
  /\ bufferedCommands' = [bufferedCommands EXCEPT ![p] = @ \cup {q}]
  /\ UNCHANGED <<starts, systems, requestedConnectionQueue, banList, datagrams, told, calls>>

\* Send of one RELIABLE_ORDERED packet on channel 0, while the connection is open.
Send(p, q) ==
  /\ told[p][q] \in L!Open
  /\ InMode(p, q, {"CONNECTED"})
  /\ System(p, q).layer.ordered < MaxOrdered[p]
  /\ systems' = [systems EXCEPT ![p] = Changed(@, q, Sent(System(p, q), "DATA"))]
  /\ UNCHANGED <<starts, requestedConnectionQueue, bufferedCommands, banList, datagrams,
                 told, calls>>

\* The program ends without a word and is started again.
Restart(p) ==
  /\ starts[p] < MaxRestarts[p]
  /\ starts' = [starts EXCEPT ![p] = @ + 1]
  /\ systems' = [systems EXCEPT ![p] = NoSystems(p)]
  /\ requestedConnectionQueue' =
       [requestedConnectionQueue EXCEPT ![p] = [q \in Peers |-> NoRequest]]
  /\ bufferedCommands' = [bufferedCommands EXCEPT ![p] = {}]
  /\ banList' = [banList EXCEPT ![p] = {}]
  /\ told' = [told EXCEPT ![p] = [q \in Peers |-> "none"]]
  /\ UNCHANGED <<datagrams, calls>>

-----------------------------------------------------------------------------
\* RunUpdateCycle: packets first, then the commands, then the requests, then each
\* active system.  A command may come at any moment and waits for the next cycle.

\* A buffered command: ID_DISCONNECTION_NOTIFICATION is sent and the system, as it is
\* now, will be closed when it is acknowledged.
RunCommand(p, q) ==
  /\ q \in bufferedCommands[p]
  /\ bufferedCommands' = [bufferedCommands EXCEPT ![p] = @ \ {q}]
  /\ systems' =
       IF Known(p, q)
       THEN LET e == Sent(System(p, q), "DISCONNECTION_NOTIFICATION")
            IN [systems EXCEPT ![p] = Changed(@, q, [e EXCEPT !.connectMode = "DISCONNECT_ASAP"])]
       ELSE systems
  /\ UNCHANGED <<starts, requestedConnectionQueue, banList, datagrams, told, calls>>

\* The next ID_OPEN_CONNECTION_REQUEST_1 of a request, or its failure.
Attempt(p, q) ==
  /\ Pending(p, q)
  /\ IF requestedConnectionQueue[p][q].requestsMade = sendConnectionAttemptCount + 1
     THEN /\ Dequeue(p, q)
          /\ Tell(p, q, "CONNECTION_ATTEMPT_FAILED")
          /\ UNCHANGED datagrams
     ELSE /\ requestedConnectionQueue' =
               [requestedConnectionQueue EXCEPT ![p][q].requestsMade = @ + 1]
          /\ SendPlain(p, q, "OPEN_CONNECTION_REQUEST_1")
          /\ UNCHANGED told
  /\ UNCHANGED <<starts, systems, bufferedCommands, banList, calls>>

-----------------------------------------------------------------------------
\* ProcessOfflineNetworkPacket.
Arrives(p, d, kind) == d.to = p /\ d.from \notin banList[p] /\ d.kind = kind

\* Whatever a banned system sends is answered with ID_CONNECTION_BANNED.
AnswerBanned(p, q) ==
  /\ q \in banList[p]
  /\ \/ \E d \in datagrams : d.to = p /\ d.from = q
     \/ Known(q, p) /\ System(q, p).layer.outgoing # {}
  /\ SendPlain(p, q, "CONNECTION_BANNED")
  /\ UNCHANGED <<starts, systems, requestedConnectionQueue, bufferedCommands, banList, told,
                 calls>>

OnOpenConnectionRequest1(p, d) ==
  /\ Arrives(p, d, "OPEN_CONNECTION_REQUEST_1")
  /\ SendPlain(p, d.from, "OPEN_CONNECTION_REPLY_1")
  /\ UNCHANGED <<starts, systems, requestedConnectionQueue, bufferedCommands, banList, told,
                 calls>>

OnOpenConnectionReply1(p, d) ==
  /\ Arrives(p, d, "OPEN_CONNECTION_REPLY_1")
  /\ Pending(p, d.from)
  /\ SendWithGuid(p, d.from, "OPEN_CONNECTION_REQUEST_2")
  /\ UNCHANGED <<starts, systems, requestedConnectionQueue, bufferedCommands, banList, told,
                 calls>>

\* The outcome of an ID_OPEN_CONNECTION_REQUEST_2.
IPAddrInUse(p, d) == Known(p, d.from)
GUIDInUse(p, d) == GetRemoteSystemFromGUID(systems[p], d.guid) # NoIndex
SameRequest(p, d) ==
  /\ IPAddrInUse(p, d) /\ GUIDInUse(p, d)
  /\ GetRemoteSystemFromGUID(systems[p], d.guid) = GetRemoteSystemIndex(systems[p], d.from)
  /\ System(p, d.from).connectMode = "UNVERIFIED_SENDER"
NewRequest(p, d) == ~IPAddrInUse(p, d) /\ ~GUIDInUse(p, d)

AllowIncomingConnections(p) ==
  Cardinality(RemoteInitiated(systems[p])) < maximumIncomingConnections[p]

\* A new system is answered ID_OPEN_CONNECTION_REPLY_2 also when no slot is left for it.
OnOpenConnectionRequest2(p, d) ==
  /\ Arrives(p, d, "OPEN_CONNECTION_REQUEST_2")
  /\ IF NewRequest(p, d) /\ AllowIncomingConnections(p)
     THEN systems' = [systems EXCEPT ![p] = Assign(@, d.from, d.guid)]
     ELSE UNCHANGED systems
  /\ IF SameRequest(p, d) \/ (NewRequest(p, d) /\ AllowIncomingConnections(p))
     THEN SendWithGuid(p, d.from, "OPEN_CONNECTION_REPLY_2")
     ELSE SendPlain(p, d.from, IF NewRequest(p, d) THEN "NO_FREE_INCOMING_CONNECTIONS"
                                                   ELSE "ALREADY_CONNECTED")
  /\ UNCHANGED <<starts, requestedConnectionQueue, bufferedCommands, banList, told, calls>>

\* A system that is active already, by a request of its own, is taken over as it is.
OnOpenConnectionReply2(p, d) ==
  LET q == d.from
      assigned == IF Known(p, q) THEN systems[p] ELSE Assign(systems[p], q, d.guid)
      request == IF requestedConnectionQueue[p][q].right
                 THEN "CONNECTION_REQUEST" ELSE "BAD_CONNECTION_REQUEST"
      asking == [Entry(assigned, q) EXCEPT !.connectMode = "REQUESTED_CONNECTION",
                                           !.weInitiatedTheConnection = TRUE]
  IN /\ Arrives(p, d, "OPEN_CONNECTION_REPLY_2")
     /\ Pending(p, q)
     /\ Dequeue(p, q)
     /\ IF IsActive(assigned, q)
        THEN /\ systems' = [systems EXCEPT ![p] = Changed(assigned, q, Sent(asking, request))]
             /\ UNCHANGED told
        ELSE /\ Tell(p, q, "CONNECTION_ATTEMPT_FAILED")
             /\ UNCHANGED systems
     /\ UNCHANGED <<starts, bufferedCommands, banList, datagrams, calls>>

OnRefusal(p, d) ==
  /\ \E kind \in Refusals : Arrives(p, d, kind)
  /\ Pending(p, d.from)
  /\ Dequeue(p, d.from)
  /\ Tell(p, d.from, d.kind)
  /\ UNCHANGED <<starts, systems, bufferedCommands, banList, datagrams, calls>>

-----------------------------------------------------------------------------
\* What RunUpdateCycle does with a message of a system in a mode.
IsRequest(kind) == kind \in {"CONNECTION_REQUEST", "BAD_CONNECTION_REQUEST"}

\* ParseConnectionRequestPacket is called, and checks the password, in these modes
\* only; in any other the request is answered as it is.
Parses(mode) == mode \in {"UNVERIFIED_SENDER", "REQUESTED_CONNECTION"}

\* An unverified sender may send nothing but a request.
Nonsense(mode, kind) == mode = "UNVERIFIED_SENDER" /\ ~IsRequest(kind)

\* This is an accept of someone we wanted to connect to.
Accepts(mode, kind) ==
  /\ kind = "CONNECTION_REQUEST_ACCEPTED"
  /\ mode \in {"REQUESTED_CONNECTION", "HANDLING_CONNECTION_REQUEST"}

Completes(mode, kind) ==
  kind = "NEW_INCOMING_CONNECTION" /\ mode = "HANDLING_CONNECTION_REQUEST"

Denies(mode, kind) == kind = "INVALID_PASSWORD" /\ mode = "REQUESTED_CONNECTION"

ModeAfter(mode, kind) ==
  CASE Parses(mode) /\ kind = "CONNECTION_REQUEST" -> "HANDLING_CONNECTION_REQUEST"
    [] Parses(mode) /\ kind = "BAD_CONNECTION_REQUEST" -> "DISCONNECT_ASAP_SILENTLY"
    [] Accepts(mode, kind) \/ Completes(mode, kind) -> "CONNECTED"
    [] Denies(mode, kind) -> "DISCONNECT_ASAP_SILENTLY"
    [] kind = "DISCONNECTION_NOTIFICATION" -> "DISCONNECT_ON_NO_ACK"
    [] OTHER -> mode

\* The message sent in answer, before the mode changes; the modes of Disconnecting
\* send nothing.
Answer(mode, kind) ==
  CASE Parses(mode) /\ kind = "BAD_CONNECTION_REQUEST" -> "INVALID_PASSWORD"
    [] IsRequest(kind) /\ ~(Parses(mode) /\ kind = "BAD_CONNECTION_REQUEST")
         -> "CONNECTION_REQUEST_ACCEPTED"
    [] Accepts(mode, kind) -> "NEW_INCOMING_CONNECTION"
    [] OTHER -> "none"

\* Mutant: a request falls through to the user, as what RakPeer has no case for does.
RequestsForUser(mode, kind) ==
  kind = "DATA" \/ Accepts(mode, kind) \/ Completes(mode, kind) \/ IsRequest(kind)

\* Whether the message is given to the user.
ForUser(mode, kind) ==
  kind = "DATA" \/ Accepts(mode, kind) \/ Completes(mode, kind) \/ Denies(mode, kind)

AfterMessage(e, kind) ==
  LET answered == IF Answer(e.connectMode, kind) = "none" THEN e
                  ELSE Sent(e, Answer(e.connectMode, kind))
  IN [answered EXCEPT !.connectMode = ModeAfter(@, kind)]

\* The systems of p after system q, with the entry e, gave it a message.
Handled(p, q, e, kind) ==
  IF Nonsense(e.connectMode, kind) THEN Close(systems[p], q)
  ELSE Changed(systems[p], q, AfterMessage(e, kind))

Handle(p, q, e, kind) ==
  /\ IF ~Nonsense(e.connectMode, kind) /\ ForUser(e.connectMode, kind)
     THEN Tell(p, q, IF kind = "DATA" /\ told[p][q] \notin L!Open THEN "LATE_DATA" ELSE kind)
     ELSE UNCHANGED told
  /\ banList' = IF Nonsense(e.connectMode, kind)
                THEN [banList EXCEPT ![p] = @ \cup {q}] ELSE banList

\* The reliability layer of p takes in a message of q; the layer of q has it as long as
\* no acknowledgement has arrived, and sends it again.
IsNext(layer, m) == m.ord = NoOrder \/ m.ord = layer.delivered + 1

TakenIn(e, m) ==
  LET layer == e.layer
      held == IF m.ord > layer.delivered + 1 THEN layer.held \cup {m} ELSE layer.held
  IN [e EXCEPT !.layer =
        [layer EXCEPT !.received = @ \cup {m.no}, !.held = held,
                      !.delivered = IF m.ord = @ + 1 THEN m.ord ELSE @]]

LostAcks(p, q) == {m \in System(q, p).layer.outgoing : m.no \in System(p, q).layer.received}

Acknowledged(q, p, m) ==
  Changed(systems[q], p, [System(q, p) EXCEPT !.layer.outgoing = @ \ {m}])

Deliver(p, q, m, acked) ==
  LET e == System(p, q)
      fresh == m.no \notin e.layer.received
      taken == TakenIn(e, m)
      passed == fresh /\ IsNext(e.layer, m)
  IN /\ Known(p, q) /\ q \notin banList[p]
     /\ acked \/ (fresh /\ Cardinality(LostAcks(p, q) \cup LostAcks(q, p)) < MaxLostAcks)
     /\ systems' =
          [systems EXCEPT
             ![p] = IF passed THEN Handled(p, q, taken, m.kind)
                    ELSE IF fresh THEN Changed(@, q, taken) ELSE @,
             ![q] = IF acked THEN Acknowledged(q, p, m) ELSE @]
     /\ IF passed THEN Handle(p, q, taken, m.kind) ELSE UNCHANGED <<told, banList>>
     /\ UNCHANGED <<starts, requestedConnectionQueue, bufferedCommands, datagrams, calls>>

\* An ordered message that waited for the one before it.
DeliverHeld(p, q, m) ==
  LET e == System(p, q)
      taken == [e EXCEPT !.layer.held = @ \ {m}, !.layer.delivered = @ + 1]
  IN /\ IsNext(e.layer, m)
     /\ systems' = [systems EXCEPT ![p] = Handled(p, q, taken, m.kind)]
     /\ Handle(p, q, taken, m.kind)
     /\ UNCHANGED <<starts, requestedConnectionQueue, bufferedCommands, datagrams, calls>>

-----------------------------------------------------------------------------
\* Mutant: the end is not told to the side that was left.
NoticeToLeaver(mode) ==
  CASE mode = "REQUESTED_CONNECTION" -> "CONNECTION_ATTEMPT_FAILED"
    [] mode = "CONNECTED" -> "CONNECTION_LOST"
    [] mode = "DISCONNECT_ASAP" -> "DISCONNECTION_NOTIFICATION"
    [] OTHER -> "none"

\* "Check for failure conditions": the system is closed, and the user told by its mode.
FailureNotice(mode) ==
  CASE mode = "REQUESTED_CONNECTION" -> "CONNECTION_ATTEMPT_FAILED"
    [] mode = "CONNECTED" -> "CONNECTION_LOST"
    [] mode \in {"DISCONNECT_ASAP", "DISCONNECT_ON_NO_ACK"} -> "DISCONNECTION_NOTIFICATION"
    [] OTHER -> "none"

Fail(p, q) ==
  LET notice == FailureNotice(System(p, q).connectMode)
  IN
     /\ IF notice = "none" THEN UNCHANGED told ELSE Tell(p, q, notice)
     /\ systems' = [systems EXCEPT ![p] = Close(@, q)]
     /\ UNCHANGED <<starts, requestedConnectionQueue, bufferedCommands, banList, datagrams,
                    calls>>

\* Mutant: no ping to a system that has nothing to acknowledge.
DeadWithoutPing(p, q) ==
  /\ Known(p, q)
  /\ System(p, q).layer.outgoing # {}
  /\ Fail(p, q)

\* Nothing was acknowledged for timeoutTime.  A connected system is pinged reliably when
\* there is nothing else to acknowledge.
DeadConnection(p, q) ==
  /\ Known(p, q)
  /\ System(p, q).layer.outgoing # {} \/ InMode(p, q, {"CONNECTED"})
  /\ Fail(p, q)

\* A closing connection has nothing more to send; or its acknowledgements went out, or
\* have waited too long.
Disconnected(p, q) ==
  /\ \/ /\ InMode(p, q, {"DISCONNECT_ASAP", "DISCONNECT_ASAP_SILENTLY"})
        /\ System(p, q).layer.outgoing = {}
     \/ InMode(p, q, {"DISCONNECT_ON_NO_ACK"})
  /\ Fail(p, q)

\* A connection was not made within 10 seconds.
ConnectionTimeout(p, q) ==
  /\ InMode(p, q, HalfOpen)
  /\ Fail(p, q)

\* The ban of nonsense data lasts as long as a timeout of the connection.
BanExpires(p, q) ==
  /\ q \in banList[p]
  /\ banList' = [banList EXCEPT ![p] = @ \ {q}]
  /\ UNCHANGED <<starts, systems, requestedConnectionQueue, bufferedCommands, datagrams, told,
                 calls>>

-----------------------------------------------------------------------------
UserStep(p, q) == Connect(p, q) \/ CloseConnection(p, q) \/ Send(p, q)

ReceiveDatagram(p, d) ==
  \/ OnOpenConnectionRequest1(p, d) \/ OnOpenConnectionReply1(p, d)
  \/ OnOpenConnectionRequest2(p, d) \/ OnOpenConnectionReply2(p, d)
  \/ OnRefusal(p, d)

ReceiveMessage(p, q) ==
  \/ /\ Known(q, p)
     /\ \E m \in System(q, p).layer.outgoing, acked \in BOOLEAN : Deliver(p, q, m, acked)
  \/ /\ Known(p, q)
     /\ \E m \in System(p, q).layer.held : DeliverHeld(p, q, m)

Failure(p, q) == DeadConnection(p, q) \/ Disconnected(p, q) \/ ConnectionTimeout(p, q)

RemoteNext ==
  \E p \in Peers :
    \/ Restart(p)
    \/ \E d \in datagrams : ReceiveDatagram(p, d)
    \/ \E q \in Peers \ {p} :
         \/ UserStep(p, q)
         \/ RunCommand(p, q)
         \/ Attempt(p, q)
         \/ AnswerBanned(p, q)
         \/ ReceiveMessage(p, q)
         \/ Failure(p, q)
         \/ BanExpires(p, q)

RemoteSpec == RemoteInit /\ [][RemoteNext]_peerVars

\* The network thread runs: it makes the attempts of a request, and closes what was not
\* completed, what has nothing left to send, and what nobody answers any more.
NobodyThere(p, q) == ~Known(q, p) /\ DeadConnection(p, q)

RemoteFairness ==
  \A p \in Peers : \A q \in Peers \ {p} :
    /\ WF_peerVars(RunCommand(p, q))
    /\ WF_peerVars(Attempt(p, q))
    /\ WF_peerVars(ConnectionTimeout(p, q))
    /\ WF_peerVars(Disconnected(p, q))
    /\ WF_peerVars(NobodyThere(p, q))

-----------------------------------------------------------------------------
(* Properties. *)

\* remoteSystemList, its hash table and the active list of every peer agree (the
\* assertions of GetRemoteSystemFromSystemAddress, ReferenceRemoteSystem and
\* RemoveFromActiveSystemList): no slot is lost, no address has two.
ListsAgree == \A p \in Peers : ListsAgreeIn(systems[p])

\* The user believes a connection open exactly while RakPeer holds it as connected or
\* is closing it after it was.
OpenIsHeld ==
  \A p \in Peers, q \in Peers :
    /\ told[p][q] \in L!Open =>
         InMode(p, q, {"CONNECTED", "DISCONNECT_ASAP", "DISCONNECT_ON_NO_ACK"})
    /\ InMode(p, q, {"CONNECTED"}) => told[p][q] \in L!Open

\* Connections begin, carry data and end as Lifecycle promises.
KeepsPromise == L!LifecycleSpec

\* Every call of Connect is answered at last.
AttemptConcluded == \A p, q \in Peers : Asked(p, q) ~> ~Asked(p, q)

\* A user is not left for ever with a connection the other side knows nothing of.
OneSidedEnds ==
  \A p, q \in Peers :
    (told[p][q] \in L!Open /\ ~Known(q, p)) ~> (told[p][q] \notin L!Open \/ Known(q, p))
=============================================================================
