---------------------------- MODULE RakPeerProofs ----------------------------
(***************************************************************************)
(* Proofs about RakPeer for any peers, slots, limits and restarts.         *)
(***************************************************************************)
EXTENDS RakPeer, RemoteSystemsProofs, FiniteSetTheorems

Kinds == Unordered \cup Ordered

(***************************************************************************)
(* What is done to one entry.                                              *)
(***************************************************************************)
\* The same system, whatever else has become of it.
SameSystem(e, f) == f.systemAddress = e.systemAddress /\ f.isActive = e.isActive

LEMMA SentTyped ==
  ASSUME NEW e \in Entries, NEW kind \in Kinds
  PROVE  /\ Sent(e, kind) \in Entries
         /\ SameSystem(e, Sent(e, kind))
         /\ Sent(e, kind).connectMode = e.connectMode
<1>1. e.layer \in Layers
  BY DEF Entries
<1>2. Enqueued(e.layer, kind) \in Layers
  BY <1>1, EnqueuedTyped DEF Kinds
<1>3. Sent(e, kind) = e \/ Sent(e, kind) = [e EXCEPT !.layer = Enqueued(e.layer, kind)]
  BY DEF Sent
<1> QED
  BY <1>2, <1>3 DEF Entries, SameSystem

LEMMA ModeAfterTyped ==
  ASSUME NEW mode \in ConnectModes, NEW kind PROVE ModeAfter(mode, kind) \in ConnectModes
  BY DEF ModeAfter, ConnectModes, Disconnecting

LEMMA AfterMessageTyped ==
  ASSUME NEW e \in Entries, NEW kind \in Kinds
  PROVE  /\ AfterMessage(e, kind) \in Entries
         /\ SameSystem(e, AfterMessage(e, kind))
         /\ AfterMessage(e, kind).connectMode = ModeAfter(e.connectMode, kind)
<1> DEFINE answer == Answer(e.connectMode, kind)
           answered == IF answer = "none" THEN e ELSE Sent(e, answer)
<1>1. answer = "none" \/ answer \in Kinds
  BY DEF Answer, Kinds, Unordered, Ordered
<1>2. answered \in Entries /\ SameSystem(e, answered) /\ answered.connectMode = e.connectMode
  BY <1>1, SentTyped DEF SameSystem
<1>3. AfterMessage(e, kind) = [answered EXCEPT !.connectMode = ModeAfter(@, kind)]
  BY DEF AfterMessage
<1>4. ModeAfter(e.connectMode, kind) \in ConnectModes
  BY ModeAfterTyped DEF Entries
<1> HIDE DEF answered
<1> QED
  BY <1>2, <1>3, <1>4 DEF Entries, SameSystem

LEMMA TakenInTyped ==
  ASSUME NEW e \in Entries, NEW m \in Messages
  PROVE  /\ TakenIn(e, m) \in Entries
         /\ SameSystem(e, TakenIn(e, m))
         /\ TakenIn(e, m).connectMode = e.connectMode
<1> DEFINE held == IF m.ord > e.layer.delivered + 1 THEN e.layer.held \cup {m} ELSE e.layer.held
           delivered == IF m.ord = e.layer.delivered + 1 THEN m.ord ELSE e.layer.delivered
           layer == [e.layer EXCEPT !.received = @ \cup {m.no}, !.held = held,
                                    !.delivered = delivered]
<1>1. e.layer \in Layers
  BY DEF Entries
<1>2. m.no \in Nat \ {0} /\ m.ord \in Nat
  BY DEF Messages
<1>3. held \in SUBSET Messages /\ delivered \in Nat
  BY <1>1, <1>2 DEF Layers
<1> HIDE DEF held, delivered
<1>4. layer \in Layers
  BY <1>1, <1>2, <1>3 DEF Layers
<1>5. TakenIn(e, m) = [e EXCEPT !.layer = layer]
  BY <1>1 DEF TakenIn, Layers, held, delivered
<1> HIDE DEF layer
<1> QED
  BY <1>4, <1>5 DEF Entries, SameSystem

(***************************************************************************)
(* What is done to the lists of the peers.                                 *)
(***************************************************************************)
Lists(p, r) == r \in SystemLists(p) /\ ListsAgreeIn(r)

TypesAndLists == RemoteTypeOK /\ ListsAgree

\* The mode in which p holds q, if it does.
Mode(p, q) == IF Known(p, q) THEN System(p, q).connectMode ELSE "none"

\* The lists stay well formed, and no mode changes but that in which p holds q.
ListsStay == DOMAIN systems' = Peers /\ \A x \in Peers : Lists(x, systems'[x])
ModesStayBut(p, q) == \A x, y \in Peers : x # p \/ y # q => Mode(x, y)' = Mode(x, y)

LEMMA KnownTyped ==
  ASSUME TypesAndLists, NEW p \in Peers, NEW q \in Peers, Known(p, q)
  PROVE  /\ System(p, q) \in Entries
         /\ System(p, q).systemAddress = q
         /\ System(p, q).isActive
         /\ Mode(p, q) = System(p, q).connectMode
  BY ActiveFound DEF TypesAndLists, RemoteTypeOK, Known, System, Mode

LEMMA NothingChanges ==
  ASSUME TypesAndLists, UNCHANGED systems
  PROVE  ListsStay /\ \A x, y \in Peers : Mode(x, y)' = Mode(x, y)
  BY DEF TypesAndLists, RemoteTypeOK, ListsAgree, ListsStay, Lists, Mode, Known, System

\* One entry of one peer is changed.
LEMMA OneChanges ==
  ASSUME TypesAndLists, NEW p \in Peers, NEW q \in Peers, NEW t, Lists(p, t),
         OthersKept(systems[p], t, q), systems' = [systems EXCEPT ![p] = t]
  PROVE  /\ ListsStay
         /\ ModesStayBut(p, q)
         /\ Mode(p, q)' = IF IsActive(t, q) THEN Entry(t, q).connectMode ELSE "none"
<1>1. DOMAIN systems = Peers /\ \A x \in Peers : Lists(x, systems[x])
  BY DEF TypesAndLists, RemoteTypeOK, ListsAgree, Lists
<1>2. systems'[p] = t /\ \A x \in Peers \ {p} : systems'[x] = systems[x]
  BY <1>1
<1>3. ListsStay
  BY <1>1, <1>2 DEF ListsStay
<1>4. ModesStayBut(p, q)
  BY <1>2 DEF ModesStayBut, Mode, Known, System, OthersKept
<1>5. Mode(p, q)' = IF IsActive(t, q) THEN Entry(t, q).connectMode ELSE "none"
  BY <1>2 DEF Mode, Known, System
<1> QED
  BY <1>3, <1>4, <1>5

\* A known system is changed in place.
LEMMA OneChangedInPlace ==
  ASSUME TypesAndLists, NEW p \in Peers, NEW q \in Peers, Known(p, q),
         NEW e \in Entries, SameSystem(System(p, q), e)
  PROVE  LET t == Changed(systems[p], q, e)
         IN Lists(p, t) /\ IsActive(t, q) /\ Entry(t, q) = e /\ OthersKept(systems[p], t, q)
<1>1. systems[p] \in SystemLists(p) /\ ListsAgreeIn(systems[p]) /\ IsActive(systems[p], q)
  BY DEF TypesAndLists, RemoteTypeOK, ListsAgree, Known
<1>2. e.systemAddress = q /\ e.isActive
  BY KnownTyped DEF SameSystem
<1> QED
  BY <1>1, <1>2, ChangedAgrees DEF Lists

\* A system gave its peer a message.
LEMMA HandledLists ==
  ASSUME TypesAndLists, NEW p \in Peers, NEW q \in Peers, Known(p, q),
         NEW e \in Entries, SameSystem(System(p, q), e), NEW kind \in Kinds
  PROVE  LET t == Handled(p, q, e, kind)
         IN /\ Lists(p, t)
            /\ OthersKept(systems[p], t, q)
            /\ IF Nonsense(e.connectMode, kind) THEN ~IsActive(t, q)
               ELSE IsActive(t, q) /\ Entry(t, q).connectMode = ModeAfter(e.connectMode, kind)
<1>1. systems[p] \in SystemLists(p) /\ ListsAgreeIn(systems[p])
  BY DEF TypesAndLists, RemoteTypeOK, ListsAgree
<1>2. CASE Nonsense(e.connectMode, kind)
  BY <1>1, <1>2, CloseAgrees DEF Handled, Lists
<1>3. CASE ~Nonsense(e.connectMode, kind)
  <2>1. /\ AfterMessage(e, kind) \in Entries
        /\ SameSystem(System(p, q), AfterMessage(e, kind))
        /\ AfterMessage(e, kind).connectMode = ModeAfter(e.connectMode, kind)
    BY AfterMessageTyped DEF SameSystem
  <2>2. Handled(p, q, e, kind) = Changed(systems[p], q, AfterMessage(e, kind))
    BY <1>3 DEF Handled
  <2> QED
    BY <1>3, <2>1, <2>2, OneChangedInPlace
<1> QED
  BY <1>2, <1>3

(***************************************************************************)
(* The same, action by action.                                             *)
(***************************************************************************)
LEMMA SendLists ==
  ASSUME TypesAndLists, NEW p \in Peers, NEW q \in Peers, Send(p, q)
  PROVE  ListsStay /\ ModesStayBut(p, q) /\ Mode(p, q)' = Mode(p, q)
<1> DEFINE e == Sent(System(p, q), "DATA")
           t == Changed(systems[p], q, e)
<1>1. Known(p, q) /\ systems' = [systems EXCEPT ![p] = t]
  BY DEF Send, InMode
<1>2. e \in Entries /\ SameSystem(System(p, q), e) /\ e.connectMode = System(p, q).connectMode
  BY <1>1, KnownTyped, SentTyped DEF Kinds, Ordered
<1> HIDE DEF e
<1>3. Lists(p, t) /\ IsActive(t, q) /\ Entry(t, q) = e /\ OthersKept(systems[p], t, q)
  BY <1>1, <1>2, OneChangedInPlace
<1> HIDE DEF t
<1>4. ListsStay /\ ModesStayBut(p, q) /\ Mode(p, q)' = e.connectMode
  BY <1>1, <1>3, OneChanges
<1>5. Mode(p, q) = System(p, q).connectMode
  BY <1>1, KnownTyped
<1> QED
  BY <1>2, <1>4, <1>5

LEMMA RestartLists ==
  ASSUME TypesAndLists, NEW p \in Peers, Restart(p)
  PROVE  /\ ListsStay
         /\ \A x, y \in Peers : Mode(x, y)' = IF x = p THEN "none" ELSE Mode(x, y)
<1>1. DOMAIN systems = Peers /\ \A x \in Peers : Lists(x, systems[x])
  BY DEF TypesAndLists, RemoteTypeOK, ListsAgree, Lists
<1>2. systems'[p] = NoSystems(p) /\ \A x \in Peers \ {p} : systems'[x] = systems[x]
  BY <1>1 DEF Restart
<1>3. ListsStay
  BY <1>1, <1>2, NoSystemsTyped DEF ListsStay, Lists, Restart
<1>4. \A x, y \in Peers : Mode(x, y)' = IF x = p THEN "none" ELSE Mode(x, y)
  BY <1>2, NoSystemsInactive DEF Mode, Known, System
<1> QED
  BY <1>3, <1>4

LEMMA RunCommandLists ==
  ASSUME TypesAndLists, NEW p \in Peers, NEW q \in Peers, RunCommand(p, q)
  PROVE  /\ ListsStay /\ ModesStayBut(p, q)
         /\ Mode(p, q)' = IF Known(p, q) THEN "DISCONNECT_ASAP" ELSE "none"
<1>1. CASE Known(p, q)
  <2> DEFINE sent == Sent(System(p, q), "DISCONNECTION_NOTIFICATION")
             e == [sent EXCEPT !.connectMode = "DISCONNECT_ASAP"]
             t == Changed(systems[p], q, e)
  <2>1. systems' = [systems EXCEPT ![p] = t]
    BY <1>1 DEF RunCommand
  <2>2. sent \in Entries /\ SameSystem(System(p, q), sent)
    BY <1>1, KnownTyped, SentTyped DEF Kinds, Ordered
  <2> HIDE DEF sent
  <2>3. e \in Entries /\ SameSystem(System(p, q), e) /\ e.connectMode = "DISCONNECT_ASAP"
    BY <2>2 DEF Entries, SameSystem, ConnectModes, Disconnecting
  <2> HIDE DEF e
  <2>4. Lists(p, t) /\ IsActive(t, q) /\ Entry(t, q) = e /\ OthersKept(systems[p], t, q)
    BY <1>1, <2>3, OneChangedInPlace
  <2> HIDE DEF t
  <2> QED
    BY <1>1, <2>1, <2>3, <2>4, OneChanges
<1>2. CASE ~Known(p, q)
  BY <1>2, NothingChanges DEF RunCommand, ModesStayBut, Mode
<1> QED
  BY <1>1, <1>2

LEMMA FailLists ==
  ASSUME TypesAndLists, NEW p \in Peers, NEW q \in Peers, Fail(p, q)
  PROVE  ListsStay /\ ModesStayBut(p, q) /\ Mode(p, q)' = "none"
<1> DEFINE t == Close(systems[p], q)
<1>1. systems[p] \in SystemLists(p) /\ ListsAgreeIn(systems[p])
  BY DEF TypesAndLists, RemoteTypeOK, ListsAgree
<1>2. systems' = [systems EXCEPT ![p] = t]
  BY DEF Fail
<1>3. Lists(p, t) /\ ~IsActive(t, q) /\ OthersKept(systems[p], t, q)
  BY <1>1, CloseAgrees DEF Lists
<1> HIDE DEF t
<1> QED
  BY <1>2, <1>3, OneChanges

LEMMA DatagramTyped ==
  ASSUME TypesAndLists, NEW d \in datagrams
  PROVE  /\ d.from \in Peers /\ d.to \in Peers
         /\ d.kind \in WithGuid => d.guid \in Guids
  BY DEF TypesAndLists, RemoteTypeOK, Datagrams, WithGuid, Plain, Refusals

LEMMA OnOpenConnectionRequest2Lists ==
  ASSUME TypesAndLists, NEW p \in Peers, NEW d \in datagrams, OnOpenConnectionRequest2(p, d)
  PROVE  /\ ListsStay /\ ModesStayBut(p, d.from)
         /\ \/ Mode(p, d.from)' = Mode(p, d.from)
            \/ NewRequest(p, d) /\ Mode(p, d.from) = "none"
                 /\ Mode(p, d.from)' \in {"none", "UNVERIFIED_SENDER"}
<1> DEFINE t == Assign(systems[p], d.from, d.guid)
<1>1. CASE NewRequest(p, d) /\ AllowIncomingConnections(p)
  <2>1. systems[p] \in SystemLists(p) /\ ListsAgreeIn(systems[p]) /\ ~IsActive(systems[p], d.from)
    BY <1>1 DEF TypesAndLists, RemoteTypeOK, ListsAgree, NewRequest, IPAddrInUse, Known
  <2>2. d.from \in Peers /\ d.guid \in Guids
    BY DatagramTyped DEF OnOpenConnectionRequest2, Arrives, WithGuid
  <2>3. systems' = [systems EXCEPT ![p] = t]
    BY <1>1 DEF OnOpenConnectionRequest2
  <2>4. Lists(p, t) /\ OthersKept(systems[p], t, d.from)
    BY <2>1, <2>2, AssignAgrees DEF Lists
  <2>5. IsActive(t, d.from) => Entry(t, d.from).connectMode = "UNVERIFIED_SENDER"
    BY <2>1, <2>2, AssignAgrees DEF Assigned
  <2>6. Mode(p, d.from) = "none"
    BY <2>1 DEF Mode, Known
  <2> HIDE DEF t
  <2>7. /\ ListsStay /\ ModesStayBut(p, d.from)
        /\ Mode(p, d.from)' = IF IsActive(t, d.from) THEN Entry(t, d.from).connectMode ELSE "none"
    BY <2>2, <2>3, <2>4, OneChanges
  <2> QED
    BY <1>1, <2>5, <2>6, <2>7
<1>2. CASE ~(NewRequest(p, d) /\ AllowIncomingConnections(p))
  <2>1. UNCHANGED systems /\ d.from \in Peers
    BY <1>2, DatagramTyped DEF OnOpenConnectionRequest2
  <2> QED
    BY <2>1, NothingChanges DEF ModesStayBut
<1> QED
  BY <1>1, <1>2

LEMMA OnOpenConnectionReply2Lists ==
  ASSUME TypesAndLists, NEW p \in Peers, NEW d \in datagrams, OnOpenConnectionReply2(p, d)
  PROVE  /\ ListsStay /\ ModesStayBut(p, d.from)
         /\ \/ Mode(p, d.from)' = "REQUESTED_CONNECTION" /\ UNCHANGED told
            \/ /\ Mode(p, d.from) = "none" /\ Mode(p, d.from)' = "none"
               /\ Tell(p, d.from, "CONNECTION_ATTEMPT_FAILED")
<1> DEFINE q == d.from
           assigned == IF Known(p, q) THEN systems[p] ELSE Assign(systems[p], q, d.guid)
           request == IF requestedConnectionQueue[p][q].right
                      THEN "CONNECTION_REQUEST" ELSE "BAD_CONNECTION_REQUEST"
           asking == [Entry(assigned, q) EXCEPT !.connectMode = "REQUESTED_CONNECTION",
                                                !.weInitiatedTheConnection = TRUE]
           e == Sent(asking, request)
           t == Changed(assigned, q, e)
<1>1. q \in Peers /\ d.guid \in Guids
  BY DatagramTyped DEF OnOpenConnectionReply2, Arrives, WithGuid
<1>2. systems[p] \in SystemLists(p) /\ ListsAgreeIn(systems[p])
  BY DEF TypesAndLists, RemoteTypeOK, ListsAgree
<1>3. /\ assigned \in SystemLists(p) /\ ListsAgreeIn(assigned)
      /\ OthersKept(systems[p], assigned, q)
  <2>1. CASE Known(p, q)
    BY <1>2, <2>1 DEF OthersKept
  <2>2. CASE ~Known(p, q)
    BY <1>1, <1>2, <2>2, AssignAgrees DEF Known
  <2> QED
    BY <2>1, <2>2
<1>4. request \in Kinds
  BY DEF Kinds, Unordered
<1>5. \/ IsActive(assigned, q) /\ systems' = [systems EXCEPT ![p] = t] /\ UNCHANGED told
      \/ /\ ~IsActive(assigned, q) /\ UNCHANGED systems
         /\ Tell(p, q, "CONNECTION_ATTEMPT_FAILED")
  BY DEF OnOpenConnectionReply2
<1>6. ~IsActive(assigned, q) => ~Known(p, q)
  BY DEF Known
<1> HIDE DEF q, assigned, request
<1>7. CASE IsActive(assigned, q) /\ systems' = [systems EXCEPT ![p] = t] /\ UNCHANGED told
  <2>1. Entry(assigned, q) \in Entries /\ Entry(assigned, q).systemAddress = q
          /\ Entry(assigned, q).isActive
    BY <1>1, <1>3, <1>7, ActiveFound
  <2>2. /\ asking \in Entries /\ asking.systemAddress = q /\ asking.isActive
        /\ asking.connectMode = "REQUESTED_CONNECTION"
    BY <2>1 DEF Entries, ConnectModes
  <2> HIDE DEF asking
  <2>3. /\ e \in Entries /\ e.systemAddress = q /\ e.isActive
        /\ e.connectMode = "REQUESTED_CONNECTION"
    BY <1>4, <2>2, SentTyped DEF SameSystem
  <2> HIDE DEF e
  <2>4. /\ Lists(p, t) /\ IsActive(t, q) /\ Entry(t, q) = e /\ OthersKept(assigned, t, q)
    BY <1>1, <1>3, <1>7, <2>3, ChangedAgrees DEF Lists
  <2>5. OthersKept(systems[p], t, q)
    BY <1>3, <2>4 DEF OthersKept
  <2> HIDE DEF t
  <2>6. ListsStay /\ ModesStayBut(p, q) /\ Mode(p, q)' = e.connectMode
    BY <1>1, <1>7, <2>4, <2>5, OneChanges
  <2> QED
    BY <1>7, <2>3, <2>6 DEF q
<1>8. CASE ~IsActive(assigned, q) /\ UNCHANGED systems /\ Tell(p, q, "CONNECTION_ATTEMPT_FAILED")
  <2>1. Mode(p, q) = "none"
    BY <1>6, <1>8 DEF Mode
  <2> QED
    BY <1>1, <1>8, <2>1, NothingChanges DEF ModesStayBut, q
<1> QED
  BY <1>5, <1>7, <1>8

\* What becomes of a mode by a message.
ModeOf(mode, kind) == IF Nonsense(mode, kind) THEN "none" ELSE ModeAfter(mode, kind)

LEMMA DeliverHeldLists ==
  ASSUME TypesAndLists, NEW p \in Peers, NEW q \in Peers, Known(p, q),
         NEW m \in System(p, q).layer.held, DeliverHeld(p, q, m)
  PROVE  /\ ListsStay /\ ModesStayBut(p, q)
         /\ m \in Messages
         /\ Mode(p, q)' = ModeOf(Mode(p, q), m.kind)
<1> DEFINE e == System(p, q)
           taken == [e EXCEPT !.layer.held = @ \ {m}, !.layer.delivered = @ + 1]
           t == Handled(p, q, taken, m.kind)
<1>1. e \in Entries /\ Mode(p, q) = e.connectMode
  BY KnownTyped
<1>2. m \in Messages /\ m.kind \in Kinds
  BY <1>1 DEF Entries, Layers, Messages, Kinds
<1>3. systems' = [systems EXCEPT ![p] = t]
  BY DEF DeliverHeld
<1> HIDE DEF e
<1>4. /\ taken \in Entries /\ SameSystem(e, taken) /\ taken.connectMode = e.connectMode
  <2> DEFINE layer == [e.layer EXCEPT !.held = @ \ {m}, !.delivered = @ + 1]
  <2>1. e.layer \in Layers
    BY <1>1 DEF Entries
  <2>2. layer \in Layers
    <3>1. e.layer.held \ {m} \in SUBSET Messages /\ e.layer.delivered + 1 \in Nat
      BY <2>1 DEF Layers
    <3> QED
      BY <2>1, <3>1 DEF Layers
  <2>3. taken = [e EXCEPT !.layer = layer]
    BY <1>1, <2>1 DEF Entries, Layers
  <2> HIDE DEF layer
  <2> QED
    BY <1>1, <2>2, <2>3 DEF Entries, SameSystem
<1> HIDE DEF taken
<1>5. /\ Lists(p, t)
      /\ OthersKept(systems[p], t, q)
      /\ IF Nonsense(taken.connectMode, m.kind) THEN ~IsActive(t, q)
         ELSE IsActive(t, q) /\ Entry(t, q).connectMode = ModeAfter(taken.connectMode, m.kind)
  BY <1>2, <1>4, HandledLists DEF e
<1> HIDE DEF t
<1>6. ListsStay /\ ModesStayBut(p, q)
        /\ Mode(p, q)' = IF IsActive(t, q) THEN Entry(t, q).connectMode ELSE "none"
  BY <1>3, <1>5, OneChanges
<1> QED
  BY <1>1, <1>2, <1>4, <1>5, <1>6 DEF ModeOf

\* A message of q comes to p, and its acknowledgement perhaps to q: the lists of both
\* change, but only one mode.
LEMMA BothChange ==
  ASSUME TypesAndLists, NEW p \in Peers, NEW q \in Peers \ {p}, NEW t, NEW u,
         Lists(p, t), OthersKept(systems[p], t, q),
         Lists(q, u), OthersKept(systems[q], u, p),
         IsActive(u, p) = Known(q, p),
         Known(q, p) => Entry(u, p).connectMode = System(q, p).connectMode,
         systems' = [systems EXCEPT ![p] = t, ![q] = u]
  PROVE  /\ ListsStay
         /\ ModesStayBut(p, q)
         /\ Mode(p, q)' = IF IsActive(t, q) THEN Entry(t, q).connectMode ELSE "none"
<1>1. DOMAIN systems = Peers /\ \A x \in Peers : Lists(x, systems[x])
  BY DEF TypesAndLists, RemoteTypeOK, ListsAgree, Lists
<1>2. systems'[p] = t /\ systems'[q] = u /\ \A x \in Peers \ {p, q} : systems'[x] = systems[x]
  BY <1>1
<1>3. ListsStay
  BY <1>1, <1>2 DEF ListsStay
<1>4. ASSUME NEW x \in Peers, NEW y \in Peers, x # p \/ y # q
      PROVE  Mode(x, y)' = Mode(x, y)
  <2>1. CASE x = p
    BY <1>2, <1>4, <2>1 DEF Mode, Known, System, OthersKept
  <2>2. CASE x = q /\ y = p
    <3>1. Mode(q, p) = IF Known(q, p) THEN System(q, p).connectMode ELSE "none"
      BY DEF Mode
    <3>2. Mode(q, p)' = IF IsActive(u, p) THEN Entry(u, p).connectMode ELSE "none"
      BY <1>2 DEF Mode, Known, System
    <3>3. CASE Known(q, p)
      BY <2>2, <3>1, <3>2, <3>3
    <3>4. CASE ~Known(q, p)
      BY <2>2, <3>1, <3>2, <3>4
    <3> QED
      BY <3>3, <3>4
  <2>3. CASE x = q /\ y # p
    BY <1>2, <2>3 DEF Mode, Known, System, OthersKept
  <2>4. CASE x \notin {p, q}
    <3>1. systems'[x] = systems[x]
      BY <1>2, <2>4
    <3> QED
      BY <3>1 DEF Mode, Known, System
  <2> QED
    BY <2>1, <2>2, <2>3, <2>4
<1>5. Mode(p, q)' = IF IsActive(t, q) THEN Entry(t, q).connectMode ELSE "none"
  BY <1>2 DEF Mode, Known, System
<1> QED
  BY <1>3, <1>4, <1>5 DEF ModesStayBut

\* Whether the message is handled now, and is not kept or dropped.
Passed(p, q, m) == m.no \notin System(p, q).layer.received /\ IsNext(System(p, q).layer, m)

LEMMA DeliverLists ==
  ASSUME TypesAndLists, NEW p \in Peers, NEW q \in Peers \ {p}, Known(q, p),
         NEW m \in System(q, p).layer.outgoing, NEW acked \in BOOLEAN, Deliver(p, q, m, acked)
  PROVE  /\ ListsStay /\ ModesStayBut(p, q)
         /\ Known(p, q)
         /\ m \in Messages
         /\ Mode(p, q)' = IF Passed(p, q, m) THEN ModeOf(Mode(p, q), m.kind) ELSE Mode(p, q)
<1> DEFINE e == System(p, q)
           f == System(q, p)
           fresh == m.no \notin e.layer.received
           taken == TakenIn(e, m)
           passed == fresh /\ IsNext(e.layer, m)
           handled == Handled(p, q, taken, m.kind)
           kept == Changed(systems[p], q, taken)
           t == IF passed THEN handled ELSE IF fresh THEN kept ELSE systems[p]
           acknowledged == [f EXCEPT !.layer.outgoing = @ \ {m}]
           u == IF acked THEN Changed(systems[q], p, acknowledged) ELSE systems[q]
<1>1. Known(p, q)
  BY DEF Deliver
<1>2. /\ e \in Entries /\ Mode(p, q) = e.connectMode /\ f \in Entries
      /\ systems[p] \in SystemLists(p) /\ ListsAgreeIn(systems[p])
      /\ systems[q] \in SystemLists(q) /\ ListsAgreeIn(systems[q])
      /\ DOMAIN systems = Peers
  BY <1>1, KnownTyped DEF TypesAndLists, RemoteTypeOK, ListsAgree
<1>3. m \in Messages /\ m.kind \in Kinds
  BY <1>2 DEF Entries, Layers, Messages, Kinds
<1>4. taken \in Entries /\ SameSystem(e, taken) /\ taken.connectMode = e.connectMode
  BY <1>2, <1>3, TakenInTyped
<1>5. systems' = [systems EXCEPT ![p] = t, ![q] = u]
  BY <1>2 DEF Deliver, Acknowledged
<1>6. u \in SystemLists(q) /\ ListsAgreeIn(u) /\ OthersKept(systems[q], u, p)
        /\ IsActive(u, p) /\ Entry(u, p).connectMode = f.connectMode
  <2> DEFINE layer == [f.layer EXCEPT !.outgoing = @ \ {m}]
  <2>1. f.layer \in Layers
    BY <1>2 DEF Entries
  <2>2. layer \in Layers
    BY <2>1 DEF Layers
  <2>3. acknowledged = [f EXCEPT !.layer = layer]
    BY <1>2, <2>1 DEF Entries, Layers
  <2> HIDE DEF layer
  <2>4. acknowledged \in Entries /\ SameSystem(f, acknowledged)
          /\ acknowledged.connectMode = f.connectMode
    BY <1>2, <2>2, <2>3 DEF Entries, SameSystem
  <2> HIDE DEF acknowledged
  <2>5. CASE acked
    BY <2>4, <2>5, OneChangedInPlace DEF Lists
  <2>6. CASE ~acked
    BY <1>2, <2>6 DEF OthersKept, Known, System
  <2> QED
    BY <2>5, <2>6
<1>7. handled \in SystemLists(p) /\ ListsAgreeIn(handled) /\ OthersKept(systems[p], handled, q)
        /\ IF Nonsense(e.connectMode, m.kind) THEN ~IsActive(handled, q)
           ELSE IsActive(handled, q) /\ Entry(handled, q).connectMode = ModeAfter(e.connectMode, m.kind)
  BY <1>1, <1>3, <1>4, HandledLists DEF Lists
<1>8. kept \in SystemLists(p) /\ ListsAgreeIn(kept) /\ OthersKept(systems[p], kept, q)
        /\ IsActive(kept, q) /\ Entry(kept, q).connectMode = e.connectMode
  BY <1>1, <1>4, OneChangedInPlace DEF Lists
<1>9. passed = Passed(p, q, m)
  BY DEF Passed
<1> HIDE DEF taken, handled, kept, acknowledged, u
<1>10. /\ Lists(p, t) /\ OthersKept(systems[p], t, q)
       /\ (IF IsActive(t, q) THEN Entry(t, q).connectMode ELSE "none")
            = IF passed THEN ModeOf(e.connectMode, m.kind) ELSE e.connectMode
  <2>1. CASE passed
    BY <1>7, <2>1 DEF Lists, ModeOf
  <2>2. CASE ~passed /\ fresh
    BY <1>8, <2>2 DEF Lists
  <2>3. CASE ~fresh
    BY <1>1, <1>2, <2>3 DEF Lists, OthersKept, Known, System
  <2> QED
    BY <2>1, <2>2, <2>3
<1> HIDE DEF t, passed
<1>11. /\ ListsStay /\ ModesStayBut(p, q)
       /\ Mode(p, q)' = IF IsActive(t, q) THEN Entry(t, q).connectMode ELSE "none"
  <2>1. IsActive(u, p) = Known(q, p)
    BY <1>2, <1>6 DEF Known, IsActive, SystemLists, Entries
  <2> QED
    BY <1>5, <1>6, <1>10, <2>1, BothChange DEF Lists
<1> QED
  BY <1>1, <1>2, <1>3, <1>9, <1>10, <1>11

(***************************************************************************)
(* The types, and the agreement of the lists.                              *)
(***************************************************************************)
LEMMA ListsStayByNext == ASSUME TypesAndLists, RemoteNext PROVE ListsStay
<1> PICK p \in Peers :
      \/ Restart(p)
      \/ \E d \in datagrams : ReceiveDatagram(p, d)
      \/ \E q \in Peers \ {p} :
           \/ UserStep(p, q)
           \/ RunCommand(p, q)
           \/ Attempt(p, q)
           \/ AnswerBanned(p, q)
           \/ ReceiveMessage(p, q)
           \/ Failure(p, q)
           \/ BanExpires(p, q)
  BY DEF RemoteNext
<1>1. CASE Restart(p)
  BY <1>1, RestartLists
<1>2. ASSUME NEW d \in datagrams, ReceiveDatagram(p, d) PROVE ListsStay
  <2>1. CASE OnOpenConnectionRequest2(p, d)
    BY <2>1, OnOpenConnectionRequest2Lists
  <2>2. CASE OnOpenConnectionReply2(p, d)
    BY <2>2, OnOpenConnectionReply2Lists
  <2>3. CASE OnOpenConnectionRequest1(p, d) \/ OnOpenConnectionReply1(p, d) \/ OnRefusal(p, d)
    BY <2>3, NothingChanges DEF OnOpenConnectionRequest1, OnOpenConnectionReply1, OnRefusal
  <2> QED
    BY <1>2, <2>1, <2>2, <2>3 DEF ReceiveDatagram
<1>3. ASSUME NEW q \in Peers \ {p} PROVE Send(p, q) => ListsStay
  BY <1>3, SendLists
<1>4. ASSUME NEW q \in Peers \ {p} PROVE RunCommand(p, q) => ListsStay
  BY <1>4, RunCommandLists
<1>5. ASSUME NEW q \in Peers \ {p}, ReceiveMessage(p, q) PROVE ListsStay
  <2>1. CASE Known(q, p) /\ \E m \in System(q, p).layer.outgoing, acked \in BOOLEAN :
                              Deliver(p, q, m, acked)
    BY <2>1, DeliverLists
  <2>2. CASE Known(p, q) /\ \E m \in System(p, q).layer.held : DeliverHeld(p, q, m)
    BY <2>2, DeliverHeldLists
  <2> QED
    BY <1>5, <2>1, <2>2 DEF ReceiveMessage
<1>6. ASSUME NEW q \in Peers \ {p} PROVE Failure(p, q) => ListsStay
  BY <1>6, FailLists DEF Failure, DeadConnection, Disconnected, ConnectionTimeout
<1>7. ASSUME NEW q \in Peers \ {p},
             \/ Connect(p, q) \/ CloseConnection(p, q) \/ Attempt(p, q) \/ AnswerBanned(p, q)
             \/ BanExpires(p, q)
      PROVE  ListsStay
  BY <1>7, NothingChanges DEF Connect, CloseConnection, Attempt, AnswerBanned, BanExpires
<1> QED
  BY <1>1, <1>2, <1>3, <1>4, <1>5, <1>6, <1>7 DEF UserStep

\* What is not systems.
RestTypeOK ==
  /\ DOMAIN starts = Peers /\ \A p \in Peers : starts[p] \in 0..MaxRestarts[p]
  /\ requestedConnectionQueue \in [Peers -> [Peers -> Requests \cup {NoRequest}]]
  /\ bufferedCommands \in [Peers -> SUBSET Peers]
  /\ banList \in [Peers -> SUBSET Peers]
  /\ datagrams \subseteq Datagrams
  /\ told \in [Peers -> [Peers -> L!Notices]]
  /\ calls \in [Peers -> Nat]

LEMMA GuidTyped ==
  ASSUME RestTypeOK, NEW p \in Peers PROVE myGuid(p) \in Guids
  BY DEF RestTypeOK, myGuid, Guids

\* A notice given to the user is one.
LEMMA ToldTyped ==
  ASSUME RestTypeOK, NEW p \in Peers, NEW q \in Peers, NEW notice \in L!Notices,
         Tell(p, q, notice)
  PROVE  told' \in [Peers -> [Peers -> L!Notices]]
  BY DEF RestTypeOK, Tell

LEMMA SentDatagramTyped ==
  ASSUME RestTypeOK, NEW p \in Peers, NEW q \in Peers, NEW kind,
         \/ kind \in Plain /\ SendPlain(p, q, kind)
         \/ kind \in WithGuid /\ SendWithGuid(p, q, kind)
  PROVE  datagrams' \subseteq Datagrams
  BY GuidTyped DEF RestTypeOK, SendPlain, SendWithGuid, Datagrams

LEMMA DequeueTyped ==
  ASSUME RestTypeOK, NEW p \in Peers, NEW q \in Peers, Dequeue(p, q)
  PROVE  requestedConnectionQueue' \in [Peers -> [Peers -> Requests \cup {NoRequest}]]
  BY DEF RestTypeOK, Dequeue

LEMMA HandleTyped ==
  ASSUME RestTypeOK, NEW p \in Peers, NEW q \in Peers, NEW e, NEW kind \in Kinds,
         Handle(p, q, e, kind)
  PROVE  told' \in [Peers -> [Peers -> L!Notices]] /\ banList' \in [Peers -> SUBSET Peers]
<1>1. banList' \in [Peers -> SUBSET Peers]
  BY DEF RestTypeOK, Handle
<1> DEFINE notice == IF kind = "DATA" /\ told[p][q] \notin L!Open THEN "LATE_DATA" ELSE kind
<1>2. CASE ForUser(e.connectMode, kind) /\ ~Nonsense(e.connectMode, kind)
  <2>1. notice \in L!Notices
    BY <1>2 DEF ForUser, Accepts, Completes, Denies, L!Notices, L!Open, L!Ended, L!Refused
  <2>2. Tell(p, q, notice)
    BY <1>2 DEF Handle
  <2> QED
    BY <1>1, <2>1, <2>2, ToldTyped
<1>3. CASE ~(ForUser(e.connectMode, kind) /\ ~Nonsense(e.connectMode, kind))
  BY <1>1, <1>3 DEF Handle, RestTypeOK
<1> QED
  BY <1>2, <1>3

LEMMA RestStaysByNext == ASSUME TypesAndLists, RemoteNext PROVE RestTypeOK'
<1> RestTypeOK
  BY DEF TypesAndLists, RemoteTypeOK, RestTypeOK
<1> USE DEF RestTypeOK
<1> PICK p \in Peers :
      \/ Restart(p)
      \/ \E d \in datagrams : ReceiveDatagram(p, d)
      \/ \E q \in Peers \ {p} :
           \/ UserStep(p, q)
           \/ RunCommand(p, q)
           \/ Attempt(p, q)
           \/ AnswerBanned(p, q)
           \/ ReceiveMessage(p, q)
           \/ Failure(p, q)
           \/ BanExpires(p, q)
  BY DEF RemoteNext
<1>1. CASE Restart(p)
  <2>1. DOMAIN starts' = Peers /\ \A x \in Peers : starts'[x] \in 0..MaxRestarts[x]
    <3>1. starts' = [starts EXCEPT ![p] = @ + 1] /\ starts[p] < MaxRestarts[p]
      BY <1>1 DEF Restart
    <3>2. \A x \in Peers : starts[x] \in Nat /\ starts[x] <= MaxRestarts[x] /\ MaxRestarts[x] \in Nat
      BY RestartsAssumption
    <3>3. \A x \in Peers : starts'[x] \in Nat /\ starts'[x] <= MaxRestarts[x]
      BY <3>1, <3>2
    <3> QED
      BY <3>1, <3>2, <3>3
  <2>2. "none" \in L!Notices
    BY DEF L!Notices
  <2> QED
    BY <1>1, <2>1, <2>2 DEF Restart
<1>2. ASSUME NEW d \in datagrams, ReceiveDatagram(p, d) PROVE RestTypeOK'
  <2>0. d.from \in Peers
    BY DatagramTyped
  <2>1. CASE OnOpenConnectionRequest1(p, d)
    BY <2>0, <2>1, SentDatagramTyped DEF OnOpenConnectionRequest1, Plain
  <2>2. CASE OnOpenConnectionReply1(p, d)
    BY <2>0, <2>2, SentDatagramTyped DEF OnOpenConnectionReply1, WithGuid
  <2>3. CASE OnOpenConnectionRequest2(p, d)
    <3>1. datagrams' \subseteq Datagrams
      BY <2>0, <2>3, SentDatagramTyped DEF OnOpenConnectionRequest2, Plain, WithGuid, Refusals
    <3> QED
      BY <2>3, <3>1 DEF OnOpenConnectionRequest2
  <2>4. CASE OnOpenConnectionReply2(p, d)
    <3>1. "CONNECTION_ATTEMPT_FAILED" \in L!Notices
      BY DEF L!Notices, L!Refused
    <3>2. told' \in [Peers -> [Peers -> L!Notices]]
      BY <2>0, <2>4, <3>1, OnOpenConnectionReply2Lists, ToldTyped
    <3>3. Dequeue(p, d.from)
      BY <2>4 DEF OnOpenConnectionReply2
    <3> QED
      BY <2>0, <2>4, <3>2, <3>3, DequeueTyped DEF OnOpenConnectionReply2
  <2>5. CASE OnRefusal(p, d)
    <3>1. d.kind \in L!Notices
      BY <2>5 DEF OnRefusal, Arrives, Refusals, L!Notices, L!Refused
    <3>2. Tell(p, d.from, d.kind) /\ Dequeue(p, d.from)
      BY <2>5 DEF OnRefusal
    <3> QED
      BY <2>0, <2>5, <3>1, <3>2, ToldTyped, DequeueTyped DEF OnRefusal
  <2> QED
    BY <1>2, <2>1, <2>2, <2>3, <2>4, <2>5 DEF ReceiveDatagram
<1>3. ASSUME NEW q \in Peers \ {p}, UserStep(p, q) PROVE RestTypeOK'
  <2>1. CASE Connect(p, q)
    <3>1. \A right \in RightPasswords : [requestsMade |-> 0, right |-> right] \in Requests
      BY PasswordsAssumption DEF Requests
    <3> QED
      BY <2>1, <3>1 DEF Connect
  <2>2. CASE CloseConnection(p, q)
    BY <2>2 DEF CloseConnection
  <2>3. CASE Send(p, q)
    BY <2>3 DEF Send
  <2> QED
    BY <1>3, <2>1, <2>2, <2>3 DEF UserStep
<1>4. ASSUME NEW q \in Peers \ {p}, RunCommand(p, q) PROVE RestTypeOK'
  BY <1>4 DEF RunCommand
<1>5. ASSUME NEW q \in Peers \ {p}, Attempt(p, q) PROVE RestTypeOK'
  <2>1. CASE requestedConnectionQueue[p][q].requestsMade = sendConnectionAttemptCount + 1
    <3>1. "CONNECTION_ATTEMPT_FAILED" \in L!Notices
      BY DEF L!Notices, L!Refused
    <3>2. Tell(p, q, "CONNECTION_ATTEMPT_FAILED") /\ Dequeue(p, q)
      BY <1>5, <2>1 DEF Attempt
    <3> QED
      BY <1>5, <2>1, <3>1, <3>2, ToldTyped, DequeueTyped DEF Attempt
  <2>2. CASE requestedConnectionQueue[p][q].requestsMade # sendConnectionAttemptCount + 1
    <3>1. requestedConnectionQueue[p][q] \in Requests
      BY <1>5 DEF Attempt, Pending
    <3>2. ASSUME NEW request \in Requests
          PROVE  [request EXCEPT !.requestsMade = @ + 1] \in Requests
      BY DEF Requests
    <3>3. datagrams' \subseteq Datagrams
      BY <1>5, <2>2, SentDatagramTyped DEF Attempt, Plain
    <3>4. requestedConnectionQueue' = [requestedConnectionQueue EXCEPT ![p][q] =
            [requestedConnectionQueue[p][q] EXCEPT !.requestsMade = @ + 1]]
      BY <1>5, <2>2 DEF Attempt
    <3>5. requestedConnectionQueue' \in [Peers -> [Peers -> Requests \cup {NoRequest}]]
      BY <3>1, <3>2, <3>4
    <3> QED
      BY <1>5, <2>2, <3>3, <3>5 DEF Attempt
  <2> QED
    BY <2>1, <2>2
<1>6. ASSUME NEW q \in Peers \ {p}, AnswerBanned(p, q) PROVE RestTypeOK'
  BY <1>6, SentDatagramTyped DEF AnswerBanned, Plain, Refusals
<1>7. ASSUME NEW q \in Peers \ {p}, ReceiveMessage(p, q) PROVE RestTypeOK'
  <2>1. ASSUME Known(q, p), NEW m \in System(q, p).layer.outgoing, NEW acked \in BOOLEAN,
               Deliver(p, q, m, acked)
        PROVE  RestTypeOK'
    <3>1. m.kind \in Kinds
      BY <2>1, DeliverLists DEF Messages, Kinds
    <3>2. told' \in [Peers -> [Peers -> L!Notices]] /\ banList' \in [Peers -> SUBSET Peers]
      BY <2>1, <3>1, HandleTyped DEF Deliver
    <3> QED
      BY <2>1, <3>2 DEF Deliver
  <2>2. ASSUME Known(p, q), NEW m \in System(p, q).layer.held, DeliverHeld(p, q, m)
        PROVE  RestTypeOK'
    <3>1. m.kind \in Kinds
      BY <2>2, DeliverHeldLists DEF Messages, Kinds
    <3>2. told' \in [Peers -> [Peers -> L!Notices]] /\ banList' \in [Peers -> SUBSET Peers]
      BY <2>2, <3>1, HandleTyped DEF DeliverHeld
    <3> QED
      BY <2>2, <3>2 DEF DeliverHeld
  <2> QED
    BY <1>7, <2>1, <2>2 DEF ReceiveMessage
<1>8. ASSUME NEW q \in Peers \ {p}, Failure(p, q) PROVE RestTypeOK'
  <2>1. Fail(p, q)
    BY <1>8 DEF Failure, DeadConnection, Disconnected, ConnectionTimeout
  <2>2. \A mode : FailureNotice(mode) \in L!Notices
    BY DEF FailureNotice, L!Notices, L!Ended, L!Refused
  <2>3. told' \in [Peers -> [Peers -> L!Notices]]
    BY <2>1, <2>2, ToldTyped DEF Fail
  <2> QED
    BY <2>1, <2>3 DEF Fail
<1>9. ASSUME NEW q \in Peers \ {p}, BanExpires(p, q) PROVE RestTypeOK'
  BY <1>9 DEF BanExpires
<1> QED
  BY <1>1, <1>2, <1>3, <1>4, <1>5, <1>6, <1>7, <1>8, <1>9

LEMMA TypesAndListsInitial == RemoteInit => TypesAndLists
<1> SUFFICES ASSUME RemoteInit PROVE TypesAndLists
  OBVIOUS
<1>1. \A p \in Peers : 0 \in 0..MaxRestarts[p]
  BY RestartsAssumption
<1>2. "none" \in L!Notices
  BY DEF L!Notices
<1> QED
  BY <1>1, <1>2, NoSystemsTyped DEF RemoteInit, TypesAndLists, RemoteTypeOK, ListsAgree

LEMMA TypesAndListsStay == TypesAndLists /\ [RemoteNext]_peerVars => TypesAndLists'
<1> SUFFICES ASSUME TypesAndLists, [RemoteNext]_peerVars PROVE TypesAndLists'
  OBVIOUS
<1>1. CASE RemoteNext
  <2>1. ListsStay /\ RestTypeOK'
    BY <1>1, ListsStayByNext, RestStaysByNext
  <2> QED
    BY <2>1 DEF TypesAndLists, RemoteTypeOK, ListsAgree, RestTypeOK, ListsStay, Lists
<1>2. CASE UNCHANGED peerVars
  BY <1>2 DEF peerVars, TypesAndLists, RemoteTypeOK, ListsAgree, L!Notices
<1> QED
  BY <1>1, <1>2

\* Every variable of RakPeer has its type.
THEOREM RemoteTypeCorrect == RemoteSpec => []RemoteTypeOK
<1>1. TypesAndLists => RemoteTypeOK
  BY DEF TypesAndLists
<1> QED
  BY <1>1, TypesAndListsInitial, TypesAndListsStay, PTL DEF RemoteSpec

\* remoteSystemList, remoteSystemLookup and activeSystemList of every peer agree,
\* whatever datagrams are lost, repeated and late, and whoever restarts.
THEOREM ListsStayAgreed == RemoteSpec => []ListsAgree
<1>1. TypesAndLists => ListsAgree
  BY DEF TypesAndLists
<1> QED
  BY <1>1, TypesAndListsInitial, TypesAndListsStay, PTL DEF RemoteSpec

(***************************************************************************)
(* What the user is told is what is held.  It holds where no two peers     *)
(* connect to each other, as in the game, whose clients connect to the     *)
(* server: of two crossing calls of Connect one meets a system that the    *)
(* other has made known.                                                   *)
(***************************************************************************)
OneWay == \A p, q \in Peers : q \in Targets[p] => p \notin Targets[q]

HeldModes == {"CONNECTED", "DISCONNECT_ASAP", "DISCONNECT_ON_NO_ACK"}

\* A request is pending only to a target that is not known yet.
PairAgrees(p, q) ==
  /\ Pending(p, q) => q \in Targets[p] /\ Mode(p, q) = "none"
  /\ told[p][q] \in L!Open => Mode(p, q) \in HeldModes
  /\ Mode(p, q) = "CONNECTED" => told[p][q] \in L!Open

RequestsToTargets ==
  \A d \in datagrams : d.kind = "OPEN_CONNECTION_REQUEST_2" => d.to \in Targets[d.from]

OpenInv ==
  /\ TypesAndLists
  /\ \A p, q \in Peers : PairAgrees(p, q)
  /\ RequestsToTargets

LEMMA ModeTyped ==
  ASSUME TypesAndLists, NEW p \in Peers, NEW q \in Peers
  PROVE  /\ Mode(p, q) \in ConnectModes \cup {"none"}
         /\ Known(p, q) => Mode(p, q) \in ConnectModes
         /\ ~Known(p, q) => Mode(p, q) = "none"
  BY KnownTyped DEF Mode, Entries

LEMMA NoneIsNoMode == "none" \notin ConnectModes
  BY DEF ConnectModes, Disconnecting

LEMMA OpenInvHolds == OpenInv => OpenIsHeld
<1> SUFFICES ASSUME OpenInv, NEW p \in Peers, NEW q \in Peers
             PROVE  /\ told[p][q] \in L!Open => InMode(p, q, HeldModes)
                    /\ InMode(p, q, {"CONNECTED"}) => told[p][q] \in L!Open
  BY DEF OpenIsHeld, HeldModes
<1>1. PairAgrees(p, q) /\ TypesAndLists
  BY DEF OpenInv
<1>2. "none" \notin HeldModes
  BY DEF HeldModes
<1>3. Known(p, q) => Mode(p, q) = System(p, q).connectMode
  BY DEF Mode
<1> QED
  BY <1>1, <1>2, <1>3, ModeTyped DEF PairAgrees, InMode

LEMMA OpenInvInitial == RemoteInit => OpenInv
<1> SUFFICES ASSUME RemoteInit PROVE OpenInv
  OBVIOUS
<1>1. \A p, q \in Peers : Mode(p, q) = "none" /\ ~Pending(p, q) /\ told[p][q] \notin L!Open
  BY NoSystemsInactive DEF RemoteInit, Mode, Known, Pending, L!Open
<1> QED
  BY <1>1, TypesAndListsInitial DEF OpenInv, PairAgrees, RequestsToTargets, RemoteInit

\* What is told and asked of the others stays.
ToldStaysBut(p, q) ==
  \A x, y \in Peers : x # p \/ y # q =>
    /\ told'[x][y] = told[x][y]
    /\ requestedConnectionQueue'[x][y] = requestedConnectionQueue[x][y]

\* A step that is about one pair keeps the invariant if it does for that pair.
LEMMA OnePair ==
  ASSUME OpenInv, NEW p \in Peers, NEW q \in Peers, ModesStayBut(p, q), ToldStaysBut(p, q),
         PairAgrees(p, q)'
  PROVE  \A x, y \in Peers : PairAgrees(x, y)'
<1> SUFFICES ASSUME NEW x \in Peers, NEW y \in Peers, x # p \/ y # q PROVE PairAgrees(x, y)'
  OBVIOUS
<1>1. /\ Mode(x, y)' = Mode(x, y) /\ told'[x][y] = told[x][y]
      /\ requestedConnectionQueue'[x][y] = requestedConnectionQueue[x][y]
  BY DEF ModesStayBut, ToldStaysBut
<1>2. PairAgrees(x, y)
  BY DEF OpenInv
<1> QED
  BY <1>1, <1>2 DEF PairAgrees, Pending

LEMMA TellStays ==
  ASSUME TypesAndLists, NEW p \in Peers, NEW q \in Peers, NEW notice,
         Tell(p, q, notice), Dequeue(p, q) \/ UNCHANGED requestedConnectionQueue
  PROVE  ToldStaysBut(p, q) /\ told'[p][q] = notice
  BY DEF TypesAndLists, RemoteTypeOK, Tell, Dequeue, ToldStaysBut

LEMMA DequeueStays ==
  ASSUME TypesAndLists, NEW p \in Peers, NEW q \in Peers, Dequeue(p, q)
  PROVE  ~Pending(p, q)' /\ (UNCHANGED told => ToldStaysBut(p, q))
  BY DEF TypesAndLists, RemoteTypeOK, Dequeue, Pending, ToldStaysBut

\* A message moves what is told and what is held together.
LEMMA MessageKeepsPair ==
  ASSUME OpenInv, NEW p \in Peers, NEW q \in Peers, Known(p, q), NEW kind \in Kinds,
         NEW e, e.connectMode = Mode(p, q), Handle(p, q, e, kind),
         Mode(p, q)' = ModeOf(Mode(p, q), kind), UNCHANGED requestedConnectionQueue
  PROVE  ToldStaysBut(p, q) /\ PairAgrees(p, q)'
<1> DEFINE mode == Mode(p, q)
           notice == IF kind = "DATA" /\ told[p][q] \notin L!Open THEN "LATE_DATA" ELSE kind
<1>1. TypesAndLists /\ PairAgrees(p, q) /\ mode \in ConnectModes
  BY ModeTyped DEF OpenInv
<1>2. ~Pending(p, q)'
  BY <1>1, NoneIsNoMode DEF PairAgrees, Pending
<1>3. Mode(p, q)' = ModeOf(mode, kind)
  OBVIOUS
<1>4. \/ ForUser(mode, kind) /\ ~Nonsense(mode, kind) /\ Tell(p, q, notice)
      \/ ~(ForUser(mode, kind) /\ ~Nonsense(mode, kind)) /\ UNCHANGED told
  BY DEF Handle
<1>5. told[p][q] \in L!Open => mode \in HeldModes
  BY <1>1 DEF PairAgrees
<1>6. mode = "CONNECTED" => told[p][q] \in L!Open
  BY <1>1 DEF PairAgrees
<1> HIDE DEF mode
<1>7. CASE ForUser(mode, kind) /\ ~Nonsense(mode, kind) /\ Tell(p, q, notice)
  <2>1. ToldStaysBut(p, q) /\ told'[p][q] = notice
    BY <1>1, <1>7, TellStays
  <2>2. CASE kind = "DATA"
    <3>1. ModeOf(mode, kind) = mode
      BY <1>7, <2>2 DEF ModeOf, ModeAfter, Accepts, Completes, Denies
    <3>2. notice \in L!Open <=> told[p][q] \in L!Open
      BY <2>2 DEF L!Open
    <3> QED
      BY <1>2, <1>3, <1>5, <1>6, <2>1, <3>1, <3>2 DEF PairAgrees
  <2>3. CASE kind # "DATA" /\ (Accepts(mode, kind) \/ Completes(mode, kind))
    <3>1. ModeOf(mode, kind) = "CONNECTED"
      BY <1>7, <2>3 DEF ModeOf, ModeAfter, Parses, Accepts, Completes, Denies
    <3>2. notice \in L!Open
      BY <2>3 DEF Accepts, Completes, L!Open
    <3> QED
      BY <1>2, <1>3, <2>1, <3>1, <3>2 DEF PairAgrees, HeldModes
  <2>4. CASE Denies(mode, kind)
    <3>1. ModeOf(mode, kind) = "DISCONNECT_ASAP_SILENTLY"
      BY <1>7, <2>4 DEF ModeOf, ModeAfter, Accepts, Completes, Denies
    <3>2. notice \notin L!Open
      BY <2>4 DEF Denies, L!Open
    <3> QED
      BY <1>2, <1>3, <2>1, <3>1, <3>2 DEF PairAgrees
  <2> QED
    BY <1>7, <2>2, <2>3, <2>4 DEF ForUser
<1>8. CASE ~(ForUser(mode, kind) /\ ~Nonsense(mode, kind)) /\ UNCHANGED told
  <2>1. ToldStaysBut(p, q)
    BY <1>8 DEF ToldStaysBut
  <2>2. mode \in HeldModes => ModeOf(mode, kind) \in HeldModes
    BY DEF HeldModes, ModeOf, ModeAfter, Nonsense, Parses, Accepts, Completes, Denies
  <2>3. ModeOf(mode, kind) = "CONNECTED" => mode = "CONNECTED"
    BY <1>8 DEF ModeOf, ModeAfter, ForUser
  <2> QED
    BY <1>2, <1>3, <1>5, <1>6, <1>8, <2>1, <2>2, <2>3 DEF PairAgrees
<1> QED
  BY <1>4, <1>7, <1>8

\* A step of p that has to do with q.
PairStep(p, q) ==
  \/ UserStep(p, q) \/ RunCommand(p, q) \/ Attempt(p, q) \/ AnswerBanned(p, q)
  \/ ReceiveMessage(p, q) \/ Failure(p, q) \/ BanExpires(p, q)

LEMMA PairStepAgrees ==
  ASSUME OpenInv, NEW p \in Peers, NEW q \in Peers \ {p}, PairStep(p, q)
  PROVE  \A x, y \in Peers : PairAgrees(x, y)'
<1> TypesAndLists /\ PairAgrees(p, q)
  BY DEF OpenInv
<1>1. ASSUME Connect(p, q) PROVE \A x, y \in Peers : PairAgrees(x, y)'
  <2>1. Mode(p, q) = "none"
    <3> SUFFICES ASSUME Known(p, q) PROVE FALSE
      BY DEF Mode
    <3>1. systems[p] \in SystemLists(p) /\ IsActive(systems[p], q)
      BY DEF TypesAndLists, RemoteTypeOK, Known
    <3> DEFINE s == GetRemoteSystemIndex(systems[p], q)
    <3>2. /\ s \in DOMAIN systems[p].remoteSystemList
          /\ systems[p].remoteSystemList[s].isActive
          /\ systems[p].remoteSystemList[s].systemAddress = q
      BY <3>1, ActiveFound DEF SystemLists, Entry
    <3> HIDE DEF s
    <3>3. s \in ActiveWith(systems[p], q)
      BY <3>2 DEF ActiveWith
    <3> QED
      BY <1>1, <3>3 DEF Connect
  <2>2. ModesStayBut(p, q) /\ Mode(p, q)' = "none"
    BY <1>1, <2>1, NothingChanges DEF Connect, ModesStayBut
  <2>3. ToldStaysBut(p, q) /\ UNCHANGED told /\ q \in Targets[p]
    BY <1>1 DEF Connect, ToldStaysBut, TypesAndLists, RemoteTypeOK
  <2>4. told[p][q] \notin L!Open
    BY <2>1 DEF PairAgrees, HeldModes
  <2>5. PairAgrees(p, q)'
    BY <2>2, <2>3, <2>4 DEF PairAgrees
  <2> QED
    BY <2>2, <2>3, <2>5, OnePair
<1>2. ASSUME CloseConnection(p, q) \/ AnswerBanned(p, q) \/ BanExpires(p, q)
      PROVE  \A x, y \in Peers : PairAgrees(x, y)'
  <2>1. UNCHANGED <<systems, told, requestedConnectionQueue>>
    BY <1>2 DEF CloseConnection, AnswerBanned, BanExpires
  <2>2. \A x, y \in Peers : Mode(x, y)' = Mode(x, y)
    BY <2>1, NothingChanges
  <2> QED
    BY <2>1, <2>2 DEF OpenInv, PairAgrees, Pending
<1>3. ASSUME Send(p, q) PROVE \A x, y \in Peers : PairAgrees(x, y)'
  <2>1. ModesStayBut(p, q) /\ Mode(p, q)' = Mode(p, q)
    BY <1>3, SendLists
  <2>2. ToldStaysBut(p, q) /\ UNCHANGED <<told, requestedConnectionQueue>>
    BY <1>3 DEF Send, ToldStaysBut
  <2> QED
    BY <2>1, <2>2, OnePair DEF PairAgrees, Pending
<1>4. ASSUME RunCommand(p, q) PROVE \A x, y \in Peers : PairAgrees(x, y)'
  <2>1. ModesStayBut(p, q) /\ Mode(p, q)' = IF Known(p, q) THEN "DISCONNECT_ASAP" ELSE "none"
    BY <1>4, RunCommandLists
  <2>2. ToldStaysBut(p, q) /\ UNCHANGED <<told, requestedConnectionQueue>>
    BY <1>4 DEF RunCommand, ToldStaysBut
  <2>3. Known(p, q) => Mode(p, q) # "none"
    BY ModeTyped, NoneIsNoMode
  <2>4. ~Known(p, q) => Mode(p, q) = "none"
    BY DEF Mode
  <2>5. PairAgrees(p, q)'
    <3>1. CASE Known(p, q)
      BY <2>1, <2>2, <2>3, <3>1 DEF PairAgrees, Pending, HeldModes
    <3>2. CASE ~Known(p, q)
      BY <2>1, <2>2, <2>4, <3>2 DEF PairAgrees, Pending
    <3> QED
      BY <3>1, <3>2
  <2> QED
    BY <2>1, <2>2, <2>5, OnePair
<1>5. ASSUME Attempt(p, q) PROVE \A x, y \in Peers : PairAgrees(x, y)'
  <2>1. UNCHANGED systems /\ Pending(p, q)
    BY <1>5 DEF Attempt
  <2>2. ModesStayBut(p, q) /\ Mode(p, q)' = Mode(p, q)
    BY <2>1, NothingChanges DEF ModesStayBut
  <2>3. Mode(p, q) = "none" /\ q \in Targets[p] /\ told[p][q] \notin L!Open
    BY <2>1 DEF PairAgrees, HeldModes
  <2>4. CASE requestedConnectionQueue[p][q].requestsMade = sendConnectionAttemptCount + 1
    <3>1. ToldStaysBut(p, q) /\ told'[p][q] = "CONNECTION_ATTEMPT_FAILED" /\ ~Pending(p, q)'
      BY <1>5, <2>4, TellStays, DequeueStays DEF Attempt
    <3>2. "CONNECTION_ATTEMPT_FAILED" \notin L!Open
      BY DEF L!Open
    <3> QED
      BY <2>2, <2>3, <3>1, <3>2, OnePair DEF PairAgrees
  <2>5. CASE requestedConnectionQueue[p][q].requestsMade # sendConnectionAttemptCount + 1
    <3>1. UNCHANGED told /\ ToldStaysBut(p, q)
      BY <1>5, <2>5 DEF Attempt, ToldStaysBut, TypesAndLists, RemoteTypeOK
    <3> QED
      BY <2>2, <2>3, <3>1, OnePair DEF PairAgrees
  <2> QED
    BY <2>4, <2>5
<1>6. ASSUME ReceiveMessage(p, q) PROVE \A x, y \in Peers : PairAgrees(x, y)'
  <2>1. ASSUME Known(q, p), NEW m \in System(q, p).layer.outgoing, NEW acked \in BOOLEAN,
               Deliver(p, q, m, acked)
        PROVE  \A x, y \in Peers : PairAgrees(x, y)'
    <3>1. /\ ModesStayBut(p, q) /\ Known(p, q) /\ m \in Messages
          /\ Mode(p, q)' = IF Passed(p, q, m) THEN ModeOf(Mode(p, q), m.kind) ELSE Mode(p, q)
      BY <2>1, DeliverLists
    <3>2. m.kind \in Kinds
      BY <3>1 DEF Messages, Kinds
    <3>3. UNCHANGED requestedConnectionQueue
      BY <2>1 DEF Deliver
    <3>4. CASE Passed(p, q, m)
      <4>1. Handle(p, q, TakenIn(System(p, q), m), m.kind)
        BY <2>1, <3>4 DEF Deliver, Passed
      <4>2. TakenIn(System(p, q), m).connectMode = Mode(p, q)
        BY <3>1, KnownTyped, TakenInTyped
      <4>3. ToldStaysBut(p, q) /\ PairAgrees(p, q)'
        BY <3>1, <3>2, <3>3, <3>4, <4>1, <4>2, MessageKeepsPair
      <4> QED
        BY <3>1, <4>3, OnePair
    <3>5. CASE ~Passed(p, q, m)
      <4>1. UNCHANGED told /\ ToldStaysBut(p, q)
        BY <2>1, <3>3, <3>5 DEF Deliver, Passed, ToldStaysBut
      <4> QED
        BY <3>1, <3>3, <3>5, <4>1, OnePair DEF PairAgrees, Pending
    <3> QED
      BY <3>4, <3>5
  <2>2. ASSUME Known(p, q), NEW m \in System(p, q).layer.held, DeliverHeld(p, q, m)
        PROVE  \A x, y \in Peers : PairAgrees(x, y)'
    <3> DEFINE taken == [System(p, q) EXCEPT !.layer.held = @ \ {m}, !.layer.delivered = @ + 1]
    <3>1. /\ ModesStayBut(p, q) /\ m \in Messages
          /\ Mode(p, q)' = ModeOf(Mode(p, q), m.kind)
      BY <2>2, DeliverHeldLists
    <3>2. m.kind \in Kinds
      BY <3>1 DEF Messages, Kinds
    <3>3. UNCHANGED requestedConnectionQueue /\ Handle(p, q, taken, m.kind)
      BY <2>2 DEF DeliverHeld
    <3>4. taken.connectMode = Mode(p, q)
      BY <2>2, KnownTyped DEF Entries
    <3> HIDE DEF taken
    <3>5. ToldStaysBut(p, q) /\ PairAgrees(p, q)'
      BY <2>2, <3>1, <3>2, <3>3, <3>4, MessageKeepsPair
    <3> QED
      BY <3>1, <3>5, OnePair
  <2> QED
    BY <1>6, <2>1, <2>2 DEF ReceiveMessage
<1>7. ASSUME Failure(p, q) PROVE \A x, y \in Peers : PairAgrees(x, y)'
  <2>1. Known(p, q) /\ Fail(p, q)
    BY <1>7 DEF Failure, DeadConnection, Disconnected, ConnectionTimeout, InMode
  <2>2. ModesStayBut(p, q) /\ Mode(p, q)' = "none"
    BY <2>1, FailLists
  <2>3. Mode(p, q) = System(p, q).connectMode /\ Mode(p, q) \in ConnectModes
    BY <2>1, KnownTyped, ModeTyped
  <2>4. ~Pending(p, q) /\ UNCHANGED requestedConnectionQueue
    BY <2>1, <2>3, NoneIsNoMode DEF PairAgrees, Fail
  <2> DEFINE notice == FailureNotice(Mode(p, q))
  <2>5. CASE notice = "none"
    <3>1. Mode(p, q) \notin HeldModes
      BY <2>5 DEF FailureNotice, HeldModes
    <3>2. UNCHANGED told /\ ToldStaysBut(p, q)
      BY <2>1, <2>3, <2>4, <2>5 DEF Fail, ToldStaysBut
    <3> QED
      BY <2>2, <2>4, <3>1, <3>2, OnePair DEF PairAgrees, Pending
  <2>6. CASE notice # "none"
    <3>1. Tell(p, q, notice)
      BY <2>1, <2>3, <2>6 DEF Fail
    <3>2. notice \notin L!Open
      BY DEF FailureNotice, L!Open
    <3> HIDE DEF notice
    <3>3. ToldStaysBut(p, q) /\ told'[p][q] = notice
      BY <2>4, <3>1, TellStays
    <3> QED
      BY <2>2, <2>4, <3>2, <3>3, OnePair DEF PairAgrees, Pending
  <2> QED
    BY <2>5, <2>6
<1> QED
  BY <1>1, <1>2, <1>3, <1>4, <1>5, <1>6, <1>7 DEF PairStep, UserStep

LEMMA DatagramStepAgrees ==
  ASSUME OneWay, OpenInv, NEW p \in Peers, NEW d \in datagrams, ReceiveDatagram(p, d)
  PROVE  \A x, y \in Peers : PairAgrees(x, y)'
<1> DEFINE q == d.from
<1>0. TypesAndLists /\ q \in Peers /\ d.to = p
  BY DatagramTyped DEF OpenInv, ReceiveDatagram, Arrives, OnOpenConnectionRequest1,
     OnOpenConnectionReply1, OnOpenConnectionRequest2, OnOpenConnectionReply2, OnRefusal
<1>1. PairAgrees(p, q)
  BY <1>0 DEF OpenInv
<1>2. Pending(p, q) => Mode(p, q) = "none" /\ q \in Targets[p] /\ told[p][q] \notin L!Open
  BY <1>1 DEF PairAgrees, HeldModes
<1>3. ASSUME OnOpenConnectionRequest1(p, d) \/ OnOpenConnectionReply1(p, d)
      PROVE  \A x, y \in Peers : PairAgrees(x, y)'
  <2>1. UNCHANGED <<systems, told, requestedConnectionQueue>>
    BY <1>3 DEF OnOpenConnectionRequest1, OnOpenConnectionReply1
  <2>2. \A x, y \in Peers : Mode(x, y)' = Mode(x, y)
    BY <1>0, <2>1, NothingChanges
  <2> QED
    BY <2>1, <2>2 DEF OpenInv, PairAgrees, Pending
<1>4. ASSUME OnOpenConnectionRequest2(p, d) PROVE \A x, y \in Peers : PairAgrees(x, y)'
  <2>1. p \in Targets[q]
    BY <1>0, <1>4 DEF OpenInv, RequestsToTargets, OnOpenConnectionRequest2, Arrives
  <2>2. ~Pending(p, q)
    BY <1>0, <1>2, <2>1 DEF OneWay
  <2>3. ModesStayBut(p, q)
          /\ \/ Mode(p, q)' = Mode(p, q)
             \/ Mode(p, q) = "none" /\ Mode(p, q)' \in {"none", "UNVERIFIED_SENDER"}
    BY <1>0, <1>4, OnOpenConnectionRequest2Lists
  <2>4. ToldStaysBut(p, q) /\ UNCHANGED <<told, requestedConnectionQueue>>
    BY <1>4 DEF OnOpenConnectionRequest2, ToldStaysBut
  <2>5. PairAgrees(p, q)'
    BY <1>1, <2>2, <2>3, <2>4 DEF PairAgrees, Pending, HeldModes
  <2> QED
    BY <1>0, <2>3, <2>4, <2>5, OnePair
<1>5. ASSUME OnOpenConnectionReply2(p, d) PROVE \A x, y \in Peers : PairAgrees(x, y)'
  <2>1. Pending(p, q) /\ Dequeue(p, q)
    BY <1>5 DEF OnOpenConnectionReply2
  <2>2. ModesStayBut(p, q)
          /\ \/ Mode(p, q)' = "REQUESTED_CONNECTION" /\ UNCHANGED told
             \/ Mode(p, q)' = "none" /\ Tell(p, q, "CONNECTION_ATTEMPT_FAILED")
    BY <1>0, <1>5, OnOpenConnectionReply2Lists
  <2>3. "CONNECTION_ATTEMPT_FAILED" \notin L!Open
    BY DEF L!Open
  <2>4. ~Pending(p, q)'
    BY <1>0, <2>1, DequeueStays
  <2>5. ToldStaysBut(p, q) /\ told'[p][q] \notin L!Open
    BY <1>0, <1>2, <2>1, <2>2, <2>3, DequeueStays, TellStays
  <2>6. PairAgrees(p, q)'
    BY <2>2, <2>4, <2>5 DEF PairAgrees
  <2> HIDE DEF q
  <2> QED
    BY <1>0, <2>2, <2>5, <2>6, OnePair
<1>6. ASSUME OnRefusal(p, d) PROVE \A x, y \in Peers : PairAgrees(x, y)'
  <2>1. /\ Pending(p, q) /\ Dequeue(p, q) /\ Tell(p, q, d.kind) /\ UNCHANGED systems
        /\ d.kind \in Refusals
    BY <1>6 DEF OnRefusal, Arrives
  <2>2. d.kind \notin L!Open
    BY <2>1 DEF Refusals, L!Open
  <2>3. ModesStayBut(p, q) /\ Mode(p, q)' = Mode(p, q)
    BY <1>0, <2>1, NothingChanges DEF ModesStayBut
  <2>4. ToldStaysBut(p, q) /\ told'[p][q] = d.kind /\ ~Pending(p, q)'
    BY <1>0, <2>1, TellStays, DequeueStays
  <2>5. PairAgrees(p, q)'
    BY <1>2, <2>1, <2>2, <2>3, <2>4 DEF PairAgrees
  <2> QED
    BY <1>0, <2>3, <2>4, <2>5, OnePair
<1> QED
  BY <1>3, <1>4, <1>5, <1>6 DEF ReceiveDatagram

LEMMA RestartAgrees ==
  ASSUME OpenInv, NEW p \in Peers, Restart(p)
  PROVE  \A x, y \in Peers : PairAgrees(x, y)'
<1>1. TypesAndLists
  BY DEF OpenInv
<1> SUFFICES ASSUME NEW x \in Peers, NEW y \in Peers PROVE PairAgrees(x, y)'
  OBVIOUS
<1>2. Mode(x, y)' = IF x = p THEN "none" ELSE Mode(x, y)
  BY <1>1, RestartLists
<1>3. CASE x = p
  <2>1. told'[x][y] = "none" /\ ~Pending(x, y)'
    BY <1>1, <1>3 DEF Restart, Pending, TypesAndLists, RemoteTypeOK
  <2> QED
    BY <1>2, <1>3, <2>1 DEF PairAgrees, L!Open
<1>4. CASE x # p
  <2>1. told'[x][y] = told[x][y]
          /\ requestedConnectionQueue'[x][y] = requestedConnectionQueue[x][y]
    BY <1>1, <1>4 DEF Restart, TypesAndLists, RemoteTypeOK
  <2> QED
    BY <1>2, <1>4, <2>1 DEF OpenInv, PairAgrees, Pending
<1> QED
  BY <1>3, <1>4

\* ID_OPEN_CONNECTION_REQUEST_2 is sent in answer to a reply to a pending request only.
LEMMA RequestsStayToTargets ==
  ASSUME OpenInv, RemoteNext PROVE RequestsToTargets'
<1> SUFFICES ASSUME NEW d \in datagrams', d.kind = "OPEN_CONNECTION_REQUEST_2", d \notin datagrams
             PROVE  d.to \in Targets[d.from]
  BY DEF OpenInv, RequestsToTargets
<1> PICK p \in Peers :
      \/ Restart(p)
      \/ \E c \in datagrams : ReceiveDatagram(p, c)
      \/ \E q \in Peers \ {p} : PairStep(p, q)
  BY DEF RemoteNext, PairStep
<1>1. CASE Restart(p)
  BY <1>1 DEF Restart
<1>2. ASSUME NEW q \in Peers \ {p}, PairStep(p, q) PROVE FALSE
  <2>1. UNCHANGED datagrams
          \/ SendPlain(p, q, "OPEN_CONNECTION_REQUEST_1") \/ SendPlain(p, q, "CONNECTION_BANNED")
    BY <1>2 DEF PairStep, UserStep, Connect, CloseConnection, Send, RunCommand, Attempt,
       AnswerBanned, ReceiveMessage, Deliver, DeliverHeld, Failure, DeadConnection,
       Disconnected, ConnectionTimeout, Fail, BanExpires
  <2> QED
    BY <2>1 DEF SendPlain
<1>3. ASSUME NEW c \in datagrams, ReceiveDatagram(p, c) PROVE d.to \in Targets[d.from]
  <2>1. CASE OnOpenConnectionReply1(p, c)
    <3>1. d = [kind |-> "OPEN_CONNECTION_REQUEST_2", from |-> p, to |-> c.from, guid |-> myGuid(p)]
      BY <2>1 DEF OnOpenConnectionReply1, SendWithGuid
    <3>2. Pending(p, c.from) /\ c.from \in Peers
      BY <2>1, DatagramTyped DEF OnOpenConnectionReply1, OpenInv
    <3>3. c.from \in Targets[p]
      BY <3>2 DEF OpenInv, PairAgrees
    <3> QED
      BY <3>1, <3>3
  <2>2. CASE OnOpenConnectionRequest1(p, c)
    BY <2>2 DEF OnOpenConnectionRequest1, SendPlain
  <2>3. CASE OnOpenConnectionRequest2(p, c)
    BY <2>3 DEF OnOpenConnectionRequest2, SendPlain, SendWithGuid
  <2>4. CASE OnOpenConnectionReply2(p, c) \/ OnRefusal(p, c)
    BY <2>4 DEF OnOpenConnectionReply2, OnRefusal
  <2> QED
    BY <1>3, <2>1, <2>2, <2>3, <2>4 DEF ReceiveDatagram
<1> QED
  BY <1>1, <1>2, <1>3

LEMMA OpenInvStays ==
  ASSUME OneWay PROVE OpenInv /\ [RemoteNext]_peerVars => OpenInv'
<1> SUFFICES ASSUME OpenInv, [RemoteNext]_peerVars PROVE OpenInv'
  OBVIOUS
<1>1. TypesAndLists'
  BY TypesAndListsStay DEF OpenInv
<1>2. CASE RemoteNext
  <2>1. RequestsToTargets'
    BY <1>2, RequestsStayToTargets
  <2>2. \A x, y \in Peers : PairAgrees(x, y)'
    <3> PICK p \in Peers :
          \/ Restart(p)
          \/ \E d \in datagrams : ReceiveDatagram(p, d)
          \/ \E q \in Peers \ {p} : PairStep(p, q)
      BY <1>2 DEF RemoteNext, PairStep
    <3> QED
      BY RestartAgrees, DatagramStepAgrees, PairStepAgrees
  <2> QED
    BY <1>1, <2>1, <2>2 DEF OpenInv
<1>3. CASE UNCHANGED peerVars
  BY <1>1, <1>3 DEF peerVars, OpenInv, PairAgrees, RequestsToTargets, Pending, Mode, Known, System
<1> QED
  BY <1>2, <1>3

\* What the user believes open is held as connected or on its way out, and what is held
\* as connected the user was told of: with late datagrams, restarts and closings, if no
\* two peers connect to each other.
THEOREM OpenStaysHeld == OneWay => (RemoteSpec => []OpenIsHeld)
<1> SUFFICES ASSUME OneWay PROVE RemoteSpec => []OpenIsHeld
  OBVIOUS
<1>1. OpenInv /\ [RemoteNext]_peerVars => OpenInv'
  BY OpenInvStays
<1> QED
  BY <1>1, OpenInvInitial, OpenInvHolds, PTL DEF RemoteSpec
=============================================================================
