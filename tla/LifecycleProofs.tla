---------------------------- MODULE LifecycleProofs ----------------------------
(***************************************************************************)
(* RakPeer implements Lifecycle, for any peers, slots, limits and restarts, *)
(* where no two peers connect to each other.  Besides OpenInv of           *)
(* RakPeerProofs the proof needs to know that data never comes into a      *)
(* connection that is being made, which is a matter of the order in the    *)
(* layers of both sides, and which of two sides sends what.                *)
(***************************************************************************)
EXTENDS RakPeerProofs

\* What only the side that called Connect sends.
ByCaller == {"CONNECTION_REQUEST", "BAD_CONNECTION_REQUEST", "NEW_INCOMING_CONNECTION"}

\* A message that p sent to q: data has a message of the handshake before it, and each
\* side sends its own part of the handshake.
MessageFits(p, q, m) ==
  /\ m.kind \in Unordered => m.ord = NoOrder
  /\ m.kind = "DATA" => m.ord >= 2
  /\ m.kind \in ByCaller => q \in Targets[p]
  /\ m.kind = "CONNECTION_REQUEST_ACCEPTED" => p \in Targets[q]

\* The entry e with which p holds q: who has the other side's word has sent its own.
SideFits(p, q, e) ==
  /\ \A m \in e.layer.outgoing : MessageFits(p, q, m)
  /\ \A m \in e.layer.held : MessageFits(q, p, m) /\ m.ord # NoOrder
  /\ e.connectMode \in {"HANDLING_CONNECTION_REQUEST", "CONNECTED"} => e.layer.ordered >= 1
  /\ e.connectMode = "REQUESTED_CONNECTION" => q \in Targets[p]
  /\ e.connectMode = "HANDLING_CONNECTION_REQUEST" => p \in Targets[q]
  /\ e.connectMode # "NO_ACTION"

\* Nothing ordered was delivered to a connection that is being made.
EntryFits(p, q, e) ==
  /\ SideFits(p, q, e)
  /\ e.connectMode \in HalfOpen => e.layer.delivered = 0

EntriesFit == \A p, q \in Peers : Known(p, q) => EntryFits(p, q, System(p, q))

(***************************************************************************)
(* What is done to an entry.                                               *)
(***************************************************************************)
LEMMA EnqueuedIs ==
  ASSUME NEW layer \in Layers, NEW kind \in Kinds
  PROVE  LET ord == IF kind \in Ordered THEN layer.ordered + 1 ELSE NoOrder
             message == [kind |-> kind, no |-> layer.sent + 1, ord |-> ord]
             then == Enqueued(layer, kind)
         IN /\ then.outgoing = layer.outgoing \cup {message}
            /\ then.held = layer.held /\ then.delivered = layer.delivered
            /\ then.ordered = IF kind \in Ordered THEN layer.ordered + 1 ELSE layer.ordered
  BY DEF Enqueued, Layers

\* What is sent fits, when it is of the right side and data is not sent first.
LEMMA SentFits ==
  ASSUME NEW p, NEW q, NEW e \in Entries, SideFits(p, q, e), NEW kind \in Kinds,
         kind = "DATA" => e.connectMode = "CONNECTED",
         kind \in ByCaller => q \in Targets[p],
         kind = "CONNECTION_REQUEST_ACCEPTED" => p \in Targets[q]
  PROVE  LET f == Sent(e, kind)
         IN /\ f \in Entries /\ f.connectMode = e.connectMode /\ SideFits(p, q, f)
            /\ f.layer.delivered = e.layer.delivered
            /\ kind \in Ordered /\ e.connectMode \notin Disconnecting => f.layer.ordered >= 1
            /\ e.layer.ordered >= 1 => f.layer.ordered >= 1
<1> DEFINE f == Sent(e, kind)
           ord == IF kind \in Ordered THEN e.layer.ordered + 1 ELSE NoOrder
           message == [kind |-> kind, no |-> e.layer.sent + 1, ord |-> ord]
<1>1. f \in Entries /\ f.connectMode = e.connectMode
  BY SentTyped
<1>2. e.layer \in Layers /\ e.layer.ordered \in Nat
  BY DEF Entries, Layers
<1>3. CASE e.connectMode \in Disconnecting
  BY <1>1, <1>3 DEF Sent
<1>4. CASE e.connectMode \notin Disconnecting
  <2>1. f.layer = Enqueued(e.layer, kind)
    BY <1>4 DEF Sent, Entries
  <2>2. /\ f.layer.outgoing = e.layer.outgoing \cup {message}
        /\ f.layer.held = e.layer.held /\ f.layer.delivered = e.layer.delivered
        /\ f.layer.ordered = IF kind \in Ordered THEN e.layer.ordered + 1 ELSE e.layer.ordered
    BY <1>2, <2>1, EnqueuedIs
  <2>3. MessageFits(p, q, message)
    <3>1. kind \in Unordered => kind \notin Ordered
      BY DEF Unordered, Ordered
    <3>2. kind = "DATA" => kind \in Ordered /\ e.layer.ordered >= 1
      BY DEF SideFits, Ordered
    <3> QED
      BY <1>2, <3>1, <3>2 DEF MessageFits
  <2> HIDE DEF f, message
  <2>4. SideFits(p, q, f)
    BY <1>1, <1>2, <2>2, <2>3 DEF SideFits
  <2> QED
    BY <1>1, <1>2, <1>4, <2>2, <2>4 DEF f
<1> QED
  BY <1>3, <1>4

\* Data is never the next message of a connection that is being made.
LEMMA NoDataYet ==
  ASSUME NEW p, NEW q, NEW e, EntryFits(p, q, e), NEW m \in Messages, MessageFits(q, p, m),
         IsNext(e.layer, m), e.connectMode \in HalfOpen
  PROVE  m.kind # "DATA"
  BY DEF EntryFits, MessageFits, IsNext, NoOrder, Messages

\* The entry as it is when m is handled: m has been taken in, or is held no longer.
TakenFrom(p, q, e, m, taken) ==
  /\ taken \in Entries /\ SameSystem(e, taken)
  /\ taken.connectMode = e.connectMode
  /\ SideFits(p, q, taken)
  /\ m.kind \in Unordered => taken.layer.delivered = e.layer.delivered

\* What an entry becomes by a message that is handled.
LEMMA AfterMessageFits ==
  ASSUME OneWay, NEW p \in Peers, NEW q \in Peers, NEW e \in Entries, EntryFits(p, q, e),
         NEW m \in Messages, MessageFits(q, p, m), IsNext(e.layer, m),
         NEW taken, TakenFrom(p, q, e, m, taken), ~Nonsense(e.connectMode, m.kind)
  PROVE  EntryFits(p, q, AfterMessage(taken, m.kind))
<1> DEFINE mode == e.connectMode
           kind == m.kind
           answer == Answer(mode, kind)
           answered == IF answer = "none" THEN taken ELSE Sent(taken, answer)
           after == AfterMessage(taken, kind)
<1>1. /\ taken \in Entries /\ taken.connectMode = mode /\ SideFits(p, q, taken)
      /\ kind \in Unordered => taken.layer.delivered = e.layer.delivered
      /\ kind \in Kinds
  BY DEF TakenFrom, Messages, Kinds
<1>2. mode \in HalfOpen => kind # "DATA" /\ (kind \in Unordered => taken.layer.delivered = 0)
  BY <1>1, NoDataYet DEF EntryFits
<1>3. /\ kind \in ByCaller => p \in Targets[q]
      /\ kind = "CONNECTION_REQUEST_ACCEPTED" => q \in Targets[p]
  BY DEF MessageFits
<1>4. /\ answer = "none" \/ answer \in Kinds
      /\ answer # "DATA"
      /\ answer \in ByCaller => q \in Targets[p]
      /\ answer = "CONNECTION_REQUEST_ACCEPTED" => p \in Targets[q]
  BY <1>3 DEF Answer, Kinds, Unordered, Ordered, ByCaller, IsRequest, Accepts
<1>5. /\ answered \in Entries /\ answered.connectMode = mode /\ SideFits(p, q, answered)
      /\ answered.layer.delivered = taken.layer.delivered
      /\ answer \in Ordered /\ mode \notin Disconnecting => answered.layer.ordered >= 1
      /\ taken.layer.ordered >= 1 => answered.layer.ordered >= 1
  <2>1. CASE answer = "none"
    BY <1>1, <2>1 DEF Ordered
  <2>2. CASE answer # "none"
    BY <1>1, <1>4, <2>2, SentFits
  <2> QED
    BY <2>1, <2>2
<1>6. after = [answered EXCEPT !.connectMode = ModeAfter(mode, kind)]
  BY <1>1, <1>5 DEF AfterMessage
<1>7. after.layer = answered.layer /\ after.connectMode = ModeAfter(mode, kind)
  BY <1>5, <1>6 DEF Entries
<1>8. mode \in ConnectModes
  BY DEF Entries
<1>9. /\ mode = "REQUESTED_CONNECTION" => q \in Targets[p]
      /\ mode = "HANDLING_CONNECTION_REQUEST" => p \in Targets[q] /\ taken.layer.ordered >= 1
      /\ mode = "CONNECTED" => taken.layer.ordered >= 1
      /\ mode # "NO_ACTION"
  BY <1>1 DEF SideFits
<1> HIDE DEF mode, kind, answered, after
<1>10. ModeAfter(mode, kind) \in {"HANDLING_CONNECTION_REQUEST", "CONNECTED"}
         => answered.layer.ordered >= 1
  BY <1>5, <1>9 DEF ModeAfter, Answer, Parses, Accepts, Completes, Denies, IsRequest, Ordered,
     Disconnecting
<1>11. ModeAfter(mode, kind) \in HalfOpen => answered.layer.delivered = 0
  <2> SUFFICES ASSUME ModeAfter(mode, kind) \in HalfOpen PROVE kind \in Unordered /\ mode \in HalfOpen
    BY <1>2, <1>5
  <2>1. mode \in HalfOpen
    BY DEF ModeAfter, HalfOpen, Parses, Accepts, Completes, Denies
  <2>2. kind \in Ordered \ {"DATA"} => FALSE
    <3>1. CASE mode = "UNVERIFIED_SENDER"
      BY <3>1 DEF mode, kind, Nonsense, IsRequest, Ordered
    <3>2. CASE mode = "REQUESTED_CONNECTION"
      <4>1. kind # "NEW_INCOMING_CONNECTION"
        BY <1>3, <1>9, <3>2 DEF OneWay, ByCaller
      <4> QED
        BY <3>2, <4>1 DEF ModeAfter, HalfOpen, Ordered, Parses, Accepts, Completes, Denies
    <3>3. CASE mode = "HANDLING_CONNECTION_REQUEST"
      BY <3>3 DEF ModeAfter, HalfOpen, Ordered, Parses, Accepts, Completes, Denies
    <3> QED
      BY <2>1, <3>1, <3>2, <3>3 DEF HalfOpen
  <2> QED
    BY <1>1, <1>2, <2>1, <2>2 DEF Kinds, kind
<1>12. /\ ModeAfter(mode, kind) = "REQUESTED_CONNECTION" => q \in Targets[p]
       /\ ModeAfter(mode, kind) = "HANDLING_CONNECTION_REQUEST" => p \in Targets[q]
       /\ ModeAfter(mode, kind) # "NO_ACTION"
  BY <1>3, <1>9 DEF ModeAfter, Parses, Accepts, Completes, Denies, ByCaller
<1>13. SideFits(p, q, after)
  BY <1>5, <1>7, <1>10, <1>12 DEF SideFits
<1> QED
  BY <1>7, <1>11, <1>13 DEF EntryFits, after, kind

LEMMA TakenInFits ==
  ASSUME NEW p, NEW q, NEW e \in Entries, EntryFits(p, q, e),
         NEW m \in Messages, MessageFits(q, p, m)
  PROVE  /\ TakenIn(e, m).layer.outgoing = e.layer.outgoing
         /\ IsNext(e.layer, m) => TakenFrom(p, q, e, m, TakenIn(e, m))
         /\ ~IsNext(e.layer, m) => EntryFits(p, q, TakenIn(e, m))
<1> DEFINE f == TakenIn(e, m)
<1>1. e.layer \in Layers /\ m.ord \in Nat /\ e.layer.delivered \in Nat
  BY DEF Entries, Layers, Messages
<1>2. f \in Entries /\ SameSystem(e, f) /\ f.connectMode = e.connectMode
  BY TakenInTyped
<1>3. /\ f.layer.outgoing = e.layer.outgoing /\ f.layer.ordered = e.layer.ordered
      /\ f.layer.held = IF m.ord > e.layer.delivered + 1 THEN e.layer.held \cup {m}
                                                         ELSE e.layer.held
      /\ f.layer.delivered = IF m.ord = e.layer.delivered + 1 THEN m.ord ELSE e.layer.delivered
  BY <1>1 DEF TakenIn, Entries, Layers
<1> HIDE DEF f
<1>4. SideFits(p, q, f)
  <2>1. \A n \in f.layer.held : MessageFits(q, p, n) /\ n.ord # NoOrder
    BY <1>1, <1>3 DEF EntryFits, SideFits, NoOrder
  <2> QED
    BY <1>2, <1>3, <2>1 DEF EntryFits, SideFits
<1>5. m.kind \in Unordered => f.layer.delivered = e.layer.delivered
  BY <1>1, <1>3 DEF MessageFits, NoOrder
<1>6. ~IsNext(e.layer, m) => f.layer.delivered = e.layer.delivered
  BY <1>3 DEF IsNext
<1> QED
  BY <1>2, <1>3, <1>4, <1>5, <1>6 DEF TakenFrom, EntryFits, f

\* A message that waited is held no longer.
Released(e, m) == [e EXCEPT !.layer.held = @ \ {m}, !.layer.delivered = @ + 1]

LEMMA ReleasedFits ==
  ASSUME NEW p, NEW q, NEW e \in Entries, EntryFits(p, q, e), NEW m \in e.layer.held
  PROVE  m \in Messages /\ MessageFits(q, p, m) /\ TakenFrom(p, q, e, m, Released(e, m))
<1> DEFINE layer == [e.layer EXCEPT !.held = @ \ {m}, !.delivered = @ + 1]
           f == Released(e, m)
<1>1. e.layer \in Layers
  BY DEF Entries
<1>2. e.layer.held \ {m} \in SUBSET Messages /\ e.layer.delivered + 1 \in Nat
  BY <1>1 DEF Layers
<1>3. layer \in Layers /\ layer.outgoing = e.layer.outgoing /\ layer.ordered = e.layer.ordered
        /\ layer.held = e.layer.held \ {m}
  BY <1>1, <1>2 DEF Layers
<1>4. f = [e EXCEPT !.layer = layer]
  BY <1>1 DEF Entries, Layers, Released
<1> HIDE DEF layer
<1>5. f \in Entries /\ SameSystem(e, f) /\ f.connectMode = e.connectMode /\ f.layer = layer
  BY <1>3, <1>4 DEF Entries, SameSystem
<1> HIDE DEF f
<1>6. SideFits(p, q, f)
  BY <1>3, <1>5 DEF EntryFits, SideFits
<1>7. m \in Messages /\ MessageFits(q, p, m) /\ m.ord # NoOrder
  BY <1>1 DEF EntryFits, SideFits, Layers
<1> QED
  BY <1>5, <1>6, <1>7 DEF TakenFrom, MessageFits, f

(***************************************************************************)
(* What is done to the lists.                                              *)
(***************************************************************************)
\* The entry with which the list t of p holds q, if it does.
FitsIn(p, q, t) == IsActive(t, q) => EntryFits(p, q, Entry(t, q))

LEMMA OneFits ==
  ASSUME TypesAndLists, EntriesFit, NEW p \in Peers, NEW q \in Peers, NEW t,
         OthersKept(systems[p], t, q), FitsIn(p, q, t), systems' = [systems EXCEPT ![p] = t]
  PROVE  EntriesFit'
<1>1. DOMAIN systems = Peers
  BY DEF TypesAndLists, RemoteTypeOK
<1>2. systems'[p] = t /\ \A x \in Peers \ {p} : systems'[x] = systems[x]
  BY <1>1
<1> SUFFICES ASSUME NEW x \in Peers, NEW y \in Peers, IsActive(systems'[x], y)
             PROVE  EntryFits(x, y, Entry(systems'[x], y))
  BY DEF EntriesFit, Known, System
<1>3. CASE x = p /\ y = q
  BY <1>2, <1>3 DEF FitsIn
<1>4. CASE x = p /\ y # q
  BY <1>2, <1>4 DEF OthersKept, EntriesFit, Known, System
<1>5. CASE x # p
  <2>1. systems'[x] = systems[x]
    BY <1>2, <1>5
  <2> QED
    BY <2>1 DEF EntriesFit, Known, System
<1> QED
  BY <1>3, <1>4, <1>5

LEMMA BothFit ==
  ASSUME TypesAndLists, EntriesFit, NEW p \in Peers, NEW q \in Peers \ {p}, NEW t, NEW u,
         OthersKept(systems[p], t, q), FitsIn(p, q, t),
         OthersKept(systems[q], u, p), FitsIn(q, p, u),
         systems' = [systems EXCEPT ![p] = t, ![q] = u]
  PROVE  EntriesFit'
<1>1. DOMAIN systems = Peers
  BY DEF TypesAndLists, RemoteTypeOK
<1>2. systems'[p] = t /\ systems'[q] = u /\ \A x \in Peers \ {p, q} : systems'[x] = systems[x]
  BY <1>1
<1> SUFFICES ASSUME NEW x \in Peers, NEW y \in Peers, IsActive(systems'[x], y)
             PROVE  EntryFits(x, y, Entry(systems'[x], y))
  BY DEF EntriesFit, Known, System
<1>3. CASE x = p
  BY <1>2, <1>3 DEF FitsIn, OthersKept, EntriesFit, Known, System
<1>4. CASE x = q
  BY <1>2, <1>4 DEF FitsIn, OthersKept, EntriesFit, Known, System
<1>5. CASE x \notin {p, q}
  <2>1. systems'[x] = systems[x]
    BY <1>2, <1>5
  <2> QED
    BY <2>1 DEF EntriesFit, Known, System
<1> QED
  BY <1>3, <1>4, <1>5

LEMMA HandledFits ==
  ASSUME OneWay, TypesAndLists, EntriesFit, NEW p \in Peers, NEW q \in Peers, Known(p, q),
         NEW m \in Messages, MessageFits(q, p, m), IsNext(System(p, q).layer, m),
         NEW taken, TakenFrom(p, q, System(p, q), m, taken)
  PROVE  LET t == Handled(p, q, taken, m.kind)
         IN OthersKept(systems[p], t, q) /\ FitsIn(p, q, t)
<1> DEFINE t == Handled(p, q, taken, m.kind)
           e == System(p, q)
<1>1. e \in Entries /\ EntryFits(p, q, e)
  BY KnownTyped DEF EntriesFit
<1>2. taken \in Entries /\ SameSystem(e, taken) /\ taken.connectMode = e.connectMode
  BY DEF TakenFrom
<1>3. m.kind \in Kinds
  BY DEF Messages, Kinds
<1>4. OthersKept(systems[p], t, q) /\ (Nonsense(taken.connectMode, m.kind) => ~IsActive(t, q))
  BY <1>2, <1>3, HandledLists
<1>5. CASE Nonsense(taken.connectMode, m.kind)
  BY <1>4, <1>5 DEF FitsIn
<1>6. CASE ~Nonsense(taken.connectMode, m.kind)
  <2>1. EntryFits(p, q, AfterMessage(taken, m.kind))
    BY <1>1, <1>2, <1>6, AfterMessageFits
  <2>2. AfterMessage(taken, m.kind) \in Entries /\ SameSystem(e, AfterMessage(taken, m.kind))
    BY <1>2, <1>3, AfterMessageTyped DEF SameSystem
  <2>3. t = Changed(systems[p], q, AfterMessage(taken, m.kind))
    BY <1>6 DEF Handled
  <2>4. Entry(t, q) = AfterMessage(taken, m.kind)
    BY <2>2, <2>3, OneChangedInPlace
  <2> HIDE DEF t
  <2> QED
    BY <1>4, <2>1, <2>4 DEF FitsIn, t
<1> QED
  BY <1>5, <1>6

(***************************************************************************)
(* The same, action by action.                                             *)
(***************************************************************************)
LEMMA FreshFits ==
  ASSUME NEW p, NEW q, NEW g PROVE EntryFits(p, q, Assigned(q, g))
  BY DEF EntryFits, SideFits, Assigned, FreshLayer

LEMMA SendKeepsFit ==
  ASSUME TypesAndLists, EntriesFit, NEW p \in Peers, NEW q \in Peers, Send(p, q)
  PROVE  EntriesFit'
<1> DEFINE e == Sent(System(p, q), "DATA")
           t == Changed(systems[p], q, e)
<1>1. /\ Known(p, q) /\ System(p, q).connectMode = "CONNECTED"
      /\ systems' = [systems EXCEPT ![p] = t]
  BY DEF Send, InMode
<1>2. System(p, q) \in Entries /\ EntryFits(p, q, System(p, q))
  BY <1>1, KnownTyped DEF EntriesFit
<1>3. e \in Entries /\ SameSystem(System(p, q), e)
  BY <1>2, SentTyped DEF Kinds, Ordered
<1>4. EntryFits(p, q, e)
  BY <1>1, <1>2, SentFits DEF EntryFits, Kinds, Ordered, ByCaller
<1> HIDE DEF e
<1>5. Entry(t, q) = e /\ OthersKept(systems[p], t, q)
  BY <1>1, <1>3, OneChangedInPlace
<1> HIDE DEF t
<1> QED
  BY <1>1, <1>4, <1>5, OneFits DEF FitsIn

LEMMA RestartKeepsFit ==
  ASSUME TypesAndLists, EntriesFit, NEW p \in Peers, Restart(p) PROVE EntriesFit'
<1>1. systems'[p] = NoSystems(p) /\ \A x \in Peers \ {p} : systems'[x] = systems[x]
  BY DEF Restart, TypesAndLists, RemoteTypeOK
<1> SUFFICES ASSUME NEW x \in Peers, NEW y \in Peers, IsActive(systems'[x], y)
             PROVE  EntryFits(x, y, Entry(systems'[x], y))
  BY DEF EntriesFit, Known, System
<1>2. x # p
  BY <1>1, NoSystemsInactive
<1>3. systems'[x] = systems[x]
  BY <1>1, <1>2
<1> QED
  BY <1>3 DEF EntriesFit, Known, System

LEMMA RunCommandKeepsFit ==
  ASSUME TypesAndLists, EntriesFit, NEW p \in Peers, NEW q \in Peers, RunCommand(p, q)
  PROVE  EntriesFit'
<1>1. CASE Known(p, q)
  <2> DEFINE sent == Sent(System(p, q), "DISCONNECTION_NOTIFICATION")
             e == [sent EXCEPT !.connectMode = "DISCONNECT_ASAP"]
             t == Changed(systems[p], q, e)
  <2>1. systems' = [systems EXCEPT ![p] = t]
    BY <1>1 DEF RunCommand
  <2>2. System(p, q) \in Entries /\ EntryFits(p, q, System(p, q))
    BY <1>1, KnownTyped DEF EntriesFit
  <2>3. sent \in Entries /\ SameSystem(System(p, q), sent)
    BY <2>2, SentTyped DEF Kinds, Ordered
  <2>4. SideFits(p, q, sent)
    BY <2>2, SentFits DEF EntryFits, Kinds, Ordered, ByCaller
  <2> HIDE DEF sent
  <2>5. /\ e \in Entries /\ SameSystem(System(p, q), e)
        /\ e.layer = sent.layer /\ e.connectMode = "DISCONNECT_ASAP"
    BY <2>3 DEF Entries, SameSystem, ConnectModes, Disconnecting
  <2> HIDE DEF e
  <2>6. EntryFits(p, q, e)
    BY <2>4, <2>5 DEF EntryFits, SideFits, HalfOpen
  <2>7. Entry(t, q) = e /\ OthersKept(systems[p], t, q)
    BY <1>1, <2>5, OneChangedInPlace
  <2> HIDE DEF t
  <2> QED
    BY <2>1, <2>6, <2>7, OneFits DEF FitsIn
<1>2. CASE ~Known(p, q)
  BY <1>2 DEF RunCommand, EntriesFit, Known, System
<1> QED
  BY <1>1, <1>2

LEMMA FailKeepsFit ==
  ASSUME TypesAndLists, EntriesFit, NEW p \in Peers, NEW q \in Peers, Fail(p, q)
  PROVE  EntriesFit'
<1> DEFINE t == Close(systems[p], q)
<1>1. systems[p] \in SystemLists(p) /\ ListsAgreeIn(systems[p])
  BY DEF TypesAndLists, RemoteTypeOK, ListsAgree
<1>2. systems' = [systems EXCEPT ![p] = t]
  BY DEF Fail
<1>3. ~IsActive(t, q) /\ OthersKept(systems[p], t, q)
  BY <1>1, CloseAgrees
<1> HIDE DEF t
<1>4. FitsIn(p, q, t) /\ OthersKept(systems[p], t, q)
  BY <1>3 DEF FitsIn
<1> QED
  BY <1>2, <1>4, OneFits

LEMMA Request2KeepsFit ==
  ASSUME TypesAndLists, EntriesFit, NEW p \in Peers, NEW d \in datagrams,
         OnOpenConnectionRequest2(p, d)
  PROVE  EntriesFit'
<1> DEFINE q == d.from
           t == Assign(systems[p], q, d.guid)
<1>1. CASE NewRequest(p, d) /\ AllowIncomingConnections(p)
  <2>1. systems[p] \in SystemLists(p) /\ ListsAgreeIn(systems[p]) /\ ~IsActive(systems[p], q)
    BY <1>1 DEF TypesAndLists, RemoteTypeOK, ListsAgree, NewRequest, IPAddrInUse, Known
  <2>2. q \in Peers /\ d.guid \in Guids
    BY DatagramTyped DEF OnOpenConnectionRequest2, Arrives, WithGuid
  <2>3. systems' = [systems EXCEPT ![p] = t]
    BY <1>1 DEF OnOpenConnectionRequest2
  <2>4. /\ IsActive(t, q) => Entry(t, q) = Assigned(q, d.guid)
        /\ OthersKept(systems[p], t, q)
    BY <2>1, <2>2, AssignAgrees
  <2> HIDE DEF t, q
  <2>5. FitsIn(p, q, t)
    BY <2>4, FreshFits DEF FitsIn
  <2> QED
    BY <2>2, <2>3, <2>4, <2>5, OneFits
<1>2. CASE ~(NewRequest(p, d) /\ AllowIncomingConnections(p))
  BY <1>2 DEF OnOpenConnectionRequest2, EntriesFit, Known, System
<1> QED
  BY <1>1, <1>2

LEMMA Reply2KeepsFit ==
  ASSUME OpenInv, EntriesFit, NEW p \in Peers, NEW d \in datagrams,
         OnOpenConnectionReply2(p, d)
  PROVE  EntriesFit'
<1> DEFINE q == d.from
           assigned == Assign(systems[p], q, d.guid)
           request == IF requestedConnectionQueue[p][q].right
                      THEN "CONNECTION_REQUEST" ELSE "BAD_CONNECTION_REQUEST"
           asking == [Entry(assigned, q) EXCEPT !.connectMode = "REQUESTED_CONNECTION",
                                                !.weInitiatedTheConnection = TRUE]
           e == Sent(asking, request)
           t == Changed(assigned, q, e)
<1>0. TypesAndLists
  BY DEF OpenInv
<1>1. q \in Peers /\ d.guid \in Guids
  BY <1>0, DatagramTyped DEF OnOpenConnectionReply2, Arrives, WithGuid
<1>2. q \in Targets[p] /\ ~Known(p, q)
  <2>1. Pending(p, q) /\ PairAgrees(p, q)
    BY <1>1 DEF OnOpenConnectionReply2, OpenInv
  <2> QED
    BY <1>0, <1>1, <2>1, ModeTyped, NoneIsNoMode DEF PairAgrees
<1>3. systems[p] \in SystemLists(p) /\ ListsAgreeIn(systems[p]) /\ ~IsActive(systems[p], q)
  BY <1>0, <1>2 DEF TypesAndLists, RemoteTypeOK, ListsAgree, Known
<1>4. /\ assigned \in SystemLists(p) /\ ListsAgreeIn(assigned)
      /\ OthersKept(systems[p], assigned, q)
      /\ IsActive(assigned, q) => Entry(assigned, q) = Assigned(q, d.guid)
  BY <1>1, <1>3, AssignAgrees
<1>5. \/ IsActive(assigned, q) /\ systems' = [systems EXCEPT ![p] = t]
      \/ UNCHANGED systems
  BY <1>2 DEF OnOpenConnectionReply2
<1>6. request \in Kinds /\ request \notin {"DATA", "CONNECTION_REQUEST_ACCEPTED"}
  BY DEF Kinds, Unordered
<1> HIDE DEF q, assigned, request
<1>7. CASE IsActive(assigned, q) /\ systems' = [systems EXCEPT ![p] = t]
  <2>1. Entry(assigned, q) \in Entries /\ Entry(assigned, q) = Assigned(q, d.guid)
    BY <1>1, <1>4, <1>7, ActiveFound
  <2>2. /\ asking \in Entries /\ asking.systemAddress = q /\ asking.isActive
        /\ asking.connectMode = "REQUESTED_CONNECTION" /\ asking.layer = FreshLayer
    <3>1. /\ Entry(assigned, q).systemAddress = q /\ Entry(assigned, q).isActive
          /\ Entry(assigned, q).layer = FreshLayer
      BY <2>1 DEF Assigned
    <3> QED
      BY <2>1, <3>1 DEF Entries, ConnectModes
  <2> HIDE DEF asking
  <2>3. SideFits(p, q, asking) /\ asking.layer.delivered = 0
    BY <1>2, <2>2 DEF SideFits, FreshLayer
  <2>4. e \in Entries /\ e.systemAddress = q /\ e.isActive
    BY <1>6, <2>2, SentTyped DEF SameSystem
  <2>5. EntryFits(p, q, e)
    BY <1>2, <1>6, <2>2, <2>3, SentFits DEF EntryFits
  <2> HIDE DEF e
  <2>6. Entry(t, q) = e /\ OthersKept(assigned, t, q)
    BY <1>1, <1>4, <1>7, <2>4, ChangedAgrees
  <2>7. OthersKept(systems[p], t, q)
    BY <1>4, <2>6 DEF OthersKept
  <2> HIDE DEF t
  <2> QED
    BY <1>0, <1>1, <1>7, <2>5, <2>6, <2>7, OneFits DEF FitsIn
<1>8. CASE UNCHANGED systems
  BY <1>8 DEF EntriesFit, Known, System
<1> QED
  BY <1>5, <1>7, <1>8

LEMMA DeliverHeldKeepsFit ==
  ASSUME OneWay, TypesAndLists, EntriesFit, NEW p \in Peers, NEW q \in Peers, Known(p, q),
         NEW m \in System(p, q).layer.held, DeliverHeld(p, q, m)
  PROVE  EntriesFit'
<1> DEFINE taken == Released(System(p, q), m)
<1>1. System(p, q) \in Entries /\ EntryFits(p, q, System(p, q))
  BY KnownTyped DEF EntriesFit
<1>2. /\ m \in Messages /\ MessageFits(q, p, m)
      /\ TakenFrom(p, q, System(p, q), m, taken)
  BY <1>1, ReleasedFits
<1>3. IsNext(System(p, q).layer, m)
        /\ systems' = [systems EXCEPT ![p] = Handled(p, q, taken, m.kind)]
  BY DEF DeliverHeld, Released
<1> HIDE DEF taken
<1> QED
  BY <1>2, <1>3, HandledFits, OneFits

LEMMA DeliverKeepsFit ==
  ASSUME OneWay, TypesAndLists, EntriesFit, NEW p \in Peers, NEW q \in Peers \ {p},
         Known(q, p), NEW m \in System(q, p).layer.outgoing, NEW acked \in BOOLEAN,
         Deliver(p, q, m, acked)
  PROVE  EntriesFit'
<1> DEFINE e == System(p, q)
           f == System(q, p)
           fresh == m.no \notin e.layer.received
           taken == TakenIn(e, m)
           passed == fresh /\ IsNext(e.layer, m)
           handled == Handled(p, q, taken, m.kind)
           kept == Changed(systems[p], q, taken)
           t == IF passed THEN handled ELSE IF fresh THEN kept ELSE systems[p]
           acknowledged == [f EXCEPT !.layer.outgoing = @ \ {m}]
           u == IF acked THEN Changed(systems[q], p, acknowledged) ELSE systems[q]
<1>1. Known(p, q)
  BY DEF Deliver
<1>2. /\ e \in Entries /\ EntryFits(p, q, e)
      /\ f \in Entries /\ EntryFits(q, p, f)
      /\ DOMAIN systems = Peers
  BY <1>1, KnownTyped DEF EntriesFit, TypesAndLists, RemoteTypeOK
<1>3. m \in Messages /\ MessageFits(q, p, m)
  BY <1>2 DEF Entries, Layers, EntryFits, SideFits
<1>4. systems' = [systems EXCEPT ![p] = t, ![q] = u]
  BY <1>2 DEF Deliver, Acknowledged
<1>5. OthersKept(systems[q], u, p) /\ FitsIn(q, p, u)
  <2> DEFINE layer == [f.layer EXCEPT !.outgoing = @ \ {m}]
  <2>1. f.layer \in Layers
    BY <1>2 DEF Entries
  <2>2. /\ layer \in Layers /\ layer.outgoing = f.layer.outgoing \ {m}
        /\ layer.held = f.layer.held /\ layer.ordered = f.layer.ordered
        /\ layer.delivered = f.layer.delivered
    BY <2>1 DEF Layers
  <2>3. acknowledged = [f EXCEPT !.layer = layer]
    BY <1>2, <2>1 DEF Entries, Layers
  <2> HIDE DEF layer
  <2>4. /\ acknowledged \in Entries /\ SameSystem(f, acknowledged)
        /\ acknowledged.connectMode = f.connectMode /\ acknowledged.layer = layer
    BY <1>2, <2>2, <2>3 DEF Entries, SameSystem
  <2> HIDE DEF acknowledged
  <2>5. EntryFits(q, p, acknowledged)
    BY <1>2, <2>2, <2>4 DEF EntryFits, SideFits
  <2>6. CASE acked
    BY <2>4, <2>5, <2>6, OneChangedInPlace DEF FitsIn
  <2>7. CASE ~acked
    BY <1>2, <2>7 DEF OthersKept, FitsIn, Known, System
  <2> QED
    BY <2>6, <2>7
<1>6. TakenIn(e, m) \in Entries /\ SameSystem(e, taken)
  BY <1>2, <1>3, TakenInTyped
<1>7. passed => OthersKept(systems[p], handled, q) /\ FitsIn(p, q, handled)
  <2>1. passed => TakenFrom(p, q, e, m, taken)
    BY <1>2, <1>3, TakenInFits
  <2> QED
    BY <1>1, <1>3, <2>1, HandledFits
<1>8. ~IsNext(e.layer, m) => OthersKept(systems[p], kept, q) /\ FitsIn(p, q, kept)
  <2>1. ~IsNext(e.layer, m) => EntryFits(p, q, taken)
    BY <1>2, <1>3, TakenInFits
  <2> HIDE DEF taken
  <2>2. Entry(kept, q) = taken /\ OthersKept(systems[p], kept, q)
    BY <1>1, <1>6, OneChangedInPlace DEF taken
  <2> QED
    BY <2>1, <2>2 DEF FitsIn
<1>9. OthersKept(systems[p], systems[p], q) /\ FitsIn(p, q, systems[p])
  BY <1>2 DEF OthersKept, FitsIn, System
<1> HIDE DEF taken, handled, kept, u
<1>10. OthersKept(systems[p], t, q) /\ FitsIn(p, q, t)
  BY <1>7, <1>8, <1>9
<1> HIDE DEF t
<1> QED
  BY <1>4, <1>5, <1>10, BothFit

LEMMA EntriesFitStay ==
  ASSUME OneWay, OpenInv, EntriesFit, RemoteNext PROVE EntriesFit'
<1>0. TypesAndLists
  BY DEF OpenInv
<1> PICK p \in Peers :
      \/ Restart(p)
      \/ \E d \in datagrams : ReceiveDatagram(p, d)
      \/ \E q \in Peers \ {p} : PairStep(p, q)
  BY DEF RemoteNext, PairStep
<1>1. UNCHANGED systems => EntriesFit'
  BY DEF EntriesFit, Known, System
<1>2. CASE Restart(p)
  BY <1>0, <1>2, RestartKeepsFit
<1>3. ASSUME NEW d \in datagrams, ReceiveDatagram(p, d) PROVE EntriesFit'
  <2>1. CASE OnOpenConnectionRequest2(p, d)
    BY <1>0, <2>1, Request2KeepsFit
  <2>2. CASE OnOpenConnectionReply2(p, d)
    BY <2>2, Reply2KeepsFit
  <2>3. CASE OnOpenConnectionRequest1(p, d) \/ OnOpenConnectionReply1(p, d) \/ OnRefusal(p, d)
    BY <1>1, <2>3 DEF OnOpenConnectionRequest1, OnOpenConnectionReply1, OnRefusal
  <2> QED
    BY <1>3, <2>1, <2>2, <2>3 DEF ReceiveDatagram
<1>4. ASSUME NEW q \in Peers \ {p}, ReceiveMessage(p, q) PROVE EntriesFit'
  <2>1. ASSUME Known(q, p), NEW m \in System(q, p).layer.outgoing, NEW acked \in BOOLEAN,
               Deliver(p, q, m, acked)
        PROVE  EntriesFit'
    BY <1>0, <2>1, DeliverKeepsFit
  <2>2. ASSUME Known(p, q), NEW m \in System(p, q).layer.held, DeliverHeld(p, q, m)
        PROVE  EntriesFit'
    BY <1>0, <2>2, DeliverHeldKeepsFit
  <2> QED
    BY <1>4, <2>1, <2>2 DEF ReceiveMessage
<1>5. ASSUME NEW q \in Peers \ {p}, PairStep(p, q), ~ReceiveMessage(p, q) PROVE EntriesFit'
  <2>1. CASE Send(p, q)
    BY <1>0, <2>1, SendKeepsFit
  <2>2. CASE RunCommand(p, q)
    BY <1>0, <2>2, RunCommandKeepsFit
  <2>3. CASE Failure(p, q)
    BY <1>0, <2>3, FailKeepsFit DEF Failure, DeadConnection, Disconnected, ConnectionTimeout
  <2>4. CASE \/ Connect(p, q) \/ CloseConnection(p, q) \/ Attempt(p, q)
             \/ AnswerBanned(p, q) \/ BanExpires(p, q)
    BY <1>1, <2>4 DEF Connect, CloseConnection, Attempt, AnswerBanned, BanExpires
  <2> QED
    BY <1>5, <2>1, <2>2, <2>3, <2>4 DEF PairStep, UserStep
<1> QED
  BY <1>2, <1>3, <1>4, <1>5

(***************************************************************************)
(* The mapping: every step is a step of Lifecycle for one pair, a crash,   *)
(* or changes nothing of what Lifecycle has.                               *)
(***************************************************************************)
asking == [p \in Peers |-> [q \in Peers |-> Asked(p, q)]]
closing == [p \in Peers |-> [q \in Peers |-> InMode(p, q, Disconnecting)]]

LEMMA ModeTells ==
  ASSUME TypesAndLists, NEW p \in Peers, NEW q \in Peers
  PROVE  /\ Asked(p, q) <=> Pending(p, q) \/ Mode(p, q) = "REQUESTED_CONNECTION"
         /\ InMode(p, q, Disconnecting) <=> Mode(p, q) \in Disconnecting
  BY DEF Asked, InMode, Mode, Disconnecting

\* Only what p has to do with q changes.
OnlyPair(p, q) == ModesStayBut(p, q) /\ ToldStaysBut(p, q)

LEMMA PairOfMapping ==
  ASSUME TypesAndLists, TypesAndLists', NEW p \in Peers, NEW q \in Peers, OnlyPair(p, q)
  PROVE  /\ \A v \in BOOLEAN : (Asked(p, q)' <=> v) => L!Asks(p, q, v)
         /\ \A v \in BOOLEAN : (InMode(p, q, Disconnecting)' <=> v) => L!Leaves(p, q, v)
         /\ \A N : told'[p][q] \in N => L!Told(p, q, N)
         /\ (Asked(p, q)' <=> Asked(p, q)) => UNCHANGED asking
         /\ (InMode(p, q, Disconnecting)' <=> InMode(p, q, Disconnecting)) => UNCHANGED closing
         /\ told'[p][q] = told[p][q] => UNCHANGED told
<1>1. ASSUME NEW x \in Peers, NEW y \in Peers, x # p \/ y # q
      PROVE  /\ Asked(x, y)' <=> Asked(x, y)
             /\ InMode(x, y, Disconnecting)' <=> InMode(x, y, Disconnecting)
             /\ told'[x][y] = told[x][y]
  <2>1. /\ Mode(x, y)' = Mode(x, y) /\ told'[x][y] = told[x][y]
        /\ requestedConnectionQueue'[x][y] = requestedConnectionQueue[x][y]
    BY <1>1 DEF OnlyPair, ModesStayBut, ToldStaysBut
  <2>2. Pending(x, y)' <=> Pending(x, y)
    BY <2>1 DEF Pending
  <2>3. /\ Asked(x, y)' <=> (Pending(x, y) \/ Mode(x, y) = "REQUESTED_CONNECTION")'
        /\ InMode(x, y, Disconnecting)' <=> (Mode(x, y) \in Disconnecting)'
    BY ModeTells DEF Asked, InMode, Mode, Disconnecting
  <2>4. /\ Asked(x, y) <=> Pending(x, y) \/ Mode(x, y) = "REQUESTED_CONNECTION"
        /\ InMode(x, y, Disconnecting) <=> Mode(x, y) \in Disconnecting
    BY ModeTells
  <2> QED
    BY <2>1, <2>2, <2>3, <2>4 DEF Disconnecting
<1>2. told \in [Peers -> [Peers -> L!Notices]] /\ told' \in [Peers -> [Peers -> L!Notices]]
  BY DEF TypesAndLists, RemoteTypeOK, L!Notices
<1>3. /\ \A x, y \in Peers : x # p \/ y # q => Asked(x, y)' = Asked(x, y)
      /\ \A v \in BOOLEAN : (Asked(p, q)' <=> v) => Asked(p, q)' = v
      /\ (Asked(p, q)' <=> Asked(p, q)) => Asked(p, q)' = Asked(p, q)
  BY <1>1 DEF Asked
<1>4. /\ \A x, y \in Peers : x # p \/ y # q =>
           InMode(x, y, Disconnecting)' = InMode(x, y, Disconnecting)
      /\ \A v \in BOOLEAN : (InMode(p, q, Disconnecting)' <=> v) => InMode(p, q, Disconnecting)' = v
      /\ (InMode(p, q, Disconnecting)' <=> InMode(p, q, Disconnecting))
           => InMode(p, q, Disconnecting)' = InMode(p, q, Disconnecting)
  BY <1>1 DEF InMode
<1>5. ASSUME NEW v \in BOOLEAN, Asked(p, q)' <=> v PROVE L!Asks(p, q, v)
  <2>1. asking' = [asking EXCEPT ![p][q] = v]
    BY <1>3, <1>5 DEF asking
  <2> QED
    BY <2>1 DEF L!Asks, asking
<1>6. ASSUME NEW v \in BOOLEAN, InMode(p, q, Disconnecting)' <=> v PROVE L!Leaves(p, q, v)
  <2>1. closing' = [closing EXCEPT ![p][q] = v]
    BY <1>4, <1>6 DEF closing
  <2> QED
    BY <2>1 DEF L!Leaves, closing
<1>7. ASSUME NEW N, told'[p][q] \in N PROVE L!Told(p, q, N)
  <2>1. told' = [told EXCEPT ![p][q] = told'[p][q]]
    BY <1>1, <1>2
  <2> QED
    BY <1>7, <2>1 DEF L!Told
<1>8. ASSUME Asked(p, q)' <=> Asked(p, q) PROVE UNCHANGED asking
  BY <1>3, <1>8 DEF asking
<1>9. ASSUME InMode(p, q, Disconnecting)' <=> InMode(p, q, Disconnecting)
      PROVE  UNCHANGED closing
  BY <1>4, <1>9 DEF closing
<1>10. told'[p][q] = told[p][q] => UNCHANGED told
  BY <1>1, <1>2
<1> QED
  BY <1>5, <1>6, <1>7, <1>8, <1>9, <1>10

\* What a step does to one pair, in the words of Lifecycle.
Maps(p, q) ==
  \/ L!Ask(p, q) \/ L!Accepted(p, q) \/ L!Incoming(p, q) \/ L!Refusal(p, q)
  \/ L!Leave(p, q) \/ L!Data(p, q) \/ L!LateData(p, q) \/ L!End(p, q)
  \/ UNCHANGED L!lifecycleVars

\* The facts about a pair from which each case follows.
LEMMA PairCases ==
  ASSUME TypesAndLists, TypesAndLists', NEW p \in Peers, NEW q \in Peers, OnlyPair(p, q)
  PROVE  /\ told'[p][q] = told[p][q] /\ ~Asked(p, q)' => L!Leave(p, q)
         /\ told'[p][q] = told[p][q] /\ (Asked(p, q)' <=> Asked(p, q))
              /\ (InMode(p, q, Disconnecting)' <=> InMode(p, q, Disconnecting))
              => UNCHANGED L!lifecycleVars
         /\ told'[p][q] \in L!Refused /\ told[p][q] \notin L!Open /\ Asked(p, q) /\ ~Asked(p, q)'
              => L!Refusal(p, q)
         /\ told'[p][q] \in L!Ended \ {"LATE_DATA"} /\ ~Asked(p, q)'
              /\ ~InMode(p, q, Disconnecting)' => L!End(p, q)
<1>1. InMode(p, q, Disconnecting)' \in BOOLEAN
  BY DEF InMode
<1>2. L!Leaves(p, q, InMode(p, q, Disconnecting)')
  BY <1>1, PairOfMapping
<1>3. ~Asked(p, q)' => L!Asks(p, q, FALSE)
  BY PairOfMapping
<1>4. ~InMode(p, q, Disconnecting)' => L!Leaves(p, q, FALSE)
  BY PairOfMapping
<1>5. /\ told'[p][q] = told[p][q] => UNCHANGED told
      /\ told'[p][q] \in L!Refused => L!Told(p, q, L!Refused)
      /\ told'[p][q] \in L!Ended \ {"LATE_DATA"} => L!Told(p, q, L!Ended \ {"LATE_DATA"})
  BY PairOfMapping
<1>6. told'[p][q] = told[p][q] /\ ~Asked(p, q)' => L!Leave(p, q)
  BY <1>1, <1>2, <1>3, <1>5 DEF L!Leave
<1>7. ASSUME told'[p][q] = told[p][q], Asked(p, q)' <=> Asked(p, q),
             InMode(p, q, Disconnecting)' <=> InMode(p, q, Disconnecting)
      PROVE  UNCHANGED L!lifecycleVars
  <2>1. UNCHANGED <<told, asking, closing>>
    BY <1>7, PairOfMapping
  <2> QED
    BY <2>1 DEF L!lifecycleVars, asking, closing
<1>8. ASSUME told'[p][q] \in L!Refused, told[p][q] \notin L!Open, Asked(p, q), ~Asked(p, q)'
      PROVE  L!Refusal(p, q)
  BY <1>1, <1>2, <1>3, <1>5, <1>8 DEF L!Refusal
<1>9. ASSUME told'[p][q] \in L!Ended \ {"LATE_DATA"}, ~Asked(p, q)',
             ~InMode(p, q, Disconnecting)'
      PROVE  L!End(p, q)
  BY <1>3, <1>4, <1>5, <1>9 DEF L!End
<1> QED
  BY <1>6, <1>7, <1>8, <1>9

LEMMA ModeTellsNext ==
  ASSUME TypesAndLists', NEW p \in Peers, NEW q \in Peers
  PROVE  /\ Asked(p, q)' <=> Pending(p, q)' \/ Mode(p, q)' = "REQUESTED_CONNECTION"
         /\ InMode(p, q, Disconnecting)' <=> Mode(p, q)' \in Disconnecting
  BY DEF Asked, InMode, Mode, Disconnecting

\* A message that is handled.
LEMMA MessageMaps ==
  ASSUME OneWay, OpenInv, TypesAndLists', EntriesFit, NEW p \in Peers, NEW q \in Peers,
         Known(p, q), NEW m \in Messages, MessageFits(q, p, m), IsNext(System(p, q).layer, m),
         NEW e, e.connectMode = Mode(p, q), Handle(p, q, e, m.kind),
         Mode(p, q)' = ModeOf(Mode(p, q), m.kind), UNCHANGED requestedConnectionQueue,
         OnlyPair(p, q)
  PROVE  Maps(p, q)
<1> DEFINE mode == Mode(p, q)
           kind == m.kind
           notice == IF kind = "DATA" /\ told[p][q] \notin L!Open THEN "LATE_DATA" ELSE kind
<1>1. TypesAndLists /\ PairAgrees(p, q) /\ mode \in ConnectModes
        /\ EntryFits(p, q, System(p, q)) /\ mode = System(p, q).connectMode
  BY KnownTyped, ModeTyped DEF OpenInv, EntriesFit
<1>2. ~Pending(p, q) /\ ~Pending(p, q)'
  BY <1>1, NoneIsNoMode DEF PairAgrees, Pending
<1>3. /\ Asked(p, q) <=> mode = "REQUESTED_CONNECTION"
      /\ InMode(p, q, Disconnecting) <=> mode \in Disconnecting
      /\ Asked(p, q)' <=> ModeOf(mode, kind) = "REQUESTED_CONNECTION"
      /\ InMode(p, q, Disconnecting)' <=> ModeOf(mode, kind) \in Disconnecting
  BY <1>1, <1>2, ModeTells, ModeTellsNext
<1>4. \/ ForUser(mode, kind) /\ ~Nonsense(mode, kind) /\ Tell(p, q, notice)
      \/ ~(ForUser(mode, kind) /\ ~Nonsense(mode, kind)) /\ UNCHANGED told
  BY DEF Handle
<1>5. /\ told[p][q] \in L!Open => mode \in HeldModes
      /\ mode = "CONNECTED" => told[p][q] \in L!Open
      /\ kind = "DATA" => mode \notin HalfOpen
      /\ mode = "REQUESTED_CONNECTION" => q \in Targets[p]
      /\ mode = "HANDLING_CONNECTION_REQUEST" => p \in Targets[q]
      /\ mode # "NO_ACTION"
      /\ kind = "CONNECTION_REQUEST_ACCEPTED" => q \in Targets[p]
  BY <1>1, NoDataYet DEF PairAgrees, EntryFits, SideFits, MessageFits
<1>6. TypesAndLists'
  OBVIOUS
<1> HIDE DEF mode, kind
<1>7. CASE ForUser(mode, kind) /\ ~Nonsense(mode, kind) /\ Tell(p, q, notice)
  <2>1. told'[p][q] = notice
    BY <1>1, <1>7, TellStays
  <2>2. CASE kind = "DATA"
    <3>1. ModeOf(mode, kind) = mode
      BY <1>7, <2>2 DEF ModeOf, ModeAfter, Accepts, Completes, Denies
    <3>2. UNCHANGED <<asking, closing>>
      BY <1>1, <1>3, <3>1, PairOfMapping
    <3>3. CASE told[p][q] \in L!Open
      <4>1. L!Told(p, q, {"DATA"})
        BY <1>1, <2>1, <2>2, <3>3, PairOfMapping
      <4> QED
        BY <3>2, <3>3, <4>1 DEF Maps, L!Data, asking, closing
    <3>4. CASE told[p][q] \notin L!Open
      <4>1. L!Told(p, q, {"LATE_DATA"})
        BY <1>1, <2>1, <2>2, <3>4, PairOfMapping
      <4>2. InMode(p, q, Disconnecting)
        BY <1>1, <1>3, <1>5, <2>2, <3>4 DEF mode, ConnectModes, HalfOpen
      <4> QED
        BY <3>2, <3>4, <4>1, <4>2 DEF Maps, L!LateData, asking, closing
    <3> QED
      BY <3>3, <3>4
  <2>3. CASE Accepts(mode, kind)
    <3>1. kind = "CONNECTION_REQUEST_ACCEPTED" /\ mode = "REQUESTED_CONNECTION"
      BY <1>5, <2>3 DEF Accepts, OneWay
    <3>2. ModeOf(mode, kind) = "CONNECTED"
      BY <1>7, <2>3, <3>1 DEF ModeOf, ModeAfter, Parses, Accepts, Completes, Denies
    <3>3. Asked(p, q) /\ ~Asked(p, q)' /\ told[p][q] \notin L!Open
      BY <1>3, <1>5, <3>1, <3>2 DEF HeldModes
    <3>4. UNCHANGED closing /\ L!Asks(p, q, FALSE)
      BY <1>1, <1>3, <3>1, <3>2, <3>3, PairOfMapping DEF Disconnecting
    <3>5. L!Told(p, q, {"CONNECTION_REQUEST_ACCEPTED"})
      BY <1>1, <2>1, <3>1, PairOfMapping
    <3> QED
      BY <3>3, <3>4, <3>5 DEF Maps, L!Accepted, closing
  <2>4. CASE Completes(mode, kind)
    <3>1. kind = "NEW_INCOMING_CONNECTION" /\ mode = "HANDLING_CONNECTION_REQUEST"
      BY <2>4 DEF Completes
    <3>2. ModeOf(mode, kind) = "CONNECTED"
      BY <1>7, <2>4, <3>1 DEF ModeOf, ModeAfter, Parses, Accepts, Completes, Denies
    <3>3. told[p][q] \notin L!Open
      BY <1>5, <3>1 DEF HeldModes
    <3>4. UNCHANGED <<asking, closing>>
      BY <1>1, <1>3, <3>1, <3>2, PairOfMapping DEF Disconnecting
    <3>5. L!Told(p, q, {"NEW_INCOMING_CONNECTION"})
      BY <1>1, <2>1, <3>1, PairOfMapping
    <3> QED
      BY <3>3, <3>4, <3>5 DEF Maps, L!Incoming, asking, closing
  <2>5. CASE Denies(mode, kind)
    <3>1. kind = "INVALID_PASSWORD" /\ mode = "REQUESTED_CONNECTION"
      BY <2>5 DEF Denies
    <3>2. ModeOf(mode, kind) = "DISCONNECT_ASAP_SILENTLY"
      BY <1>7, <2>5, <3>1 DEF ModeOf, ModeAfter, Parses, Accepts, Completes, Denies
    <3>3. Asked(p, q) /\ ~Asked(p, q)' /\ told[p][q] \notin L!Open
      BY <1>3, <1>5, <3>1, <3>2 DEF HeldModes
    <3>4. told'[p][q] \in L!Refused
      BY <2>1, <3>1 DEF L!Refused
    <3> QED
      BY <1>1, <3>3, <3>4, PairCases DEF Maps
  <2> QED
    BY <1>7, <2>2, <2>3, <2>4, <2>5 DEF ForUser
<1>8. CASE ~(ForUser(mode, kind) /\ ~Nonsense(mode, kind)) /\ UNCHANGED told
  <2>1. CASE ModeOf(mode, kind) = "REQUESTED_CONNECTION"
    <3>1. mode = "REQUESTED_CONNECTION"
      BY <2>1 DEF ModeOf, ModeAfter
    <3> QED
      BY <1>1, <1>3, <1>8, <2>1, <3>1, PairCases DEF Maps
  <2>2. CASE ModeOf(mode, kind) # "REQUESTED_CONNECTION"
    BY <1>1, <1>3, <1>8, <2>2, PairCases DEF Maps
  <2> QED
    BY <2>1, <2>2
<1> QED
  BY <1>4, <1>7, <1>8

LEMMA DatagramMaps ==
  ASSUME OneWay, OpenInv, OpenInv', NEW p \in Peers, NEW d \in datagrams, ReceiveDatagram(p, d)
  PROVE  Maps(p, d.from)
<1> DEFINE q == d.from
<1>0. TypesAndLists /\ TypesAndLists' /\ q \in Peers /\ d.to = p
  BY DatagramTyped DEF OpenInv, ReceiveDatagram, Arrives, OnOpenConnectionRequest1,
     OnOpenConnectionReply1, OnOpenConnectionRequest2, OnOpenConnectionReply2, OnRefusal
<1>1. PairAgrees(p, q) /\ PairAgrees(p, q)'
  BY <1>0 DEF OpenInv
<1>2. /\ Pending(p, q) => Mode(p, q) = "none" /\ q \in Targets[p] /\ told[p][q] \notin L!Open
      /\ Pending(p, q)' => Mode(p, q)' = "none"
  BY <1>1 DEF PairAgrees, HeldModes, L!Open
<1>3. /\ Asked(p, q) <=> Pending(p, q) \/ Mode(p, q) = "REQUESTED_CONNECTION"
      /\ InMode(p, q, Disconnecting) <=> Mode(p, q) \in Disconnecting
      /\ Asked(p, q)' <=> Pending(p, q)' \/ Mode(p, q)' = "REQUESTED_CONNECTION"
      /\ InMode(p, q, Disconnecting)' <=> Mode(p, q)' \in Disconnecting
  BY <1>0, ModeTells, ModeTellsNext
<1> HIDE DEF q
<1>4. ASSUME OnOpenConnectionRequest1(p, d) \/ OnOpenConnectionReply1(p, d) PROVE Maps(p, q)
  <2>1. UNCHANGED <<systems, told, requestedConnectionQueue>>
    BY <1>4 DEF OnOpenConnectionRequest1, OnOpenConnectionReply1
  <2>2. \A x, y \in Peers : Mode(x, y)' = Mode(x, y)
    BY <1>0, <2>1, NothingChanges
  <2>3. OnlyPair(p, q) /\ told'[p][q] = told[p][q] /\ (Pending(p, q)' <=> Pending(p, q))
    BY <2>1, <2>2 DEF OnlyPair, ModesStayBut, ToldStaysBut, Pending
  <2> QED
    BY <1>0, <1>3, <2>2, <2>3, PairCases DEF Maps
<1>5. ASSUME OnOpenConnectionRequest2(p, d) PROVE Maps(p, q)
  <2>1. ModesStayBut(p, q)
          /\ \/ Mode(p, q)' = Mode(p, q)
             \/ Mode(p, q) = "none" /\ Mode(p, q)' \in {"none", "UNVERIFIED_SENDER"}
    BY <1>0, <1>5, OnOpenConnectionRequest2Lists DEF q
  <2>2. UNCHANGED <<told, requestedConnectionQueue>>
    BY <1>5 DEF OnOpenConnectionRequest2
  <2>3. OnlyPair(p, q) /\ told'[p][q] = told[p][q] /\ (Pending(p, q)' <=> Pending(p, q))
    BY <2>1, <2>2 DEF OnlyPair, ToldStaysBut, Pending
  <2>4. /\ Asked(p, q)' <=> Asked(p, q)
        /\ InMode(p, q, Disconnecting)' <=> InMode(p, q, Disconnecting)
    BY <1>3, <2>1, <2>3 DEF Disconnecting
  <2> QED
    BY <1>0, <2>3, <2>4, PairCases DEF Maps
<1>6. ASSUME OnOpenConnectionReply2(p, d) PROVE Maps(p, q)
  <2>1. Pending(p, q) /\ Dequeue(p, q)
    BY <1>6 DEF OnOpenConnectionReply2, q
  <2>2. ModesStayBut(p, q)
          /\ \/ Mode(p, q)' = "REQUESTED_CONNECTION" /\ UNCHANGED told
             \/ Mode(p, q)' = "none" /\ Tell(p, q, "CONNECTION_ATTEMPT_FAILED")
    BY <1>0, <1>6, OnOpenConnectionReply2Lists DEF q
  <2>3. ~Pending(p, q)' /\ (UNCHANGED told => ToldStaysBut(p, q))
    BY <1>0, <2>1, DequeueStays
  <2>4. CASE Mode(p, q)' = "REQUESTED_CONNECTION" /\ UNCHANGED told
    <3>1. OnlyPair(p, q)
      BY <2>2, <2>3, <2>4 DEF OnlyPair
    <3>2. /\ Asked(p, q)' <=> Asked(p, q)
          /\ InMode(p, q, Disconnecting)' <=> InMode(p, q, Disconnecting)
      BY <1>2, <1>3, <2>1, <2>4 DEF Disconnecting
    <3> QED
      BY <1>0, <2>4, <3>1, <3>2, PairCases DEF Maps
  <2>5. CASE Mode(p, q)' = "none" /\ Tell(p, q, "CONNECTION_ATTEMPT_FAILED")
    <3>1. ToldStaysBut(p, q) /\ told'[p][q] = "CONNECTION_ATTEMPT_FAILED"
      BY <1>0, <2>1, <2>5, TellStays
    <3>2. OnlyPair(p, q) /\ told'[p][q] \in L!Refused
      BY <2>2, <3>1 DEF OnlyPair, L!Refused
    <3>3. Asked(p, q) /\ ~Asked(p, q)' /\ told[p][q] \notin L!Open
      BY <1>2, <1>3, <2>1, <2>3, <2>5
    <3> QED
      BY <1>0, <3>2, <3>3, PairCases DEF Maps
  <2> QED
    BY <2>2, <2>4, <2>5
<1>7. ASSUME OnRefusal(p, d) PROVE Maps(p, q)
  <2>1. /\ Pending(p, q) /\ Dequeue(p, q) /\ Tell(p, q, d.kind) /\ UNCHANGED systems
        /\ d.kind \in Refusals
    BY <1>7 DEF OnRefusal, Arrives, q
  <2>2. ModesStayBut(p, q) /\ Mode(p, q)' = Mode(p, q)
    BY <1>0, <2>1, NothingChanges DEF ModesStayBut
  <2>3. ToldStaysBut(p, q) /\ told'[p][q] = d.kind /\ ~Pending(p, q)'
    BY <1>0, <2>1, TellStays, DequeueStays
  <2>4. OnlyPair(p, q) /\ told'[p][q] \in L!Refused
    BY <2>1, <2>2, <2>3 DEF OnlyPair, Refusals, L!Refused
  <2>5. Asked(p, q) /\ ~Asked(p, q)' /\ told[p][q] \notin L!Open
    BY <1>2, <1>3, <2>1, <2>2, <2>3
  <2> QED
    BY <1>0, <2>4, <2>5, PairCases DEF Maps
<1> QED
  BY <1>4, <1>5, <1>6, <1>7 DEF ReceiveDatagram, q

\* A request has a password, which no request at all has not.
LEMMA RequestIsPending ==
  ASSUME NEW request \in Requests PROVE request # NoRequest
<1>1. DOMAIN request = {"requestsMade", "right"} /\ DOMAIN NoRequest = {"requestsMade"}
  BY DEF Requests, NoRequest
<1>2. "right" # "requestsMade"
  OBVIOUS
<1> QED
  BY <1>1, <1>2

LEMMA PairStepMaps ==
  ASSUME OneWay, OpenInv, OpenInv', EntriesFit, NEW p \in Peers, NEW q \in Peers \ {p},
         PairStep(p, q)
  PROVE  Maps(p, q)
<1>0. TypesAndLists /\ TypesAndLists' /\ PairAgrees(p, q) /\ PairAgrees(p, q)'
  BY DEF OpenInv
<1>2. /\ Pending(p, q) => Mode(p, q) = "none" /\ told[p][q] \notin L!Open
      /\ Pending(p, q)' => Mode(p, q)' = "none"
  BY <1>0 DEF PairAgrees, HeldModes, L!Open
<1>3. /\ Asked(p, q) <=> Pending(p, q) \/ Mode(p, q) = "REQUESTED_CONNECTION"
      /\ InMode(p, q, Disconnecting) <=> Mode(p, q) \in Disconnecting
      /\ Asked(p, q)' <=> Pending(p, q)' \/ Mode(p, q)' = "REQUESTED_CONNECTION"
      /\ InMode(p, q, Disconnecting)' <=> Mode(p, q)' \in Disconnecting
  BY <1>0, ModeTells, ModeTellsNext
<1>4. ASSUME UNCHANGED <<told, requestedConnectionQueue>>, ModesStayBut(p, q),
             Mode(p, q)' = Mode(p, q)
      PROVE  Maps(p, q)
  <2>1. OnlyPair(p, q) /\ told'[p][q] = told[p][q] /\ (Pending(p, q)' <=> Pending(p, q))
    BY <1>4 DEF OnlyPair, ToldStaysBut, Pending
  <2> QED
    BY <1>0, <1>3, <1>4, <2>1, PairCases DEF Maps
<1>5. UNCHANGED systems => ModesStayBut(p, q) /\ Mode(p, q)' = Mode(p, q)
  BY <1>0, NothingChanges DEF ModesStayBut
<1>6. ASSUME Connect(p, q) PROVE Maps(p, q)
  <2>1. UNCHANGED <<systems, told>> /\ ~Pending(p, q)
    BY <1>6 DEF Connect
  <2>2. PICK right \in RightPasswords :
          requestedConnectionQueue' =
            [requestedConnectionQueue EXCEPT ![p][q] = [requestsMade |-> 0, right |-> right]]
    BY <1>6 DEF Connect
  <2>3. [requestsMade |-> 0, right |-> right] \in Requests
    BY PasswordsAssumption DEF Requests
  <2>4. Pending(p, q)'
    BY <1>0, <2>2, <2>3, RequestIsPending DEF Pending, TypesAndLists, RemoteTypeOK
  <2>5. OnlyPair(p, q)
    BY <1>0, <1>5, <2>1, <2>2 DEF OnlyPair, ToldStaysBut, TypesAndLists, RemoteTypeOK
  <2>6. Mode(p, q) = "none" /\ told[p][q] \notin L!Open
    BY <1>0, <1>2, <1>5, <2>1, <2>4 DEF PairAgrees, HeldModes, L!Open
  <2>7. ~Asked(p, q) /\ Asked(p, q)'
    BY <1>3, <2>1, <2>4, <2>6
  <2>8. L!Asks(p, q, TRUE) /\ UNCHANGED closing
    BY <1>0, <1>3, <1>5, <2>1, <2>5, <2>7, PairOfMapping
  <2> QED
    BY <2>1, <2>6, <2>7, <2>8 DEF Maps, L!Ask, closing
<1>7. ASSUME CloseConnection(p, q) \/ AnswerBanned(p, q) \/ BanExpires(p, q) PROVE Maps(p, q)
  BY <1>4, <1>5, <1>7 DEF CloseConnection, AnswerBanned, BanExpires
<1>8. ASSUME Send(p, q) PROVE Maps(p, q)
  <2>1. ModesStayBut(p, q) /\ Mode(p, q)' = Mode(p, q)
    BY <1>0, <1>8, SendLists
  <2> QED
    BY <1>4, <1>8, <2>1 DEF Send
<1>9. ASSUME RunCommand(p, q) PROVE Maps(p, q)
  <2>1. ModesStayBut(p, q) /\ Mode(p, q)' = IF Known(p, q) THEN "DISCONNECT_ASAP" ELSE "none"
    BY <1>0, <1>9, RunCommandLists
  <2>2. UNCHANGED <<told, requestedConnectionQueue>>
    BY <1>9 DEF RunCommand
  <2>3. CASE Known(p, q)
    <3>1. OnlyPair(p, q) /\ told'[p][q] = told[p][q]
      BY <2>1, <2>2 DEF OnlyPair, ToldStaysBut
    <3>2. ~Asked(p, q)'
      BY <1>2, <1>3, <2>1, <2>3
    <3> QED
      BY <1>0, <3>1, <3>2, PairCases DEF Maps
  <2>4. CASE ~Known(p, q)
    BY <1>4, <2>1, <2>2, <2>4 DEF Mode
  <2> QED
    BY <2>3, <2>4
<1>10. ASSUME Attempt(p, q) PROVE Maps(p, q)
  <2>1. UNCHANGED systems /\ Pending(p, q)
    BY <1>10 DEF Attempt
  <2>2. ModesStayBut(p, q) /\ Mode(p, q)' = Mode(p, q)
    BY <1>5, <2>1
  <2>3. CASE requestedConnectionQueue[p][q].requestsMade = sendConnectionAttemptCount + 1
    <3>1. Dequeue(p, q) /\ Tell(p, q, "CONNECTION_ATTEMPT_FAILED")
      BY <1>10, <2>3 DEF Attempt
    <3>2. ToldStaysBut(p, q) /\ told'[p][q] = "CONNECTION_ATTEMPT_FAILED" /\ ~Pending(p, q)'
      BY <1>0, <3>1, TellStays, DequeueStays
    <3>3. OnlyPair(p, q) /\ told'[p][q] \in L!Refused
      BY <2>2, <3>2 DEF OnlyPair, L!Refused
    <3>4. Asked(p, q) /\ ~Asked(p, q)' /\ told[p][q] \notin L!Open
      BY <1>2, <1>3, <2>1, <2>2, <3>2
    <3> QED
      BY <1>0, <3>3, <3>4, PairCases DEF Maps
  <2>4. CASE requestedConnectionQueue[p][q].requestsMade # sendConnectionAttemptCount + 1
    <3>1. requestedConnectionQueue[p][q] \in Requests
      BY <1>0, <2>1 DEF Pending, TypesAndLists, RemoteTypeOK
    <3>2. [requestedConnectionQueue[p][q] EXCEPT !.requestsMade = @ + 1] \in Requests
      BY <3>1 DEF Requests
    <3>3. UNCHANGED told /\ requestedConnectionQueue' = [requestedConnectionQueue EXCEPT
            ![p][q] = [requestedConnectionQueue[p][q] EXCEPT !.requestsMade = @ + 1]]
      BY <1>10, <2>4 DEF Attempt
    <3>4. Pending(p, q)'
      BY <1>0, <3>2, <3>3, RequestIsPending DEF Pending, TypesAndLists, RemoteTypeOK
    <3>5. OnlyPair(p, q) /\ told'[p][q] = told[p][q]
      BY <1>0, <2>2, <3>3 DEF OnlyPair, ToldStaysBut, TypesAndLists, RemoteTypeOK
    <3> QED
      BY <1>0, <1>3, <2>1, <2>2, <3>4, <3>5, PairCases DEF Maps
  <2> QED
    BY <2>3, <2>4
<1>11. ASSUME ReceiveMessage(p, q) PROVE Maps(p, q)
  <2>1. ASSUME Known(q, p), NEW m \in System(q, p).layer.outgoing, NEW acked \in BOOLEAN,
               Deliver(p, q, m, acked)
        PROVE  Maps(p, q)
    <3>1. /\ ModesStayBut(p, q) /\ Known(p, q) /\ m \in Messages
          /\ Mode(p, q)' = IF Passed(p, q, m) THEN ModeOf(Mode(p, q), m.kind) ELSE Mode(p, q)
      BY <1>0, <2>1, DeliverLists
    <3>2. UNCHANGED requestedConnectionQueue
      BY <2>1 DEF Deliver
    <3>3. CASE Passed(p, q, m)
      <4>1. Handle(p, q, TakenIn(System(p, q), m), m.kind) /\ IsNext(System(p, q).layer, m)
        BY <2>1, <3>3 DEF Deliver, Passed
      <4>2. TakenIn(System(p, q), m).connectMode = Mode(p, q)
        BY <1>0, <3>1, KnownTyped, TakenInTyped
      <4>3. MessageFits(q, p, m)
        BY <2>1 DEF EntriesFit, EntryFits, SideFits
      <4>4. m.kind \in Kinds
        BY <3>1 DEF Messages, Kinds
      <4>5. OnlyPair(p, q)
        BY <3>1, <3>2, <3>3, <4>1, <4>2, <4>4, MessageKeepsPair DEF OnlyPair
      <4> QED
        BY <1>0, <3>1, <3>2, <3>3, <4>1, <4>2, <4>3, <4>5, MessageMaps
    <3>4. CASE ~Passed(p, q, m)
      <4>1. UNCHANGED told
        BY <2>1, <3>4 DEF Deliver, Passed
      <4> QED
        BY <1>4, <3>1, <3>2, <3>4, <4>1
    <3> QED
      BY <3>3, <3>4
  <2>2. ASSUME Known(p, q), NEW m \in System(p, q).layer.held, DeliverHeld(p, q, m)
        PROVE  Maps(p, q)
    <3> DEFINE taken == Released(System(p, q), m)
    <3>1. /\ ModesStayBut(p, q) /\ m \in Messages
          /\ Mode(p, q)' = ModeOf(Mode(p, q), m.kind)
      BY <1>0, <2>2, DeliverHeldLists
    <3>2. /\ UNCHANGED requestedConnectionQueue /\ Handle(p, q, taken, m.kind)
          /\ IsNext(System(p, q).layer, m)
      BY <2>2 DEF DeliverHeld, Released
    <3>3. System(p, q) \in Entries /\ EntryFits(p, q, System(p, q))
            /\ Mode(p, q) = System(p, q).connectMode
      BY <1>0, <2>2, KnownTyped DEF EntriesFit
    <3>4. taken.connectMode = Mode(p, q) /\ MessageFits(q, p, m)
      BY <2>2, <3>3, ReleasedFits DEF TakenFrom
    <3>5. m.kind \in Kinds
      BY <3>1 DEF Messages, Kinds
    <3> HIDE DEF taken
    <3>6. OnlyPair(p, q)
      BY <2>2, <3>1, <3>2, <3>4, <3>5, MessageKeepsPair DEF OnlyPair
    <3> QED
      BY <1>0, <2>2, <3>1, <3>2, <3>4, <3>6, MessageMaps
  <2> QED
    BY <1>11, <2>1, <2>2 DEF ReceiveMessage
<1>12. ASSUME Failure(p, q) PROVE Maps(p, q)
  <2>1. Known(p, q) /\ Fail(p, q)
    BY <1>12 DEF Failure, DeadConnection, Disconnected, ConnectionTimeout, InMode
  <2>2. ModesStayBut(p, q) /\ Mode(p, q)' = "none"
    BY <1>0, <2>1, FailLists
  <2>3. Mode(p, q) = System(p, q).connectMode /\ Mode(p, q) \in ConnectModes
    BY <1>0, <2>1, KnownTyped, ModeTyped
  <2>4. ~Pending(p, q) /\ ~Pending(p, q)' /\ UNCHANGED requestedConnectionQueue
    BY <1>2, <2>1, <2>3, NoneIsNoMode DEF Fail, Pending
  <2>5. ~Asked(p, q)' /\ ~InMode(p, q, Disconnecting)'
    BY <1>3, <2>2, <2>4 DEF Disconnecting
  <2> DEFINE notice == FailureNotice(Mode(p, q))
  <2>6. CASE notice = "none"
    <3>1. OnlyPair(p, q) /\ told'[p][q] = told[p][q]
      BY <2>1, <2>2, <2>3, <2>4, <2>6 DEF Fail, OnlyPair, ToldStaysBut
    <3> QED
      BY <1>0, <2>5, <3>1, PairCases DEF Maps
  <2>7. CASE notice # "none"
    <3>1. Tell(p, q, notice)
      BY <2>1, <2>3, <2>7 DEF Fail
    <3>2. OnlyPair(p, q) /\ told'[p][q] = notice
      BY <1>0, <2>2, <2>4, <3>1, TellStays DEF OnlyPair
    <3>3. CASE Mode(p, q) = "REQUESTED_CONNECTION"
      <4>1. notice \in L!Refused /\ Asked(p, q) /\ told[p][q] \notin L!Open
        BY <1>0, <1>3, <3>3 DEF FailureNotice, L!Refused, PairAgrees, HeldModes
      <4> QED
        BY <1>0, <2>5, <3>2, <4>1, PairCases DEF Maps
    <3>4. CASE Mode(p, q) # "REQUESTED_CONNECTION"
      <4>1. notice \in L!Ended \ {"LATE_DATA"}
        BY <2>7, <3>4 DEF FailureNotice, L!Ended
      <4> QED
        BY <1>0, <2>5, <3>2, <4>1, PairCases DEF Maps
    <3> QED
      BY <3>3, <3>4
  <2> QED
    BY <2>6, <2>7
<1> QED
  BY <1>6, <1>7, <1>8, <1>9, <1>10, <1>11, <1>12 DEF PairStep, UserStep

LEMMA RestartMaps ==
  ASSUME OpenInv, OpenInv', NEW p \in Peers, Restart(p) PROVE L!Crash(p)
<1>0. TypesAndLists /\ TypesAndLists'
  BY DEF OpenInv
<1>1. \A x, y \in Peers : Mode(x, y)' = IF x = p THEN "none" ELSE Mode(x, y)
  BY <1>0, RestartLists
<1>2. \A x, y \in Peers : Pending(x, y)' <=> x # p /\ Pending(x, y)
  BY <1>0 DEF Restart, Pending, TypesAndLists, RemoteTypeOK
<1>3. ASSUME NEW x \in Peers, NEW y \in Peers
      PROVE  /\ Asked(x, y)' = (x # p /\ Asked(x, y))
             /\ InMode(x, y, Disconnecting)' = (x # p /\ InMode(x, y, Disconnecting))
  <2>1. /\ Asked(x, y) <=> Pending(x, y) \/ Mode(x, y) = "REQUESTED_CONNECTION"
        /\ InMode(x, y, Disconnecting) <=> Mode(x, y) \in Disconnecting
        /\ Asked(x, y)' <=> Pending(x, y)' \/ Mode(x, y)' = "REQUESTED_CONNECTION"
        /\ InMode(x, y, Disconnecting)' <=> Mode(x, y)' \in Disconnecting
    BY <1>0, ModeTells, ModeTellsNext
  <2>2. /\ Asked(x, y)' <=> x # p /\ Asked(x, y)
        /\ InMode(x, y, Disconnecting)' <=> x # p /\ InMode(x, y, Disconnecting)
    BY <1>1, <1>2, <2>1 DEF Disconnecting
  <2> QED
    BY <2>2 DEF Asked, InMode
<1>4. asking' = [asking EXCEPT ![p] = [q \in Peers |-> FALSE]]
  <2>1. /\ \A y \in Peers : Asked(p, y)' = FALSE
        /\ \A x \in Peers \ {p}, y \in Peers : Asked(x, y)' = Asked(x, y)
    BY <1>3 DEF Asked
  <2> QED
    BY <2>1 DEF asking
<1>5. closing' = [closing EXCEPT ![p] = [q \in Peers |-> FALSE]]
  <2>1. /\ \A y \in Peers : InMode(p, y, Disconnecting)' = FALSE
        /\ \A x \in Peers \ {p}, y \in Peers :
             InMode(x, y, Disconnecting)' = InMode(x, y, Disconnecting)
    BY <1>3 DEF InMode
  <2> QED
    BY <2>1 DEF closing
<1> QED
  BY <1>4, <1>5 DEF Restart, L!Crash, asking, closing

LEMMA NextMaps ==
  ASSUME OneWay, OpenInv, OpenInv', EntriesFit, RemoteNext
  PROVE  L!LifecycleNext \/ UNCHANGED L!lifecycleVars
<1> PICK p \in Peers :
      \/ Restart(p)
      \/ \E d \in datagrams : ReceiveDatagram(p, d)
      \/ \E q \in Peers \ {p} : PairStep(p, q)
  BY DEF RemoteNext, PairStep
<1>1. ASSUME NEW q \in Peers, Maps(p, q) PROVE L!LifecycleNext \/ UNCHANGED L!lifecycleVars
  BY <1>1 DEF Maps, L!LifecycleNext
<1>2. CASE Restart(p)
  BY <1>2, RestartMaps DEF L!LifecycleNext
<1>3. ASSUME NEW d \in datagrams, ReceiveDatagram(p, d)
      PROVE  L!LifecycleNext \/ UNCHANGED L!lifecycleVars
  <2>1. d.from \in Peers
    BY DatagramTyped DEF OpenInv
  <2> QED
    BY <1>1, <1>3, <2>1, DatagramMaps
<1>4. ASSUME NEW q \in Peers \ {p}, PairStep(p, q)
      PROVE  L!LifecycleNext \/ UNCHANGED L!lifecycleVars
  BY <1>1, <1>4, PairStepMaps
<1> QED
  BY <1>2, <1>3, <1>4

LEMMA InitMaps == RemoteInit => L!LifecycleInit /\ EntriesFit
<1> SUFFICES ASSUME RemoteInit PROVE L!LifecycleInit /\ EntriesFit
  OBVIOUS
<1>1. ASSUME NEW p \in Peers, NEW q \in Peers
      PROVE  ~Known(p, q) /\ ~Asked(p, q) /\ ~InMode(p, q, Disconnecting)
  BY NoSystemsInactive DEF RemoteInit, Known, Asked, Pending, InMode
<1>2. asking = [p \in Peers |-> [q \in Peers |-> FALSE]]
  <2>1. \A p, q \in Peers : Asked(p, q) = FALSE
    BY <1>1
  <2> QED
    BY <2>1 DEF asking
<1>3. closing = [p \in Peers |-> [q \in Peers |-> FALSE]]
  <2>1. \A p, q \in Peers : InMode(p, q, Disconnecting) = FALSE
    BY <1>1
  <2> QED
    BY <2>1 DEF closing
<1> QED
  BY <1>1, <1>2, <1>3 DEF RemoteInit, L!LifecycleInit, EntriesFit, asking, closing

\* RakPeer keeps its promise to the user: a connection begins once before it ends, data
\* comes only while it is open, while it is closed or after its end, and a call of Connect
\* is answered once, whatever datagrams are lost, repeated and late, and whoever restarts,
\* if no two peers connect to each other.
THEOREM RakPeerImplementsLifecycle == OneWay => (RemoteSpec => KeepsPromise)
<1> SUFFICES ASSUME OneWay PROVE RemoteSpec => KeepsPromise
  OBVIOUS
<1>1. OpenInv /\ [RemoteNext]_peerVars => OpenInv'
  BY OpenInvStays
<1>2. OpenInv /\ EntriesFit /\ [RemoteNext]_peerVars => EntriesFit'
  <2>1. UNCHANGED peerVars /\ EntriesFit => EntriesFit'
    BY DEF peerVars, EntriesFit, Known, System
  <2> QED
    BY <2>1, EntriesFitStay
<1>3. OpenInv /\ OpenInv' /\ EntriesFit /\ [RemoteNext]_peerVars
        => [L!LifecycleNext]_(L!lifecycleVars)
  <2>1. UNCHANGED peerVars => UNCHANGED L!lifecycleVars
    BY DEF peerVars, L!lifecycleVars, Asked, Pending, InMode, Known, System
  <2> QED
    BY <2>1, NextMaps
<1> QED
  BY <1>1, <1>2, <1>3, OpenInvInitial, InitMaps, PTL
     DEF RemoteSpec, KeepsPromise, L!LifecycleSpec
=============================================================================
