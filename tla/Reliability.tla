----------------------------- MODULE Reliability -----------------------------
(***************************************************************************)
(* One direction of RakNet's reliability layer: messages of one priority   *)
(* on one ordering channel, sent RELIABLE_ORDERED or RELIABLE_SEQUENCED.   *)
(* The sender numbers messages, keeps them in a ring of resend slots until *)
(* they are acknowledged and may resend them at any time (a timeout or a   *)
(* NAK); the network loses, duplicates and reorders datagrams; the         *)
(* receiver filters duplicates and puts messages back in order.            *)
(*                                                                         *)
(* A datagram is known by what it carries: of its number only the          *)
(* acknowledgement depends, and an acknowledgement of one removes the      *)
(* same messages as one of another with the same contents.                 *)
(***************************************************************************)
EXTENDS Integers, FiniteSets, SequencesExt

CONSTANTS
  Kinds,             \* reliabilities the user sends with
  Modulus,           \* message numbers and indices are of this width (2^24)
  ResendBufferLength, \* RESEND_BUFFER_ARRAY_LENGTH
  First,             \* number and index of the first message
  MaxMessages,       \* bound: messages sent
  MaxPerDatagram,    \* bound: messages in a datagram
  MaxInFlight,       \* bound: datagrams under way
  MaxAcks,           \* bound: acknowledgements under way
  Empty              \* a free resend slot

ASSUME KindsAssumption == Kinds \subseteq {"RELIABLE_ORDERED", "RELIABLE_SEQUENCED"}
ASSUME WidthAssumption ==
  /\ {Modulus, ResendBufferLength} \subseteq Nat \ {0}
  /\ Modulus % ResendBufferLength = 0
  /\ 4 * ResendBufferLength <= Modulus
  /\ First \in 0..Modulus - 1
ASSUME LimitAssumption ==
  {MaxMessages, MaxPerDatagram, MaxInFlight, MaxAcks} \subseteq Nat \ {0}
\* The network may keep a datagram for as long as the model runs.  No number may come again
\* within half the range while it does.
ASSUME LifetimeAssumption == 2 * MaxMessages <= Modulus

\* How much more an ordering index weighs in the heap than the one before it.
HoleWeight == 1048576

\* That is room for as many sequencing indices.
ASSUME WeightAssumption == MaxMessages < HoleWeight

VARIABLES
  sent,                       \* kinds of the messages sent, in order
  orderedWriteIndex, sequencedWriteIndex,
  outgoingPacketBuffer,       \* messages without a number
  sendReliableMessageNumberIndex,
  resendBuffer,               \* slot -> numbered message
  net,                        \* datagrams under way
  acks,                       \* datagrams whose acknowledgement is under way
  receiver,                   \* see ReceiverInit
  outputQueue                 \* places of the messages given to the user

senderVars == <<sent, orderedWriteIndex, sequencedWriteIndex, outgoingPacketBuffer,
                sendReliableMessageNumberIndex, resendBuffer>>
relVars == <<senderVars, net, acks, receiver, outputQueue>>

Indices == 0..Modulus - 1
Half == (Modulus - 1) \div 2
Wrapped(n) == n % Modulus
Slots == 0..ResendBufferLength - 1
Slot(number) == number % ResendBufferLength

Messages ==
  [place : 1..MaxMessages, kind : Kinds, orderingIndex : Indices, sequencingIndex : Indices]
Numbered == [number : Indices, message : Messages]

ASSUME EmptyAssumption == Empty \notin Numbered

\* hasReceivedPacketQueue holds TRUE for the numbers that are still missing.
ReceiverInit ==
  [receivedPacketsBaseIndex |-> First, hasReceivedPacketQueue |-> <<>>,
   orderedReadIndex |-> First, highestSequencedReadIndex |-> 0,
   orderingHeap |-> {}, heapIndexOffset |-> 0]

\* A connection over which a multiple of Modulus and First ordered messages have gone,
\* all acknowledged.
RelInit ==
  /\ sent = <<>>
  /\ orderedWriteIndex = First /\ sequencedWriteIndex = 0
  /\ outgoingPacketBuffer = <<>>
  /\ sendReliableMessageNumberIndex = First
  /\ resendBuffer = [s \in Slots |-> Empty]
  /\ net = {} /\ acks = {}
  /\ receiver = ReceiverInit
  /\ outputQueue = <<>>

(***************************************************************************)
(* The sender.                                                             *)
(***************************************************************************)
Message(kind) ==
  [place |-> Len(sent) + 1, kind |-> kind, orderingIndex |-> orderedWriteIndex,
   sequencingIndex |-> IF kind = "RELIABLE_SEQUENCED" THEN sequencedWriteIndex ELSE 0]

Send(kind) ==
  /\ Len(sent) < MaxMessages
  /\ sent' = Append(sent, kind)
  /\ outgoingPacketBuffer' = Append(outgoingPacketBuffer, Message(kind))
  /\ \/ /\ kind = "RELIABLE_SEQUENCED"
        /\ sequencedWriteIndex' = Wrapped(sequencedWriteIndex + 1)
        /\ UNCHANGED orderedWriteIndex
     \/ /\ kind = "RELIABLE_ORDERED"
        /\ orderedWriteIndex' = Wrapped(orderedWriteIndex + 1)
        /\ sequencedWriteIndex' = 0
  /\ UNCHANGED <<sendReliableMessageNumberIndex, resendBuffer, net, acks, receiver, outputQueue>>

\* Mutant: the slot is not looked at.
ResendBufferOverflowNever(number) == FALSE
ResendBufferOverflow(number) == resendBuffer[Slot(number)] # Empty

MayTransmit == Cardinality(net) < MaxInFlight

\* Update fills a datagram with messages that have not been sent yet.
SendNew(n) ==
  /\ n <= Len(outgoingPacketBuffer) /\ n <= ResendBufferLength
  /\ \A i \in 0..n - 1 : ~ResendBufferOverflow(sendReliableMessageNumberIndex + i)
  /\ MayTransmit
  /\ LET datagram ==
           [i \in 1..n |-> [number |-> Wrapped(sendReliableMessageNumberIndex + i - 1),
                            message |-> outgoingPacketBuffer[i]]]
     IN /\ resendBuffer' =
             [s \in Slots |-> IF \E i \in 1..n : Slot(datagram[i].number) = s
                              THEN datagram[CHOOSE i \in 1..n : Slot(datagram[i].number) = s]
                              ELSE resendBuffer[s]]
        /\ net' = net \cup {datagram}
  /\ sendReliableMessageNumberIndex' = Wrapped(sendReliableMessageNumberIndex + n)
  /\ outgoingPacketBuffer' = SubSeq(outgoingPacketBuffer, n + 1, Len(outgoingPacketBuffer))
  /\ UNCHANGED <<sent, orderedWriteIndex, sequencedWriteIndex, acks, receiver, outputQueue>>

Unacknowledged == {resendBuffer[s] : s \in Slots} \ {Empty}

\* Update fills a datagram with messages that are due once more.
ResendDatagram(datagram) ==
  /\ MayTransmit
  /\ net' = net \cup {datagram}
  /\ UNCHANGED <<senderVars, acks, receiver, outputQueue>>

Resend(n) ==
  \E datagram \in [1..n -> Unacknowledged] : IsInjective(datagram) /\ ResendDatagram(datagram)

\* Mutant: the slot is cleared without comparing the number in it.
ReceiveAckAnyNumber(datagram) ==
  /\ datagram \in acks
  /\ acks' = acks \ {datagram}
  /\ resendBuffer' =
       [s \in Slots |-> IF \E i \in DOMAIN datagram : Slot(datagram[i].number) = s THEN Empty
                        ELSE resendBuffer[s]]
  /\ UNCHANGED <<sent, orderedWriteIndex, sequencedWriteIndex, outgoingPacketBuffer,
                 sendReliableMessageNumberIndex, net, receiver, outputQueue>>

\* Each message of the datagram leaves its slot, if it is still the one there.
ReceiveAck(datagram) ==
  /\ datagram \in acks
  /\ acks' = acks \ {datagram}
  /\ resendBuffer' =
       [s \in Slots |-> IF resendBuffer[s] \in Range(datagram) THEN Empty ELSE resendBuffer[s]]
  /\ UNCHANGED <<sent, orderedWriteIndex, sequencedWriteIndex, outgoingPacketBuffer,
                 sendReliableMessageNumberIndex, net, receiver, outputQueue>>

(***************************************************************************)
(* The receiver: the filter of duplicates.                                 *)
(***************************************************************************)
HoleCount(r, number) == Wrapped(number - r.receivedPacketsBaseIndex)

IsNew(r, number) ==
  LET hole == HoleCount(r, number)
  IN /\ hole <= Half
     /\ hole \in 1..Len(r.hasReceivedPacketQueue) - 1 => r.hasReceivedPacketQueue[hole + 1]

\* The queue with the number at `hole` received.
Filled(queue, hole) ==
  IF hole < Len(queue) THEN [queue EXCEPT ![hole + 1] = FALSE]
  ELSE Append(queue \o [i \in 1..hole - Len(queue) |-> TRUE], FALSE)

\* Mutant: the index does not wrap.
AdvancedUnwrapped(r, queue) ==
  LET received == Cardinality({i \in DOMAIN queue : \A j \in 1..i : ~queue[j]})
  IN [r EXCEPT !.receivedPacketsBaseIndex = @ + received,
               !.hasReceivedPacketQueue = SubSeq(queue, received + 1, Len(queue))]

\* What has been received without a gap is no longer kept.
Advanced(r, queue) ==
  LET received == Cardinality({i \in DOMAIN queue : \A j \in 1..i : ~queue[j]})
  IN [r EXCEPT !.receivedPacketsBaseIndex = Wrapped(@ + received),
               !.hasReceivedPacketQueue = SubSeq(queue, received + 1, Len(queue))]

Received(r, number) == Advanced(r, Filled(r.hasReceivedPacketQueue, HoleCount(r, number)))

(***************************************************************************)
(* The receiver: the order.  A result is the receiver with the places of   *)
(* the messages it gives to the user.                                      *)
(***************************************************************************)
\* Mutant: without regard to the wrap.
IsOlderOrderedPacketPlain(new, waitingFor) == new < waitingFor
IsOlderOrderedPacket(new, waitingFor) ==
  IF waitingFor > Half THEN waitingFor - Half + 1 <= new /\ new < waitingFor
  ELSE Wrapped(waitingFor - (Half + 1)) <= new \/ new < waitingFor

Weight(offset, m) ==
  Wrapped(m.orderingIndex - offset) * HoleWeight
    + IF m.kind = "RELIABLE_SEQUENCED" THEN m.sequencingIndex ELSE HoleWeight - 1

Buffered(r, m) ==
  LET offset == IF r.orderingHeap = {} THEN r.orderedReadIndex ELSE r.heapIndexOffset
  IN [r EXCEPT !.heapIndexOffset = offset,
               !.orderingHeap = @ \cup {[weight |-> Weight(offset, m), message |-> m]}]

\* The message of least weight.
Top(heap) == CHOOSE entry \in heap : \A other \in heap : entry.weight <= other.weight

\* Mutant: the heap is emptied whatever index is waited for.
PoppedAlways(result) ==
  LET r == result.r
      top == Top(r.orderingHeap)
  IN IF r.orderingHeap = {} THEN result
     ELSE [r |-> [r EXCEPT !.orderingHeap = @ \ {top},
                           !.orderedReadIndex = Wrapped(top.message.orderingIndex + 1)],
           out |-> Append(result.out, top.message.place)]

\* The loop's body: the top of the heap, if it has the index that is waited for.  An
\* ordered message moves on to the next index, a sequenced one becomes the highest of its
\* index.
Popped(result) ==
  LET r == result.r
      top == Top(r.orderingHeap)
      m == top.message
  IN IF r.orderingHeap = {} \/ m.orderingIndex # r.orderedReadIndex THEN result
     ELSE [r |-> [r EXCEPT !.orderingHeap = @ \ {top},
                           !.orderedReadIndex =
                              IF m.kind = "RELIABLE_ORDERED" THEN Wrapped(@ + 1) ELSE @,
                           !.highestSequencedReadIndex =
                              IF m.kind = "RELIABLE_ORDERED" THEN @ ELSE m.sequencingIndex],
           out |-> Append(result.out, m.place)]

\* `result` after so many turns of the loop.
Popping(result, turns) ==
  LET after[i \in 0..turns] == IF i = 0 THEN result ELSE Popped(after[i - 1])
  IN after[turns]

\* The message the receiver waits for, and whatever the heap has behind it.
Delivered(r, m) ==
  LET next == [r EXCEPT !.orderedReadIndex = Wrapped(@ + 1), !.highestSequencedReadIndex = 0]
  IN Popping([r |-> next, out |-> <<m.place>>], Cardinality(r.orderingHeap))

Ordered(r, m) ==
  CASE m.orderingIndex = r.orderedReadIndex /\ m.kind = "RELIABLE_ORDERED" ->
         Delivered(r, m)
    [] m.orderingIndex = r.orderedReadIndex /\ m.kind = "RELIABLE_SEQUENCED" ->
         IF IsOlderOrderedPacket(m.sequencingIndex, r.highestSequencedReadIndex)
         THEN [r |-> r, out |-> <<>>]
         ELSE [r |-> [r EXCEPT !.highestSequencedReadIndex = Wrapped(m.sequencingIndex + 1)],
               out |-> <<m.place>>]
    [] OTHER ->
         [r |-> IF IsOlderOrderedPacket(m.orderingIndex, r.orderedReadIndex) THEN r
                ELSE Buffered(r, m),
          out |-> <<>>]

Handled(result, numbered) ==
  IF ~IsNew(result.r, numbered.number) THEN result
  ELSE LET after == Ordered(Received(result.r, numbered.number), numbered.message)
       IN [r |-> after.r, out |-> result.out \o after.out]

\* `result` after the messages of a datagram, one by one.
HandledAll(result, datagram) ==
  LET after[i \in 0..Len(datagram)] ==
        IF i = 0 THEN result ELSE Handled(after[i - 1], datagram[i])
  IN after[Len(datagram)]

\* A datagram is acknowledged whether or not its messages are new.
HandleDatagram(datagram) ==
  /\ datagram \in net
  /\ Cardinality(acks) < MaxAcks \/ datagram \in acks
  /\ acks' = acks \cup {datagram}
  /\ LET result == HandledAll([r |-> receiver, out |-> <<>>], datagram)
     IN /\ receiver' = result.r
        /\ outputQueue' = outputQueue \o result.out
  /\ UNCHANGED senderVars

\* It may come again, or this was the last of it.
ReceiveAgain(datagram) == HandleDatagram(datagram) /\ UNCHANGED net
ReceiveLast(datagram) == HandleDatagram(datagram) /\ net' = net \ {datagram}

(***************************************************************************)
(* The network.                                                            *)
(***************************************************************************)
Lose(datagram) ==
  /\ net' = net \ {datagram}
  /\ UNCHANGED <<senderVars, acks, receiver, outputQueue>>

LoseAck(datagram) ==
  /\ acks' = acks \ {datagram}
  /\ UNCHANGED <<senderVars, net, receiver, outputQueue>>

RelNext ==
  \/ \E kind \in Kinds : Send(kind)
  \/ \E n \in 1..MaxPerDatagram : SendNew(n) \/ Resend(n)
  \/ \E datagram \in net : ReceiveAgain(datagram) \/ ReceiveLast(datagram) \/ Lose(datagram)
  \/ \E datagram \in acks : ReceiveAck(datagram) \/ LoseAck(datagram)

RelSpec == RelInit /\ [][RelNext]_relVars

(***************************************************************************)
(* What the layer keeps to.                                                *)
(***************************************************************************)
\* Every variable has its type: numbers and indices stay within their width.
ReliabilityTypeOK ==
  /\ sent \in Seq(Kinds) /\ Len(sent) <= MaxMessages
  /\ {orderedWriteIndex, sequencedWriteIndex, sendReliableMessageNumberIndex} \subseteq Indices
  /\ outgoingPacketBuffer \in Seq(Messages)
  /\ resendBuffer \in [Slots -> Numbered \cup {Empty}]
  /\ \A datagram \in net \cup acks : datagram \in Seq(Numbered)
  /\ {receiver.receivedPacketsBaseIndex, receiver.orderedReadIndex,
      receiver.highestSequencedReadIndex, receiver.heapIndexOffset} \subseteq Indices
  /\ receiver.hasReceivedPacketQueue \in Seq(BOOLEAN)
  /\ \A entry \in receiver.orderingHeap : entry.weight \in Nat /\ entry.message \in Messages
  /\ outputQueue \in Seq(1..MaxMessages)

\* The user of the receiver sees what OrderedDelivery promises, although datagrams are
\* lost, come twice and overtake each other, and the indices wrap.
Channel == INSTANCE OrderedDelivery
DeliversInOrder == Channel!DeliverySpec

\* The resend slots bound the receiver's window: whatever arrives is either old or fewer
\* than RESEND_BUFFER_ARRAY_LENGTH numbers ahead, so "Hole count too high" never happens
\* and half the range of numbers is enough to tell old from new.
WindowFits ==
  /\ Len(receiver.hasReceivedPacketQueue) <= ResendBufferLength
  /\ \A datagram \in net : \A i \in DOMAIN datagram :
       LET hole == HoleCount(receiver, datagram[i].number)
       IN hole < ResendBufferLength \/ hole > Half

NumberOf(place) == Wrapped(First + place - 1)

\* The sender forgets a message only after the receiver has it: every message still waits
\* for its first datagram, holds a resend slot, or is no longer new to the receiver.
NothingForgotten ==
  \A place \in DOMAIN sent :
    \/ \E i \in DOMAIN outgoingPacketBuffer : outgoingPacketBuffer[i].place = place
    \/ \E entry \in Unacknowledged : entry.message.place = place
    \/ ~IsNew(receiver, NumberOf(place))

\* Every ordered message sent is given to the user in the end (few messages are sent, so
\* that infinitely often is in the end for ever), if Update goes on resending what is not
\* acknowledged and not every datagram and acknowledgement of a message is lost.
EverythingArrives ==
  []<>(\A place \in DOMAIN sent :
         sent[place] = "RELIABLE_ORDERED" => \E i \in DOMAIN outputQueue : outputQueue[i] = place)

\* Whether the datagram carries the message that has waited longest for its acknowledgement.
CarriesOldest(datagram) ==
  \E i \in DOMAIN datagram :
    /\ datagram[i] \in Unacknowledged
    /\ \A entry \in Unacknowledged : datagram[i].message.place <= entry.message.place

MaySendNew ==
  /\ MayTransmit /\ outgoingPacketBuffer # <<>>
  /\ ~ResendBufferOverflow(sendReliableMessageNumberIndex)
MayResend == MayTransmit /\ \E entry \in Unacknowledged :
                              CarriesOldest(<<entry>>) /\ <<entry>> \notin net
OldestUnderWay == \E datagram \in net : CarriesOldest(datagram)
OldestAcked == \E datagram \in acks : CarriesOldest(datagram)

ResendOldest ==
  \E entry \in Unacknowledged : CarriesOldest(<<entry>>) /\ ResendDatagram(<<entry>>)
ReceiveOldest == \E datagram \in net : CarriesOldest(datagram) /\ ReceiveLast(datagram)
ReceiveOldestAck == \E datagram \in acks : CarriesOldest(datagram) /\ ReceiveAck(datagram)
EmptyNet == \E datagram \in net : ReceiveLast(datagram) \/ Lose(datagram)
EmptyAcks == \E datagram \in acks : ReceiveAck(datagram) \/ LoseAck(datagram)

\* Update runs again and again: it sends what is new when there is room, and resends the
\* oldest message.  The network keeps nothing for ever, and of infinitely many datagrams
\* or acknowledgements of the oldest message one arrives.  This is strong fairness of the
\* actions named here, each written out with what enables it in the code: MaxAcks is no
\* reason for not receiving.
RelFairness ==
  /\ <>[]~MaySendNew \/ []<><<SendNew(1)>>_relVars
  /\ <>[]~MayResend \/ []<><<ResendOldest>>_relVars
  /\ <>[]~OldestUnderWay \/ []<><<ReceiveOldest>>_relVars
  /\ <>[]~OldestAcked \/ []<><<ReceiveOldestAck>>_relVars
  /\ <>[](net = {}) \/ []<><<EmptyNet>>_relVars
  /\ <>[](acks = {}) \/ []<><<EmptyAcks>>_relVars
=============================================================================
