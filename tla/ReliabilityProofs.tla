-------------------------- MODULE ReliabilityProofs --------------------------
(***************************************************************************)
(* Proofs about Reliability: its types, the window of the receiver, that   *)
(* nothing is forgotten, and that it implements OrderedDelivery.           *)
(***************************************************************************)
EXTENDS Reliability, FiniteSetTheorems, SequenceTheorems, WellFoundedInduction, TLAPS

(***************************************************************************)
(* What the numbers and indices stand for.  Places do not wrap: the        *)
(* message at a place has the place's number, and as many ordered ones     *)
(* before it as its ordering index says.                                   *)
(***************************************************************************)
\* The ordered messages before a place.
Before(of, p) == Cardinality({q \in 1..p - 1 : of[q] = "RELIABLE_ORDERED"})

\* The sequenced messages just before a place.
Run(of, p) == Cardinality({q \in 1..p - 1 : \A s \in q..p - 1 : of[s] # "RELIABLE_ORDERED"})

MessageAt(of, p) ==
  [place |-> p, kind |-> of[p], orderingIndex |-> Wrapped(First + Before(of, p)),
   sequencingIndex |-> IF of[p] = "RELIABLE_SEQUENCED" THEN Run(of, p) ELSE 0]

EntryAt(of, p) == [number |-> NumberOf(p), message |-> MessageAt(of, p)]

\* The messages that have had a number.
Transmitted == Len(sent) - Len(outgoingPacketBuffer)

(***************************************************************************)
(* The invariant of the sender.                                            *)
(***************************************************************************)
SenderTypes ==
  /\ sent \in Seq(Kinds) /\ Len(sent) <= MaxMessages
  /\ outgoingPacketBuffer \in Seq(Messages) /\ Len(outgoingPacketBuffer) <= Len(sent)
  /\ resendBuffer \in [Slots -> Numbered \cup {Empty}]

\* Indices, numbers and slots belong to places.
Numbering ==
  /\ orderedWriteIndex = Wrapped(First + Before(sent, Len(sent) + 1))
  /\ sequencedWriteIndex = Run(sent, Len(sent) + 1)
  /\ sendReliableMessageNumberIndex = NumberOf(Transmitted + 1)
  /\ \A i \in DOMAIN outgoingPacketBuffer :
       outgoingPacketBuffer[i] = MessageAt(sent, Transmitted + i)

HoldsSlot(p) == resendBuffer[Slot(NumberOf(p))] = EntryAt(sent, p)

SlotsNumbered ==
  \A s \in Slots : resendBuffer[s] # Empty =>
    \E p \in 1..Transmitted : resendBuffer[s] = EntryAt(sent, p) /\ Slot(NumberOf(p)) = s

Carries(datagram, places) ==
  /\ datagram \in Seq(Numbered)
  /\ \A i \in DOMAIN datagram : \E p \in places : datagram[i] = EntryAt(sent, p)

(***************************************************************************)
(* The invariant of the receiver.                                          *)
(***************************************************************************)
HeapEntries == [weight : Nat, message : Messages]

Receivers ==
  [receivedPacketsBaseIndex : Indices, hasReceivedPacketQueue : Seq(BOOLEAN),
   orderedReadIndex : Indices, highestSequencedReadIndex : Indices,
   orderingHeap : SUBSET HeapEntries, heapIndexOffset : Indices]

\* The first place that has not been received.
Base(r) == 1 + Wrapped(r.receivedPacketsBaseIndex - First)

\* The places that a queue which begins at a base counts as received.
Marked(base, queue) ==
  {p \in 1..MaxMessages :
     \/ p < base
     \/ p - base + 1 \in DOMAIN queue /\ ~queue[p - base + 1]}

\* The places that have been received.
Has(r) == Marked(Base(r), r.hasReceivedPacketQueue)

\* The queue begins with a missing message and reaches no further than the last one sent,
\* which is within the window.
Filter(r, n) ==
  /\ Base(r) + Len(r.hasReceivedPacketQueue) <= n + 1
  /\ r.hasReceivedPacketQueue # <<>> => r.hasReceivedPacketQueue[1]
  /\ n < Base(r) + ResendBufferLength

\* The ordered messages that have been given to the user.
Reads(r) == Wrapped(r.orderedReadIndex - First)

HeapEntry(r, of, p) ==
  [weight |-> Weight(r.heapIndexOffset, MessageAt(of, p)), message |-> MessageAt(of, p)]

\* What is in the heap has been received and belongs behind all that was given out.
HeapBehind(got, r, out, of) ==
  /\ IsFiniteSet(r.orderingHeap)
  /\ r.orderingHeap # {} => Wrapped(r.heapIndexOffset - First) <= Reads(r)
  /\ \A entry \in r.orderingHeap : \E p \in got :
       /\ entry = HeapEntry(r, of, p)
       /\ Before(of, p) >= Reads(r)
       /\ \A i \in DOMAIN out : out[i] < p

\* What was given out is in order, and belongs to indices that have been read or, if it is
\* sequenced, to the one that is waited for.
OutInOrder(got, r, out, of) ==
  /\ out \in Seq(got)
  /\ \A i, j \in DOMAIN out : i < j => out[i] < out[j]
  /\ \A i \in DOMAIN out :
       /\ Before(of, out[i]) <= Reads(r)
       /\ of[out[i]] = "RELIABLE_ORDERED" => Before(of, out[i]) < Reads(r)

\* What is read was sent and has been given out.
AllGiven(r, out, of) ==
  /\ Reads(r) <= Before(of, Len(of) + 1)
  /\ \A p \in DOMAIN of : of[p] = "RELIABLE_ORDERED" /\ Before(of, p) < Reads(r) =>
       \E i \in DOMAIN out : out[i] = p

\* An ordered message that has been received is read or in the heap.
NoneSkipped(got, r, of) ==
  \A p \in got : of[p] = "RELIABLE_ORDERED" /\ Before(of, p) >= Reads(r) =>
    HeapEntry(r, of, p) \in r.orderingHeap

\* highestSequencedReadIndex belongs to the last message given out, if that is of the index
\* that is waited for.
HighestFits(r, out, of) ==
  out # <<>> /\ Before(of, out[Len(out)]) = Reads(r) =>
    r.highestSequencedReadIndex \in {Run(of, out[Len(out)]), Run(of, out[Len(out)]) + 1}

Order(got, r, out, of) ==
  /\ HeapBehind(got, r, out, of)
  /\ OutInOrder(got, r, out, of)
  /\ AllGiven(r, out, of)
  /\ NoneSkipped(got, r, of)
  /\ HighestFits(r, out, of)

\* Nothing in the heap has the index that is waited for.
GapAhead(r) ==
  \A entry \in r.orderingHeap : entry.message.orderingIndex # r.orderedReadIndex

ReceiverInv(r, out, of, n) ==
  /\ r \in Receivers
  /\ Has(r) \subseteq 1..n
  /\ Filter(r, n)
  /\ Order(Has(r), r, out, of)
  /\ GapAhead(r)

(***************************************************************************)
(* The whole.                                                              *)
(***************************************************************************)
\* What is under way was sent, and what is acknowledged was received.
UnderWay ==
  /\ \A datagram \in net : Carries(datagram, 1..Transmitted)
  /\ \A datagram \in acks : Carries(datagram, Has(receiver))

\* A message with a number holds its slot until it is received.
SlotOrReceived == \A p \in 1..Transmitted : HoldsSlot(p) \/ p \in Has(receiver)

RelInv ==
  /\ SenderTypes
  /\ Numbering
  /\ SlotsNumbered
  /\ UnderWay
  /\ SlotOrReceived
  /\ ReceiverInv(receiver, outputQueue, sent, Transmitted)

(***************************************************************************)
(* Arithmetic of numbers that wrap.                                        *)
(***************************************************************************)
\* A product with a positive number is at least as great, or not positive.
LEMMA Multiple ==
  ASSUME NEW b \in Nat \ {0}, NEW k \in Int, -b < k * b, k * b < b
  PROVE  k = 0
<1>1. CASE k >= 1
  <2>1. k * b >= 1 * b
    BY <1>1, SMT
  <2> QED
    BY <2>1
<1>2. CASE k <= -1
  <2>1. k * b <= (-1) * b
    BY <1>2, SMT
  <2> QED
    BY <2>1
<1> QED
  BY <1>1, <1>2

\* The remainder is the number below b that differs by a multiple of it.
LEMMA Remainder ==
  ASSUME NEW b \in Nat \ {0}, NEW a \in Int
  PROVE  /\ a % b \in 0..b - 1
         /\ \E k \in Int : a = k * b + (a % b)
<1>1. a % b \in 0..b - 1 /\ a = b * (a \div b) + (a % b) /\ a \div b \in Int
  BY SMT
<1>2. a = (a \div b) * b + (a % b)
  BY <1>1, SMT
<1> QED
  BY <1>1, <1>2

LEMMA RemainderUnique ==
  ASSUME NEW b \in Nat \ {0}, NEW a \in Int, NEW x \in 0..b - 1, NEW k \in Int,
         a = k * b + x
  PROVE  a % b = x
<1>1. PICK l \in Int : a = l * b + (a % b)
  BY Remainder
<1>2. a % b \in 0..b - 1
  BY Remainder
<1>3. (k - l) * b = (a % b) - x
  BY <1>1, <1>2, SMT
<1>4. k - l = 0
  BY <1>2, <1>3, Multiple
<1> QED
  BY <1>1, <1>2, <1>4, SMT

\* The constants.
LEMMA Widths ==
  /\ Modulus \in Nat \ {0} /\ ResendBufferLength \in Nat \ {0}
  /\ First \in 0..Modulus - 1 /\ Half \in Nat
  /\ 4 * ResendBufferLength <= Modulus /\ 2 * MaxMessages <= Modulus
  /\ MaxMessages \in Nat \ {0} /\ MaxMessages < HoleWeight /\ HoleWeight \in Nat
  /\ Modulus % ResendBufferLength = 0
  /\ 2 * Half <= Modulus - 1 /\ Modulus - 1 < 2 * Half + 2
<1>1. Modulus \in Nat \ {0}
  BY WidthAssumption
<1>2. Half \in Int /\ 2 * Half <= Modulus - 1 /\ Modulus - 1 < 2 * Half + 2
  BY <1>1 DEF Half
<1>3. HoleWeight \in Nat
  BY SMT DEF HoleWeight
<1> QED
  BY <1>1, <1>2, <1>3, WidthAssumption, LimitAssumption, LifetimeAssumption, WeightAssumption

LEMMA WrappedType ==
  ASSUME NEW x \in Int
  PROVE  Wrapped(x) \in Indices /\ Wrapped(x) \in Nat /\ Wrapped(x) < Modulus
<1>1. x % Modulus \in 0..Modulus - 1
  BY Widths, Remainder
<1> QED
  BY <1>1, Widths DEF Wrapped, Indices

LEMMA WrappedIs ==
  ASSUME NEW x \in Int, NEW y \in Indices, NEW k \in Int, x = k * Modulus + y
  PROVE  Wrapped(x) = y
BY Widths, RemainderUnique DEF Wrapped, Indices

LEMMA WrappedParts ==
  ASSUME NEW x \in Int
  PROVE  \E k \in Int : x = k * Modulus + Wrapped(x)
BY Widths, Remainder DEF Wrapped

LEMMA WrappedSmall ==
  ASSUME NEW x \in Indices
  PROVE  Wrapped(x) = x
<1>1. x \in Int /\ x = 0 * Modulus + x
  BY Widths DEF Indices
<1> QED
  BY <1>1, WrappedIs

LEMMA WrappedNegative ==
  ASSUME NEW x \in Int, -Modulus <= x, x < 0
  PROVE  Wrapped(x) = x + Modulus
<1>1. x + Modulus \in Indices /\ x = (-1) * Modulus + (x + Modulus)
  BY Widths DEF Indices
<1> QED
  BY <1>1, WrappedIs

\* Only what is added or subtracted matters, not whether it was wrapped before.
LEMMA WrappedPlus ==
  ASSUME NEW x \in Int, NEW y \in Int
  PROVE  Wrapped(Wrapped(x) + y) = Wrapped(x + y)
<1>1. PICK k \in Int : x = k * Modulus + Wrapped(x)
  BY WrappedParts
<1>2. Wrapped(x) \in Int /\ Modulus \in Int /\ Wrapped(x) + y \in Int
  BY WrappedType, Widths
<1>3. PICK l \in Int : Wrapped(x) + y = l * Modulus + Wrapped(Wrapped(x) + y)
  BY <1>2, WrappedParts
<1>4. Wrapped(Wrapped(x) + y) \in Indices /\ Wrapped(Wrapped(x) + y) \in Int
  BY <1>2, WrappedType
<1> DEFINE z == Wrapped(Wrapped(x) + y)
<1> HIDE DEF z
<1>5. x + y = (k + l) * Modulus + z
  BY <1>1, <1>2, <1>3, <1>4, SMT DEF z
<1> QED
  BY <1>4, <1>5, WrappedIs DEF z

LEMMA WrappedMinus ==
  ASSUME NEW x \in Int, NEW y \in Int
  PROVE  Wrapped(x - Wrapped(y)) = Wrapped(x - y)
<1>1. PICK k \in Int : y = k * Modulus + Wrapped(y)
  BY WrappedParts
<1>2. Wrapped(y) \in Int /\ Modulus \in Int /\ x - Wrapped(y) \in Int
  BY WrappedType, Widths
<1>3. PICK l \in Int : x - Wrapped(y) = l * Modulus + Wrapped(x - Wrapped(y))
  BY <1>2, WrappedParts
<1>4. Wrapped(x - Wrapped(y)) \in Indices /\ Wrapped(x - Wrapped(y)) \in Int
  BY <1>2, WrappedType
<1> DEFINE z == Wrapped(x - Wrapped(y))
<1> HIDE DEF z
<1>5. x - y = (l * Modulus + z) - k * Modulus
  <2>1. k * Modulus \in Int /\ l * Modulus \in Int /\ z \in Int
    BY <1>2, <1>4 DEF z
  <2>2. x = (l * Modulus + z) + Wrapped(y)
    BY <1>2, <1>3, <2>1 DEF z
  <2> QED
    BY <1>1, <1>2, <2>1, <2>2
<1>6. x - y = (l - k) * Modulus + z
  BY <1>2, <1>4, <1>5, SMT DEF z
<1> QED
  BY <1>4, <1>6, WrappedIs DEF z

\* Of two wrapped numbers the difference can be had back.
LEMMA WrappedDifference ==
  ASSUME NEW x \in Int, NEW y \in Int
  PROVE  Wrapped(Wrapped(x) - Wrapped(y)) = Wrapped(x - y)
<1>1. Wrapped(x) \in Int /\ Wrapped(y) \in Int
  BY WrappedType
<1>2. Wrapped(Wrapped(x) - Wrapped(y)) = Wrapped(Wrapped(x) - y)
  BY <1>1, WrappedMinus
<1>3. Wrapped(Wrapped(x) + (-y)) = Wrapped(x + (-y))
  BY WrappedPlus
<1>4. Wrapped(x) + (-y) = Wrapped(x) - y /\ x + (-y) = x - y
  BY <1>1
<1> QED
  BY <1>2, <1>3, <1>4

\* Numbers less than the modulus apart do not wrap to the same.
LEMMA WrappedInjective ==
  ASSUME NEW x \in Int, NEW y \in Int, x - y < Modulus, y - x < Modulus,
         Wrapped(x) = Wrapped(y)
  PROVE  x = y
<1>1. PICK k \in Int : x = k * Modulus + Wrapped(x)
  BY WrappedParts
<1>2. PICK l \in Int : y = l * Modulus + Wrapped(y)
  BY WrappedParts
<1>3. Wrapped(x) \in Int /\ Modulus \in Nat \ {0}
  BY WrappedType, Widths
<1>4. (k - l) * Modulus = x - y
  BY <1>1, <1>2, <1>3, SMT
<1>5. k - l = 0
  BY <1>3, <1>4, Multiple
<1> QED
  BY <1>1, <1>2, <1>5

\* What is counted from First.
LEMMA FromFirst ==
  /\ \A x \in Nat : x < Modulus => Wrapped(Wrapped(First + x) - First) = x
  /\ \A i \in Indices : Wrapped(First + Wrapped(i - First)) = i
<1>1. First \in Int /\ Modulus \in Int
  BY Widths
<1>2. ASSUME NEW x \in Nat, x < Modulus
      PROVE  Wrapped(Wrapped(First + x) - First) = x
  <2>1. Wrapped(Wrapped(First + x) + (-First)) = Wrapped(First + x + (-First))
    BY <1>1, WrappedPlus
  <2>2. First + x + (-First) = x /\ x \in Indices
    BY <1>1, <1>2 DEF Indices
  <2>3. Wrapped(First + x) + (-First) = Wrapped(First + x) - First
    BY <1>1, WrappedType
  <2> QED
    BY <2>1, <2>2, <2>3, WrappedSmall
<1>3. ASSUME NEW i \in Indices
      PROVE  Wrapped(First + Wrapped(i - First)) = i
  <2>1. i \in Int
    BY <1>1 DEF Indices
  <2>2. Wrapped(Wrapped(i - First) + First) = Wrapped(i - First + First)
    BY <1>1, <2>1, WrappedPlus
  <2>3. i - First + First = i
    BY <1>1, <2>1
  <2>4. Wrapped(i - First) + First = First + Wrapped(i - First)
    BY <1>1, <2>1, WrappedType
  <2> QED
    BY <2>2, <2>3, <2>4, WrappedSmall
<1> QED
  BY <1>2, <1>3

(***************************************************************************)
(* Slots.                                                                  *)
(***************************************************************************)
LEMMA SlotType ==
  ASSUME NEW x \in Int
  PROVE  Slot(x) \in Slots
BY Widths, Remainder DEF Slot, Slots

\* The ring has room for the whole range of numbers.
LEMMA SlotOfWrapped ==
  ASSUME NEW x \in Int
  PROVE  Slot(Wrapped(x)) = Slot(x)
<1>1. PICK k \in Int : x = k * Modulus + Wrapped(x)
  BY WrappedParts
<1>2. PICK m \in Int : Modulus = m * ResendBufferLength + (Modulus % ResendBufferLength)
  <2>1. Modulus \in Int /\ ResendBufferLength \in Nat \ {0}
    BY Widths
  <2> QED
    BY <2>1, Remainder
<1>3. Modulus = m * ResendBufferLength /\ ResendBufferLength \in Nat \ {0}
  BY <1>2, Widths
<1>4. Wrapped(x) \in Int
  BY WrappedType
<1>5. PICK l \in Int : Wrapped(x) = l * ResendBufferLength + (Wrapped(x) % ResendBufferLength)
  BY <1>3, <1>4, Remainder
<1>6. Wrapped(x) % ResendBufferLength \in 0..ResendBufferLength - 1
  BY <1>3, <1>4, Remainder
<1> DEFINE z == Wrapped(x) % ResendBufferLength
<1> HIDE DEF z
<1>7. x = k * (m * ResendBufferLength) + (l * ResendBufferLength + z)
  BY <1>1, <1>3, <1>5 DEF z
<1>8. x = (k * m + l) * ResendBufferLength + z
  BY <1>3, <1>6, <1>7, SMT DEF z
<1>9. k * m + l \in Int
  OBVIOUS
<1> QED
  BY <1>3, <1>6, <1>8, <1>9, RemainderUnique DEF z, Slot

\* Two numbers have one slot only if they are the length of the ring apart.
LEMMA SameSlot ==
  ASSUME NEW x \in Int, NEW y \in Int, Slot(x) = Slot(y),
         x - y < ResendBufferLength, y - x < ResendBufferLength
  PROVE  x = y
<1>1. PICK k \in Int : x = k * ResendBufferLength + (x % ResendBufferLength)
  BY Widths, Remainder
<1>2. PICK l \in Int : y = l * ResendBufferLength + (y % ResendBufferLength)
  BY Widths, Remainder
<1>3. x % ResendBufferLength \in Int /\ x % ResendBufferLength = y % ResendBufferLength
  BY Widths, Remainder DEF Slot
<1>4. (k - l) * ResendBufferLength = x - y
  BY <1>1, <1>2, <1>3, Widths, SMT
<1>5. k - l = 0
  BY <1>4, Widths, Multiple
<1> QED
  BY <1>1, <1>2, <1>3, <1>5

LEMMA NextRound ==
  ASSUME NEW x \in Int
  PROVE  Slot(x + ResendBufferLength) = Slot(x)
<1>1. PICK k \in Int : x = k * ResendBufferLength + (x % ResendBufferLength)
  BY Widths, Remainder
<1>2. x % ResendBufferLength \in 0..ResendBufferLength - 1
  BY Widths, Remainder
<1>3. x + ResendBufferLength = (k + 1) * ResendBufferLength + (x % ResendBufferLength)
  BY <1>1, <1>2, Widths, SMT
<1>4. x + ResendBufferLength \in Int /\ k + 1 \in Int /\ ResendBufferLength \in Nat \ {0}
  BY Widths
<1>5. (x + ResendBufferLength) % ResendBufferLength = x % ResendBufferLength
  BY <1>2, <1>3, <1>4, RemainderUnique
<1> QED
  BY <1>5 DEF Slot

(***************************************************************************)
(* Counts of messages.                                                     *)
(***************************************************************************)
\* Of some numbers one is the least.
LEMMA LeastNumber ==
  ASSUME NEW T \in SUBSET Nat, T # {}
  PROVE  \E x \in T : \A y \in T : x <= y
<1> DEFINE R == {pair \in Nat \X Nat : pair[1] < pair[2]}
<1>1. IsWellFoundedOn(R, Nat)
  BY NatLessThanWellFounded, Zenon DEF OpToRel
<1> HIDE DEF R
<1>2. \E x \in T : \A y \in T : ~(<<y, x>> \in R)
  BY <1>1, WFMin
<1>3. ASSUME NEW x \in T, NEW y \in T, y < x PROVE <<y, x>> \in R
  <2>1. <<y, x>> \in Nat \X Nat /\ <<y, x>>[1] = y /\ <<y, x>>[2] = x
    OBVIOUS
  <2> QED
    BY <1>3, <2>1 DEF R
<1>4. PICK x \in T : \A y \in T : ~(y < x)
  BY <1>2, <1>3
<1> QED
  BY <1>4

Ordereds(of, p, q) == {x \in p..q - 1 : of[x] = "RELIABLE_ORDERED"}

\* Any part of an interval is finite and no larger.
LEMMA PartOfInterval ==
  ASSUME NEW a \in Int, NEW b \in Int, NEW S \in SUBSET (a..b), a <= b + 1
  PROVE  /\ IsFiniteSet(S) /\ Cardinality(S) \in 0..(b - a + 1)
         /\ S # {} => Cardinality(S) > 0
         /\ S # a..b => Cardinality(S) < b - a + 1
<1>1. IsFiniteSet(a..b) /\ Cardinality(a..b) = b - a + 1
  BY FS_Interval
<1>2. IsFiniteSet(S) /\ Cardinality(S) <= b - a + 1 /\ (Cardinality(S) = b - a + 1 => S = a..b)
  BY <1>1, FS_Subset
<1>3. Cardinality(S) \in Nat /\ (Cardinality(S) = 0 <=> S = {})
  BY <1>2, FS_CardinalityType, FS_EmptySet
<1>4. Cardinality(S) \in 0..(b - a + 1)
  BY <1>2, <1>3
<1>5. ASSUME S # {} PROVE Cardinality(S) > 0
  <2>1. Cardinality(S) # 0
    BY <1>3, <1>5, Zenon
  <2> QED
    BY <1>3, <2>1
<1>6. S # a..b => Cardinality(S) < b - a + 1
  BY <1>2, <1>4
<1> QED
  BY <1>2, <1>4, <1>5, <1>6

\* What is counted up to two places differs by what is between them.
LEMMA BeforeSteps ==
  ASSUME NEW of, NEW p \in Nat \ {0}, NEW q \in Nat \ {0}, p <= q
  PROVE  /\ Before(of, p) \in 0..p - 1 /\ Before(of, q) \in 0..q - 1
         /\ Before(of, q) - Before(of, p) \in 0..q - p
         /\ \A x \in p..q - 1 : of[x] = "RELIABLE_ORDERED" => Before(of, p) < Before(of, q)
         /\ \A x \in p..q - 1 :
              of[x] # "RELIABLE_ORDERED" => Before(of, q) - Before(of, p) < q - p
         /\ Before(of, p) = Before(of, q) => \A x \in p..q - 1 : of[x] # "RELIABLE_ORDERED"
<1> DEFINE S == Ordereds(of, 1, p)
           T == Ordereds(of, p, q)
<1>1. ASSUME NEW x \in Nat \ {0}
      PROVE  Before(of, x) = Cardinality(Ordereds(of, 1, x)) /\ Before(of, x) \in 0..x - 1
             /\ IsFiniteSet(Ordereds(of, 1, x))
  <2>1. Ordereds(of, 1, x) \subseteq 1..x - 1
    BY DEF Ordereds
  <2>2. x - 1 \in Int /\ 1 \in Int /\ 1 <= x - 1 + 1 /\ x - 1 - 1 + 1 = x - 1
    OBVIOUS
  <2>3. IsFiniteSet(Ordereds(of, 1, x)) /\ Cardinality(Ordereds(of, 1, x)) \in 0..x - 1
    BY <2>1, <2>2, PartOfInterval
  <2> QED
    BY <2>3 DEF Ordereds, Before
<1>2. Ordereds(of, 1, q) = S \cup T /\ S \cap T = {}
  BY DEF Ordereds
<1>3. /\ IsFiniteSet(T) /\ Cardinality(T) \in 0..q - p
      /\ T # {} => Cardinality(T) > 0
      /\ T # p..q - 1 => Cardinality(T) < q - p
  <2>1. T \in SUBSET (p..q - 1)
    BY DEF Ordereds
  <2>2. p \in Int /\ q - 1 \in Int /\ p <= q - 1 + 1 /\ q - 1 - p + 1 = q - p
    OBVIOUS
  <2> HIDE DEF T
  <2> QED
    BY <2>1, <2>2, PartOfInterval
<1>4. Cardinality(S \cup T) = Cardinality(S) + Cardinality(T)
  <2>1. IsFiniteSet(S) /\ IsFiniteSet(T) /\ Cardinality(S \cap T) = 0
    BY <1>1, <1>2, <1>3, FS_EmptySet
  <2> HIDE DEF S, T
  <2>2. Cardinality(S \cup T) = Cardinality(S) + Cardinality(T) - Cardinality(S \cap T)
    BY <2>1, FS_Union
  <2>3. Cardinality(S) \in Nat /\ Cardinality(T) \in Nat
    BY <2>1, FS_CardinalityType
  <2> QED
    BY <2>1, <2>2, <2>3
<1>5. Before(of, q) = Before(of, p) + Cardinality(T)
  BY <1>1, <1>2, <1>4
<1>6. \A x \in p..q - 1 : (x \in T <=> of[x] = "RELIABLE_ORDERED")
  BY DEF Ordereds
<1> HIDE DEF S, T
<1>7. /\ Before(of, p) \in 0..p - 1 /\ Before(of, q) \in 0..q - 1
      /\ Before(of, q) - Before(of, p) \in 0..q - p
  BY <1>1, <1>3, <1>5
<1>8. ASSUME NEW x \in p..q - 1, of[x] = "RELIABLE_ORDERED"
      PROVE  Before(of, p) < Before(of, q)
  <2>1. T # {}
    BY <1>6, <1>8
  <2>2. Cardinality(T) > 0
    BY <1>3, <2>1
  <2> QED
    BY <1>3, <1>5, <1>7, <2>2
<1>9. ASSUME NEW x \in p..q - 1, of[x] # "RELIABLE_ORDERED"
      PROVE  Before(of, q) - Before(of, p) < q - p
  <2>1. T # p..q - 1
    BY <1>6, <1>9
  <2> QED
    BY <1>3, <1>5, <1>7, <2>1
<1>10. ASSUME Before(of, p) = Before(of, q), NEW x \in p..q - 1
       PROVE  of[x] # "RELIABLE_ORDERED"
  BY <1>7, <1>8, <1>10
<1> QED
  BY <1>7, <1>8, <1>9, <1>10

Sequenceds(of, p) == {q \in 1..p - 1 : \A s \in q..p - 1 : of[s] # "RELIABLE_ORDERED"}

LEMMA RunType ==
  ASSUME NEW of, NEW p \in Nat \ {0}
  PROVE  Run(of, p) \in 0..p - 1 /\ Run(of, p) = Cardinality(Sequenceds(of, p))
         /\ IsFiniteSet(Sequenceds(of, p))
<1>1. Sequenceds(of, p) \in SUBSET (1..p - 1)
  BY DEF Sequenceds
<1>2. p - 1 \in Int /\ 1 \in Int /\ 1 <= p - 1 + 1 /\ p - 1 - 1 + 1 = p - 1
  OBVIOUS
<1>3. IsFiniteSet(Sequenceds(of, p)) /\ Cardinality(Sequenceds(of, p)) \in 0..p - 1
  BY <1>1, <1>2, PartOfInterval
<1> QED
  BY <1>3 DEF Sequenceds, Run

\* A run grows until an ordered message ends it.
LEMMA RunSteps ==
  ASSUME NEW of, NEW p \in Nat \ {0}, NEW q \in Nat \ {0}, p <= q,
         \A x \in p..q - 1 : of[x] # "RELIABLE_ORDERED"
  PROVE  Run(of, q) = Run(of, p) + (q - p)
<1> DEFINE S == Sequenceds(of, p)
           T == p..q - 1
<1>1. Sequenceds(of, q) = S \cup T /\ S \cap T = {}
  <2>1. S \cap T = {}
    BY DEF Sequenceds
  <2>2. Sequenceds(of, q) \subseteq S \cup T
    <3> SUFFICES ASSUME NEW x \in Sequenceds(of, q), x \notin T PROVE x \in S
      OBVIOUS
    <3>1. x \in 1..q - 1 /\ \A s \in x..q - 1 : of[s] # "RELIABLE_ORDERED"
      BY DEF Sequenceds
    <3>2. x \in 1..p - 1
      BY <3>1
    <3> QED
      BY <3>1, <3>2 DEF Sequenceds
  <2>3. S \subseteq Sequenceds(of, q)
    <3> SUFFICES ASSUME NEW x \in S PROVE x \in Sequenceds(of, q)
      OBVIOUS
    <3>1. x \in 1..p - 1 /\ \A s \in x..p - 1 : of[s] # "RELIABLE_ORDERED"
      BY DEF Sequenceds
    <3>2. x \in 1..q - 1 /\ \A s \in x..q - 1 : s \in x..p - 1 \/ s \in p..q - 1
      BY <3>1
    <3> QED
      BY <3>1, <3>2 DEF Sequenceds
  <2>4. T \subseteq Sequenceds(of, q)
    <3> SUFFICES ASSUME NEW x \in T PROVE x \in Sequenceds(of, q)
      OBVIOUS
    <3>1. x \in 1..q - 1 /\ \A s \in x..q - 1 : s \in p..q - 1
      OBVIOUS
    <3> QED
      BY <3>1 DEF Sequenceds
  <2> QED
    BY <2>1, <2>2, <2>3, <2>4
<1>2. IsFiniteSet(S) /\ Run(of, p) = Cardinality(S) /\ Run(of, q) = Cardinality(S \cup T)
      /\ Cardinality(S) \in Nat
  BY <1>1, RunType
<1>3. IsFiniteSet(T) /\ Cardinality(T) = q - p
  <2>1. q - 1 \in Int /\ p \in Int /\ p <= q - 1 + 1 /\ q - 1 - p + 1 = q - p
    OBVIOUS
  <2>2. IsFiniteSet(p..q - 1)
        /\ Cardinality(p..q - 1) = IF p > q - 1 THEN 0 ELSE q - 1 - p + 1
    BY <2>1, FS_Interval
  <2> QED
    BY <2>1, <2>2
<1>4. Cardinality(S \cap T) = 0
  BY <1>1, FS_EmptySet
<1> HIDE DEF S, T
<1>5. Cardinality(S \cup T) = Cardinality(S) + Cardinality(T) - Cardinality(S \cap T)
  BY <1>2, <1>3, FS_Union
<1> QED
  BY <1>2, <1>3, <1>4, <1>5

LEMMA RunEnds ==
  ASSUME NEW of, NEW p \in Nat \ {0}, of[p] = "RELIABLE_ORDERED"
  PROVE  Run(of, p + 1) = 0
<1>1. Sequenceds(of, p + 1) = {}
  <2> SUFFICES ASSUME NEW x \in Sequenceds(of, p + 1) PROVE FALSE
    OBVIOUS
  <2>1. x \in 1..p /\ \A s \in x..p : of[s] # "RELIABLE_ORDERED"
    BY DEF Sequenceds
  <2> QED
    BY <2>1
<1>2. Run(of, p + 1) = Cardinality(Sequenceds(of, p + 1))
  BY RunType
<1> QED
  BY <1>1, <1>2, FS_EmptySet

\* What is sent later changes no count.
LEMMA CountsStay ==
  ASSUME NEW S, NEW of \in Seq(S), NEW kind \in S, NEW p \in 1..Len(of) + 1
  PROVE  /\ Before(Append(of, kind), p) = Before(of, p)
         /\ Run(Append(of, kind), p) = Run(of, p)
<1>1. \A x \in 1..p - 1 : Append(of, kind)[x] = of[x]
  OBVIOUS
<1>2. \A q \in 1..p - 1 : \A s \in q..p - 1 : s \in 1..p - 1
  OBVIOUS
<1> DEFINE f == Append(of, kind)
<1> HIDE DEF f
<1>3. {q \in 1..p - 1 : f[q] = "RELIABLE_ORDERED"} = {q \in 1..p - 1 : of[q] = "RELIABLE_ORDERED"}
  BY <1>1 DEF f
<1>4. {q \in 1..p - 1 : \A s \in q..p - 1 : f[s] # "RELIABLE_ORDERED"}
        = {q \in 1..p - 1 : \A s \in q..p - 1 : of[s] # "RELIABLE_ORDERED"}
  BY <1>1, <1>2 DEF f
<1> QED
  BY <1>3, <1>4, Zenon DEF Before, Run, f

\* Every count below that of a place is that of an ordered message before it.
LEMMA OrderedAt ==
  ASSUME NEW of, NEW p \in Nat \ {0}, NEW k \in Nat, k < Before(of, p)
  PROVE  \E w \in 1..p - 1 : of[w] = "RELIABLE_ORDERED" /\ Before(of, w) = k
<1> DEFINE T == {x \in Nat \ {0} : x <= p /\ Before(of, x) > k}
<1>1. PICK x \in T : \A y \in T : x <= y
  <2>1. p \in T /\ T \in SUBSET Nat
    OBVIOUS
  <2> HIDE DEF T
  <2> QED
    BY <2>1, LeastNumber
<1>2. x # 1
  BY BeforeSteps
<1>3. x - 1 \in Nat \ {0} /\ x - 1 \notin T
  BY <1>1, <1>2
<1>4. Before(of, x - 1) <= k
  BY <1>1, <1>3, BeforeSteps
<1>5. /\ x - 1 <= x
      /\ Before(of, x - 1) \in Nat /\ Before(of, x) \in Nat
      /\ Before(of, x) - Before(of, x - 1) \in 0..x - (x - 1)
      /\ \A y \in (x - 1)..x - 1 :
           of[y] # "RELIABLE_ORDERED" => Before(of, x) - Before(of, x - 1) < x - (x - 1)
  <2>1. x - 1 \in Nat \ {0} /\ x \in Nat \ {0} /\ x - 1 <= x
    BY <1>3
  <2> QED
    BY <2>1, BeforeSteps
<1>6. Before(of, x - 1) = k
  BY <1>1, <1>4, <1>5
<1>7. of[x - 1] = "RELIABLE_ORDERED"
  BY <1>1, <1>3, <1>4, <1>5
<1>8. x - 1 \in 1..p - 1
  BY <1>1, <1>3
<1> QED
  BY <1>6, <1>7, <1>8

(***************************************************************************)
(* The recursive functions.  Each has a solution, built one argument at a  *)
(* time.                                                                   *)
(***************************************************************************)
LEMMA HandledOneByOne ==
  ASSUME NEW result, NEW datagram, Len(datagram) \in Nat
  PROVE  \E after :
           /\ after[0] = result
           /\ \A i \in 1..Len(datagram) : after[i] = Handled(after[i - 1], datagram[i])
           /\ HandledAll(result, datagram) = after[Len(datagram)]
<1> DEFINE n == Len(datagram)
           Solves(f, k) ==
             f = [i \in 0..k |-> IF i = 0 THEN result ELSE Handled(f[i - 1], datagram[i])]
           T == {k \in 0..n : ~\E f : Solves(f, k)}
<1>1. T = {}
  <2> SUFFICES ASSUME T # {} PROVE FALSE
    OBVIOUS
  <2>1. PICK k \in T : \A y \in T : k <= y
    <3>1. T \in SUBSET Nat
      OBVIOUS
    <3> HIDE DEF T
    <3> QED
      BY <3>1, LeastNumber
  <2>2. CASE k = 0
    <3>1. Solves([i \in 0..0 |-> result], 0)
      OBVIOUS
    <3> HIDE DEF Solves
    <3> QED
      BY <2>1, <2>2, <3>1
  <2>3. CASE k # 0
    <3>1. k - 1 \in 0..n /\ k - 1 \notin T /\ k \in 1..n
      <4>1. k \in 0..n
        OBVIOUS
      <4>2. k - 1 \in 0..n /\ k \in 1..n /\ ~(k <= k - 1)
        BY <2>3, <4>1
      <4> HIDE DEF T
      <4> QED
        BY <2>1, <4>2
    <3>2. PICK f : Solves(f, k - 1)
      BY <3>1
    <3> DEFINE g == [i \in 0..k |-> IF i < k THEN f[i] ELSE Handled(f[k - 1], datagram[k])]
    <3>3. ASSUME NEW i \in 0..k
          PROVE  g[i] = IF i = 0 THEN result ELSE Handled(g[i - 1], datagram[i])
      <4>1. CASE i = k
        BY <3>1, <4>1
      <4>2. CASE i # k
        <5>1. i \in 0..(k - 1) /\ g[i] = f[i] /\ (i # 0 => g[i - 1] = f[i - 1])
          BY <3>1, <4>2
        <5> QED
          BY <3>2, <5>1
      <4> QED
        BY <4>1, <4>2
    <3>4. Solves(g, k)
      BY <3>3
    <3> HIDE DEF Solves, g
    <3> QED
      BY <2>1, <3>4
  <2> QED
    BY <2>2, <2>3
<1>2. PICK f : Solves(f, n)
  <2>1. n \in 0..n
    OBVIOUS
  <2> HIDE DEF Solves
  <2> QED
    BY <1>1, <2>1
<1> DEFINE after == CHOOSE h : Solves(h, n)
<1>3. Solves(after, n)
  <2> HIDE DEF Solves
  <2> QED
    BY <1>2
<1>4. HandledAll(result, datagram) = after[n]
  BY Zenon DEF HandledAll
<1> HIDE DEF after
<1>5. \A i \in 0..n : after[i] = IF i = 0 THEN result ELSE Handled(after[i - 1], datagram[i])
  BY <1>3
<1>6. after[0] = result /\ \A i \in 1..n : after[i] = Handled(after[i - 1], datagram[i])
  BY <1>5
<1> QED
  BY <1>4, <1>6

LEMMA PoppedOneByOne ==
  ASSUME NEW result, NEW turns \in Nat
  PROVE  \E after :
           /\ after[0] = result
           /\ \A i \in 1..turns : after[i] = Popped(after[i - 1])
           /\ Popping(result, turns) = after[turns]
<1> DEFINE Solves(f, k) ==
             f = [i \in 0..k |-> IF i = 0 THEN result ELSE Popped(f[i - 1])]
           T == {k \in 0..turns : ~\E f : Solves(f, k)}
<1>1. T = {}
  <2> SUFFICES ASSUME T # {} PROVE FALSE
    OBVIOUS
  <2>1. PICK k \in T : \A y \in T : k <= y
    <3>1. T \in SUBSET Nat
      OBVIOUS
    <3> HIDE DEF T
    <3> QED
      BY <3>1, LeastNumber
  <2>2. CASE k = 0
    <3>1. Solves([i \in 0..0 |-> result], 0)
      OBVIOUS
    <3> HIDE DEF Solves
    <3> QED
      BY <2>1, <2>2, <3>1
  <2>3. CASE k # 0
    <3>1. k - 1 \in 0..turns /\ k - 1 \notin T /\ k \in 1..turns
      <4>1. k \in 0..turns
        OBVIOUS
      <4>2. k - 1 \in 0..turns /\ k \in 1..turns /\ ~(k <= k - 1)
        BY <2>3, <4>1
      <4> HIDE DEF T
      <4> QED
        BY <2>1, <4>2
    <3>2. PICK f : Solves(f, k - 1)
      BY <3>1
    <3> DEFINE g == [i \in 0..k |-> IF i < k THEN f[i] ELSE Popped(f[k - 1])]
    <3>3. ASSUME NEW i \in 0..k
          PROVE  g[i] = IF i = 0 THEN result ELSE Popped(g[i - 1])
      <4>1. CASE i = k
        BY <3>1, <4>1
      <4>2. CASE i # k
        <5>1. i \in 0..(k - 1) /\ g[i] = f[i] /\ (i # 0 => g[i - 1] = f[i - 1])
          BY <3>1, <4>2
        <5> QED
          BY <3>2, <5>1
      <4> QED
        BY <4>1, <4>2
    <3>4. Solves(g, k)
      BY <3>3
    <3> HIDE DEF Solves, g
    <3> QED
      BY <2>1, <3>4
  <2> QED
    BY <2>2, <2>3
<1>2. PICK f : Solves(f, turns)
  <2>1. turns \in 0..turns
    OBVIOUS
  <2> HIDE DEF Solves
  <2> QED
    BY <1>1, <2>1
<1> DEFINE after == CHOOSE h : Solves(h, turns)
<1>3. Solves(after, turns)
  <2> HIDE DEF Solves
  <2> QED
    BY <1>2
<1>4. Popping(result, turns) = after[turns]
  BY Zenon DEF Popping
<1> HIDE DEF after
<1>5. \A i \in 0..turns : after[i] = IF i = 0 THEN result ELSE Popped(after[i - 1])
  BY <1>3
<1>6. after[0] = result /\ \A i \in 1..turns : after[i] = Popped(after[i - 1])
  BY <1>5
<1> QED
  BY <1>4, <1>6

(***************************************************************************)
(* Sequences.                                                              *)
(***************************************************************************)
LEMMA FunctionIsSequence ==
  ASSUME NEW S, NEW n \in Nat, NEW f \in [1..n -> S]
  PROVE  f \in Seq(S) /\ Len(f) = n /\ DOMAIN f = 1..n
<1>1. f \in Seq(S)
  BY SeqDef
<1>2. DOMAIN f = 1..n /\ DOMAIN f = 1..Len(f) /\ Len(f) \in Nat
  BY <1>1, LenProperties
<1>3. Len(f) = n
  BY <1>2
<1> QED
  BY <1>1, <1>2, <1>3

LEMMA CutSequence ==
  ASSUME NEW S, NEW q \in Seq(S), NEW k \in 0..Len(q)
  PROVE  LET c == SubSeq(q, k + 1, Len(q))
         IN /\ c \in Seq(S) /\ Len(c) = Len(q) - k /\ DOMAIN c = 1..Len(q) - k
            /\ \A i \in 1..Len(q) - k : c[i] = q[k + i]
<1> DEFINE c == SubSeq(q, k + 1, Len(q))
<1>1. /\ Len(q) \in Nat /\ k + 1 \in Int /\ Len(q) \in Int /\ k \in Nat
      /\ \A i \in (k + 1)..Len(q) : q[i] \in S
  BY LenProperties
<1>2. /\ c \in Seq(S)
      /\ Len(c) = IF k + 1 <= Len(q) THEN Len(q) - (k + 1) + 1 ELSE 0
      /\ \A i \in 1..Len(q) - (k + 1) + 1 : c[i] = q[k + 1 + i - 1]
  BY <1>1, SubSeqProperties
<1> HIDE DEF c
<1>3. Len(c) = Len(q) - k
  BY <1>1, <1>2
<1>4. \A i \in 1..Len(q) - k : c[i] = q[k + i]
  <2> SUFFICES ASSUME NEW i \in 1..Len(q) - k PROVE c[i] = q[k + i]
    OBVIOUS
  <2>1. i \in 1..Len(q) - (k + 1) + 1 /\ k + 1 + i - 1 = k + i
    BY <1>1
  <2> QED
    BY <1>2, <2>1
<1>5. DOMAIN c = 1..Len(q) - k
  BY <1>2, <1>3, LenProperties
<1> QED
  BY <1>2, <1>3, <1>4, <1>5 DEF c

(***************************************************************************)
(* The filter of duplicates.                                               *)
(***************************************************************************)
LEMMA BaseIs ==
  ASSUME NEW r \in Receivers
  PROVE  /\ Base(r) \in 1..Modulus
         /\ r.receivedPacketsBaseIndex = Wrapped(First + Base(r) - 1)
<1>1. r.receivedPacketsBaseIndex \in Indices /\ First \in Int /\ Modulus \in Nat
  BY Widths DEF Receivers
<1>2. r.receivedPacketsBaseIndex - First \in Int
  BY <1>1 DEF Indices
<1>3. Wrapped(r.receivedPacketsBaseIndex - First) \in 0..Modulus - 1
  BY <1>1, <1>2, WrappedType
<1>4. First + Base(r) - 1 = First + Wrapped(r.receivedPacketsBaseIndex - First)
  BY <1>1, <1>3 DEF Base
<1> QED
  BY <1>1, <1>3, <1>4, FromFirst DEF Base

\* How far a place is ahead, or behind beyond the whole range.
LEMMA HoleIs ==
  ASSUME NEW r \in Receivers, NEW p \in 1..MaxMessages, Base(r) <= MaxMessages + 1
  PROVE  HoleCount(r, NumberOf(p))
           = IF p >= Base(r) THEN p - Base(r) ELSE p - Base(r) + Modulus
<1>1. Base(r) \in 1..Modulus /\ r.receivedPacketsBaseIndex = Wrapped(First + Base(r) - 1)
  BY BaseIs
<1>2. /\ First \in Int /\ Modulus \in Nat /\ MaxMessages \in Nat
      /\ 2 * MaxMessages <= Modulus /\ Modulus > 0
  BY Widths
<1>3. First + p - 1 \in Int /\ First + Base(r) - 1 \in Int
      /\ First + p - 1 - (First + Base(r) - 1) = p - Base(r)
  BY <1>1, <1>2
<1>5. HoleCount(r, NumberOf(p)) = Wrapped(p - Base(r))
  <2> DEFINE x == First + p - 1
             y == First + Base(r) - 1
  <2>1. HoleCount(r, NumberOf(p)) = Wrapped(Wrapped(x) - Wrapped(y))
    BY <1>1 DEF HoleCount, NumberOf
  <2>2. x \in Int /\ y \in Int /\ x - y = p - Base(r)
    BY <1>1, <1>2, <1>3
  <2> HIDE DEF x, y
  <2>3. Wrapped(Wrapped(x) - Wrapped(y)) = Wrapped(x - y)
    BY <2>2, WrappedDifference
  <2> QED
    BY <2>1, <2>2, <2>3
<1>6. CASE p >= Base(r)
  <2>1. p - Base(r) \in Indices
    BY <1>1, <1>2, <1>6 DEF Indices
  <2> QED
    BY <1>5, <1>6, <2>1, WrappedSmall
<1>7. CASE p < Base(r)
  <2>1. p - Base(r) \in Int /\ -Modulus <= p - Base(r) /\ p - Base(r) < 0
    BY <1>1, <1>2, <1>7
  <2>2. ~(p >= Base(r))
    BY <1>1, <1>7
  <2> QED
    BY <1>5, <2>1, <2>2, WrappedNegative
<1> QED
  BY <1>1, <1>6, <1>7

\* The filter's view of the receiver, as far as the window goes.
LEMMA WindowHas ==
  ASSUME NEW r \in Receivers, NEW n \in 0..MaxMessages, Has(r) \subseteq 1..n, Filter(r, n)
  PROVE  /\ Base(r) \in 1..n + 1
         /\ Base(r) \notin Has(r)
         /\ \A w \in Has(r) : w < Base(r) + ResendBufferLength
         /\ \A w \in 1..n : w \notin Has(r) => w >= Base(r)
         /\ Len(r.hasReceivedPacketQueue) <= ResendBufferLength
<1>1. Base(r) \in 1..Modulus /\ r.hasReceivedPacketQueue \in Seq(BOOLEAN)
  BY BaseIs DEF Receivers
<1> DEFINE q == r.hasReceivedPacketQueue
           b == Base(r)
<1>2. /\ Len(q) \in Nat /\ DOMAIN q = 1..Len(q) /\ b \in Nat \ {0}
      /\ b + Len(q) <= n + 1 /\ (Len(q) > 0 => q[1]) /\ n < b + ResendBufferLength
  <2>1. Len(q) \in Nat /\ DOMAIN q = 1..Len(q) /\ b \in Nat \ {0}
    BY <1>1
  <2> QED
    BY <2>1 DEF Filter
<1>3. Has(r) = Marked(b, q)
  BY DEF Has
<1>4. MaxMessages \in Nat /\ ResendBufferLength \in Nat \ {0}
  BY Widths
<1> HIDE DEF q, b
<1>5. b \notin Marked(b, q)
  BY <1>2 DEF Marked
<1>6. \A w \in Marked(b, q) : w < b + ResendBufferLength
  BY <1>2, <1>4 DEF Marked
<1>7. \A w \in 1..n : w \notin Marked(b, q) => w >= b
  BY <1>2, <1>4 DEF Marked
<1> QED
  BY <1>2, <1>3, <1>4, <1>5, <1>6, <1>7 DEF q, b

\* What the filter takes for new is what has not been received.
LEMMA NewIs ==
  ASSUME NEW r \in Receivers, NEW n \in 0..MaxMessages, Has(r) \subseteq 1..n, Filter(r, n),
         NEW p \in 1..n
  PROVE  /\ IsNew(r, NumberOf(p)) <=> p \notin Has(r)
         /\ HoleCount(r, NumberOf(p)) < ResendBufferLength \/ HoleCount(r, NumberOf(p)) > Half
         /\ p \notin Has(r) => HoleCount(r, NumberOf(p)) = p - Base(r)
<1> DEFINE q == r.hasReceivedPacketQueue
           b == Base(r)
           hole == HoleCount(r, NumberOf(p))
<1>1. /\ MaxMessages \in Nat /\ ResendBufferLength \in Nat \ {0} /\ Half \in Nat
      /\ 4 * ResendBufferLength <= Modulus /\ 2 * MaxMessages <= Modulus /\ Modulus \in Nat
      /\ 2 * Half <= Modulus - 1 /\ Modulus - 1 < 2 * Half + 2
  BY Widths
<1>2. b \in 1..n + 1 /\ (p \notin Has(r) => p >= b) /\ b \notin Has(r) /\ n < b + ResendBufferLength
  BY WindowHas DEF Filter
<1>3. hole = IF p >= b THEN p - b ELSE p - b + Modulus
  BY <1>1, <1>2, HoleIs
<1>4. q \in Seq(BOOLEAN) /\ Has(r) = Marked(b, q)
  BY DEF Has, Receivers
<1>5. Len(q) \in Nat /\ DOMAIN q = 1..Len(q) /\ (Len(q) > 0 => q[1])
  BY <1>4 DEF Filter
<1>6. IsNew(r, NumberOf(p)) <=> (hole <= Half /\ (hole \in 1..Len(q) - 1 => q[hole + 1]))
  BY DEF IsNew
<1> HIDE DEF q, b, hole
<1>7. CASE p >= b
  <2>1. hole = p - b /\ hole <= Half /\ hole < ResendBufferLength
    BY <1>1, <1>2, <1>3, <1>7
  <2>2. p \in Marked(b, q) <=> (hole + 1 \in 1..Len(q) /\ ~q[hole + 1])
    BY <1>1, <1>2, <1>5, <1>7, <2>1 DEF Marked
  <2>3. hole = 0 => p \notin Marked(b, q)
    BY <1>5, <2>1, <2>2
  <2>4. hole # 0 => (hole + 1 \in 1..Len(q) <=> hole \in 1..Len(q) - 1)
    BY <1>2, <1>5, <2>1
  <2>5. IsNew(r, NumberOf(p)) <=> p \notin Marked(b, q)
    BY <1>6, <2>1, <2>2, <2>3, <2>4
  <2> QED
    BY <1>4, <2>1, <2>5 DEF hole, b
<1>8. CASE p < b
  <2>1. hole \in Int /\ hole > Half /\ ~(hole <= Half)
    BY <1>1, <1>2, <1>3, <1>8
  <2>2. p \in Has(r)
    BY <1>2, <1>8
  <2> QED
    BY <1>1, <1>6, <2>1, <2>2 DEF hole, b
<1> QED
  BY <1>2, <1>7, <1>8

LEMMA FilledMarks ==
  ASSUME NEW b \in Nat \ {0}, NEW q \in Seq(BOOLEAN), NEW hole \in Nat, b + hole <= MaxMessages
  PROVE  /\ Filled(q, hole) \in Seq(BOOLEAN)
         /\ Len(Filled(q, hole)) = IF hole < Len(q) THEN Len(q) ELSE hole + 1
         /\ Marked(b, Filled(q, hole)) = Marked(b, q) \cup {b + hole}
<1> DEFINE f == Filled(q, hole)
           n == IF hole < Len(q) THEN Len(q) ELSE hole + 1
<1>1. Len(q) \in Nat /\ DOMAIN q = 1..Len(q) /\ n \in Nat /\ MaxMessages \in Nat
  BY Widths
<1>2. f \in [1..n -> BOOLEAN] /\ \A i \in 1..n : f[i] <=> i # hole + 1 /\ (i <= Len(q) => q[i])
  <2>1. CASE hole < Len(q)
    <3>1. f = [q EXCEPT ![hole + 1] = FALSE] /\ n = Len(q) /\ hole + 1 \in 1..Len(q)
      BY <1>1, <2>1 DEF Filled
    <3>2. q \in [1..Len(q) -> BOOLEAN]
      BY LenProperties
    <3>3. \A i \in 1..Len(q) : f[i] = IF i = hole + 1 THEN FALSE ELSE q[i]
      BY <3>1, <3>2
    <3>4. f \in [1..n -> BOOLEAN]
      BY <3>1, <3>2
    <3> QED
      BY <3>1, <3>3, <3>4
  <2>2. CASE ~(hole < Len(q))
    <3> DEFINE t == [i \in 1..hole - Len(q) |-> TRUE]
    <3>1. f = Append(q \o t, FALSE) /\ n = hole + 1
      BY <2>2 DEF Filled
    <3>2. hole - Len(q) \in Nat /\ t \in [1..hole - Len(q) -> BOOLEAN]
          /\ \A i \in 1..hole - Len(q) : t[i]
      BY <1>1, <2>2
    <3> HIDE DEF t
    <3>3. t \in Seq(BOOLEAN) /\ Len(t) = hole - Len(q)
      BY <3>2, FunctionIsSequence
    <3>4. /\ q \o t \in Seq(BOOLEAN) /\ Len(q \o t) = Len(q) + Len(t)
          /\ \A i \in 1..Len(q) + Len(t) : (q \o t)[i] = IF i <= Len(q) THEN q[i] ELSE t[i - Len(q)]
      BY <3>3, ConcatProperties
    <3>5. Len(q \o t) = hole
      BY <1>1, <3>3, <3>4
    <3>6. /\ f \in Seq(BOOLEAN) /\ Len(f) = hole + 1
          /\ \A i \in 1..hole : f[i] = (q \o t)[i]
          /\ ~f[hole + 1]
      <4> DEFINE u == q \o t
                 e == FALSE
      <4>1. u \in Seq(BOOLEAN) /\ Len(u) = hole /\ f = Append(u, e) /\ e \in BOOLEAN /\ ~e
        BY <3>1, <3>4, <3>5
      <4> HIDE DEF u, e, f
      <4>2. /\ Append(u, e) \in Seq(BOOLEAN) /\ Len(Append(u, e)) = Len(u) + 1
            /\ \A i \in 1..Len(u) : Append(u, e)[i] = u[i]
            /\ Append(u, e)[Len(u) + 1] = e
        BY <4>1, AppendProperties
      <4> QED
        BY <4>1, <4>2 DEF u
    <3>7. f \in [1..n -> BOOLEAN]
      BY <3>1, <3>6, LenProperties
    <3>8. ASSUME NEW i \in 1..n PROVE f[i] <=> i # hole + 1 /\ (i <= Len(q) => q[i])
      <4>1. CASE i = hole + 1
        BY <3>6, <4>1
      <4>2. CASE i # hole + 1 /\ i <= Len(q)
        <5>1. i \in 1..hole /\ i \in 1..Len(q) + Len(t)
          BY <1>1, <3>1, <3>3, <4>2
        <5>2. f[i] = q[i]
          BY <3>4, <3>6, <4>2, <5>1
        <5> QED
          BY <4>2, <5>2
      <4>3. CASE i # hole + 1 /\ ~(i <= Len(q))
        <5>1. i \in 1..hole /\ i \in 1..Len(q) + Len(t) /\ i - Len(q) \in 1..hole - Len(q)
          BY <1>1, <3>1, <3>3, <4>3
        <5>2. f[i] = t[i - Len(q)] /\ t[i - Len(q)]
          BY <3>2, <3>4, <3>6, <4>3, <5>1
        <5> QED
          BY <4>3, <5>2
      <4> QED
        BY <4>1, <4>2, <4>3
    <3> QED
      BY <3>7, <3>8
  <2> QED
    BY <2>1, <2>2
<1>3. f \in Seq(BOOLEAN) /\ Len(f) = n /\ DOMAIN f = 1..n
  <2> HIDE DEF f, n
  <2> QED
    BY <1>1, <1>2, FunctionIsSequence
<1>4. ASSUME NEW p \in 1..MaxMessages
      PROVE  p \in Marked(b, f) <=> p \in Marked(b, q) \/ p = b + hole
  <2> HIDE DEF f
  <2>1. CASE p < b
    BY <2>1 DEF Marked
  <2>2. CASE p = b + hole
    <3>1. p - b + 1 = hole + 1 /\ hole + 1 \in 1..n
      BY <1>1, <2>2
    <3> QED
      BY <1>2, <1>3, <2>2, <3>1 DEF Marked
  <2>3. CASE p >= b /\ p # b + hole
    <3>1. p - b + 1 # hole + 1 /\ p - b + 1 \in Nat \ {0}
      BY <1>1, <2>3
    <3>2. p - b + 1 \in 1..n /\ ~f[p - b + 1]
            <=> p - b + 1 \in DOMAIN q /\ ~q[p - b + 1]
      BY <1>1, <1>2, <3>1
    <3> QED
      BY <1>1, <1>3, <2>3, <3>2 DEF Marked
  <2> QED
    BY <1>1, <2>1, <2>2, <2>3
<1>5. b + hole \in 1..MaxMessages
  BY <1>1
<1>6. Marked(b, f) \subseteq 1..MaxMessages /\ Marked(b, q) \subseteq 1..MaxMessages
  BY DEF Marked
<1> HIDE DEF f
<1>7. Marked(b, f) = Marked(b, q) \cup {b + hole}
  BY <1>4, <1>5, <1>6
<1> QED
  BY <1>3, <1>7 DEF f

\* What is received without a gap may be left out of the queue.
LEMMA CutMarks ==
  ASSUME NEW b \in Nat \ {0}, NEW q \in Seq(BOOLEAN), NEW k \in 0..Len(q),
         \A j \in 1..k : ~q[j]
  PROVE  /\ SubSeq(q, k + 1, Len(q)) \in Seq(BOOLEAN)
         /\ Len(SubSeq(q, k + 1, Len(q))) = Len(q) - k
         /\ k < Len(q) => SubSeq(q, k + 1, Len(q))[1] = q[k + 1]
         /\ Marked(b + k, SubSeq(q, k + 1, Len(q))) = Marked(b, q)
<1> DEFINE c == SubSeq(q, k + 1, Len(q))
<1>1. Len(q) \in Nat /\ DOMAIN q = 1..Len(q) /\ MaxMessages \in Nat
  BY Widths
<1>2. c \in Seq(BOOLEAN) /\ Len(c) = Len(q) - k /\ \A i \in 1..Len(q) - k : c[i] = q[k + i]
  BY CutSequence
<1>3. DOMAIN c = 1..Len(q) - k
  BY CutSequence
<1> HIDE DEF c
<1>4. ASSUME NEW p \in 1..MaxMessages
      PROVE  p \in Marked(b + k, c) <=> p \in Marked(b, q)
  <2>1. CASE p < b
    BY <1>1, <2>1 DEF Marked
  <2>2. CASE b <= p /\ p < b + k
    <3>1. p - b + 1 \in 1..k /\ p - b + 1 \in DOMAIN q
      BY <1>1, <2>2
    <3> QED
      BY <2>2, <3>1 DEF Marked
  <2>3. CASE p >= b + k
    <3>1. p - (b + k) + 1 \in Nat \ {0} /\ k + (p - (b + k) + 1) = p - b + 1
      BY <1>1, <2>3
    <3>2. p - (b + k) + 1 \in DOMAIN c <=> p - b + 1 \in DOMAIN q
      BY <1>1, <1>3, <2>3
    <3>3. p - (b + k) + 1 \in DOMAIN c => c[p - (b + k) + 1] = q[p - b + 1]
      BY <1>2, <1>3, <3>1
    <3>4. ~(p < b) /\ ~(p < b + k)
      BY <1>1, <2>3
    <3> QED
      BY <3>2, <3>3, <3>4 DEF Marked
  <2> QED
    BY <1>1, <2>1, <2>2, <2>3
<1>5. Marked(b + k, c) \subseteq 1..MaxMessages /\ Marked(b, q) \subseteq 1..MaxMessages
  BY DEF Marked
<1>6. k < Len(q) => c[1] = q[k + 1]
  BY <1>1, <1>2
<1>7. Marked(b + k, c) = Marked(b, q)
  BY <1>4, <1>5
<1> QED
  BY <1>2, <1>6, <1>7 DEF c

\* How much has been received without a gap.
LEMMA GapAt ==
  ASSUME NEW q \in Seq(BOOLEAN)
  PROVE  LET k == Cardinality({i \in DOMAIN q : \A j \in 1..i : ~q[j]})
         IN k \in 0..Len(q) /\ (\A j \in 1..k : ~q[j]) /\ (k < Len(q) => q[k + 1])
<1> DEFINE T == {i \in 1..Len(q) : q[i]}
           S == {i \in DOMAIN q : \A j \in 1..i : ~q[j]}
<1>1. Len(q) \in Nat /\ DOMAIN q = 1..Len(q)
  OBVIOUS
<1>2. \E k \in 0..Len(q) : (\A j \in 1..k : ~q[j]) /\ (k < Len(q) => q[k + 1])
  <2>1. CASE T = {}
    BY <1>1, <2>1
  <2>2. CASE T # {}
    <3>1. T \in SUBSET Nat
      BY <1>1
    <3>2. PICK x \in T : \A y \in T : x <= y
      <4> HIDE DEF T
      <4> QED
        BY <2>2, <3>1, LeastNumber
    <3>3. x - 1 \in 0..Len(q) /\ x - 1 + 1 = x /\ q[x]
      BY <1>1
    <3>4. \A j \in 1..x - 1 : j \notin T /\ j \in 1..Len(q)
      BY <1>1, <3>2
    <3>5. \A j \in 1..x - 1 : ~q[j]
      BY <3>4
    <3> QED
      BY <3>3, <3>5
  <2> QED
    BY <2>1, <2>2
<1>3. PICK k \in 0..Len(q) : (\A j \in 1..k : ~q[j]) /\ (k < Len(q) => q[k + 1])
  BY <1>2
<1>4. S = 1..k
  <2>1. 1..k \subseteq S
    BY <1>1, <1>3
  <2>2. ASSUME NEW i \in S, i > k PROVE FALSE
    BY <1>1, <1>3, <2>2
  <2> QED
    BY <1>1, <2>1, <2>2
<1>5. Cardinality(1..k) = k
  <2>1. 1 \in Int /\ k \in Int
    BY <1>1
  <2>2. Cardinality(1..k) = IF 1 > k THEN 0 ELSE k - 1 + 1
    BY <2>1, FS_Interval
  <2> QED
    BY <1>1, <2>2
<1> QED
  BY <1>3, <1>4, <1>5

\* Receiving a new message marks its place, and changes nothing of the order.
LEMMA ReceivedFilter ==
  ASSUME NEW r \in Receivers, NEW n \in 0..MaxMessages, Has(r) \subseteq 1..n, Filter(r, n),
         NEW p \in 1..n, p \notin Has(r), NEW s, s = Received(r, NumberOf(p))
  PROVE  /\ s \in Receivers
         /\ Has(s) = Has(r) \cup {p} /\ Filter(s, n)
         /\ s.orderedReadIndex = r.orderedReadIndex
         /\ s.highestSequencedReadIndex = r.highestSequencedReadIndex
         /\ s.orderingHeap = r.orderingHeap /\ s.heapIndexOffset = r.heapIndexOffset
<1> DEFINE q == r.hasReceivedPacketQueue
           b == Base(r)
           f == Filled(q, p - b)
           k == Cardinality({i \in DOMAIN f : \A j \in 1..i : ~f[j]})
           c == SubSeq(f, k + 1, Len(f))
           i2 == Wrapped(r.receivedPacketsBaseIndex + k)
<1>1. /\ MaxMessages \in Nat /\ ResendBufferLength \in Nat \ {0} /\ Modulus \in Nat \ {0}
      /\ 2 * MaxMessages <= Modulus /\ First \in Int
  BY Widths
<1>2. b \in 1..n + 1 /\ p >= b
  BY WindowHas
<1>3. HoleCount(r, NumberOf(p)) = p - b
  BY NewIs
<1>4. q \in Seq(BOOLEAN) /\ b + Len(q) <= n + 1 /\ n < b + ResendBufferLength /\ Len(q) \in Nat
  BY DEF Receivers, Filter
<1>5. /\ f \in Seq(BOOLEAN)
      /\ Len(f) = IF p - b < Len(q) THEN Len(q) ELSE p - b + 1
      /\ Marked(b, f) = Marked(b, q) \cup {p}
  <2>1. b \in Nat \ {0} /\ p - b \in Nat /\ b + (p - b) <= MaxMessages /\ b + (p - b) = p
    BY <1>1, <1>2
  <2> HIDE DEF q, b
  <2> QED
    BY <1>4, <2>1, FilledMarks
<1>6. Len(f) \in Nat /\ b + Len(f) <= n + 1
  BY <1>1, <1>2, <1>4, <1>5
<1>7. k \in 0..Len(f) /\ (\A j \in 1..k : ~f[j]) /\ (k < Len(f) => f[k + 1])
  <2> HIDE DEF f
  <2> QED
    BY <1>5, GapAt
<1>8. /\ c \in Seq(BOOLEAN) /\ Len(c) = Len(f) - k
      /\ k < Len(f) => c[1] = f[k + 1]
      /\ Marked(b + k, c) = Marked(b, f)
  <2>1. b \in Nat \ {0}
    BY <1>2
  <2> HIDE DEF f, k, b
  <2> QED
    BY <1>5, <1>7, <2>1, CutMarks
<1>9. s = [[r EXCEPT !.receivedPacketsBaseIndex = i2] EXCEPT !.hasReceivedPacketQueue = c]
  BY <1>3 DEF Received, Advanced
<1>10. r.receivedPacketsBaseIndex = Wrapped(First + b - 1)
  BY BaseIs
<1> HIDE DEF q, b, f, k, c
<1>11. i2 \in Indices /\ Wrapped(i2 - First) = b + k - 1
  <2> DEFINE x == First + b - 1
             y == b + k - 1
  <2>1. x \in Int /\ k \in Int /\ y \in Nat /\ x + k = First + y /\ y < Modulus /\ First + y \in Int
    BY <1>1, <1>2, <1>6, <1>7
  <2> HIDE DEF x, y
  <2>2. Wrapped(Wrapped(x) + k) = Wrapped(x + k)
    BY <2>1, WrappedPlus
  <2>3. i2 = Wrapped(First + y)
    BY <1>10, <2>1, <2>2 DEF x
  <2>4. Wrapped(i2 - First) = y
    BY <2>1, <2>3, FromFirst
  <2>5. i2 \in Indices
    BY <2>1, <2>3, WrappedType
  <2> QED
    BY <2>4, <2>5 DEF y
<1> HIDE DEF i2
<1>12. /\ s \in Receivers
       /\ s.receivedPacketsBaseIndex = i2 /\ s.hasReceivedPacketQueue = c
       /\ s.orderedReadIndex = r.orderedReadIndex
       /\ s.highestSequencedReadIndex = r.highestSequencedReadIndex
       /\ s.orderingHeap = r.orderingHeap /\ s.heapIndexOffset = r.heapIndexOffset
  BY <1>8, <1>9, <1>11 DEF Receivers
<1>13. Base(s) = b + k
  BY <1>2, <1>7, <1>11, <1>12 DEF Base
<1>14. Has(s) = Has(r) \cup {p}
  BY <1>5, <1>8, <1>12, <1>13 DEF Has, q, b
<1>15. Filter(s, n)
  <2>1. b + k + Len(c) <= n + 1 /\ n < b + k + ResendBufferLength
    BY <1>1, <1>2, <1>4, <1>6, <1>7, <1>8
  <2>2. ASSUME c # <<>> PROVE c[1]
    <3>1. Len(c) > 0
      BY <1>8, <2>2
    <3>2. k < Len(f)
      BY <1>6, <1>7, <1>8, <3>1
    <3> QED
      BY <1>7, <1>8, <3>2
  <2> QED
    BY <1>12, <1>13, <2>1, <2>2 DEF Filter
<1> QED
  BY <1>12, <1>14, <1>15

(***************************************************************************)
(* Messages and indices.                                                   *)
(***************************************************************************)
LEMMA MessageType ==
  ASSUME NEW of \in Seq(Kinds), Len(of) <= MaxMessages, NEW p \in 1..Len(of)
  PROVE  /\ MessageAt(of, p) \in Messages /\ EntryAt(of, p) \in Numbered
         /\ of[p] \in {"RELIABLE_ORDERED", "RELIABLE_SEQUENCED"}
         /\ Before(of, p) \in 0..p - 1 /\ Run(of, p) \in 0..p - 1
         /\ Before(of, p) < Modulus - 1 /\ Run(of, p) < Modulus - 1
         /\ Run(of, p) < HoleWeight - 1
<1>1. /\ MaxMessages \in Nat /\ Modulus \in Nat /\ First \in Int /\ Modulus > 0
      /\ 2 * MaxMessages <= Modulus /\ MaxMessages < HoleWeight /\ HoleWeight \in Nat
  BY Widths
<1>2. Len(of) \in Nat /\ p \in Nat \ {0} /\ p <= p /\ p <= MaxMessages
  BY <1>1
<1>3. Before(of, p) \in 0..p - 1 /\ Run(of, p) \in 0..p - 1
  BY <1>2, BeforeSteps, RunType
<1>4. of[p] \in Kinds /\ of[p] \in {"RELIABLE_ORDERED", "RELIABLE_SEQUENCED"}
  <2>1. of[p] \in Kinds
    OBVIOUS
  <2> QED
    BY <2>1, KindsAssumption
<1>5. /\ Before(of, p) < Modulus - 1 /\ Run(of, p) < Modulus - 1
      /\ Run(of, p) < HoleWeight - 1
  BY <1>1, <1>2, <1>3
<1>6. First + Before(of, p) \in Int /\ First + p - 1 \in Int
  BY <1>1, <1>2, <1>3
<1>7. Wrapped(First + Before(of, p)) \in Indices /\ NumberOf(p) \in Indices
  BY <1>6, WrappedType DEF NumberOf
<1>8. Run(of, p) \in Indices /\ 0 \in Indices
  BY <1>1, <1>3, <1>5 DEF Indices
<1>9. MessageAt(of, p) \in Messages
  BY <1>1, <1>2, <1>4, <1>7, <1>8 DEF MessageAt, Messages
<1>10. EntryAt(of, p) \in Numbered
  BY <1>7, <1>9 DEF EntryAt, Numbered
<1> QED
  BY <1>3, <1>4, <1>5, <1>9, <1>10

LEMMA ReadsIs ==
  ASSUME NEW r \in Receivers
  PROVE  /\ Reads(r) \in 0..Modulus - 1 /\ r.orderedReadIndex = Wrapped(First + Reads(r))
         /\ \A x \in Nat : x < Modulus => (Wrapped(First + x) = r.orderedReadIndex <=> x = Reads(r))
<1>1. r.orderedReadIndex \in Indices /\ First \in Int /\ Modulus \in Nat \ {0}
  BY Widths DEF Receivers
<1>2. r.orderedReadIndex - First \in Int
  BY <1>1 DEF Indices
<1>3. Reads(r) \in 0..Modulus - 1 /\ r.orderedReadIndex = Wrapped(First + Reads(r))
  BY <1>1, <1>2, WrappedType, FromFirst DEF Reads
<1>4. ASSUME NEW x \in Nat, x < Modulus, Wrapped(First + x) = r.orderedReadIndex
      PROVE  x = Reads(r)
  BY <1>4, FromFirst DEF Reads
<1> QED
  BY <1>3, <1>4

LEMMA OlderUnfolds ==
  ASSUME NEW u \in Indices, NEW v \in Indices
  PROVE  IsOlderOrderedPacket(u, v)
           <=> IF v > Half THEN v - Half + 1 <= u /\ u < v
               ELSE v - (Half + 1) + Modulus <= u \/ u < v
<1>1. Modulus \in Nat \ {0} /\ Half \in Nat /\ 2 * Half <= Modulus - 1
  BY Widths
<1>2. v \in 0..Modulus - 1
  BY <1>1 DEF Indices
<1>3. CASE v > Half
  BY <1>3 DEF IsOlderOrderedPacket
<1>4. CASE ~(v > Half)
  <2>1. v - (Half + 1) \in Int /\ -Modulus <= v - (Half + 1) /\ v - (Half + 1) < 0
    BY <1>1, <1>2, <1>4
  <2>2. Wrapped(v - (Half + 1)) = v - (Half + 1) + Modulus
    BY <2>1, WrappedNegative
  <2> QED
    BY <1>4, <2>2 DEF IsOlderOrderedPacket
<1> QED
  BY <1>3, <1>4

\* Half the range is enough to tell old from new.
LEMMA OlderByGap ==
  ASSUME NEW u \in Indices, NEW v \in Indices, NEW gap \in Int, u = Wrapped(v + gap)
  PROVE  /\ 1 - Half <= gap /\ gap <= -1 => IsOlderOrderedPacket(u, v)
         /\ 0 <= gap /\ gap <= Half - 1 => ~IsOlderOrderedPacket(u, v)
<1>1. Modulus \in Nat \ {0} /\ Half \in Nat /\ 2 * Half <= Modulus - 1
  BY Widths
<1>2. u \in 0..Modulus - 1 /\ v \in 0..Modulus - 1 /\ u \in Int /\ v \in Int
  BY <1>1 DEF Indices
<1>3. IsOlderOrderedPacket(u, v)
        <=> IF v > Half THEN v - Half + 1 <= u /\ u < v
            ELSE v - (Half + 1) + Modulus <= u \/ u < v
  BY OlderUnfolds
<1> DEFINE d == v + gap
<1>4. d \in Int /\ u = Wrapped(d) /\ d = v + gap
  BY <1>2
<1> HIDE DEF d
<1>5. CASE 0 <= d /\ d < Modulus
  <2>1. d \in Indices
    BY <1>1, <1>4, <1>5 DEF Indices
  <2>2. u = d
    BY <1>4, <2>1, WrappedSmall
  <2> QED
    BY <1>1, <1>2, <1>3, <1>4, <1>5, <2>2
<1>6. CASE -Modulus <= d /\ d < 0
  <2>1. u = d + Modulus
    BY <1>4, <1>6, WrappedNegative
  <2> QED
    BY <1>1, <1>2, <1>3, <1>4, <1>6, <2>1
<1>7. CASE Modulus <= d /\ d < 2 * Modulus
  <2>1. d - Modulus \in Indices /\ d = 1 * Modulus + (d - Modulus) /\ 1 \in Int
    BY <1>1, <1>4, <1>7 DEF Indices
  <2>2. u = d - Modulus
    BY <1>4, <2>1, WrappedIs
  <2> QED
    BY <1>1, <1>2, <1>3, <1>4, <1>7, <2>2
<1>8. CASE d < -Modulus \/ 2 * Modulus <= d
  BY <1>1, <1>2, <1>4, <1>8
<1> QED
  BY <1>1, <1>4, <1>5, <1>6, <1>7, <1>8

LEMMA OlderIs ==
  ASSUME NEW x \in Int, NEW y \in Int
  PROVE  /\ 1 <= y - x /\ y - x <= Half - 1 => IsOlderOrderedPacket(Wrapped(x), Wrapped(y))
         /\ 0 <= x - y /\ x - y <= Half - 1 => ~IsOlderOrderedPacket(Wrapped(x), Wrapped(y))
<1> DEFINE gap == x - y
<1>1. gap \in Int /\ y + gap = x /\ y - x = -gap /\ Half \in Nat
  BY Widths
<1>2. Wrapped(x) \in Indices /\ Wrapped(y) \in Indices
  BY WrappedType
<1> HIDE DEF gap
<1>3. Wrapped(Wrapped(y) + gap) = Wrapped(x)
  BY <1>1, WrappedPlus
<1>4. /\ 1 - Half <= gap /\ gap <= -1 => IsOlderOrderedPacket(Wrapped(x), Wrapped(y))
      /\ 0 <= gap /\ gap <= Half - 1 => ~IsOlderOrderedPacket(Wrapped(x), Wrapped(y))
  BY <1>1, <1>2, <1>3, OlderByGap
<1>5. /\ 1 <= y - x /\ y - x <= Half - 1 => 1 - Half <= gap /\ gap <= -1
      /\ x - y = gap
  BY <1>1 DEF gap
<1> QED
  BY <1>4, <1>5

(***************************************************************************)
(* The heap.                                                               *)
(***************************************************************************)
LEMMA WeightIs ==
  ASSUME NEW of \in Seq(Kinds), Len(of) <= MaxMessages, NEW p \in 1..Len(of),
         NEW o \in Indices, Wrapped(o - First) <= Before(of, p)
  PROVE  Weight(o, MessageAt(of, p))
           = (Before(of, p) - Wrapped(o - First)) * HoleWeight
               + IF of[p] = "RELIABLE_SEQUENCED" THEN Run(of, p) ELSE HoleWeight - 1
<1> DEFINE off == Wrapped(o - First)
           x == First + Before(of, p)
           y == First + off
<1>1. First \in Int /\ Modulus \in Nat /\ o \in Int
  BY Widths DEF Indices
<1>2. Before(of, p) \in Nat /\ Before(of, p) < Modulus
  <2>1. Before(of, p) \in 0..p - 1 /\ Before(of, p) < Modulus - 1
    BY MessageType
  <2> QED
    BY <1>1, <2>1
<1>3. off \in Nat /\ o = Wrapped(y)
  <2>1. o - First \in Int
    BY <1>1
  <2> QED
    BY <2>1, FromFirst, WrappedType
<1>4. x \in Int /\ y \in Int /\ x - y = Before(of, p) - off
  BY <1>1, <1>2, <1>3
<1>5. Before(of, p) - off \in Indices
  BY <1>1, <1>2, <1>3 DEF Indices
<1>6. MessageAt(of, p).orderingIndex = Wrapped(x) /\ MessageAt(of, p).kind = of[p]
      /\ (of[p] = "RELIABLE_SEQUENCED" => MessageAt(of, p).sequencingIndex = Run(of, p))
  BY DEF MessageAt
<1> HIDE DEF x, y, off
<1>7. Wrapped(Wrapped(x) - Wrapped(y)) = Before(of, p) - off
  BY <1>4, <1>5, WrappedDifference, WrappedSmall
<1> QED
  BY <1>3, <1>6, <1>7 DEF Weight, off

\* Messages leave the heap in the order sent.
LEMMA WeightOrder ==
  ASSUME NEW of \in Seq(Kinds), Len(of) <= MaxMessages, NEW p \in 1..Len(of),
         NEW q \in 1..Len(of), p < q,
         NEW o \in Indices, Wrapped(o - First) <= Before(of, p)
  PROVE  /\ Weight(o, MessageAt(of, p)) \in Nat
         /\ Weight(o, MessageAt(of, p)) < Weight(o, MessageAt(of, q))
<1> DEFINE off == Wrapped(o - First)
           a == Before(of, p) - off
           b == Before(of, q) - off
           v == IF of[p] = "RELIABLE_SEQUENCED" THEN Run(of, p) ELSE HoleWeight - 1
           w == IF of[q] = "RELIABLE_SEQUENCED" THEN Run(of, q) ELSE HoleWeight - 1
<1>1. /\ Before(of, p) \in 0..p - 1 /\ Run(of, p) \in 0..p - 1 /\ Run(of, p) < HoleWeight - 1
      /\ Before(of, q) \in 0..q - 1 /\ Run(of, q) \in 0..q - 1 /\ Run(of, q) < HoleWeight - 1
      /\ of[p] \in {"RELIABLE_ORDERED", "RELIABLE_SEQUENCED"}
      /\ of[q] \in {"RELIABLE_ORDERED", "RELIABLE_SEQUENCED"}
  BY MessageType
<1>2. HoleWeight \in Nat /\ HoleWeight > 0 /\ off \in Nat /\ Len(of) \in Nat
  <2>1. o - First \in Int
    BY Widths DEF Indices
  <2> QED
    BY <2>1, Widths, WrappedType
<1>3. /\ p \in Nat \ {0} /\ q \in Nat \ {0} /\ p <= q /\ p \in p..q - 1
  BY <1>2
<1>4. /\ Before(of, q) - Before(of, p) \in 0..q - p
      /\ \A x \in p..q - 1 : of[x] = "RELIABLE_ORDERED" => Before(of, p) < Before(of, q)
      /\ Before(of, p) = Before(of, q) => \A x \in p..q - 1 : of[x] # "RELIABLE_ORDERED"
  BY <1>3, BeforeSteps
<1>5. a \in Nat /\ b \in Nat /\ a <= b /\ (a = b => Before(of, p) = Before(of, q))
  <2>1. off <= Before(of, p)
    OBVIOUS
  <2>2. Before(of, p) \in Nat /\ Before(of, q) \in Nat /\ Before(of, p) <= Before(of, q)
    BY <1>1, <1>2, <1>4
  <2> HIDE DEF off
  <2> QED
    BY <1>2, <2>1, <2>2
<1>6. v \in 0..HoleWeight - 1 /\ w \in 0..HoleWeight - 1
  BY <1>1, <1>2
<1>7. off <= Before(of, q)
  BY <1>1, <1>2, <1>4
<1>8. /\ Weight(o, MessageAt(of, p)) = a * HoleWeight + v
      /\ Weight(o, MessageAt(of, q)) = b * HoleWeight + w
  BY <1>7, WeightIs
<1>9. a = b => v < w
  <2> SUFFICES ASSUME a = b PROVE v < w
    OBVIOUS
  <2>1. \A x \in p..q - 1 : of[x] # "RELIABLE_ORDERED"
    BY <1>4, <1>5
  <2>2. Run(of, q) = Run(of, p) + (q - p) /\ of[p] = "RELIABLE_SEQUENCED"
    BY <1>1, <1>3, <2>1, RunSteps
  <2> QED
    BY <1>1, <1>3, <2>2
<1> HIDE DEF a, b, v, w
<1>10. a * HoleWeight + v \in Nat
  <2>1. a * HoleWeight \in Nat
    BY <1>2, <1>5
  <2> QED
    BY <1>2, <1>6, <2>1
<1>11. a * HoleWeight + v < b * HoleWeight + w
  <2>1. CASE a = b
    <3>1. a * HoleWeight \in Nat /\ v \in Nat /\ w \in Nat
      BY <1>2, <1>5, <1>6
    <3> QED
      BY <1>9, <2>1, <3>1
  <2>2. CASE a < b
    <3>1. (b - a) * HoleWeight >= 1 * HoleWeight
      <4>1. b - a >= 1 /\ b - a \in Nat
        BY <1>5, <2>2
      <4> QED
        BY <1>2, <4>1, SMT
    <3>2. b * HoleWeight = a * HoleWeight + (b - a) * HoleWeight
      BY <1>2, <1>5, SMT
    <3>3. a * HoleWeight \in Nat /\ (b - a) * HoleWeight \in Int /\ b * HoleWeight \in Nat
      BY <1>2, <1>5, <2>2
    <3> QED
      BY <1>2, <1>6, <3>1, <3>2, <3>3
  <2> QED
    BY <1>5, <2>1, <2>2
<1> QED
  BY <1>8, <1>10, <1>11

LEMMA TopIs ==
  ASSUME NEW heap \in SUBSET HeapEntries, heap # {}
  PROVE  Top(heap) \in heap /\ \A other \in heap : Top(heap).weight <= other.weight
<1> DEFINE T == {entry.weight : entry \in heap}
<1>1. T \in SUBSET Nat /\ T # {}
  BY DEF HeapEntries
<1>2. PICK x \in T : \A y \in T : x <= y
  <2> HIDE DEF T
  <2> QED
    BY <1>1, LeastNumber
<1>3. PICK entry \in heap : entry.weight = x
  OBVIOUS
<1>4. \A other \in heap : entry.weight <= other.weight
  BY <1>2, <1>3
<1> QED
  BY <1>4, Zenon DEF Top

\* Ordered messages have indices of their own.
LEMMA OrderedApart ==
  ASSUME NEW of, NEW p \in Nat \ {0}, NEW q \in Nat \ {0}
  PROVE  /\ p <= q => Before(of, p) <= Before(of, q)
         /\ p < q /\ of[p] = "RELIABLE_ORDERED" => Before(of, p) < Before(of, q)
         /\ Before(of, p) \in Nat
<1>1. CASE p <= q
  <2>1. /\ Before(of, p) \in 0..p - 1 /\ Before(of, q) \in 0..q - 1
        /\ Before(of, q) - Before(of, p) \in 0..q - p
        /\ \A x \in p..q - 1 : of[x] = "RELIABLE_ORDERED" => Before(of, p) < Before(of, q)
    BY <1>1, BeforeSteps
  <2>2. p < q => p \in p..q - 1
    OBVIOUS
  <2> QED
    BY <2>1, <2>2
<1>2. CASE ~(p <= q)
  <2>1. Before(of, p) \in 0..p - 1
    <3>1. p <= p
      OBVIOUS
    <3> QED
      BY <3>1, BeforeSteps
  <2> QED
    BY <1>2, <2>1
<1> QED
  BY <1>1, <1>2

LEMMA WeightType ==
  ASSUME NEW o \in Indices, NEW m \in Messages
  PROVE  Weight(o, m) \in Nat
<1>1. m.orderingIndex - o \in Int /\ m.sequencingIndex \in Nat
  BY Widths DEF Messages, Indices
<1>2. Wrapped(m.orderingIndex - o) \in Nat /\ HoleWeight \in Nat /\ HoleWeight > 0
  BY <1>1, WrappedType, Widths
<1>3. Wrapped(m.orderingIndex - o) * HoleWeight \in Nat
  BY <1>2
<1> QED
  BY <1>1, <1>2, <1>3 DEF Weight

(***************************************************************************)
(* Giving a message to the user.                                           *)
(***************************************************************************)
Ordering(got, r, out, of) ==
  /\ of \in Seq(Kinds) /\ Len(of) <= MaxMessages
  /\ got \in SUBSET (1..Len(of))
  /\ r \in Receivers
  /\ Order(got, r, out, of)

\* The ordered messages that have been given out, with one more of this kind.
ReadsAfter(r, kind) == IF kind = "RELIABLE_ORDERED" THEN Reads(r) + 1 ELSE Reads(r)

\* Whether the message at a place may be given out next.
IsNext(r, out, of, p) ==
  /\ p \in 1..Len(of) /\ Before(of, p) = Reads(r)
  /\ \A i \in DOMAIN out : out[i] < p

\* As Order, but for what is in the heap and for the message given out last.
LEMMA GivenOut ==
  ASSUME NEW got, NEW r, NEW out, NEW of, Ordering(got, r, out, of),
         NEW p, IsNext(r, out, of, p),
         NEW s \in Receivers,
         Reads(s) = ReadsAfter(r, of[p])
  PROVE  OutInOrder(got \cup {p}, s, Append(out, p), of) /\ AllGiven(s, Append(out, p), of)
<1> DEFINE next == Append(out, p)
<1>1. /\ of \in Seq(Kinds) /\ Len(of) \in Nat /\ DOMAIN of = 1..Len(of)
      /\ got \in SUBSET (1..Len(of)) /\ Reads(r) \in Nat
      /\ p \in Nat \ {0} /\ Len(of) + 1 \in Nat \ {0} /\ p < Len(of) + 1
      /\ Reads(s) = IF of[p] = "RELIABLE_ORDERED" THEN Reads(r) + 1 ELSE Reads(r)
      /\ \A w \in got : w \in Nat \ {0}
      /\ p \in 1..Len(of) /\ Before(of, p) = Reads(r) /\ \A i \in DOMAIN out : out[i] < p
  BY ReadsIs DEF Ordering, ReadsAfter, IsNext
<1>2. OutInOrder(got, r, out, of) /\ AllGiven(r, out, of) /\ NoneSkipped(got, r, of)
  BY DEF Ordering, Order
<1>3. out \in Seq(got) /\ out \in Seq(got \cup {p})
  <2>1. out \in Seq(got)
    BY <1>2 DEF OutInOrder
  <2> QED
    BY <2>1
<1>4. /\ next \in Seq(got \cup {p}) /\ Len(next) = Len(out) + 1 /\ Len(out) \in Nat
      /\ DOMAIN out = 1..Len(out) /\ DOMAIN next = 1..Len(out) + 1
      /\ next[Len(out) + 1] = p
      /\ \A i \in 1..Len(out) : next[i] = out[i]
  BY <1>3
<1> HIDE DEF next
<1>5. OutInOrder(got \cup {p}, s, next, of)
  <2>1. ASSUME NEW i \in DOMAIN next, NEW j \in DOMAIN next, i < j
        PROVE  next[i] < next[j]
    <3>1. CASE j = Len(out) + 1
      <4>1. i \in 1..Len(out) /\ next[i] = out[i] /\ next[j] = p
        BY <1>4, <2>1, <3>1
      <4> QED
        BY <1>1, <1>4, <4>1
    <3>2. CASE j # Len(out) + 1
      <4>1. i \in DOMAIN out /\ j \in DOMAIN out
        BY <1>4, <2>1, <3>2
      <4> QED
        BY <1>2, <1>4, <2>1, <4>1 DEF OutInOrder
    <3> QED
      BY <3>1, <3>2
  <2>2. ASSUME NEW i \in DOMAIN next
        PROVE  /\ Before(of, next[i]) <= Reads(s)
               /\ of[next[i]] = "RELIABLE_ORDERED" => Before(of, next[i]) < Reads(s)
    <3>1. CASE i = Len(out) + 1
      BY <1>1, <1>4, <3>1
    <3>2. CASE i # Len(out) + 1
      <4>1. i \in DOMAIN out /\ next[i] = out[i]
        BY <1>4, <3>2
      <4>2. /\ Before(of, out[i]) <= Reads(r)
            /\ of[out[i]] = "RELIABLE_ORDERED" => Before(of, out[i]) < Reads(r)
        BY <1>2, <4>1 DEF OutInOrder
      <4>3. Before(of, out[i]) \in Nat
        <5>1. out[i] \in Nat \ {0}
          <6>1. out[i] \in got
            BY <1>3, <4>1
          <6> QED
            BY <1>1, <6>1
        <5> QED
          BY <5>1, OrderedApart
      <4> QED
        BY <1>1, <4>1, <4>2, <4>3
    <3> QED
      BY <3>1, <3>2
  <2> QED
    BY <1>4, <2>1, <2>2 DEF OutInOrder
<1>6. Reads(s) <= Before(of, Len(of) + 1)
  <2>1. Reads(r) <= Before(of, Len(of) + 1)
    BY <1>2 DEF AllGiven
  <2>2. of[p] = "RELIABLE_ORDERED" => Before(of, p) < Before(of, Len(of) + 1)
    BY <1>1, OrderedApart
  <2>3. Before(of, Len(of) + 1) \in Nat
    BY <1>1, OrderedApart
  <2> QED
    BY <1>1, <2>1, <2>2, <2>3
<1>7. ASSUME NEW q \in DOMAIN of, of[q] = "RELIABLE_ORDERED", Before(of, q) < Reads(s)
      PROVE  \E i \in DOMAIN next : next[i] = q
  <2>1. q \in Nat \ {0} /\ Before(of, q) \in Nat /\ Before(of, p) \in Nat
    BY <1>1, OrderedApart
  <2>2. CASE Before(of, q) < Reads(r)
    <3>1. PICK i \in DOMAIN out : out[i] = q
      BY <1>2, <1>7, <2>2 DEF AllGiven
    <3> QED
      BY <1>4, <3>1
  <2>3. CASE ~(Before(of, q) < Reads(r))
    <3>1. of[p] = "RELIABLE_ORDERED" /\ Before(of, q) = Before(of, p)
      BY <1>1, <1>7, <2>1, <2>3
    <3>2. ~(p < q) /\ ~(q < p)
      BY <1>1, <1>7, <2>1, <3>1, OrderedApart
    <3>3. p = q
      BY <1>1, <2>1, <3>2
    <3>4. Len(out) + 1 \in DOMAIN next
      BY <1>4
    <3> QED
      BY <1>4, <3>3, <3>4
  <2> QED
    BY <2>2, <2>3
<1> QED
  BY <1>1, <1>5, <1>6, <1>7 DEF next, AllGiven

LEMMA Given ==
  ASSUME NEW got, NEW r, NEW out, NEW of, Ordering(got, r, out, of),
         NEW p, IsNext(r, out, of, p),
         NEW s \in Receivers,
         Reads(s) = ReadsAfter(r, of[p]),
         s.heapIndexOffset = r.heapIndexOffset,
         s.orderingHeap \subseteq r.orderingHeap,
         r.orderingHeap \ {HeapEntry(r, of, p)} \subseteq s.orderingHeap,
         \A q \in got : HeapEntry(r, of, q) \in s.orderingHeap => p < q,
         of[p] # "RELIABLE_ORDERED" => s.highestSequencedReadIndex \in {Run(of, p), Run(of, p) + 1}
  PROVE  Ordering(got \cup {p}, s, Append(out, p), of)
<1> DEFINE next == Append(out, p)
<1>1. /\ of \in Seq(Kinds) /\ Len(of) \in Nat /\ DOMAIN of = 1..Len(of) /\ Len(of) <= MaxMessages
      /\ got \in SUBSET (1..Len(of)) /\ r \in Receivers /\ Reads(r) \in Nat /\ Reads(s) \in Nat
      /\ p \in Nat \ {0} /\ Before(of, p) \in Nat
      /\ Reads(s) = Reads(r) \/ Reads(s) = Reads(r) + 1
      /\ Reads(s) = IF of[p] = "RELIABLE_ORDERED" THEN Reads(r) + 1 ELSE Reads(r)
      /\ \A w \in got : w \in Nat \ {0}
      /\ p \in 1..Len(of) /\ Before(of, p) = Reads(r) /\ \A i \in DOMAIN out : out[i] < p
  BY ReadsIs, OrderedApart DEF Ordering, ReadsAfter, IsNext
<1>2. /\ HeapBehind(got, r, out, of) /\ OutInOrder(got, r, out, of)
      /\ AllGiven(r, out, of) /\ NoneSkipped(got, r, of)
  BY DEF Ordering, Order
<1>3. OutInOrder(got \cup {p}, s, next, of) /\ AllGiven(s, next, of)
  BY GivenOut
<1>4. /\ Len(next) = Len(out) + 1 /\ Len(out) \in Nat /\ next # <<>>
      /\ DOMAIN out = 1..Len(out) /\ DOMAIN next = 1..Len(out) + 1
      /\ next[Len(out) + 1] = p
      /\ \A i \in 1..Len(out) : next[i] = out[i]
  <2>1. out \in Seq(got)
    BY <1>2 DEF OutInOrder
  <2> QED
    BY <2>1
<1> HIDE DEF next
<1>5. \A q : HeapEntry(s, of, q) = HeapEntry(r, of, q)
  BY DEF HeapEntry
<1>6. HeapBehind(got \cup {p}, s, next, of)
  <2>1. IsFiniteSet(s.orderingHeap)
    BY <1>2, FS_Subset DEF HeapBehind
  <2>2. s.orderingHeap # {} => Wrapped(s.heapIndexOffset - First) <= Reads(s)
    <3>1. s.orderingHeap # {} => Wrapped(s.heapIndexOffset - First) <= Reads(r)
      BY <1>2 DEF HeapBehind
    <3>2. Wrapped(s.heapIndexOffset - First) \in Nat
      <4>1. s.heapIndexOffset - First \in Int
        BY Widths DEF Receivers, Indices
      <4> QED
        BY <4>1, WrappedType
    <3> QED
      BY <1>1, <3>1, <3>2
  <2>3. ASSUME NEW entry \in s.orderingHeap
        PROVE  \E q \in got \cup {p} : /\ entry = HeapEntry(s, of, q)
                                       /\ Before(of, q) >= Reads(s)
                                       /\ \A i \in DOMAIN next : next[i] < q
    <3>1. PICK q \in got : /\ entry = HeapEntry(r, of, q)
                           /\ Before(of, q) >= Reads(r)
                           /\ \A i \in DOMAIN out : out[i] < q
      BY <1>2 DEF HeapBehind
    <3>2. p < q /\ q \in Nat \ {0} /\ Before(of, q) \in Nat
      BY <1>1, <3>1, OrderedApart
    <3>3. of[p] = "RELIABLE_ORDERED" => Before(of, p) < Before(of, q)
      BY <1>1, <3>2, OrderedApart
    <3>4. Before(of, q) >= Reads(s)
      BY <1>1, <3>1, <3>2, <3>3
    <3>5. \A i \in DOMAIN next : next[i] < q
      BY <1>4, <3>1, <3>2
    <3> QED
      BY <1>5, <3>1, <3>4, <3>5
  <2> QED
    BY <2>1, <2>2, <2>3 DEF HeapBehind
<1>7. ASSUME NEW q \in got \cup {p}, of[q] = "RELIABLE_ORDERED", Before(of, q) >= Reads(s)
      PROVE  HeapEntry(s, of, q) \in s.orderingHeap
  <2>1. q # p
    BY <1>1, <1>7
  <2>2. q \in got /\ Before(of, q) \in Nat
    BY <1>1, <1>7, <2>1, OrderedApart
  <2>3. HeapEntry(r, of, q) \in r.orderingHeap
    BY <1>1, <1>2, <1>7, <2>2 DEF NoneSkipped
  <2>4. HeapEntry(r, of, q).message.place = q /\ HeapEntry(r, of, p).message.place = p
    BY DEF HeapEntry, MessageAt
  <2> QED
    BY <1>5, <2>1, <2>3, <2>4
<1>8. NoneSkipped(got \cup {p}, s, of)
  BY <1>7 DEF NoneSkipped
<1>9. HighestFits(s, next, of)
  <2> SUFFICES ASSUME Before(of, next[Len(next)]) = Reads(s)
               PROVE  s.highestSequencedReadIndex
                        \in {Run(of, next[Len(next)]), Run(of, next[Len(next)]) + 1}
    BY DEF HighestFits
  <2> QED
    BY <1>1, <1>4
<1> QED
  BY <1>1, <1>3, <1>6, <1>8, <1>9 DEF Ordering, Order, next

\* The weights tell the places of the entries of a heap apart.
LEMMA EntryIs ==
  ASSUME NEW got, NEW r, NEW out, NEW of, Ordering(got, r, out, of), NEW entry \in r.orderingHeap
  PROVE  \E p \in got :
           /\ p \in 1..Len(of) /\ entry = HeapEntry(r, of, p) /\ Before(of, p) >= Reads(r)
           /\ \A i \in DOMAIN out : out[i] < p
           /\ entry.message = MessageAt(of, p)
           /\ entry.message.orderingIndex = r.orderedReadIndex <=> Before(of, p) = Reads(r)
           /\ \A q \in got : HeapEntry(r, of, q) \in r.orderingHeap =>
                /\ entry.weight <= HeapEntry(r, of, q).weight => p <= q
                /\ entry = HeapEntry(r, of, q) => p = q
<1>1. /\ of \in Seq(Kinds) /\ Len(of) <= MaxMessages /\ got \in SUBSET (1..Len(of))
      /\ r \in Receivers /\ HeapBehind(got, r, out, of)
  BY DEF Ordering, Order
<1>2. PICK p \in got : /\ entry = HeapEntry(r, of, p) /\ Before(of, p) >= Reads(r)
                       /\ \A i \in DOMAIN out : out[i] < p
  BY <1>1 DEF HeapBehind
<1>3. p \in 1..Len(of) /\ entry.message = MessageAt(of, p)
      /\ entry.message.orderingIndex = Wrapped(First + Before(of, p))
      /\ entry.weight = Weight(r.heapIndexOffset, MessageAt(of, p))
  BY <1>1, <1>2 DEF HeapEntry, MessageAt
<1>4. Before(of, p) \in 0..p - 1 /\ Before(of, p) < Modulus - 1
  BY <1>1, <1>3, MessageType
<1>5. entry.message.orderingIndex = r.orderedReadIndex <=> Before(of, p) = Reads(r)
  <2>1. Before(of, p) \in Nat /\ Before(of, p) < Modulus
    BY <1>4, Widths
  <2> QED
    BY <1>1, <1>3, <2>1, ReadsIs
<1>6. ASSUME NEW q \in got, HeapEntry(r, of, q) \in r.orderingHeap
      PROVE  /\ entry.weight <= HeapEntry(r, of, q).weight => p <= q
             /\ entry = HeapEntry(r, of, q) => p = q
  <2>1. q \in 1..Len(of) /\ p \in 1..Len(of)
    BY <1>1, <1>3
  <2>2. HeapEntry(r, of, q).weight = Weight(r.heapIndexOffset, MessageAt(of, q))
        /\ HeapEntry(r, of, q).message.place = q /\ entry.message.place = p
    BY <1>3 DEF HeapEntry, MessageAt
  <2>3. PICK x \in got : HeapEntry(r, of, q) = HeapEntry(r, of, x) /\ Before(of, x) >= Reads(r)
    BY <1>1, <1>6 DEF HeapBehind
  <2>4. x = q
    BY <2>2, <2>3 DEF HeapEntry, MessageAt
  <2>5. Wrapped(r.heapIndexOffset - First) <= Reads(r) /\ r.heapIndexOffset \in Indices
    BY <1>1 DEF HeapBehind, Receivers
  <2>6. Wrapped(r.heapIndexOffset - First) \in Nat /\ Reads(r) \in Nat /\ Before(of, q) \in Nat
    <3>1. r.heapIndexOffset - First \in Int
      BY <2>5, Widths DEF Indices
    <3>2. Before(of, q) \in 0..q - 1
      BY <1>1, <2>1, MessageType
    <3> QED
      BY <1>1, <2>1, <3>1, <3>2, WrappedType, ReadsIs
  <2>7. Wrapped(r.heapIndexOffset - First) <= Before(of, q)
    BY <2>3, <2>4, <2>5, <2>6
  <2>8. CASE entry.weight <= HeapEntry(r, of, q).weight
    <3> SUFFICES ASSUME q < p PROVE FALSE
      BY <2>1, <2>2, <2>8
    <3>1. /\ Weight(r.heapIndexOffset, MessageAt(of, q)) \in Nat
          /\ Weight(r.heapIndexOffset, MessageAt(of, q)) < Weight(r.heapIndexOffset, MessageAt(of, p))
      BY <1>1, <2>1, <2>5, <2>7, WeightOrder
    <3>2. Weight(r.heapIndexOffset, MessageAt(of, p)) \in Nat
      BY <1>1, <1>3, <2>5, WeightType, MessageType
    <3> QED
      BY <1>3, <2>2, <2>8, <3>1, <3>2
  <2> QED
    BY <2>2, <2>8
<1> QED
  BY <1>2, <1>3, <1>5, <1>6

\* What stands at the top of the heap, if it has not the index that is waited for, has a
\* later one, and so has all the rest.
LEMMA TopNotAwaited ==
  ASSUME NEW got, NEW r, NEW out, NEW of, Ordering(got, r, out, of),
         r.orderingHeap = {} \/ Top(r.orderingHeap).message.orderingIndex # r.orderedReadIndex
  PROVE  GapAhead(r)
<1> SUFFICES ASSUME NEW entry \in r.orderingHeap,
                    entry.message.orderingIndex = r.orderedReadIndex
             PROVE  FALSE
  BY DEF GapAhead
<1> DEFINE top == Top(r.orderingHeap)
<1>1. top \in r.orderingHeap /\ top.weight <= entry.weight
  <2>1. r.orderingHeap \in SUBSET HeapEntries
    BY DEF Ordering, Receivers
  <2> QED
    BY <2>1, TopIs
<1>2. top.message.orderingIndex # r.orderedReadIndex
  OBVIOUS
<1> HIDE DEF top
<1>3. PICK p \in got :
        /\ p \in 1..Len(of) /\ entry = HeapEntry(r, of, p)
        /\ entry.message.orderingIndex = r.orderedReadIndex <=> Before(of, p) = Reads(r)
  BY EntryIs
<1>4. PICK q \in got :
        /\ q \in 1..Len(of) /\ top = HeapEntry(r, of, q) /\ Before(of, q) >= Reads(r)
        /\ top.message.orderingIndex = r.orderedReadIndex <=> Before(of, q) = Reads(r)
        /\ \A x \in got : HeapEntry(r, of, x) \in r.orderingHeap =>
             (top.weight <= HeapEntry(r, of, x).weight => q <= x)
  BY <1>1, EntryIs
<1>5. q <= p
  BY <1>1, <1>3, <1>4
<1>6. p \in Nat \ {0} /\ q \in Nat \ {0}
  BY <1>3, <1>4
<1>7. Before(of, q) <= Before(of, p) /\ Before(of, q) \in Nat /\ Before(of, p) \in Nat
  BY <1>5, <1>6, OrderedApart
<1> QED
  BY <1>2, <1>3, <1>4, <1>7

\* What the order has no part in.
SameFilter(r, s) ==
  /\ s.receivedPacketsBaseIndex = r.receivedPacketsBaseIndex
  /\ s.hasReceivedPacketQueue = r.hasReceivedPacketQueue

Giving(got, result, prev, of) ==
  /\ prev \in Seq(Nat) /\ result.out \in Seq(Nat)
  /\ Ordering(got, result.r, prev \o result.out, of)

Awaited(r) ==
  r.orderingHeap # {} /\ Top(r.orderingHeap).message.orderingIndex = r.orderedReadIndex

LEMMA ReadsNext ==
  ASSUME NEW r \in Receivers, Reads(r) < Modulus - 1
  PROVE  /\ Wrapped(r.orderedReadIndex + 1) \in Indices
         /\ Wrapped(Wrapped(r.orderedReadIndex + 1) - First) = Reads(r) + 1
<1>1. Reads(r) \in 0..Modulus - 1 /\ r.orderedReadIndex = Wrapped(First + Reads(r))
  BY ReadsIs
<1>2. First \in Int /\ Modulus \in Nat
  BY Widths
<1>3. r.orderedReadIndex + 1 \in Int /\ First + Reads(r) \in Int
  BY <1>1, <1>2 DEF Receivers, Indices
<1>4. Wrapped(r.orderedReadIndex + 1) = Wrapped((First + Reads(r)) + 1)
  BY <1>1, <1>3, WrappedPlus
<1>5. Wrapped(Wrapped(First + (Reads(r) + 1)) - First) = Reads(r) + 1
  <2>1. Reads(r) + 1 \in Nat /\ Reads(r) + 1 < Modulus
    BY <1>1, <1>2
  <2> QED
    BY <2>1, FromFirst
<1>6. (First + Reads(r)) + 1 = First + (Reads(r) + 1)
  BY <1>1, <1>2
<1> QED
  BY <1>3, <1>4, <1>5, <1>6, WrappedType

\* One turn of the loop that empties the heap.
LEMMA PoppedKeeps ==
  ASSUME NEW got, NEW prev, NEW result, NEW of, Giving(got, result, prev, of),
         Awaited(result.r), NEW next, next = Popped(result)
  PROVE  /\ Giving(got, next, prev, of) /\ SameFilter(result.r, next.r)
         /\ IsFiniteSet(result.r.orderingHeap)
         /\ Cardinality(next.r.orderingHeap) = Cardinality(result.r.orderingHeap) - 1
<1> DEFINE r == result.r
           out == prev \o result.out
           top == Top(r.orderingHeap)
           m == top.message
           s == next.r
<1>1. Ordering(got, r, out, of) /\ prev \in Seq(Nat) /\ result.out \in Seq(Nat) /\ out \in Seq(Nat)
  BY DEF Giving
<1>2. /\ r.orderingHeap # {} /\ m.orderingIndex = r.orderedReadIndex
      /\ top \in r.orderingHeap
      /\ \A entry \in r.orderingHeap : top.weight <= entry.weight
  <2>1. r.orderingHeap \in SUBSET HeapEntries
    BY <1>1 DEF Ordering, Receivers
  <2> QED
    BY <2>1, TopIs DEF Awaited
<1>3. next = [r |-> [r EXCEPT !.orderingHeap = @ \ {top},
                              !.orderedReadIndex =
                                 IF m.kind = "RELIABLE_ORDERED" THEN Wrapped(@ + 1) ELSE @,
                              !.highestSequencedReadIndex =
                                 IF m.kind = "RELIABLE_ORDERED" THEN @ ELSE m.sequencingIndex],
              out |-> Append(result.out, m.place)]
  BY <1>2 DEF Popped
<1>4. r \in Receivers
  BY <1>1 DEF Ordering
<1> HIDE DEF top
<1>5. /\ s = [receivedPacketsBaseIndex |-> r.receivedPacketsBaseIndex,
              hasReceivedPacketQueue |-> r.hasReceivedPacketQueue,
              orderedReadIndex |-> IF m.kind = "RELIABLE_ORDERED"
                                   THEN Wrapped(r.orderedReadIndex + 1) ELSE r.orderedReadIndex,
              highestSequencedReadIndex |-> IF m.kind = "RELIABLE_ORDERED"
                                            THEN r.highestSequencedReadIndex
                                            ELSE m.sequencingIndex,
              orderingHeap |-> r.orderingHeap \ {top},
              heapIndexOffset |-> r.heapIndexOffset]
      /\ next.out = Append(result.out, m.place)
  <2> DEFINE read == IF m.kind = "RELIABLE_ORDERED"
                     THEN Wrapped(r.orderedReadIndex + 1) ELSE r.orderedReadIndex
             highest == IF m.kind = "RELIABLE_ORDERED"
                        THEN r.highestSequencedReadIndex ELSE m.sequencingIndex
             heap == r.orderingHeap \ {top}
  <2>1. /\ s = [[[r EXCEPT !.orderingHeap = heap] EXCEPT !.orderedReadIndex = read]
                   EXCEPT !.highestSequencedReadIndex = highest]
        /\ next.out = Append(result.out, m.place)
    <3>1. s = [r EXCEPT !.orderingHeap = @ \ {top},
                        !.orderedReadIndex =
                           IF m.kind = "RELIABLE_ORDERED" THEN Wrapped(@ + 1) ELSE @,
                        !.highestSequencedReadIndex =
                           IF m.kind = "RELIABLE_ORDERED" THEN @ ELSE m.sequencingIndex]
          /\ next.out = Append(result.out, m.place)
      BY <1>3
    <3> HIDE DEF s, r
    <3> QED
      BY <1>4, <3>1 DEF Receivers
  <2> HIDE DEF read, highest, heap, s, r
  <2>2. s = [receivedPacketsBaseIndex |-> r.receivedPacketsBaseIndex,
             hasReceivedPacketQueue |-> r.hasReceivedPacketQueue,
             orderedReadIndex |-> read, highestSequencedReadIndex |-> highest,
             orderingHeap |-> heap, heapIndexOffset |-> r.heapIndexOffset]
    BY <1>4, <2>1 DEF Receivers
  <2> QED
    BY <2>1, <2>2 DEF read, highest, heap
<1> HIDE DEF r, out, s
<1>6. PICK p \in got :
        /\ p \in 1..Len(of) /\ top = HeapEntry(r, of, p)
        /\ \A i \in DOMAIN out : out[i] < p
        /\ m = MessageAt(of, p)
        /\ m.orderingIndex = r.orderedReadIndex <=> Before(of, p) = Reads(r)
        /\ \A q \in got : HeapEntry(r, of, q) \in r.orderingHeap =>
             /\ top.weight <= HeapEntry(r, of, q).weight => p <= q
             /\ top = HeapEntry(r, of, q) => p = q
  BY <1>1, <1>2, EntryIs
<1>7. m \in Messages /\ m.place = p /\ m.kind = of[p] /\ IsNext(r, out, of, p)
      /\ (of[p] # "RELIABLE_ORDERED" => m.sequencingIndex = Run(of, p))
      /\ Before(of, p) < Modulus - 1 /\ got \cup {p} = got
  <2>1. of \in Seq(Kinds) /\ Len(of) <= MaxMessages
    BY <1>1 DEF Ordering
  <2>2. of[p] \in {"RELIABLE_ORDERED", "RELIABLE_SEQUENCED"} /\ MessageAt(of, p) \in Messages
        /\ Before(of, p) < Modulus - 1
    BY <1>6, <2>1, MessageType
  <2> QED
    BY <1>2, <1>6, <2>2 DEF IsNext, MessageAt
<1>8. /\ Wrapped(r.orderedReadIndex + 1) \in Indices
      /\ Wrapped(Wrapped(r.orderedReadIndex + 1) - First) = Reads(r) + 1
  BY <1>4, <1>7, ReadsNext DEF IsNext
<1>9. s \in Receivers
  <2>1. m.sequencingIndex \in Indices
    BY <1>7 DEF Messages
  <2>2. /\ s.receivedPacketsBaseIndex \in Indices /\ s.hasReceivedPacketQueue \in Seq(BOOLEAN)
        /\ s.orderedReadIndex \in Indices /\ s.highestSequencedReadIndex \in Indices
        /\ s.orderingHeap \in SUBSET HeapEntries /\ s.heapIndexOffset \in Indices
    BY <1>4, <1>5, <1>8, <2>1 DEF Receivers
  <2> QED
    BY <1>5, <2>2 DEF Receivers
<1>10. Reads(s) = ReadsAfter(r, of[p])
  <2>1. CASE of[p] = "RELIABLE_ORDERED"
    BY <1>5, <1>7, <1>8, <2>1 DEF Reads, ReadsAfter
  <2>2. CASE of[p] # "RELIABLE_ORDERED"
    BY <1>5, <1>7, <2>2 DEF Reads, ReadsAfter
  <2> QED
    BY <2>1, <2>2
<1>11. /\ s.heapIndexOffset = r.heapIndexOffset
       /\ s.orderingHeap = r.orderingHeap \ {top}
       /\ of[p] # "RELIABLE_ORDERED" => s.highestSequencedReadIndex \in {Run(of, p), Run(of, p) + 1}
       /\ SameFilter(r, s)
  BY <1>5, <1>7 DEF SameFilter
<1>12. ASSUME NEW q \in got, HeapEntry(r, of, q) \in s.orderingHeap
       PROVE  p < q
  <2>1. HeapEntry(r, of, q) \in r.orderingHeap /\ HeapEntry(r, of, q) # top
    BY <1>11, <1>12
  <2>2. p <= q /\ p # q
    BY <1>2, <1>6, <2>1
  <2>3. p \in Nat /\ q \in Nat
    BY <1>1, <1>6 DEF Ordering
  <2> QED
    BY <2>2, <2>3
<1>13. Ordering(got \cup {p}, s, Append(out, p), of)
  BY <1>1, <1>6, <1>7, <1>9, <1>10, <1>11, <1>12, Given
<1>14. prev \o next.out = Append(out, p) /\ next.out \in Seq(Nat)
  <2>1. p \in Nat
    BY <1>6
  <2> QED
    BY <1>1, <1>5, <1>7, <2>1 DEF out
<1>15. IsFiniteSet(r.orderingHeap) /\ Cardinality(s.orderingHeap) = Cardinality(r.orderingHeap) - 1
  <2>1. IsFiniteSet(r.orderingHeap)
    BY <1>1 DEF Ordering, Order, HeapBehind
  <2> QED
    BY <1>2, <1>11, <2>1, FS_RemoveElement
<1> QED
  BY <1>1, <1>7, <1>11, <1>13, <1>14, <1>15 DEF Giving, r, s

\* What holds at first and from one step to the next holds at every step.
LEMMA StepByStep ==
  ASSUME NEW S, NEW n \in Nat, 0 \in S, \A i \in 1..n : i - 1 \in S => i \in S
  PROVE  \A i \in 0..n : i \in S
<1> SUFFICES ASSUME NEW k \in 0..n, k \notin S PROVE FALSE
  OBVIOUS
<1> DEFINE T == {i \in 0..n : i \notin S}
<1>1. T \in SUBSET Nat /\ T # {}
  OBVIOUS
<1>2. PICK x \in T : \A y \in T : x <= y
  <2> HIDE DEF T
  <2> QED
    BY <1>1, LeastNumber
<1>3. x \in 1..n /\ x - 1 \in 0..n /\ x - 1 \notin T
  BY <1>2
<1> QED
  BY <1>2, <1>3

\* The loop ends when nothing in the heap has the index that is waited for.
LEMMA PoppingKeeps ==
  ASSUME NEW got, NEW prev, NEW result, NEW of, Giving(got, result, prev, of),
         NEW turns, turns = Cardinality(result.r.orderingHeap),
         NEW next, next = Popping(result, turns)
  PROVE  Giving(got, next, prev, of) /\ SameFilter(result.r, next.r) /\ GapAhead(next.r)
<1>1. IsFiniteSet(result.r.orderingHeap) /\ turns \in Nat
  <2>1. IsFiniteSet(result.r.orderingHeap)
    BY DEF Giving, Ordering, Order, HeapBehind
  <2> QED
    BY <2>1, FS_CardinalityType
<1>2. PICK after : /\ after[0] = result
                   /\ \A i \in 1..turns : after[i] = Popped(after[i - 1])
                   /\ next = after[turns]
  BY <1>1, PoppedOneByOne
<1> DEFINE Good(i) ==
      /\ Giving(got, after[i], prev, of) /\ SameFilter(result.r, after[i].r)
      /\ IsFiniteSet(after[i].r.orderingHeap)
      /\ ~Awaited(after[i].r) \/ Cardinality(after[i].r.orderingHeap) = turns - i
    S == {i \in 0..turns : Good(i)}
<1>3. 0 \in S
  <2>1. SameFilter(result.r, result.r)
    BY DEF SameFilter
  <2>2. 0 \in 0..turns /\ turns - 0 = turns
    BY <1>1
  <2> QED
    BY <1>1, <1>2, <2>1, <2>2
<1>4. ASSUME NEW i \in 1..turns, i - 1 \in S
      PROVE  i \in S
  <2>1. Good(i - 1) /\ after[i] = Popped(after[i - 1]) /\ i \in 0..turns
    BY <1>1, <1>2, <1>4
  <2>2. CASE Awaited(after[i - 1].r)
    <3>1. /\ Giving(got, after[i], prev, of) /\ SameFilter(after[i - 1].r, after[i].r)
          /\ IsFiniteSet(after[i - 1].r.orderingHeap)
          /\ Cardinality(after[i].r.orderingHeap) = Cardinality(after[i - 1].r.orderingHeap) - 1
      <4>1. Giving(got, after[i - 1], prev, of)
        BY <2>1
      <4> QED
        BY <2>1, <2>2, <4>1, PoppedKeeps
    <3>2. Cardinality(after[i].r.orderingHeap) = turns - i
      BY <1>1, <2>1, <2>2, <3>1
    <3>3. SameFilter(result.r, after[i].r)
      BY <2>1, <3>1 DEF SameFilter
    <3>4. IsFiniteSet(after[i].r.orderingHeap)
      BY <3>1 DEF Giving, Ordering, Order, HeapBehind
    <3> QED
      BY <2>1, <3>1, <3>2, <3>3, <3>4
  <2>3. CASE ~Awaited(after[i - 1].r)
    <3>1. after[i] = after[i - 1]
      BY <2>1, <2>3 DEF Popped, Awaited
    <3> QED
      BY <2>1, <2>3, <3>1
  <2> QED
    BY <2>2, <2>3
<1>5. turns \in S
  <2> HIDE DEF S
  <2> QED
    BY <1>1, <1>3, <1>4, StepByStep
<1>6. Good(turns)
  BY <1>5
<1>7. ~Awaited(next.r)
  <2>1. Cardinality(next.r.orderingHeap) = 0 => next.r.orderingHeap = {}
    BY <1>2, <1>6, FS_EmptySet
  <2>2. turns - turns = 0
    BY <1>1
  <2> QED
    BY <1>2, <1>6, <2>1, <2>2 DEF Awaited
<1>8. GapAhead(next.r)
  <2>1. Ordering(got, next.r, prev \o next.out, of)
    BY <1>2, <1>6 DEF Giving
  <2> QED
    BY <1>7, <2>1, TopNotAwaited DEF Awaited
<1> QED
  BY <1>2, <1>6, <1>8

LEMMA Widened ==
  ASSUME NEW S, NEW T, S \subseteq T, NEW q \in Seq(S)
  PROVE  q \in Seq(T)
OBVIOUS

\* Only the fields of the order matter to the order.
SameOrder(r, s) ==
  /\ s.orderedReadIndex = r.orderedReadIndex
  /\ s.highestSequencedReadIndex = r.highestSequencedReadIndex
  /\ s.orderingHeap = r.orderingHeap /\ s.heapIndexOffset = r.heapIndexOffset

LEMMA OrderFields ==
  ASSUME NEW got, NEW r, NEW out, NEW of, Ordering(got, r, out, of), NEW s \in Receivers,
         SameOrder(r, s)
  PROVE  Ordering(got, s, out, of) /\ (GapAhead(r) => GapAhead(s))
<1>1. Reads(s) = Reads(r)
  BY DEF Reads, SameOrder
<1>2. \A p : HeapEntry(s, of, p) = HeapEntry(r, of, p)
  BY DEF HeapEntry, SameOrder
<1>3. Order(got, r, out, of)
  BY DEF Ordering
<1>4. HeapBehind(got, s, out, of)
  BY <1>1, <1>2, <1>3 DEF Order, HeapBehind, SameOrder
<1>5. OutInOrder(got, s, out, of)
  BY <1>1, <1>3 DEF Order, OutInOrder
<1>6. AllGiven(s, out, of)
  BY <1>1, <1>3 DEF Order, AllGiven
<1>7. NoneSkipped(got, s, of)
  BY <1>1, <1>2, <1>3 DEF Order, NoneSkipped, SameOrder
<1>8. HighestFits(s, out, of)
  BY <1>1, <1>3 DEF Order, HighestFits, SameOrder
<1>9. GapAhead(r) => GapAhead(s)
  BY DEF GapAhead, SameOrder
<1> QED
  BY <1>4, <1>5, <1>6, <1>7, <1>8, <1>9 DEF Ordering, Order

\* A message that is late, or sequenced, may be forgotten.
LEMMA Dropped ==
  ASSUME NEW got, NEW r, NEW out, NEW of, Ordering(got, r, out, of), NEW p \in 1..Len(of),
         of[p] = "RELIABLE_ORDERED" => Before(of, p) < Reads(r)
  PROVE  Ordering(got \cup {p}, r, out, of)
<1>1. /\ Order(got, r, out, of) /\ of \in Seq(Kinds) /\ Len(of) <= MaxMessages
      /\ got \in SUBSET (1..Len(of)) /\ r \in Receivers
  BY DEF Ordering
<1>2. HeapBehind(got \cup {p}, r, out, of)
  BY <1>1 DEF Order, HeapBehind
<1>3. OutInOrder(got \cup {p}, r, out, of)
  <2>1. out \in Seq(got)
    BY <1>1 DEF Order, OutInOrder
  <2>2. out \in Seq(got \cup {p})
    BY <2>1
  <2> QED
    BY <1>1, <2>2 DEF Order, OutInOrder
<1>4. NoneSkipped(got \cup {p}, r, of)
  <2>1. Before(of, p) \in Nat /\ Reads(r) \in Nat
    BY <1>1, OrderedApart, ReadsIs
  <2> QED
    BY <1>1, <2>1 DEF Order, NoneSkipped
<1> QED
  BY <1>1, <1>2, <1>3, <1>4 DEF Ordering, Order

\* When nothing in the heap is waited for, it is all behind the message that is.
LEMMA HeapIsBehind ==
  ASSUME NEW got, NEW r, NEW out, NEW of, Ordering(got, r, out, of), GapAhead(r),
         NEW p \in 1..Len(of), Before(of, p) = Reads(r),
         NEW q \in got, HeapEntry(r, of, q) \in r.orderingHeap
  PROVE  p < q
<1>1. PICK x \in got :
        /\ x \in 1..Len(of) /\ HeapEntry(r, of, q) = HeapEntry(r, of, x)
        /\ Before(of, x) >= Reads(r)
        /\ HeapEntry(r, of, q).message.orderingIndex = r.orderedReadIndex
             <=> Before(of, x) = Reads(r)
  BY EntryIs
<1>2. x = q
  BY <1>1 DEF HeapEntry, MessageAt
<1>3. Before(of, q) # Reads(r)
  BY <1>1, <1>2 DEF GapAhead
<1>4. Before(of, q) \in Nat /\ q \in Nat \ {0} /\ p \in Nat \ {0} /\ Before(of, p) \in Nat
  BY <1>1, <1>2, OrderedApart
<1>5. q <= p => Before(of, q) <= Before(of, p)
  BY <1>4, OrderedApart
<1> QED
  BY <1>1, <1>2, <1>3, <1>4, <1>5

\* Nothing from behind the ordered message that is waited for has been given out.
LEMMA OutIsBefore ==
  ASSUME NEW got, NEW r, NEW out, NEW of, Ordering(got, r, out, of),
         NEW p \in 1..Len(of), Before(of, p) = Reads(r), p \notin got,
         of[p] = "RELIABLE_ORDERED", NEW i \in DOMAIN out
  PROVE  out[i] < p
<1>1. out \in Seq(got) /\ Before(of, out[i]) <= Reads(r) /\ got \in SUBSET (1..Len(of))
  BY DEF Ordering, Order, OutInOrder
<1>2. out[i] \in got
  BY <1>1
<1>3. out[i] \in 1..Len(of) /\ out[i] # p
  BY <1>1, <1>2
<1>4. out[i] \in Nat \ {0} /\ p \in Nat \ {0}
  BY <1>3
<1>5. p < out[i] => Before(of, p) < Before(of, out[i])
  BY <1>4, OrderedApart
<1>6. Before(of, out[i]) \in Nat /\ Before(of, p) \in Nat
  BY <1>4, OrderedApart
<1> QED
  BY <1>1, <1>3, <1>4, <1>5, <1>6

\* The message that is waited for, and what the heap has behind it.
LEMMA DeliveredKeeps ==
  ASSUME NEW got, NEW r, NEW out, NEW of, Ordering(got, r, out, of), GapAhead(r),
         NEW p \in 1..Len(of), Before(of, p) = Reads(r), p \notin got,
         of[p] = "RELIABLE_ORDERED", NEW after, after = Delivered(r, MessageAt(of, p))
  PROVE  Giving(got \cup {p}, after, out, of) /\ SameFilter(r, after.r) /\ GapAhead(after.r)
<1> DEFINE s == [r EXCEPT !.orderedReadIndex = Wrapped(@ + 1), !.highestSequencedReadIndex = 0]
           result == [r |-> s, out |-> <<p>>]
<1>1. after = Popping(result, Cardinality(r.orderingHeap))
  BY DEF Delivered, MessageAt
<1>2. /\ r \in Receivers /\ of \in Seq(Kinds) /\ Len(of) <= MaxMessages
      /\ got \in SUBSET (1..Len(of)) /\ out \in Seq(got)
  BY DEF Ordering, Order, OutInOrder
<1>3. s = [receivedPacketsBaseIndex |-> r.receivedPacketsBaseIndex,
           hasReceivedPacketQueue |-> r.hasReceivedPacketQueue,
           orderedReadIndex |-> Wrapped(r.orderedReadIndex + 1),
           highestSequencedReadIndex |-> 0,
           orderingHeap |-> r.orderingHeap,
           heapIndexOffset |-> r.heapIndexOffset]
  <2> DEFINE read == Wrapped(r.orderedReadIndex + 1)
  <2>1. s = [[r EXCEPT !.orderedReadIndex = read] EXCEPT !.highestSequencedReadIndex = 0]
    BY <1>2 DEF Receivers
  <2> HIDE DEF read, s
  <2>2. s = [receivedPacketsBaseIndex |-> r.receivedPacketsBaseIndex,
             hasReceivedPacketQueue |-> r.hasReceivedPacketQueue,
             orderedReadIndex |-> read, highestSequencedReadIndex |-> 0,
             orderingHeap |-> r.orderingHeap, heapIndexOffset |-> r.heapIndexOffset]
    BY <1>2, <2>1 DEF Receivers
  <2> QED
    BY <2>2 DEF read
<1> HIDE DEF s
<1>4. Before(of, p) < Modulus - 1
  BY <1>2, MessageType
<1>5. /\ Wrapped(r.orderedReadIndex + 1) \in Indices
      /\ Wrapped(Wrapped(r.orderedReadIndex + 1) - First) = Reads(r) + 1
  BY <1>2, <1>4, ReadsNext
<1>6. s \in Receivers
  <2>1. 0 \in Indices
    BY Widths DEF Indices
  <2>2. /\ s.receivedPacketsBaseIndex \in Indices /\ s.hasReceivedPacketQueue \in Seq(BOOLEAN)
        /\ s.orderedReadIndex \in Indices /\ s.highestSequencedReadIndex \in Indices
        /\ s.orderingHeap \in SUBSET HeapEntries /\ s.heapIndexOffset \in Indices
    BY <1>2, <1>3, <1>5, <2>1 DEF Receivers
  <2> QED
    BY <1>3, <2>2 DEF Receivers
<1>7. /\ Reads(s) = ReadsAfter(r, of[p]) /\ SameFilter(r, s)
      /\ s.heapIndexOffset = r.heapIndexOffset /\ s.orderingHeap = r.orderingHeap
  BY <1>3, <1>5 DEF Reads, ReadsAfter, SameFilter
<1>8. IsNext(r, out, of, p)
  BY OutIsBefore DEF IsNext
<1>9. \A q \in got : HeapEntry(r, of, q) \in s.orderingHeap => p < q
  BY <1>7, HeapIsBehind
<1>10. Ordering(got \cup {p}, s, Append(out, p), of)
  BY <1>6, <1>7, <1>8, <1>9, Given
<1>11. Giving(got \cup {p}, result, out, of)
  <2>1. out \in Seq(Nat)
    <3>1. got \subseteq Nat
      BY <1>2
    <3> QED
      BY <1>2, <3>1, Widened
  <2>2. out \o <<p>> = Append(out, p) /\ <<p>> \in Seq(Nat)
    BY <2>1
  <2> QED
    BY <1>10, <2>1, <2>2 DEF Giving
<1>12. Cardinality(r.orderingHeap) = Cardinality(result.r.orderingHeap) /\ result.r = s
  BY <1>7
<1> HIDE DEF result
<1>13. /\ Giving(got \cup {p}, after, out, of) /\ SameFilter(result.r, after.r)
       /\ GapAhead(after.r)
  BY <1>1, <1>11, <1>12, PoppingKeeps
<1> QED
  BY <1>7, <1>12, <1>13 DEF SameFilter

(***************************************************************************)
(* A message that is new to the receiver.                                  *)
(***************************************************************************)
\* A message that has not been received is at most a window behind the last one sent.
Narrow(got, n) == \A v \in (1..n) \ got : n - v < ResendBufferLength

\* An ordered message that is not waited for yet is not taken for a late one.
LEMMA EarlyIsSeen ==
  ASSUME NEW got, NEW r, NEW out, NEW of, Ordering(got, r, out, of), GapAhead(r),
         NEW n \in 0..Len(of), got \subseteq 1..n, Narrow(got, n), NEW p \in 1..n,
         Before(of, p) > Reads(r)
  PROVE  ~IsOlderOrderedPacket(MessageAt(of, p).orderingIndex, r.orderedReadIndex)
<1>1. /\ of \in Seq(Kinds) /\ Len(of) \in Nat /\ Len(of) <= MaxMessages
      /\ r \in Receivers /\ NoneSkipped(got, r, of) /\ p \in 1..Len(of) /\ p \in Nat \ {0}
  BY DEF Ordering, Order
<1>2. Reads(r) \in Nat /\ r.orderedReadIndex = Wrapped(First + Reads(r))
  BY <1>1, ReadsIs
<1>3. PICK w \in 1..p - 1 : of[w] = "RELIABLE_ORDERED" /\ Before(of, w) = Reads(r)
  BY <1>1, <1>2, OrderedAt
<1>4. w \notin got
  <2> SUFFICES ASSUME w \in got PROVE FALSE
    OBVIOUS
  <2>1. HeapEntry(r, of, w) \in r.orderingHeap
    BY <1>1, <1>2, <1>3 DEF NoneSkipped
  <2>2. HeapEntry(r, of, w).message.orderingIndex = r.orderedReadIndex
    BY <1>2, <1>3 DEF HeapEntry, MessageAt
  <2> QED
    BY <2>1, <2>2 DEF GapAhead
<1>5. n - w < ResendBufferLength /\ w \in Nat \ {0} /\ w <= p /\ n \in Nat /\ p <= n
  <2>1. w \in 1..n /\ n \in Nat
    BY <1>1, <1>3
  <2> QED
    BY <1>1, <1>3, <1>4, <2>1 DEF Narrow
<1>6. Before(of, p) - Before(of, w) \in 0..p - w
  BY <1>1, <1>5, BeforeSteps
<1>7. /\ ResendBufferLength \in Nat /\ ResendBufferLength > 0 /\ Half \in Nat
      /\ 4 * ResendBufferLength <= Modulus /\ Modulus - 1 < 2 * Half + 2 /\ Modulus \in Nat
      /\ First \in Int
  BY Widths
<1>8. Before(of, p) \in Nat
  BY <1>1, OrderedApart
<1> DEFINE x == First + Before(of, p)
           y == First + Reads(r)
<1>9. x \in Int /\ y \in Int /\ 0 <= x - y /\ x - y <= Half - 1
  BY <1>1, <1>2, <1>3, <1>5, <1>6, <1>7, <1>8
<1>10. MessageAt(of, p).orderingIndex = Wrapped(x) /\ r.orderedReadIndex = Wrapped(y)
  BY <1>2 DEF MessageAt
<1> HIDE DEF x, y
<1> QED
  BY <1>9, <1>10, OlderIs

\* What is late is taken for late.
LEMMA LateIsSeen ==
  ASSUME NEW got, NEW r, NEW out, NEW of, Ordering(got, r, out, of),
         NEW n \in 0..Len(of), got \subseteq 1..n, Narrow(got, n), NEW p \in 1..n, p \notin got,
         Before(of, p) < Reads(r)
  PROVE  /\ of[p] # "RELIABLE_ORDERED"
         /\ IsOlderOrderedPacket(MessageAt(of, p).orderingIndex, r.orderedReadIndex)
<1>1. /\ of \in Seq(Kinds) /\ Len(of) \in Nat /\ Len(of) <= MaxMessages /\ DOMAIN of = 1..Len(of)
      /\ r \in Receivers /\ AllGiven(r, out, of) /\ p \in 1..Len(of) /\ p \in Nat \ {0}
      /\ out \in Seq(got) /\ Len(of) + 1 \in Nat \ {0}
  BY DEF Ordering, Order, OutInOrder
<1>2. /\ Reads(r) \in Nat /\ r.orderedReadIndex = Wrapped(First + Reads(r))
      /\ Before(of, p) \in Nat
  BY <1>1, ReadsIs, OrderedApart
<1>3. of[p] # "RELIABLE_ORDERED"
  <2> SUFFICES ASSUME of[p] = "RELIABLE_ORDERED" PROVE FALSE
    OBVIOUS
  <2>1. PICK i \in DOMAIN out : out[i] = p
    BY <1>1 DEF AllGiven
  <2> QED
    BY <1>1, <2>1
<1>4. PICK w \in 1..Len(of) : of[w] = "RELIABLE_ORDERED" /\ Before(of, w) = Reads(r) - 1
  <2>1. Reads(r) - 1 \in Nat /\ Reads(r) - 1 < Before(of, Len(of) + 1)
    <3>1. Before(of, Len(of) + 1) \in Nat /\ Reads(r) <= Before(of, Len(of) + 1)
      BY <1>1, OrderedApart DEF AllGiven
    <3> QED
      BY <1>2, <3>1
  <2>2. \E w \in 1..(Len(of) + 1) - 1 : of[w] = "RELIABLE_ORDERED" /\ Before(of, w) = Reads(r) - 1
    BY <1>1, <2>1, OrderedAt
  <2>3. (Len(of) + 1) - 1 = Len(of)
    BY <1>1
  <2> QED
    BY <2>2, <2>3
<1>5. w \in got
  <2>1. Before(of, w) < Reads(r)
    BY <1>2, <1>4
  <2>2. PICK i \in DOMAIN out : out[i] = w
    BY <1>1, <1>4, <2>1 DEF AllGiven
  <2> QED
    BY <1>1, <2>2
<1>6. p < w
  <2>1. w < p => Before(of, w) < Before(of, p)
    BY <1>1, <1>4, OrderedApart
  <2>2. w # p /\ w \in Nat
    BY <1>4, <1>5
  <2> QED
    BY <1>1, <1>2, <1>4, <2>1, <2>2
<1>7. Before(of, w) - Before(of, p) < w - p
  <2>1. w \in Nat \ {0} /\ p <= w /\ p \in p..w - 1
    BY <1>1, <1>4, <1>6
  <2> QED
    BY <1>1, <1>3, <2>1, BeforeSteps
<1>8. n - p < ResendBufferLength /\ w <= n /\ n \in Nat /\ w \in Nat
  BY <1>1, <1>4, <1>5 DEF Narrow
<1>9. /\ ResendBufferLength \in Nat /\ ResendBufferLength > 0 /\ Half \in Nat
      /\ 4 * ResendBufferLength <= Modulus /\ Modulus - 1 < 2 * Half + 2 /\ Modulus \in Nat
      /\ First \in Int
  BY Widths
<1> DEFINE x == First + Before(of, p)
           y == First + Reads(r)
<1>10. x \in Int /\ y \in Int /\ 1 <= y - x /\ y - x <= Half - 1
  BY <1>1, <1>2, <1>4, <1>7, <1>8, <1>9
<1>11. MessageAt(of, p).orderingIndex = Wrapped(x) /\ r.orderedReadIndex = Wrapped(y)
  BY <1>2 DEF MessageAt
<1> HIDE DEF x, y
<1> QED
  BY <1>3, <1>10, <1>11, OlderIs

\* A sequenced message that is not taken for an old one is behind all that was given out.
LEMMA SequencedIsNext ==
  ASSUME NEW got, NEW r, NEW out, NEW of, Ordering(got, r, out, of),
         NEW n \in 0..Len(of), got \subseteq 1..n, Narrow(got, n), NEW p \in 1..n, p \notin got,
         Before(of, p) = Reads(r), of[p] = "RELIABLE_SEQUENCED",
         ~IsOlderOrderedPacket(Run(of, p), r.highestSequencedReadIndex)
  PROVE  IsNext(r, out, of, p)
<1>1. /\ of \in Seq(Kinds) /\ Len(of) \in Nat /\ Len(of) <= MaxMessages
      /\ r \in Receivers /\ HighestFits(r, out, of) /\ p \in 1..Len(of) /\ p \in Nat \ {0}
      /\ out \in Seq(got) /\ OutInOrder(got, r, out, of) /\ got \in SUBSET (1..Len(of))
  BY DEF Ordering, Order, OutInOrder
<1> SUFFICES ASSUME NEW i \in DOMAIN out, ~(out[i] < p) PROVE FALSE
  BY <1>1 DEF IsNext
<1> DEFINE w == out[Len(out)]
<1>2. Len(out) \in Nat /\ Len(out) \in DOMAIN out /\ i \in 1..Len(out) /\ out # <<>>
  BY <1>1
<1>3. w \in got /\ out[i] \in got
  BY <1>1, <1>2
<1>4. w \in Nat \ {0} /\ w <= n /\ n \in Nat /\ out[i] \in Nat
  <2>1. \A x \in got : x \in 1..n
    OBVIOUS
  <2>2. w \in 1..n /\ out[i] \in 1..n
    BY <1>3, <2>1
  <2> HIDE DEF w
  <2> QED
    BY <1>1, <2>2
<1>5. p < w
  <2>1. i # Len(out) => out[i] < w
    BY <1>1, <1>2 DEF OutInOrder
  <2>2. w # p
    BY <1>3
  <2> QED
    BY <1>1, <1>4, <2>1, <2>2
<1>6. Before(of, w) = Before(of, p)
  <2>1. Before(of, w) <= Reads(r)
    BY <1>1, <1>2 DEF OutInOrder
  <2>2. Before(of, p) <= Before(of, w) /\ Before(of, p) \in Nat /\ Before(of, w) \in Nat
    <3>1. p <= w /\ w \in Nat \ {0} /\ p \in Nat \ {0}
      BY <1>1, <1>4, <1>5
    <3> HIDE DEF w
    <3> QED
      BY <3>1, OrderedApart
  <2> QED
    BY <2>1, <2>2
<1>7. r.highestSequencedReadIndex \in {Run(of, w), Run(of, w) + 1}
  BY <1>1, <1>2, <1>6 DEF HighestFits
<1> HIDE DEF w
<1>8. Run(of, w) = Run(of, p) + (w - p)
  <2>1. p <= w
    BY <1>1, <1>4, <1>5
  <2>2. \A x \in p..w - 1 : of[x] # "RELIABLE_ORDERED"
    BY <1>1, <1>4, <1>6, <2>1, BeforeSteps
  <2> QED
    BY <1>1, <1>4, <2>1, <2>2, RunSteps
<1>9. n - p < ResendBufferLength
  BY <1>1 DEF Narrow
<1>10. Run(of, p) \in Nat /\ Run(of, p) \in Indices
  <2>1. Run(of, p) \in 0..p - 1 /\ Run(of, p) < Modulus - 1
    BY <1>1, MessageType
  <2> QED
    BY <1>1, <2>1, Widths DEF Indices
<1>11. /\ ResendBufferLength \in Nat /\ ResendBufferLength > 0 /\ Half \in Nat
       /\ 4 * ResendBufferLength <= Modulus /\ Modulus - 1 < 2 * Half + 2 /\ Modulus \in Nat
  BY Widths
<1> DEFINE x == Run(of, p)
           y == r.highestSequencedReadIndex
<1>12. x \in Int /\ y \in Int /\ 1 <= y - x /\ y - x <= Half - 1
  BY <1>1, <1>4, <1>5, <1>7, <1>8, <1>9, <1>10, <1>11
<1>13. x = Wrapped(x) /\ y = Wrapped(y)
  <2>1. y \in Indices
    BY <1>1 DEF Receivers
  <2> QED
    BY <1>10, <2>1, WrappedSmall
<1>14. ~IsOlderOrderedPacket(x, y)
  OBVIOUS
<1> HIDE DEF x, y
<1> QED
  BY <1>12, <1>13, <1>14, OlderIs

\* A sequenced message of the index that is waited for.
LEMMA SequencedKeeps ==
  ASSUME NEW got, NEW r, NEW out, NEW of, Ordering(got, r, out, of), GapAhead(r),
         NEW p \in 1..Len(of), IsNext(r, out, of, p), of[p] = "RELIABLE_SEQUENCED",
         NEW s, s = [r EXCEPT !.highestSequencedReadIndex = Wrapped(Run(of, p) + 1)]
  PROVE  Ordering(got \cup {p}, s, Append(out, p), of) /\ SameFilter(r, s) /\ GapAhead(s)
<1>1. of \in Seq(Kinds) /\ Len(of) <= MaxMessages /\ r \in Receivers /\ Before(of, p) = Reads(r)
  BY DEF Ordering, IsNext
<1>2. Wrapped(Run(of, p) + 1) = Run(of, p) + 1 /\ Run(of, p) + 1 \in Indices
  <2>1. Run(of, p) \in 0..p - 1 /\ Run(of, p) < Modulus - 1
    BY <1>1, MessageType
  <2>2. Run(of, p) + 1 \in Indices
    <3>1. Run(of, p) \in Nat /\ Modulus \in Nat
      BY <2>1, Widths
    <3> QED
      BY <2>1, <3>1 DEF Indices
  <2> QED
    BY <2>2, WrappedSmall
<1>3. s = [receivedPacketsBaseIndex |-> r.receivedPacketsBaseIndex,
           hasReceivedPacketQueue |-> r.hasReceivedPacketQueue,
           orderedReadIndex |-> r.orderedReadIndex,
           highestSequencedReadIndex |-> Run(of, p) + 1,
           orderingHeap |-> r.orderingHeap, heapIndexOffset |-> r.heapIndexOffset]
  BY <1>1, <1>2 DEF Receivers
<1>4. s \in Receivers
  <2>1. /\ s.receivedPacketsBaseIndex \in Indices /\ s.hasReceivedPacketQueue \in Seq(BOOLEAN)
        /\ s.orderedReadIndex \in Indices /\ s.highestSequencedReadIndex \in Indices
        /\ s.orderingHeap \in SUBSET HeapEntries /\ s.heapIndexOffset \in Indices
    BY <1>1, <1>2, <1>3 DEF Receivers
  <2> QED
    BY <1>3, <2>1 DEF Receivers
<1>5. /\ Reads(s) = ReadsAfter(r, of[p]) /\ SameFilter(r, s)
      /\ s.heapIndexOffset = r.heapIndexOffset /\ s.orderingHeap = r.orderingHeap
      /\ s.highestSequencedReadIndex \in {Run(of, p), Run(of, p) + 1}
  BY <1>3 DEF Reads, ReadsAfter, SameFilter
<1>6. \A q \in got : HeapEntry(r, of, q) \in s.orderingHeap => p < q
  BY <1>1, <1>5, HeapIsBehind
<1>7. Ordering(got \cup {p}, s, Append(out, p), of)
  BY <1>4, <1>5, <1>6, Given
<1>8. GapAhead(s)
  BY <1>3 DEF GapAhead
<1> QED
  BY <1>5, <1>7, <1>8

\* A message that is not waited for yet goes to the heap.
LEMMA BufferedKeeps ==
  ASSUME NEW got, NEW r, NEW out, NEW of, Ordering(got, r, out, of), GapAhead(r),
         NEW p \in 1..Len(of), Before(of, p) > Reads(r),
         NEW s, s = Buffered(r, MessageAt(of, p))
  PROVE  Ordering(got \cup {p}, s, out, of) /\ SameFilter(r, s) /\ GapAhead(s)
<1> DEFINE m == MessageAt(of, p)
           offset == IF r.orderingHeap = {} THEN r.orderedReadIndex ELSE r.heapIndexOffset
           entry == [weight |-> Weight(offset, m), message |-> m]
<1>1. /\ of \in Seq(Kinds) /\ Len(of) <= MaxMessages /\ r \in Receivers
      /\ got \in SUBSET (1..Len(of)) /\ p \in Nat \ {0}
      /\ HeapBehind(got, r, out, of) /\ OutInOrder(got, r, out, of)
      /\ AllGiven(r, out, of) /\ NoneSkipped(got, r, of) /\ HighestFits(r, out, of)
  BY DEF Ordering, Order
<1>2. s = [r EXCEPT !.heapIndexOffset = offset, !.orderingHeap = @ \cup {entry}]
  BY DEF Buffered
<1>3. offset \in Indices /\ Wrapped(offset - First) <= Reads(r) /\ Reads(r) \in Nat
  <2>1. Reads(r) \in Nat
    BY <1>1, ReadsIs
  <2>2. CASE r.orderingHeap = {}
    <3>1. offset = r.orderedReadIndex
      BY <2>2
    <3> HIDE DEF offset
    <3>2. offset \in Indices /\ Wrapped(offset - First) = Reads(r)
      BY <1>1, <3>1 DEF Receivers, Reads
    <3> QED
      BY <2>1, <3>2
  <2>3. CASE r.orderingHeap # {}
    BY <1>1, <2>1, <2>3 DEF Receivers, HeapBehind
  <2> QED
    BY <2>2, <2>3
<1>4. m \in Messages /\ Before(of, p) \in Nat /\ Before(of, p) < Modulus
  <2>1. m \in Messages /\ Before(of, p) \in 0..p - 1 /\ Before(of, p) < Modulus - 1
    BY <1>1, MessageType
  <2> QED
    BY <1>1, <2>1, Widths
<1> HIDE DEF m, offset
<1>5. entry \in HeapEntries
  BY <1>3, <1>4, WeightType DEF HeapEntries
<1>6. s = [receivedPacketsBaseIndex |-> r.receivedPacketsBaseIndex,
           hasReceivedPacketQueue |-> r.hasReceivedPacketQueue,
           orderedReadIndex |-> r.orderedReadIndex,
           highestSequencedReadIndex |-> r.highestSequencedReadIndex,
           orderingHeap |-> r.orderingHeap \cup {entry}, heapIndexOffset |-> offset]
  <2> DEFINE heap == r.orderingHeap \cup {entry}
  <2>1. s = [[r EXCEPT !.heapIndexOffset = offset] EXCEPT !.orderingHeap = heap]
    <3> HIDE DEF entry
    <3> QED
      BY <1>1, <1>2 DEF Receivers
  <2> HIDE DEF heap, entry
  <2>2. s = [receivedPacketsBaseIndex |-> r.receivedPacketsBaseIndex,
             hasReceivedPacketQueue |-> r.hasReceivedPacketQueue,
             orderedReadIndex |-> r.orderedReadIndex,
             highestSequencedReadIndex |-> r.highestSequencedReadIndex,
             orderingHeap |-> heap, heapIndexOffset |-> offset]
    BY <1>1, <2>1 DEF Receivers
  <2> QED
    BY <2>2 DEF heap
<1>7. s \in Receivers /\ Reads(s) = Reads(r) /\ SameFilter(r, s)
  <2>1. /\ s.receivedPacketsBaseIndex \in Indices /\ s.hasReceivedPacketQueue \in Seq(BOOLEAN)
        /\ s.orderedReadIndex \in Indices /\ s.highestSequencedReadIndex \in Indices
        /\ s.orderingHeap \in SUBSET HeapEntries /\ s.heapIndexOffset \in Indices
    BY <1>1, <1>3, <1>5, <1>6 DEF Receivers
  <2> QED
    BY <1>6, <2>1 DEF Receivers, Reads, SameFilter
<1>8. entry = HeapEntry(s, of, p)
  BY <1>6 DEF HeapEntry, m
<1>9. r.orderingHeap # {} => \A q : HeapEntry(s, of, q) = HeapEntry(r, of, q)
  BY <1>6 DEF HeapEntry, offset
<1> HIDE DEF entry
<1>10. \A i \in DOMAIN out : out[i] < p
  <2> SUFFICES ASSUME NEW i \in DOMAIN out PROVE out[i] < p
    OBVIOUS
  <2>1. out[i] \in got /\ Before(of, out[i]) <= Reads(r)
    BY <1>1 DEF OutInOrder
  <2>2. out[i] \in Nat \ {0}
    <3>1. out[i] \in 1..Len(of)
      BY <1>1, <2>1
    <3> QED
      BY <3>1
  <2>3. Before(of, out[i]) \in Nat /\ (p <= out[i] => Before(of, p) <= Before(of, out[i]))
    BY <1>1, <2>2, OrderedApart
  <2> QED
    BY <1>1, <1>3, <1>4, <2>1, <2>2, <2>3
<1>11. HeapBehind(got \cup {p}, s, out, of)
  <2>1. IsFiniteSet(s.orderingHeap)
    <3>1. IsFiniteSet(r.orderingHeap)
      BY <1>1 DEF HeapBehind
    <3> QED
      BY <1>6, <3>1, FS_AddElement
  <2>2. Wrapped(s.heapIndexOffset - First) <= Reads(s)
    BY <1>3, <1>6, <1>7
  <2>3. ASSUME NEW other \in s.orderingHeap
        PROVE  \E q \in got \cup {p} : /\ other = HeapEntry(s, of, q)
                                       /\ Before(of, q) >= Reads(s)
                                       /\ \A i \in DOMAIN out : out[i] < q
    <3>1. CASE other = entry
      BY <1>3, <1>4, <1>7, <1>8, <1>10, <3>1
    <3>2. CASE other # entry
      <4>1. other \in r.orderingHeap
        BY <1>6, <2>3, <3>2
      <4> QED
        BY <1>1, <1>7, <1>9, <4>1 DEF HeapBehind
    <3> QED
      BY <3>1, <3>2
  <2> QED
    BY <2>1, <2>2, <2>3 DEF HeapBehind
<1>12. OutInOrder(got \cup {p}, s, out, of)
  <2>1. out \in Seq(got \cup {p})
    <3>1. out \in Seq(got)
      BY <1>1 DEF OutInOrder
    <3> QED
      BY <3>1
  <2> QED
    BY <1>1, <1>7, <2>1 DEF OutInOrder
<1>13. AllGiven(s, out, of)
  BY <1>1, <1>7 DEF AllGiven
<1>14. NoneSkipped(got \cup {p}, s, of)
  <2> SUFFICES ASSUME NEW q \in got \cup {p}, of[q] = "RELIABLE_ORDERED", Before(of, q) >= Reads(s)
               PROVE  HeapEntry(s, of, q) \in s.orderingHeap
    BY DEF NoneSkipped
  <2>1. CASE q = p
    BY <1>6, <1>8, <2>1
  <2>2. CASE q # p
    <3>1. HeapEntry(r, of, q) \in r.orderingHeap
      BY <1>1, <1>7, <2>2 DEF NoneSkipped
    <3>2. HeapEntry(s, of, q) = HeapEntry(r, of, q)
      BY <1>9, <3>1
    <3> QED
      BY <1>6, <3>1, <3>2
  <2> QED
    BY <2>1, <2>2
<1>15. HighestFits(s, out, of)
  BY <1>1, <1>6, <1>7 DEF HighestFits
<1>16. GapAhead(s)
  <2>1. m.orderingIndex = Wrapped(First + Before(of, p))
    BY DEF m, MessageAt
  <2>2. m.orderingIndex # r.orderedReadIndex
    BY <1>1, <1>3, <1>4, <2>1, ReadsIs
  <2> QED
    BY <1>6, <2>2 DEF GapAhead, entry
<1>17. got \cup {p} \in SUBSET (1..Len(of))
  BY <1>1
<1> QED
  BY <1>1, <1>7, <1>11, <1>12, <1>13, <1>14, <1>15, <1>16, <1>17 DEF Ordering, Order

LEMMA NothingGiven ==
  ASSUME NEW got, NEW r, NEW out, NEW of, Ordering(got, r, out, of)
  PROVE  Giving(got, [r |-> r, out |-> <<>>], out, of)
<1>1. got \in SUBSET (1..Len(of)) /\ out \in Seq(got)
  BY DEF Ordering, Order, OutInOrder
<1>2. got \subseteq Nat
  BY <1>1
<1>3. out \in Seq(Nat)
  BY <1>1, <1>2, Widened
<1>4. out \o <<>> = out
  BY <1>3
<1> QED
  BY <1>3, <1>4 DEF Giving

LEMMA OneGiven ==
  ASSUME NEW got, NEW r, NEW out, NEW of, NEW p \in Nat, Ordering(got, r, Append(out, p), of),
         out \in Seq(Nat)
  PROVE  Giving(got, [r |-> r, out |-> <<p>>], out, of)
<1>1. out \o <<p>> = Append(out, p) /\ <<p>> \in Seq(Nat)
  OBVIOUS
<1> QED
  BY <1>1 DEF Giving

\* What becomes of a message that is new.
LEMMA OrderedKeeps ==
  ASSUME NEW got, NEW r, NEW out, NEW of, Ordering(got, r, out, of), GapAhead(r),
         NEW n \in 0..Len(of), got \subseteq 1..n, Narrow(got, n), NEW p \in 1..n, p \notin got,
         NEW after, after = Ordered(r, MessageAt(of, p))
  PROVE  Giving(got \cup {p}, after, out, of) /\ SameFilter(r, after.r) /\ GapAhead(after.r)
<1> DEFINE m == MessageAt(of, p)
<1>1. /\ of \in Seq(Kinds) /\ Len(of) <= MaxMessages /\ r \in Receivers /\ p \in 1..Len(of)
      /\ got \in SUBSET (1..Len(of)) /\ out \in Seq(got)
  BY DEF Ordering, Order, OutInOrder
<1>2. out \in Seq(Nat) /\ p \in Nat
  <2>1. got \subseteq Nat
    BY <1>1
  <2>2. out \in Seq(Nat)
    BY <1>1, <2>1, Widened
  <2> QED
    BY <1>1, <2>2
<1>3. /\ m.place = p /\ m.kind = of[p]
      /\ (of[p] = "RELIABLE_SEQUENCED" => m.sequencingIndex = Run(of, p))
      /\ m.orderingIndex = Wrapped(First + Before(of, p))
  BY DEF MessageAt
<1>4. /\ of[p] \in {"RELIABLE_ORDERED", "RELIABLE_SEQUENCED"}
      /\ Before(of, p) \in Nat /\ Reads(r) \in Nat
      /\ m.orderingIndex = r.orderedReadIndex <=> Before(of, p) = Reads(r)
  <2>1. /\ of[p] \in {"RELIABLE_ORDERED", "RELIABLE_SEQUENCED"}
        /\ Before(of, p) \in 0..p - 1 /\ Before(of, p) < Modulus - 1
    BY <1>1, MessageType
  <2>2. Before(of, p) \in Nat /\ Before(of, p) < Modulus
    BY <1>1, <2>1, Widths
  <2> QED
    BY <1>1, <1>3, <2>1, <2>2, ReadsIs
<1>5. SameFilter(r, r)
  BY DEF SameFilter
<1> HIDE DEF m
<1>6. CASE Before(of, p) = Reads(r) /\ of[p] = "RELIABLE_ORDERED"
  <2>1. after = Delivered(r, m)
    BY <1>3, <1>4, <1>6 DEF Ordered, m
  <2> QED
    BY <1>1, <1>6, <2>1, DeliveredKeeps DEF m
<1>7. CASE Before(of, p) = Reads(r) /\ of[p] = "RELIABLE_SEQUENCED"
  <2> DEFINE s == [r EXCEPT !.highestSequencedReadIndex = Wrapped(Run(of, p) + 1)]
  <2>1. after = IF IsOlderOrderedPacket(Run(of, p), r.highestSequencedReadIndex)
                THEN [r |-> r, out |-> <<>>] ELSE [r |-> s, out |-> <<p>>]
    BY <1>3, <1>4, <1>7 DEF Ordered, m
  <2>2. CASE IsOlderOrderedPacket(Run(of, p), r.highestSequencedReadIndex)
    <3>1. Ordering(got \cup {p}, r, out, of)
      BY <1>1, <1>7, Dropped
    <3>2. after = [r |-> r, out |-> <<>>]
      BY <2>1, <2>2
    <3> QED
      BY <1>5, <3>1, <3>2, NothingGiven
  <2>3. CASE ~IsOlderOrderedPacket(Run(of, p), r.highestSequencedReadIndex)
    <3>1. IsNext(r, out, of, p)
      BY <1>7, <2>3, SequencedIsNext
    <3> HIDE DEF s
    <3>2. after = [r |-> s, out |-> <<p>>]
      BY <2>1, <2>3
    <3>3. Ordering(got \cup {p}, s, Append(out, p), of) /\ SameFilter(r, s) /\ GapAhead(s)
      BY <1>1, <1>7, <3>1, SequencedKeeps DEF s
    <3> QED
      BY <1>2, <3>2, <3>3, OneGiven
  <2> QED
    BY <2>2, <2>3
<1>8. CASE Before(of, p) # Reads(r)
  <2>1. after = [r |-> IF IsOlderOrderedPacket(m.orderingIndex, r.orderedReadIndex) THEN r
                       ELSE Buffered(r, m),
                 out |-> <<>>]
    BY <1>3, <1>4, <1>8 DEF Ordered, m
  <2>2. CASE Before(of, p) < Reads(r)
    <3>1. /\ of[p] # "RELIABLE_ORDERED"
          /\ IsOlderOrderedPacket(m.orderingIndex, r.orderedReadIndex)
      BY <2>2, LateIsSeen DEF m
    <3>2. Ordering(got \cup {p}, r, out, of)
      BY <1>1, <3>1, Dropped
    <3>3. after = [r |-> r, out |-> <<>>]
      BY <2>1, <3>1
    <3> QED
      BY <1>5, <3>2, <3>3, NothingGiven
  <2>3. CASE Before(of, p) > Reads(r)
    <3>1. ~IsOlderOrderedPacket(m.orderingIndex, r.orderedReadIndex)
      BY <2>3, EarlyIsSeen DEF m
    <3>2. PICK s : s = Buffered(r, m)
      OBVIOUS
    <3>3. Ordering(got \cup {p}, s, out, of) /\ SameFilter(r, s) /\ GapAhead(s)
      BY <1>1, <2>3, <3>2, BufferedKeeps DEF m
    <3>4. after = [r |-> s, out |-> <<>>]
      BY <2>1, <3>1, <3>2
    <3> QED
      BY <3>3, <3>4, NothingGiven
  <2> QED
    BY <1>4, <1>8, <2>2, <2>3
<1> QED
  BY <1>4, <1>6, <1>7, <1>8

(***************************************************************************)
(* The messages of a datagram.                                             *)
(***************************************************************************)
Handing(result, prev, of, n) ==
  /\ prev \in Seq(Nat) /\ result.out \in Seq(Nat)
  /\ ReceiverInv(result.r, prev \o result.out, of, n)

Regroups(a, b, c) == (a \o b) \o c = a \o (b \o c)

LEMMA Regrouped ==
  ASSUME NEW a \in Seq(Nat), NEW b \in Seq(Nat), NEW c \in Seq(Nat)
  PROVE  Regroups(a, b, c)
BY ConcatAssociative DEF Regroups

\* One more place has been received.
Gained(r, s, p) == Has(s) = Has(r) \cup {p}

LEMMA HandledKeeps ==
  ASSUME NEW of \in Seq(Kinds), Len(of) <= MaxMessages, NEW n \in 0..Len(of),
         NEW prev, NEW result, Handing(result, prev, of, n), NEW p \in 1..n,
         NEW next, next = Handled(result, EntryAt(of, p))
  PROVE  /\ Handing(next, prev, of, n)
         /\ Gained(result.r, next.r, p)
<1> DEFINE r == result.r
           out == prev \o result.out
           got == Has(r)
           numbered == EntryAt(of, p)
<1>1. /\ prev \in Seq(Nat) /\ result.out \in Seq(Nat) /\ out \in Seq(Nat)
      /\ r \in Receivers /\ got \subseteq 1..n /\ Filter(r, n) /\ Order(got, r, out, of)
      /\ GapAhead(r)
  BY DEF Handing, ReceiverInv
<1>2. numbered.number = NumberOf(p) /\ numbered.message = MessageAt(of, p)
  BY DEF EntryAt
<1> HIDE DEF r, out, got, numbered
<1>3. n \in 0..MaxMessages /\ n \in Nat /\ Len(of) \in Nat /\ n <= Len(of)
  BY Widths
<1>4. IsNew(r, NumberOf(p)) <=> p \notin got
  BY <1>1, <1>3, NewIs DEF got
<1>5. CASE p \in got
  <2>1. next = result
    BY <1>2, <1>4, <1>5 DEF Handled, r, numbered
  <2> QED
    BY <1>5, <2>1 DEF got, r, Gained
<1>6. CASE p \notin got
  <2>1. PICK s : s = Received(r, NumberOf(p))
    OBVIOUS
  <2>2. PICK after : after = Ordered(s, MessageAt(of, p))
    OBVIOUS
  <2>3. next = [r |-> after.r, out |-> result.out \o after.out]
    BY <1>2, <1>4, <1>6, <2>1, <2>2 DEF Handled, r, numbered
  <2>4. /\ s \in Receivers /\ Has(s) = got \cup {p} /\ Filter(s, n) /\ SameOrder(r, s)
    <3>1. /\ r \in Receivers /\ Filter(r, n)
          /\ Has(r) \subseteq 1..n /\ p \notin Has(r) /\ n \in 0..MaxMessages
      BY <1>1, <1>3, <1>6 DEF got
    <3>2. /\ s \in Receivers /\ Has(s) = Has(r) \cup {p} /\ Filter(s, n)
          /\ s.orderedReadIndex = r.orderedReadIndex
          /\ s.highestSequencedReadIndex = r.highestSequencedReadIndex
          /\ s.orderingHeap = r.orderingHeap /\ s.heapIndexOffset = r.heapIndexOffset
      BY <2>1, <3>1, ReceivedFilter
    <3> QED
      BY <3>2 DEF SameOrder, got
  <2>5. Ordering(got, s, out, of) /\ GapAhead(s)
    <3>1. got \in SUBSET (1..Len(of))
      BY <1>1, <1>3
    <3>2. Ordering(got, r, out, of)
      BY <1>1, <3>1 DEF Ordering
    <3> QED
      BY <1>1, <2>4, <3>2, OrderFields
  <2>6. Narrow(got, n)
    <3> SUFFICES ASSUME NEW v \in (1..n) \ got PROVE n - v < ResendBufferLength
      BY DEF Narrow
    <3>1. v >= Base(r) /\ Base(r) \in 1..n + 1
      BY <1>1, <1>3, WindowHas DEF got
    <3>2. n < Base(r) + ResendBufferLength /\ ResendBufferLength \in Nat
      BY <1>1, Widths DEF Filter
    <3> QED
      BY <1>3, <3>1, <3>2
  <2>7. Giving(got \cup {p}, after, out, of) /\ SameFilter(s, after.r) /\ GapAhead(after.r)
    BY <1>1, <1>6, <2>2, <2>5, <2>6, OrderedKeeps
  <2>8. Base(after.r) = Base(s) /\ Has(after.r) = got \cup {p} /\ Filter(after.r, n)
    BY <2>4, <2>7 DEF SameFilter, Base, Has, Filter
  <2>9. /\ after.out \in Seq(Nat) /\ after.r \in Receivers
        /\ Order(got \cup {p}, after.r, out \o after.out, of)
    BY <2>7 DEF Giving, Ordering
  <2>10. prev \o (result.out \o after.out) = out \o after.out
         /\ result.out \o after.out \in Seq(Nat)
    <3>1. result.out \o after.out \in Seq(Nat)
      BY <1>1, <2>9
    <3>2. Regroups(prev, result.out, after.out)
      BY <1>1, <2>9, Regrouped
    <3> QED
      BY <3>1, <3>2 DEF out, Regroups
  <2>11. got \cup {p} \subseteq 1..n
    BY <1>1
  <2>12. next.r = after.r /\ next.out = result.out \o after.out
    <3> DEFINE given == result.out \o after.out
               kept == after.r
    <3>1. next = [r |-> kept, out |-> given]
      BY <2>3
    <3> HIDE DEF given, kept
    <3>2. next.r = kept /\ next.out = given
      BY <3>1
    <3> QED
      BY <3>2 DEF given, kept
  <2> QED
    BY <1>1, <2>7, <2>8, <2>9, <2>10, <2>11, <2>12 DEF Handing, ReceiverInv, got, r, Gained
<1> QED
  BY <1>5, <1>6

\* What was received stays received, and all that the datagram carries is received too.
AllHandled(result, last, datagram, of) ==
  /\ Has(result.r) \subseteq Has(last.r)
  /\ \A i \in DOMAIN datagram : \E p \in Has(last.r) : datagram[i] = EntryAt(of, p)

LEMMA HandledAllKeeps ==
  ASSUME NEW of \in Seq(Kinds), Len(of) <= MaxMessages, NEW n \in 0..Len(of),
         NEW prev, NEW result, Handing(result, prev, of, n),
         NEW datagram, Len(datagram) \in Nat, DOMAIN datagram = 1..Len(datagram),
         \A i \in DOMAIN datagram : \E p \in 1..n : datagram[i] = EntryAt(of, p),
         NEW last, last = HandledAll(result, datagram)
  PROVE  Handing(last, prev, of, n) /\ AllHandled(result, last, datagram, of)
<1>1. PICK after : /\ after[0] = result
                   /\ \A i \in 1..Len(datagram) : after[i] = Handled(after[i - 1], datagram[i])
                   /\ last = after[Len(datagram)]
  BY HandledOneByOne
<1> DEFINE Good(i) ==
      /\ Handing(after[i], prev, of, n)
      /\ Has(result.r) \subseteq Has(after[i].r)
      /\ \A j \in 1..i : \E p \in Has(after[i].r) : datagram[j] = EntryAt(of, p)
    S == {i \in 0..Len(datagram) : Good(i)}
<1>2. 0 \in S
  BY <1>1
<1>3. ASSUME NEW i \in 1..Len(datagram), i - 1 \in S
      PROVE  i \in S
  <2>1. Good(i - 1) /\ after[i] = Handled(after[i - 1], datagram[i]) /\ i \in 0..Len(datagram)
    BY <1>1, <1>3
  <2>2. PICK p \in 1..n : datagram[i] = EntryAt(of, p)
    OBVIOUS
  <2>3. /\ Handing(after[i], prev, of, n)
        /\ Has(after[i].r) = Has(after[i - 1].r) \cup {p}
    <3>1. Handing(after[i - 1], prev, of, n) /\ after[i] = Handled(after[i - 1], EntryAt(of, p))
      BY <2>1, <2>2
    <3>2. PICK before : before = after[i - 1]
      OBVIOUS
    <3>3. Handing(before, prev, of, n) /\ after[i] = Handled(before, EntryAt(of, p))
      BY <3>1, <3>2
    <3>4. PICK next : next = after[i]
      OBVIOUS
    <3>5. next = Handled(before, EntryAt(of, p))
      BY <3>3, <3>4
    <3>6. Handing(next, prev, of, n) /\ Gained(before.r, next.r, p)
      BY <3>3, <3>5, HandledKeeps
    <3> QED
      BY <3>2, <3>4, <3>6 DEF Gained
  <2>4. ASSUME NEW j \in 1..i
        PROVE  \E q \in Has(after[i].r) : datagram[j] = EntryAt(of, q)
    <3>1. CASE j = i
      BY <2>2, <2>3, <3>1
    <3>2. CASE j # i
      <4>1. j \in 1..i - 1
        BY <3>2
      <4>2. PICK q \in Has(after[i - 1].r) : datagram[j] = EntryAt(of, q)
        BY <2>1, <4>1
      <4> QED
        BY <2>3, <4>2
    <3> QED
      BY <3>1, <3>2
  <2>5. Has(result.r) \subseteq Has(after[i].r)
    BY <2>1, <2>3
  <2> QED
    BY <2>1, <2>3, <2>4, <2>5
<1>4. Len(datagram) \in S
  <2> HIDE DEF S
  <2>1. \A i \in 0..Len(datagram) : i \in S
    BY <1>2, <1>3, StepByStep
  <2> QED
    BY <2>1
<1> QED
  BY <1>1, <1>4 DEF AllHandled

(***************************************************************************)
(* The user sends.                                                         *)
(***************************************************************************)
\* Messages sent later change nothing of those sent before.
LEMMA EntriesStay ==
  ASSUME NEW of \in Seq(Kinds), NEW kind \in Kinds, NEW p \in 1..Len(of)
  PROVE  /\ MessageAt(Append(of, kind), p) = MessageAt(of, p)
         /\ EntryAt(Append(of, kind), p) = EntryAt(of, p)
         /\ \A r : HeapEntry(r, Append(of, kind), p) = HeapEntry(r, of, p)
         /\ Before(Append(of, kind), p) = Before(of, p)
         /\ Run(Append(of, kind), p) = Run(of, p)
         /\ Append(of, kind)[p] = of[p]
<1>1. p \in 1..Len(of) + 1 /\ Append(of, kind)[p] = of[p]
  OBVIOUS
<1>2. /\ Before(Append(of, kind), p) = Before(of, p)
      /\ Run(Append(of, kind), p) = Run(of, p)
  BY <1>1, CountsStay
<1> QED
  BY <1>1, <1>2 DEF MessageAt, EntryAt, HeapEntry

LEMMA MoreSent ==
  ASSUME NEW of \in Seq(Kinds), NEW kind \in Kinds, NEW n \in 0..Len(of),
         NEW r, NEW out, ReceiverInv(r, out, of, n), NEW more, more = Append(of, kind)
  PROVE  ReceiverInv(r, out, more, n)
<1> DEFINE got == Has(r)
<1>1. /\ r \in Receivers /\ got \subseteq 1..n /\ Filter(r, n) /\ GapAhead(r)
      /\ HeapBehind(got, r, out, of) /\ OutInOrder(got, r, out, of)
      /\ AllGiven(r, out, of) /\ NoneSkipped(got, r, of) /\ HighestFits(r, out, of)
  BY DEF ReceiverInv, Order
<1>2. /\ Len(of) \in Nat /\ DOMAIN of = 1..Len(of)
      /\ Len(more) = Len(of) + 1 /\ DOMAIN more = 1..Len(of) + 1
  OBVIOUS
<1>3. ASSUME NEW p \in 1..Len(of)
      PROVE  /\ HeapEntry(r, more, p) = HeapEntry(r, of, p)
             /\ Before(more, p) = Before(of, p) /\ Run(more, p) = Run(of, p)
             /\ more[p] = of[p]
  BY EntriesStay
<1>4. \A p \in got : p \in 1..Len(of)
  BY <1>1, <1>2
<1>5. out \in Seq(got) /\ \A i \in DOMAIN out : out[i] \in got
  BY <1>1 DEF OutInOrder
<1> HIDE DEF got
<1>6. HeapBehind(got, r, out, more)
  <2>1. \A p \in got : HeapEntry(r, more, p) = HeapEntry(r, of, p) /\ Before(more, p) = Before(of, p)
    BY <1>3, <1>4
  <2> QED
    BY <1>1, <2>1 DEF HeapBehind
<1>7. OutInOrder(got, r, out, more)
  <2>1. \A i \in DOMAIN out : Before(more, out[i]) = Before(of, out[i]) /\ more[out[i]] = of[out[i]]
    BY <1>3, <1>4, <1>5
  <2> QED
    BY <1>1, <2>1 DEF OutInOrder
<1>8. AllGiven(r, out, more)
  <2>1. Before(more, Len(of) + 1) = Before(of, Len(of) + 1)
    BY <1>2, CountsStay
  <2>2. /\ Before(more, Len(of) + 1) <= Before(more, Len(more) + 1)
        /\ Before(more, Len(of) + 1) \in Nat /\ Before(more, Len(more) + 1) \in Nat
    BY <1>2, OrderedApart
  <2>3. Reads(r) <= Before(of, Len(of) + 1) /\ Reads(r) \in Nat
    BY <1>1, ReadsIs DEF AllGiven
  <2>4. Reads(r) <= Before(more, Len(more) + 1)
    BY <2>1, <2>2, <2>3
  <2>5. ASSUME NEW p \in DOMAIN more, more[p] = "RELIABLE_ORDERED", Before(more, p) < Reads(r)
        PROVE  \E i \in DOMAIN out : out[i] = p
    <3>1. p # Len(of) + 1
      BY <2>1, <2>2, <2>3, <2>5
    <3>2. p \in 1..Len(of)
      BY <1>2, <3>1
    <3>3. Before(of, p) < Reads(r) /\ of[p] = "RELIABLE_ORDERED"
      BY <1>3, <2>5, <3>2
    <3> QED
      BY <1>1, <1>2, <3>2, <3>3 DEF AllGiven
  <2> QED
    BY <2>4, <2>5 DEF AllGiven
<1>9. NoneSkipped(got, r, more)
  <2>1. \A p \in got : /\ HeapEntry(r, more, p) = HeapEntry(r, of, p)
                       /\ Before(more, p) = Before(of, p) /\ more[p] = of[p]
    BY <1>3, <1>4
  <2> QED
    BY <1>1, <2>1 DEF NoneSkipped
<1>10. HighestFits(r, out, more)
  <2> SUFFICES ASSUME out # <<>>, Before(more, out[Len(out)]) = Reads(r)
               PROVE  r.highestSequencedReadIndex
                        \in {Run(more, out[Len(out)]), Run(more, out[Len(out)]) + 1}
    BY DEF HighestFits
  <2>1. out[Len(out)] \in 1..Len(of)
    <3>1. Len(out) \in DOMAIN out
      BY <1>5
    <3> QED
      BY <1>4, <1>5, <3>1
  <2>2. /\ Before(more, out[Len(out)]) = Before(of, out[Len(out)])
        /\ Run(more, out[Len(out)]) = Run(of, out[Len(out)])
    BY <1>3, <2>1
  <2> QED
    BY <1>1, <2>2 DEF HighestFits
<1> QED
  BY <1>1, <1>6, <1>7, <1>8, <1>9, <1>10 DEF ReceiverInv, Order, got

IndicesStep(of, kind, more, k) ==
  /\ Before(more, k) = Before(of, k) /\ Run(more, k) = Run(of, k)
  /\ kind = "RELIABLE_ORDERED" =>
       /\ Wrapped(Wrapped(First + Before(of, k)) + 1) = Wrapped(First + Before(more, k + 1))
       /\ Run(more, k + 1) = 0
  /\ kind = "RELIABLE_SEQUENCED" =>
       /\ Before(more, k + 1) = Before(of, k)
       /\ Wrapped(Run(of, k) + 1) = Run(more, k + 1)

\* The next message and the indices after it.
LEMMA IndicesNext ==
  ASSUME NEW of \in Seq(Kinds), NEW kind \in Kinds, Len(of) < MaxMessages,
         NEW more, more = Append(of, kind), NEW k, k = Len(of) + 1
  PROVE  IndicesStep(of, kind, more, k)
<1>1. /\ Len(of) \in Nat /\ k \in Nat \ {0} /\ k + 1 \in Nat \ {0} /\ k <= k + 1
      /\ k \in 1..Len(of) + 1 /\ more[k] = kind /\ k \in k..(k + 1) - 1 /\ (k + 1) - 1 = k
      /\ k <= MaxMessages
  BY Widths
<1>2. Before(more, k) = Before(of, k) /\ Run(more, k) = Run(of, k)
  BY <1>1, CountsStay
<1>3. /\ Before(more, k) \in 0..k - 1
      /\ Before(more, k + 1) - Before(more, k) \in 0..(k + 1) - k
      /\ Before(more, k + 1) \in 0..(k + 1) - 1
      /\ \A x \in k..(k + 1) - 1 : more[x] = "RELIABLE_ORDERED" =>
           Before(more, k) < Before(more, k + 1)
      /\ \A x \in k..(k + 1) - 1 : more[x] # "RELIABLE_ORDERED" =>
           Before(more, k + 1) - Before(more, k) < (k + 1) - k
  BY <1>1, BeforeSteps
<1>4. Before(more, k) \in Nat /\ Before(more, k + 1) \in Nat
  BY <1>1, <1>3
<1>5. ASSUME kind = "RELIABLE_ORDERED"
      PROVE  /\ Wrapped(Wrapped(First + Before(of, k)) + 1) = Wrapped(First + Before(more, k + 1))
             /\ Run(more, k + 1) = 0
  <2>1. Before(more, k + 1) = Before(of, k) + 1
    BY <1>1, <1>2, <1>3, <1>4, <1>5
  <2>2. First + Before(of, k) \in Int /\ (First + Before(of, k)) + 1 = First + Before(more, k + 1)
    <3>1. First \in Int
      BY Widths
    <3>2. Before(of, k) \in Nat
      BY <1>2, <1>4
    <3> QED
      BY <2>1, <3>1, <3>2
  <2>3. Run(more, k + 1) = 0
    BY <1>1, <1>5, RunEnds
  <2> QED
    BY <2>2, <2>3, WrappedPlus
<1>6. ASSUME kind = "RELIABLE_SEQUENCED"
      PROVE  /\ Before(more, k + 1) = Before(of, k)
             /\ Wrapped(Run(of, k) + 1) = Run(more, k + 1)
  <2>1. Before(more, k + 1) = Before(of, k)
    <3>1. more[k] # "RELIABLE_ORDERED"
      BY <1>1, <1>6
    <3> QED
      BY <1>1, <1>2, <1>3, <1>4, <3>1
  <2>2. Run(more, k + 1) = Run(more, k) + ((k + 1) - k)
    <3>1. \A x \in k..(k + 1) - 1 : more[x] # "RELIABLE_ORDERED"
      <4>1. \A x \in k..(k + 1) - 1 : x = k
        BY <1>1
      <4> QED
        BY <1>1, <1>6, <4>1
    <3> QED
      BY <1>1, <3>1, RunSteps
  <2>3. Run(of, k) + 1 \in Indices
    <3>1. Run(of, k) \in 0..k - 1
      BY <1>1, RunType
    <3> QED
      BY <1>1, <3>1, Widths DEF Indices
  <2>4. Wrapped(Run(of, k) + 1) = Run(of, k) + 1
    BY <2>3, WrappedSmall
  <2> QED
    BY <1>1, <1>2, <2>1, <2>2, <2>4
<1> QED
  BY <1>2, <1>5, <1>6 DEF IndicesStep

LEMMA SentFacts ==
  ASSUME RelInv
  PROVE  /\ sent \in Seq(Kinds) /\ Len(sent) \in Nat /\ DOMAIN sent = 1..Len(sent)
         /\ Len(sent) <= MaxMessages
         /\ outgoingPacketBuffer \in Seq(Messages) /\ Len(outgoingPacketBuffer) \in Nat
         /\ DOMAIN outgoingPacketBuffer = 1..Len(outgoingPacketBuffer)
         /\ Transmitted \in 0..Len(sent) /\ Transmitted \in Nat
         /\ Transmitted + Len(outgoingPacketBuffer) = Len(sent)
         /\ Transmitted \in 0..MaxMessages
<1>1. /\ sent \in Seq(Kinds) /\ Len(sent) <= MaxMessages
      /\ outgoingPacketBuffer \in Seq(Messages) /\ Len(outgoingPacketBuffer) <= Len(sent)
  BY DEF RelInv, SenderTypes
<1>2. Len(sent) \in Nat /\ Len(outgoingPacketBuffer) \in Nat
  BY <1>1
<1>3. MaxMessages \in Nat
  BY Widths
<1> QED
  BY <1>1, <1>2, <1>3 DEF Transmitted

\* Every place sent has a message of the right type.
LEMMA EntryTypes ==
  ASSUME RelInv, NEW p \in 1..Len(sent)
  PROVE  MessageAt(sent, p) \in Messages /\ EntryAt(sent, p) \in Numbered
         /\ EntryAt(sent, p) # Empty /\ EntryAt(sent, p).number = NumberOf(p)
         /\ EntryAt(sent, p).message.place = p
<1>1. MessageAt(sent, p) \in Messages /\ EntryAt(sent, p) \in Numbered
  BY SentFacts, MessageType
<1> QED
  BY <1>1, EmptyAssumption DEF EntryAt, MessageAt

LEMMA SendKeeps ==
  ASSUME RelInv, NEW kind \in Kinds, Send(kind)
  PROVE  RelInv'
<1> DEFINE k == Len(sent) + 1
           m == Message(kind)
<1>1. /\ Len(sent) < MaxMessages /\ sent' = Append(sent, kind)
      /\ outgoingPacketBuffer' = Append(outgoingPacketBuffer, m)
      /\ UNCHANGED <<sendReliableMessageNumberIndex, resendBuffer, net, acks, receiver, outputQueue>>
  BY DEF Send
<1>2. /\ sent \in Seq(Kinds) /\ Len(sent) \in Nat /\ DOMAIN sent = 1..Len(sent)
      /\ outgoingPacketBuffer \in Seq(Messages) /\ Len(outgoingPacketBuffer) \in Nat
      /\ DOMAIN outgoingPacketBuffer = 1..Len(outgoingPacketBuffer)
      /\ Transmitted \in 0..Len(sent) /\ Transmitted \in Nat
      /\ Transmitted + Len(outgoingPacketBuffer) = Len(sent)
  BY SentFacts
<1>3. /\ sent' \in Seq(Kinds) /\ Len(sent') = k /\ Len(sent') <= MaxMessages
      /\ Len(outgoingPacketBuffer') = Len(outgoingPacketBuffer) + 1
      /\ k \in 1..Len(sent') /\ k \in Nat \ {0} /\ sent'[k] = kind
      /\ DOMAIN outgoingPacketBuffer' = 1..Len(outgoingPacketBuffer) + 1
      /\ outgoingPacketBuffer'[Len(outgoingPacketBuffer) + 1] = m
      /\ \A i \in 1..Len(outgoingPacketBuffer) :
           outgoingPacketBuffer'[i] = outgoingPacketBuffer[i]
  <2>1. MaxMessages \in Nat
    BY Widths
  <2> HIDE DEF m
  <2> QED
    BY <1>1, <1>2, <2>1
<1>4. Transmitted' = Transmitted
  BY <1>2, <1>3 DEF Transmitted
<1>5. Numbering /\ SlotsNumbered /\ UnderWay /\ SlotOrReceived
      /\ ReceiverInv(receiver, outputQueue, sent, Transmitted)
      /\ resendBuffer \in [Slots -> Numbered \cup {Empty}]
  BY DEF RelInv, SenderTypes
<1>6. /\ Before(sent', k) = Before(sent, k) /\ Run(sent', k) = Run(sent, k)
      /\ kind = "RELIABLE_ORDERED" =>
           /\ Wrapped(Wrapped(First + Before(sent, k)) + 1) = Wrapped(First + Before(sent', k + 1))
           /\ Run(sent', k + 1) = 0
      /\ kind = "RELIABLE_SEQUENCED" =>
           /\ Before(sent', k + 1) = Before(sent, k)
           /\ Wrapped(Run(sent, k) + 1) = Run(sent', k + 1)
  <2>1. PICK more : more = sent'
    OBVIOUS
  <2> HIDE DEF k
  <2>2. more = Append(sent, kind) /\ Len(sent) < MaxMessages /\ k = Len(sent) + 1
    BY <1>1, <2>1 DEF k
  <2>3. IndicesStep(sent, kind, more, k)
    BY <1>2, <2>2, IndicesNext
  <2> QED
    BY <2>1, <2>3 DEF IndicesStep
<1>7. m = MessageAt(sent', k)
  <2>1. orderedWriteIndex = Wrapped(First + Before(sent, k)) /\ sequencedWriteIndex = Run(sent, k)
    BY <1>5 DEF Numbering
  <2> QED
    BY <1>3, <1>6, <2>1 DEF Message, MessageAt
<1>8. ASSUME NEW p \in 1..Len(sent)
      PROVE  MessageAt(sent', p) = MessageAt(sent, p) /\ EntryAt(sent', p) = EntryAt(sent, p)
  BY <1>1, <1>2, EntriesStay
<1> HIDE DEF m
<1>9. SenderTypes'
  <2>1. MessageAt(sent', k) \in Messages
    <3>1. PICK more : more = sent'
      OBVIOUS
    <3>2. more \in Seq(Kinds) /\ Len(more) <= MaxMessages /\ k \in 1..Len(more)
      BY <1>3, <3>1
    <3> HIDE DEF k
    <3> QED
      BY <3>1, <3>2, MessageType
  <2>2. outgoingPacketBuffer' \in Seq(Messages)
    BY <1>1, <1>2, <1>7, <2>1
  <2>3. Len(outgoingPacketBuffer') <= Len(sent')
    BY <1>2, <1>3
  <2> QED
    BY <1>1, <1>3, <1>5, <2>2, <2>3 DEF SenderTypes
<1>10. Numbering'
  <2>1. /\ orderedWriteIndex = Wrapped(First + Before(sent, k)) /\ sequencedWriteIndex = Run(sent, k)
        /\ sendReliableMessageNumberIndex = NumberOf(Transmitted + 1)
        /\ \A i \in DOMAIN outgoingPacketBuffer :
             outgoingPacketBuffer[i] = MessageAt(sent, Transmitted + i)
    BY <1>5 DEF Numbering
  <2>2. /\ orderedWriteIndex' = Wrapped(First + Before(sent', k + 1))
        /\ sequencedWriteIndex' = Run(sent', k + 1)
    <3>1. CASE kind = "RELIABLE_SEQUENCED"
      <4>1. sequencedWriteIndex' = Wrapped(sequencedWriteIndex + 1)
            /\ orderedWriteIndex' = orderedWriteIndex
        BY <3>1 DEF Send
      <4> QED
        BY <1>6, <2>1, <3>1, <4>1
    <3>2. CASE kind = "RELIABLE_ORDERED"
      <4>1. orderedWriteIndex' = Wrapped(orderedWriteIndex + 1) /\ sequencedWriteIndex' = 0
        BY <3>2 DEF Send
      <4> QED
        BY <1>6, <2>1, <3>2, <4>1
    <3> QED
      BY <3>1, <3>2 DEF Send
  <2>3. ASSUME NEW i \in DOMAIN outgoingPacketBuffer'
        PROVE  outgoingPacketBuffer'[i] = MessageAt(sent', Transmitted' + i)
    <3>1. CASE i = Len(outgoingPacketBuffer) + 1
      <4>1. Transmitted' + i = k
        BY <1>2, <1>4, <3>1
      <4> QED
        BY <1>3, <1>7, <3>1, <4>1
    <3>2. CASE i # Len(outgoingPacketBuffer) + 1
      <4>1. i \in DOMAIN outgoingPacketBuffer /\ Transmitted + i \in 1..Len(sent)
        BY <1>2, <1>3, <3>2
      <4>2. MessageAt(sent', Transmitted + i) = MessageAt(sent, Transmitted + i)
        BY <1>8, <4>1
      <4> QED
        BY <1>2, <1>3, <1>4, <2>1, <4>1, <4>2
    <3> QED
      BY <3>1, <3>2
  <2>4. Len(sent') + 1 = k + 1
    BY <1>3
  <2>5. sendReliableMessageNumberIndex' = NumberOf(Transmitted' + 1)
    BY <1>1, <1>4, <2>1
  <2> HIDE DEF k
  <2> QED
    BY <2>2, <2>3, <2>4, <2>5 DEF Numbering, NumberOf
<1>11. \A p \in 1..Transmitted : EntryAt(sent', p) = EntryAt(sent, p)
  BY <1>2, <1>8
<1>12. SlotsNumbered'
  BY <1>1, <1>4, <1>5, <1>11 DEF SlotsNumbered, NumberOf
<1>13. Has(receiver) \subseteq 1..Transmitted /\ receiver' = receiver
  BY <1>1, <1>5 DEF ReceiverInv
<1>14. UnderWay'
  <2>1. ASSUME NEW datagram, NEW places, places \subseteq 1..Transmitted,
               Carries(datagram, places)
        PROVE  Carries(datagram, places)'
    BY <1>11, <2>1 DEF Carries
  <2>2. ASSUME NEW datagram \in net' PROVE Carries(datagram, 1..Transmitted)'
    BY <1>1, <1>5, <1>4, <1>11 DEF UnderWay, Carries
  <2>3. ASSUME NEW datagram \in acks' PROVE Carries(datagram, Has(receiver))'
    BY <1>1, <1>5, <1>11, <1>13 DEF UnderWay, Carries
  <2> QED
    BY <2>2, <2>3 DEF UnderWay
<1>15. SlotOrReceived'
  BY <1>1, <1>4, <1>5, <1>11, <1>13 DEF SlotOrReceived, HoldsSlot, NumberOf
<1>16. ReceiverInv(receiver, outputQueue, sent, Transmitted)'
  <2>1. PICK more : more = sent'
    OBVIOUS
  <2>2. more = Append(sent, kind)
    BY <1>1, <2>1
  <2>3. ReceiverInv(receiver, outputQueue, more, Transmitted)
    BY <1>2, <1>5, <2>2, MoreSent
  <2>4. outputQueue' = outputQueue /\ receiver' = receiver
    BY <1>1
  <2> QED
    BY <1>4, <2>1, <2>3, <2>4
<1> QED
  BY <1>9, <1>10, <1>12, <1>14, <1>15, <1>16 DEF RelInv

(***************************************************************************)
(* The first datagram of a message.                                        *)
(***************************************************************************)
LEMMA NumberPlus ==
  ASSUME NEW p \in Nat, NEW j \in Int, p + j \in Nat
  PROVE  /\ Wrapped(NumberOf(p) + j) = NumberOf(p + j)
         /\ Slot(NumberOf(p) + j) = Slot(NumberOf(p + j))
         /\ NumberOf(p) \in Int
<1>1. First \in Int
  BY Widths
<1>2. First + p - 1 \in Int /\ (First + p - 1) + j = First + (p + j) - 1
  BY <1>1
<1>3. NumberOf(p) \in Int /\ NumberOf(p) + j \in Int
  <2>1. Wrapped(First + p - 1) \in Nat
    BY <1>2, WrappedType
  <2>2. NumberOf(p) \in Int
    BY <2>1 DEF NumberOf
  <2> QED
    BY <2>2
<1>4. Wrapped(NumberOf(p) + j) = NumberOf(p + j)
  <2>1. Wrapped(Wrapped(First + p - 1) + j) = Wrapped((First + p - 1) + j)
    BY <1>2, WrappedPlus
  <2> QED
    BY <1>2, <2>1 DEF NumberOf
<1>5. Slot(Wrapped(NumberOf(p) + j)) = Slot(NumberOf(p) + j)
  BY <1>3, SlotOfWrapped
<1> QED
  BY <1>3, <1>4, <1>5

\* Places that share a slot are the same or far apart.
LEMMA SlotsApart ==
  ASSUME NEW p \in Nat, NEW q \in Nat
  PROVE  /\ Slot(NumberOf(p)) = Slot(NumberOf(q))
              /\ p - q < ResendBufferLength /\ q - p < ResendBufferLength => p = q
         /\ Slot(NumberOf(p + ResendBufferLength)) = Slot(NumberOf(p))
         /\ Slot(NumberOf(p)) \in Slots
<1>1. First \in Int /\ ResendBufferLength \in Nat
  BY Widths
<1> DEFINE x == First + p - 1
           y == First + q - 1
           z == First + (p + ResendBufferLength) - 1
<1>2. /\ x \in Int /\ y \in Int /\ z \in Int
      /\ x - y = p - q /\ y - x = q - p /\ z = x + ResendBufferLength /\ (x = y <=> p = q)
  BY <1>1
<1>3. /\ NumberOf(p) = Wrapped(x) /\ NumberOf(q) = Wrapped(y)
      /\ NumberOf(p + ResendBufferLength) = Wrapped(z)
  BY DEF NumberOf
<1> HIDE DEF x, y, z
<1>4. Slot(Wrapped(x)) = Slot(x) /\ Slot(Wrapped(y)) = Slot(y) /\ Slot(Wrapped(z)) = Slot(z)
  BY <1>2, SlotOfWrapped
<1>5. Slot(x) = Slot(y) /\ p - q < ResendBufferLength /\ q - p < ResendBufferLength => p = q
  BY <1>2, SameSlot
<1>6. Slot(z) = Slot(x)
  BY <1>2, NextRound
<1>7. Slot(x) \in Slots
  BY <1>2, SlotType
<1> QED
  BY <1>3, <1>4, <1>5, <1>6, <1>7

\* What the datagram of new messages carries.
Fresh(n) == [i \in 1..n |-> EntryAt(sent, Transmitted + i)]

LEMMA FreshIs ==
  ASSUME RelInv, NEW n \in 1..MaxPerDatagram, n <= Len(outgoingPacketBuffer)
  PROVE  /\ Fresh(n) = [i \in 1..n |->
                          [number |-> Wrapped(sendReliableMessageNumberIndex + i - 1),
                           message |-> outgoingPacketBuffer[i]]]
         /\ \A i \in 1..n :
              /\ Slot(sendReliableMessageNumberIndex + (i - 1)) = Slot(NumberOf(Transmitted + i))
              /\ Transmitted + i \in 1..Len(sent)
         /\ Wrapped(sendReliableMessageNumberIndex + n) = NumberOf(Transmitted + n + 1)
<1>1. /\ Len(sent) \in Nat /\ Len(outgoingPacketBuffer) \in Nat
      /\ DOMAIN outgoingPacketBuffer = 1..Len(outgoingPacketBuffer)
      /\ Transmitted \in Nat /\ Transmitted + Len(outgoingPacketBuffer) = Len(sent)
  BY SentFacts
<1>2. /\ sendReliableMessageNumberIndex = NumberOf(Transmitted + 1)
      /\ \A i \in DOMAIN outgoingPacketBuffer :
           outgoingPacketBuffer[i] = MessageAt(sent, Transmitted + i)
  BY DEF RelInv, Numbering
<1>3. n \in Nat
  OBVIOUS
<1>4. ASSUME NEW i \in 1..n
      PROVE  /\ Slot(sendReliableMessageNumberIndex + (i - 1)) = Slot(NumberOf(Transmitted + i))
             /\ Wrapped(sendReliableMessageNumberIndex + i - 1) = NumberOf(Transmitted + i)
             /\ Transmitted + i \in 1..Len(sent)
             /\ outgoingPacketBuffer[i] = MessageAt(sent, Transmitted + i)
  <2>1. Transmitted + 1 \in Nat /\ i - 1 \in Int /\ (Transmitted + 1) + (i - 1) \in Nat
        /\ (Transmitted + 1) + (i - 1) = Transmitted + i
    BY <1>1
  <2>2. /\ Wrapped(NumberOf(Transmitted + 1) + (i - 1)) = NumberOf(Transmitted + i)
        /\ Slot(NumberOf(Transmitted + 1) + (i - 1)) = Slot(NumberOf(Transmitted + i))
        /\ NumberOf(Transmitted + 1) \in Int
    BY <2>1, NumberPlus
  <2>3. sendReliableMessageNumberIndex + i - 1 = sendReliableMessageNumberIndex + (i - 1)
    BY <1>2, <2>2
  <2>4. i \in DOMAIN outgoingPacketBuffer /\ Transmitted + i \in 1..Len(sent)
    BY <1>1
  <2> QED
    BY <1>2, <2>2, <2>3, <2>4
<1>5. Wrapped(sendReliableMessageNumberIndex + n) = NumberOf(Transmitted + n + 1)
  <2>1. Transmitted + 1 \in Nat /\ n \in Int /\ (Transmitted + 1) + n \in Nat
        /\ (Transmitted + 1) + n = Transmitted + n + 1
    BY <1>1
  <2>2. Wrapped(NumberOf(Transmitted + 1) + n) = NumberOf((Transmitted + 1) + n)
    BY <2>1, NumberPlus
  <2> QED
    BY <1>2, <2>1, <2>2
<1>6. \A i \in 1..n : EntryAt(sent, Transmitted + i)
                        = [number |-> Wrapped(sendReliableMessageNumberIndex + i - 1),
                           message |-> outgoingPacketBuffer[i]]
  BY <1>4 DEF EntryAt
<1> QED
  BY <1>4, <1>5, <1>6 DEF Fresh

LEMMA SendNewKeeps ==
  ASSUME RelInv, NEW n \in 1..MaxPerDatagram, SendNew(n)
  PROVE  RelInv'
<1>0. PICK k : k = Transmitted
  OBVIOUS
<1> DEFINE datagram == Fresh(n)
<1>1. /\ sent \in Seq(Kinds) /\ Len(sent) \in Nat /\ DOMAIN sent = 1..Len(sent)
      /\ outgoingPacketBuffer \in Seq(Messages) /\ Len(outgoingPacketBuffer) \in Nat
      /\ DOMAIN outgoingPacketBuffer = 1..Len(outgoingPacketBuffer)
      /\ k \in 0..Len(sent) /\ k \in Nat /\ k \in 0..MaxMessages
      /\ k + Len(outgoingPacketBuffer) = Len(sent) /\ Len(sent) <= MaxMessages
  BY <1>0, SentFacts
<1>2. /\ Numbering /\ SlotsNumbered /\ UnderWay /\ SlotOrReceived
      /\ ReceiverInv(receiver, outputQueue, sent, k)
      /\ resendBuffer \in [Slots -> Numbered \cup {Empty}]
  BY <1>0 DEF RelInv, SenderTypes
<1>3. /\ n <= Len(outgoingPacketBuffer) /\ n <= ResendBufferLength
      /\ \A i \in 0..n - 1 : resendBuffer[Slot(sendReliableMessageNumberIndex + i)] = Empty
      /\ UNCHANGED <<sent, orderedWriteIndex, sequencedWriteIndex, acks, receiver, outputQueue>>
      /\ outgoingPacketBuffer' = SubSeq(outgoingPacketBuffer, n + 1, Len(outgoingPacketBuffer))
  BY DEF SendNew, ResendBufferOverflow
<1>4. /\ datagram = [i \in 1..n |->
                       [number |-> Wrapped(sendReliableMessageNumberIndex + i - 1),
                        message |-> outgoingPacketBuffer[i]]]
      /\ \A i \in 1..n :
           /\ Slot(sendReliableMessageNumberIndex + (i - 1)) = Slot(NumberOf(k + i))
           /\ k + i \in 1..Len(sent)
      /\ Wrapped(sendReliableMessageNumberIndex + n) = NumberOf(k + n + 1)
  BY <1>0, <1>3, FreshIs
<1>5. /\ resendBuffer' =
           [s \in Slots |-> IF \E i \in 1..n : Slot(datagram[i].number) = s
                            THEN datagram[CHOOSE i \in 1..n : Slot(datagram[i].number) = s]
                            ELSE resendBuffer[s]]
      /\ net' = net \cup {datagram}
      /\ sendReliableMessageNumberIndex' = NumberOf(k + n + 1)
  <2> HIDE DEF datagram
  <2> QED
    BY <1>4 DEF SendNew
<1>6. n \in Nat /\ n > 0 /\ ResendBufferLength \in Nat
  BY Widths
<1>7. /\ datagram \in Seq(Numbered) /\ DOMAIN datagram = 1..n
      /\ \A i \in 1..n : datagram[i] = EntryAt(sent, k + i) /\ datagram[i].number = NumberOf(k + i)
  <2>1. \A i \in 1..n : EntryAt(sent, k + i) \in Numbered
                        /\ EntryAt(sent, k + i).number = NumberOf(k + i)
    BY <1>4, EntryTypes
  <2>2. datagram \in [1..n -> Numbered]
    BY <1>0, <2>1 DEF Fresh
  <2>3. datagram \in Seq(Numbered) /\ DOMAIN datagram = 1..n
    <3> HIDE DEF datagram
    <3> QED
      BY <1>6, <2>2, FunctionIsSequence
  <2> QED
    BY <1>0, <2>1, <2>3 DEF Fresh
<1> HIDE DEF datagram
<1>8. \A i \in 1..n : resendBuffer[Slot(NumberOf(k + i))] = Empty
  <2> SUFFICES ASSUME NEW i \in 1..n PROVE resendBuffer[Slot(NumberOf(k + i))] = Empty
    OBVIOUS
  <2>1. i - 1 \in 0..n - 1
    BY <1>6
  <2> QED
    BY <1>3, <1>4, <2>1
<1>9. /\ outgoingPacketBuffer' \in Seq(Messages)
      /\ Len(outgoingPacketBuffer') = Len(outgoingPacketBuffer) - n
      /\ DOMAIN outgoingPacketBuffer' = 1..Len(outgoingPacketBuffer) - n
      /\ \A i \in 1..Len(outgoingPacketBuffer) - n :
           outgoingPacketBuffer'[i] = outgoingPacketBuffer[n + i]
  <2>1. n \in 0..Len(outgoingPacketBuffer)
    BY <1>1, <1>3, <1>6
  <2> QED
    BY <1>1, <1>3, <2>1, CutSequence
<1>10. Transmitted' = k + n /\ k + n \in 0..Len(sent) /\ k + n \in Nat
  <2>1. Transmitted' = Len(sent) - (Len(outgoingPacketBuffer) - n)
    BY <1>3, <1>9 DEF Transmitted
  <2> QED
    BY <1>1, <1>3, <1>6, <2>1
<1>11. ASSUME NEW s \in Slots
       PROVE  \/ \E i \in 1..n : resendBuffer'[s] = EntryAt(sent, k + i) /\ Slot(NumberOf(k + i)) = s
              \/ resendBuffer'[s] = resendBuffer[s]
  <2>1. CASE \E i \in 1..n : Slot(datagram[i].number) = s
    <3> DEFINE j == CHOOSE i \in 1..n : Slot(datagram[i].number) = s
    <3>1. j \in 1..n /\ Slot(datagram[j].number) = s
      BY <2>1
    <3>2. resendBuffer'[s] = datagram[j]
      BY <1>5, <2>1
    <3> HIDE DEF j
    <3> QED
      BY <1>7, <3>1, <3>2
  <2>2. CASE ~(\E i \in 1..n : Slot(datagram[i].number) = s)
    BY <1>5, <2>2
  <2> QED
    BY <2>1, <2>2
<1>12. SenderTypes'
  <2>1. resendBuffer' \in [Slots -> Numbered \cup {Empty}]
    <3>1. \A i \in 1..n : EntryAt(sent, k + i) \in Numbered
      BY <1>4, EntryTypes
    <3>2. \A s \in Slots : resendBuffer'[s] \in Numbered \cup {Empty}
      BY <1>2, <1>11, <3>1
    <3>3. resendBuffer' = [s \in Slots |-> resendBuffer'[s]]
      BY <1>5
    <3> QED
      BY <3>2, <3>3
  <2> QED
    <3>1. Len(outgoingPacketBuffer') <= Len(sent)
      BY <1>1, <1>6, <1>9
    <3> QED
      BY <1>1, <1>3, <1>9, <2>1, <3>1 DEF SenderTypes
<1>13. Numbering'
  <2>1. /\ orderedWriteIndex = Wrapped(First + Before(sent, Len(sent) + 1))
        /\ sequencedWriteIndex = Run(sent, Len(sent) + 1)
        /\ \A i \in DOMAIN outgoingPacketBuffer : outgoingPacketBuffer[i] = MessageAt(sent, k + i)
    BY <1>0, <1>2 DEF Numbering
  <2>2. sendReliableMessageNumberIndex' = NumberOf(Transmitted' + 1)
    BY <1>5, <1>10
  <2>3. ASSUME NEW i \in DOMAIN outgoingPacketBuffer'
        PROVE  outgoingPacketBuffer'[i] = MessageAt(sent, Transmitted' + i)
    <3>1. n + i \in DOMAIN outgoingPacketBuffer /\ k + (n + i) = Transmitted' + i
          /\ outgoingPacketBuffer'[i] = outgoingPacketBuffer[n + i]
      <4>1. i \in 1..Len(outgoingPacketBuffer) - n
        BY <1>9
      <4>2. n + i \in 1..Len(outgoingPacketBuffer)
        BY <1>1, <1>6, <4>1
      <4>3. k + (n + i) = (k + n) + i
        BY <1>1, <1>6, <4>1
      <4> QED
        BY <1>1, <1>9, <1>10, <4>1, <4>2, <4>3
    <3> QED
      BY <2>1, <3>1
  <2> QED
    BY <1>3, <2>1, <2>2, <2>3 DEF Numbering, NumberOf
<1>14. SlotsNumbered'
  <2> SUFFICES ASSUME NEW s \in Slots, resendBuffer'[s] # Empty
               PROVE  \E p \in 1..k + n : resendBuffer'[s] = EntryAt(sent, p) /\ Slot(NumberOf(p)) = s
    BY <1>3, <1>10 DEF SlotsNumbered, NumberOf
  <2>1. CASE resendBuffer'[s] = resendBuffer[s]
    <3>1. PICK p \in 1..k : resendBuffer[s] = EntryAt(sent, p) /\ Slot(NumberOf(p)) = s
      BY <1>0, <1>2, <2>1 DEF SlotsNumbered
    <3>2. p \in 1..k + n
      BY <1>1, <1>6
    <3> QED
      BY <2>1, <3>1, <3>2
  <2>2. CASE resendBuffer'[s] # resendBuffer[s]
    <3>1. PICK i \in 1..n : resendBuffer'[s] = EntryAt(sent, k + i) /\ Slot(NumberOf(k + i)) = s
      BY <1>11, <2>2
    <3>2. k + i \in 1..k + n
      BY <1>1, <1>6
    <3> QED
      BY <3>1, <3>2
  <2> QED
    BY <2>1, <2>2
<1>15. UnderWay'
  <2>1. ASSUME NEW d \in net' PROVE Carries(d, 1..k + n)'
    <3>1. CASE d \in net
      <4>1. Carries(d, 1..k)
        BY <1>0, <1>2, <3>1 DEF UnderWay
      <4>2. \A p \in 1..k : p \in 1..k + n
        BY <1>1, <1>6
      <4>3. ASSUME NEW i \in DOMAIN d
            PROVE  \E p \in 1..k + n : d[i] = EntryAt(sent, p)
        <5>1. PICK p \in 1..k : d[i] = EntryAt(sent, p)
          BY <4>1 DEF Carries
        <5> QED
          BY <4>2, <5>1
      <4> QED
        BY <1>3, <4>1, <4>3 DEF Carries
    <3>2. CASE d = datagram
      <4>1. \A i \in DOMAIN datagram : \E p \in 1..k + n : datagram[i] = EntryAt(sent, p)
        <5> SUFFICES ASSUME NEW i \in 1..n
                     PROVE  \E p \in 1..k + n : datagram[i] = EntryAt(sent, p)
          BY <1>7
        <5>1. k + i \in 1..k + n
          BY <1>1, <1>6
        <5> QED
          BY <1>7, <5>1
      <4> QED
        BY <1>3, <1>7, <3>2, <4>1 DEF Carries
    <3> QED
      BY <1>5, <3>1, <3>2
  <2>2. ASSUME NEW d \in acks' PROVE Carries(d, Has(receiver))'
    BY <1>2, <1>3 DEF UnderWay, Carries
  <2> QED
    BY <1>10, <2>1, <2>2 DEF UnderWay
<1>16. \A p \in 1..k : HoldsSlot(p) => resendBuffer'[Slot(NumberOf(p))] = EntryAt(sent, p)
  <2> SUFFICES ASSUME NEW p \in 1..k, HoldsSlot(p)
               PROVE  resendBuffer'[Slot(NumberOf(p))] = EntryAt(sent, p)
    OBVIOUS
  <2>1. p \in 1..Len(sent) /\ p \in Nat
    BY <1>1
  <2>2. resendBuffer[Slot(NumberOf(p))] # Empty /\ Slot(NumberOf(p)) \in Slots
    BY <2>1, EntryTypes, SlotsApart DEF HoldsSlot
  <2>3. resendBuffer'[Slot(NumberOf(p))] = resendBuffer[Slot(NumberOf(p))]
    BY <1>8, <1>11, <2>2
  <2> QED
    BY <2>3 DEF HoldsSlot
<1>17. SlotOrReceived'
  <2> SUFFICES ASSUME NEW p \in 1..k + n
               PROVE  resendBuffer'[Slot(NumberOf(p))] = EntryAt(sent, p) \/ p \in Has(receiver)
    BY <1>3, <1>10 DEF SlotOrReceived, HoldsSlot, NumberOf
  <2>1. CASE p <= k
    <3>1. p \in 1..k
      BY <1>1, <2>1
    <3> QED
      BY <1>0, <1>2, <1>16, <3>1 DEF SlotOrReceived
  <2>2. CASE p > k
    <3>1. p - k \in 1..n /\ k + (p - k) = p
      BY <1>1, <1>6, <2>2
    <3> DEFINE s == Slot(NumberOf(p))
    <3>2. PICK i \in 1..n : i = p - k
      BY <3>1
    <3>3. k + i = p /\ datagram[i].number = NumberOf(p)
      BY <1>7, <3>1, <3>2
    <3>4. s \in Slots
      <4>1. p \in Nat
        BY <1>1, <1>6
      <4> QED
        BY <4>1, SlotsApart
    <3>5. Slot(datagram[i].number) = s
      BY <3>3
    <3> DEFINE j == CHOOSE x \in 1..n : Slot(datagram[x].number) = s
    <3>6. j \in 1..n /\ Slot(datagram[j].number) = s
      BY <3>5
    <3>7. resendBuffer'[s] = datagram[j]
      BY <1>5, <3>4, <3>5
    <3> HIDE DEF j
    <3>8. k + j \in Nat /\ p \in Nat
          /\ (k + j) - p < ResendBufferLength /\ p - (k + j) < ResendBufferLength
      BY <1>1, <1>3, <1>6, <3>3, <3>6
    <3>9. Slot(NumberOf(k + j)) = Slot(NumberOf(p))
      BY <1>7, <3>6
    <3>10. k + j = p
      <4>1. PICK q \in Nat : q = k + j
        BY <3>8
      <4> QED
        BY <3>8, <3>9, <4>1, SlotsApart
    <3> QED
      BY <1>7, <3>6, <3>7, <3>10
  <2> QED
    BY <1>1, <2>1, <2>2
<1>18. ReceiverInv(receiver, outputQueue, sent, Transmitted)'
  <2>1. /\ receiver \in Receivers /\ Has(receiver) \subseteq 1..k /\ Filter(receiver, k)
        /\ Order(Has(receiver), receiver, outputQueue, sent) /\ GapAhead(receiver)
    BY <1>2 DEF ReceiverInv
  <2>2. PICK b : b = Base(receiver)
    OBVIOUS
  <2>3. b \in 1..k + 1 /\ b \notin Has(receiver) /\ k < b + ResendBufferLength
    <3>1. Base(receiver) \in 1..k + 1 /\ Base(receiver) \notin Has(receiver)
      BY <1>1, <2>1, WindowHas
    <3> QED
      BY <2>1, <2>2, <3>1 DEF Filter
  <2>4. k + n < b + ResendBufferLength
    <3> SUFFICES ASSUME ~(k + n < b + ResendBufferLength) PROVE FALSE
      OBVIOUS
    <3>1. b \in 1..k /\ b \in Nat
      BY <1>1, <1>3, <1>6, <2>3
    <3>2. (b + ResendBufferLength) - k \in 1..n
          /\ k + ((b + ResendBufferLength) - k) = b + ResendBufferLength
      BY <1>1, <1>6, <2>3, <3>1
    <3>3. resendBuffer[Slot(NumberOf(b + ResendBufferLength))] = Empty
      <4>1. PICK i \in 1..n : i = (b + ResendBufferLength) - k
        BY <3>2
      <4>2. k + i = b + ResendBufferLength
        BY <3>2, <4>1
      <4>3. resendBuffer[Slot(NumberOf(k + i))] = Empty
        BY <1>8
      <4> QED
        BY <4>2, <4>3
    <3>4. resendBuffer[Slot(NumberOf(b))] = Empty
      BY <3>1, <3>3, SlotsApart
    <3>5. HoldsSlot(b)
      BY <1>0, <1>2, <2>3, <3>1 DEF SlotOrReceived
    <3>6. b \in 1..Len(sent)
      BY <1>1, <3>1
    <3> QED
      BY <3>4, <3>5, <3>6, EntryTypes DEF HoldsSlot
  <2>5. Filter(receiver, k + n)
    <3>1. /\ b + Len(receiver.hasReceivedPacketQueue) <= k + 1
          /\ receiver.hasReceivedPacketQueue # <<>> => receiver.hasReceivedPacketQueue[1]
      BY <2>1, <2>2 DEF Filter
    <3>2. Len(receiver.hasReceivedPacketQueue) \in Nat
      BY <2>1 DEF Receivers
    <3>3. b + Len(receiver.hasReceivedPacketQueue) <= (k + n) + 1
      BY <1>1, <1>6, <2>3, <3>1, <3>2
    <3> QED
      BY <2>2, <2>4, <3>1, <3>3 DEF Filter
  <2>6. Has(receiver) \subseteq 1..k + n
    <3>1. \A p \in 1..k : p \in 1..k + n
      BY <1>1, <1>6
    <3> QED
      BY <2>1, <3>1
  <2>7. ReceiverInv(receiver, outputQueue, sent, k + n)
    BY <2>1, <2>5, <2>6 DEF ReceiverInv
  <2> QED
    BY <1>3, <1>10, <2>7
<1> QED
  BY <1>12, <1>13, <1>14, <1>15, <1>17, <1>18 DEF RelInv

(***************************************************************************)
(* Every other step, and the invariant.                                    *)
(***************************************************************************)
LEMMA ResendKeeps ==
  ASSUME RelInv, NEW n \in 1..MaxPerDatagram, Resend(n)
  PROVE  RelInv'
<1>1. PICK datagram \in [1..n -> Unacknowledged] : ResendDatagram(datagram)
  BY DEF Resend
<1>2. net' = net \cup {datagram} /\ UNCHANGED <<senderVars, acks, receiver, outputQueue>>
  BY <1>1 DEF ResendDatagram
<1>3. /\ UNCHANGED <<sent, orderedWriteIndex, sequencedWriteIndex, outgoingPacketBuffer,
                     sendReliableMessageNumberIndex, resendBuffer, acks, receiver, outputQueue>>
      /\ Transmitted' = Transmitted
  BY <1>2 DEF senderVars, Transmitted
<1>4. /\ SenderTypes /\ Numbering /\ SlotsNumbered /\ UnderWay /\ SlotOrReceived
      /\ ReceiverInv(receiver, outputQueue, sent, Transmitted)
  BY DEF RelInv
<1>5. ASSUME NEW entry \in Unacknowledged
      PROVE  entry \in Numbered /\ \E p \in 1..Transmitted : entry = EntryAt(sent, p)
  <2>1. PICK s \in Slots : entry = resendBuffer[s] /\ resendBuffer[s] # Empty
    BY DEF Unacknowledged
  <2> QED
    BY <1>4, <2>1 DEF SlotsNumbered, SenderTypes
<1>6. Carries(datagram, 1..Transmitted)
  <2>1. datagram \in [1..n -> Numbered] /\ n \in Nat
    BY <1>5
  <2>2. datagram \in Seq(Numbered) /\ DOMAIN datagram = 1..n
    BY <2>1, FunctionIsSequence
  <2>3. \A i \in 1..n : datagram[i] \in Unacknowledged
    OBVIOUS
  <2> QED
    BY <1>5, <2>2, <2>3 DEF Carries
<1>7. UnderWay'
  BY <1>2, <1>3, <1>4, <1>6 DEF UnderWay, Carries
<1>8. SenderTypes' /\ Numbering' /\ SlotsNumbered' /\ SlotOrReceived'
  BY <1>3, <1>4 DEF SenderTypes, Numbering, SlotsNumbered, SlotOrReceived, HoldsSlot, NumberOf
<1> QED
  BY <1>3, <1>4, <1>7, <1>8 DEF RelInv

LEMMA ReceiveAckKeeps ==
  ASSUME RelInv, NEW datagram \in acks, ReceiveAck(datagram)
  PROVE  RelInv'
<1>1. /\ acks' = acks \ {datagram}
      /\ resendBuffer' =
           [s \in Slots |-> IF resendBuffer[s] \in Range(datagram) THEN Empty ELSE resendBuffer[s]]
      /\ UNCHANGED <<sent, orderedWriteIndex, sequencedWriteIndex, outgoingPacketBuffer,
                     sendReliableMessageNumberIndex, net, receiver, outputQueue>>
      /\ Transmitted' = Transmitted
  BY DEF ReceiveAck, Transmitted
<1>2. /\ SenderTypes /\ Numbering /\ SlotsNumbered /\ UnderWay /\ SlotOrReceived
      /\ ReceiverInv(receiver, outputQueue, sent, Transmitted)
  BY DEF RelInv
<1>3. \A s \in Slots : resendBuffer'[s] \in {resendBuffer[s], Empty}
  BY <1>1
<1>4. SenderTypes'
  <2>1. resendBuffer' \in [Slots -> Numbered \cup {Empty}]
    <3>1. \A s \in Slots : resendBuffer[s] \in Numbered \cup {Empty}
      BY <1>2 DEF SenderTypes
    <3>2. \A s \in Slots : resendBuffer'[s] \in Numbered \cup {Empty}
      BY <1>3, <3>1
    <3>3. resendBuffer' = [s \in Slots |-> resendBuffer'[s]]
      BY <1>1
    <3> QED
      BY <3>2, <3>3
  <2> QED
    BY <1>1, <1>2, <2>1 DEF SenderTypes
<1>5. Numbering'
  BY <1>1, <1>2 DEF Numbering, NumberOf
<1>6. SlotsNumbered'
  BY <1>1, <1>2, <1>3 DEF SlotsNumbered, NumberOf
<1>7. UnderWay'
  BY <1>1, <1>2 DEF UnderWay, Carries
<1>8. SlotOrReceived'
  <2> SUFFICES ASSUME NEW p \in 1..Transmitted
               PROVE  resendBuffer'[Slot(NumberOf(p))] = EntryAt(sent, p) \/ p \in Has(receiver)
    BY <1>1 DEF SlotOrReceived, HoldsSlot, NumberOf
  <2>1. p \in 1..Len(sent) /\ p \in Nat
    BY SentFacts
  <2>2. Slot(NumberOf(p)) \in Slots
    BY <2>1, SlotsApart
  <2>3. CASE EntryAt(sent, p) \in Range(datagram)
    <3>1. PICK i \in DOMAIN datagram : datagram[i] = EntryAt(sent, p)
      BY <2>3 DEF Range
    <3>2. PICK q \in Has(receiver) : datagram[i] = EntryAt(sent, q)
      BY <1>2 DEF UnderWay, Carries
    <3>3. q = p
      BY <3>1, <3>2 DEF EntryAt, MessageAt
    <3> QED
      BY <3>2, <3>3
  <2>4. CASE EntryAt(sent, p) \notin Range(datagram)
    <3>1. resendBuffer[Slot(NumberOf(p))] = EntryAt(sent, p) \/ p \in Has(receiver)
      BY <1>2 DEF SlotOrReceived, HoldsSlot
    <3> QED
      BY <1>1, <2>2, <2>4, <3>1
  <2> QED
    BY <2>3, <2>4
<1> QED
  BY <1>1, <1>2, <1>4, <1>5, <1>6, <1>7, <1>8 DEF RelInv

\* What a datagram that arrives does to the receiver.
LEMMA DatagramHandled ==
  ASSUME RelInv, NEW datagram, HandleDatagram(datagram)
  PROVE  /\ ReceiverInv(receiver', outputQueue', sent, Transmitted)
         /\ Has(receiver) \subseteq Has(receiver')
         /\ Carries(datagram, Has(receiver'))
         /\ outputQueue \in Seq(Nat)
         /\ \E given \in Seq(Nat) : outputQueue' = outputQueue \o given
<1> DEFINE result == [r |-> receiver, out |-> <<>>]
<1>1. PICK last : last = HandledAll(result, datagram)
  OBVIOUS
<1>2. receiver' = last.r /\ outputQueue' = outputQueue \o last.out /\ datagram \in net
  BY <1>1 DEF HandleDatagram
<1>3. /\ sent \in Seq(Kinds) /\ Len(sent) <= MaxMessages /\ Transmitted \in 0..Len(sent)
  BY SentFacts
<1>4. Carries(datagram, 1..Transmitted) /\ ReceiverInv(receiver, outputQueue, sent, Transmitted)
  BY <1>2 DEF RelInv, UnderWay
<1>5. /\ datagram \in Seq(Numbered) /\ Len(datagram) \in Nat /\ DOMAIN datagram = 1..Len(datagram)
      /\ \A i \in DOMAIN datagram : \E p \in 1..Transmitted : datagram[i] = EntryAt(sent, p)
  BY <1>4 DEF Carries
<1>6. outputQueue \in Seq(Nat)
  <2>1. outputQueue \in Seq(Has(receiver)) /\ Has(receiver) \subseteq 1..Transmitted
    BY <1>4 DEF ReceiverInv, Order, OutInOrder
  <2>2. Has(receiver) \subseteq Nat
    BY <2>1
  <2> QED
    BY <2>1, <2>2, Widened
<1>7. Handing(result, outputQueue, sent, Transmitted) /\ result.r = receiver
  <2>1. outputQueue \o <<>> = outputQueue /\ <<>> \in Seq(Nat)
    BY <1>6
  <2> QED
    BY <1>4, <1>6, <2>1 DEF Handing
<1> HIDE DEF result
<1>8. Handing(last, outputQueue, sent, Transmitted) /\ AllHandled(result, last, datagram, sent)
  BY <1>1, <1>3, <1>5, <1>7, HandledAllKeeps
<1>9. last.out \in Seq(Nat) /\ ReceiverInv(last.r, outputQueue \o last.out, sent, Transmitted)
  BY <1>8 DEF Handing
<1>10. \E given \in Seq(Nat) : outputQueue' = outputQueue \o given
  BY <1>2, <1>9
<1> QED
  BY <1>2, <1>5, <1>6, <1>7, <1>8, <1>9, <1>10 DEF Carries, AllHandled

LEMMA ReceiveKeeps ==
  ASSUME RelInv, NEW datagram, HandleDatagram(datagram), net' \subseteq net
  PROVE  RelInv'
<1>1. /\ acks' = acks \cup {datagram}
      /\ UNCHANGED <<sent, orderedWriteIndex, sequencedWriteIndex, outgoingPacketBuffer,
                     sendReliableMessageNumberIndex, resendBuffer>>
      /\ Transmitted' = Transmitted
  BY DEF HandleDatagram, senderVars, Transmitted
<1>2. /\ SenderTypes /\ Numbering /\ SlotsNumbered /\ UnderWay /\ SlotOrReceived
  BY DEF RelInv
<1>3. /\ ReceiverInv(receiver', outputQueue', sent, Transmitted)
      /\ Has(receiver) \subseteq Has(receiver')
      /\ Carries(datagram, Has(receiver'))
  BY DatagramHandled
<1>4. SenderTypes' /\ Numbering' /\ SlotsNumbered'
  BY <1>1, <1>2 DEF SenderTypes, Numbering, SlotsNumbered, NumberOf
<1>5. UnderWay'
  <2>1. ASSUME NEW d \in net' PROVE Carries(d, 1..Transmitted)'
    BY <1>1, <1>2 DEF UnderWay, Carries
  <2>2. ASSUME NEW d \in acks' PROVE Carries(d, Has(receiver))'
    <3>1. CASE d \in acks
      BY <1>1, <1>2, <1>3, <3>1 DEF UnderWay, Carries
    <3>2. CASE d = datagram
      BY <1>1, <1>3, <3>2 DEF Carries
    <3> QED
      BY <1>1, <3>1, <3>2
  <2> QED
    BY <2>1, <2>2 DEF UnderWay
<1>6. SlotOrReceived'
  BY <1>1, <1>2, <1>3 DEF SlotOrReceived, HoldsSlot, NumberOf
<1>7. ReceiverInv(receiver, outputQueue, sent, Transmitted)'
  BY <1>1, <1>3
<1> QED
  BY <1>4, <1>5, <1>6, <1>7 DEF RelInv

\* What is lost need not be accounted for.
LEMMA LossKeeps ==
  ASSUME RelInv, net' \subseteq net, acks' \subseteq acks,
         UNCHANGED <<senderVars, receiver, outputQueue>>
  PROVE  RelInv'
<1>1. /\ UNCHANGED <<sent, orderedWriteIndex, sequencedWriteIndex, outgoingPacketBuffer,
                     sendReliableMessageNumberIndex, resendBuffer, receiver, outputQueue>>
      /\ Transmitted' = Transmitted
  BY DEF senderVars, Transmitted
<1>2. /\ SenderTypes /\ Numbering /\ SlotsNumbered /\ UnderWay /\ SlotOrReceived
      /\ ReceiverInv(receiver, outputQueue, sent, Transmitted)
  BY DEF RelInv
<1>3. SenderTypes' /\ Numbering' /\ SlotsNumbered' /\ SlotOrReceived'
  BY <1>1, <1>2 DEF SenderTypes, Numbering, SlotsNumbered, SlotOrReceived, HoldsSlot, NumberOf
<1>4. UnderWay'
  BY <1>1, <1>2 DEF UnderWay, Carries
<1> QED
  BY <1>1, <1>2, <1>3, <1>4 DEF RelInv

LEMMA ReliabilityStep ==
  ASSUME RelInv, [RelNext]_relVars
  PROVE  RelInv'
<1>1. CASE \E kind \in Kinds : Send(kind)
  BY <1>1, SendKeeps
<1>2. CASE \E n \in 1..MaxPerDatagram : SendNew(n) \/ Resend(n)
  BY <1>2, SendNewKeeps, ResendKeeps
<1>3. CASE \E datagram \in net : ReceiveAgain(datagram) \/ ReceiveLast(datagram) \/ Lose(datagram)
  <2>1. PICK datagram \in net :
          ReceiveAgain(datagram) \/ ReceiveLast(datagram) \/ Lose(datagram)
    BY <1>3
  <2>2. CASE ReceiveAgain(datagram) \/ ReceiveLast(datagram)
    <3>1. HandleDatagram(datagram) /\ net' \subseteq net
      BY <2>2 DEF ReceiveAgain, ReceiveLast
    <3> QED
      BY <3>1, ReceiveKeeps
  <2>3. CASE Lose(datagram)
    <3>1. /\ net' \subseteq net /\ acks' \subseteq acks
          /\ UNCHANGED <<senderVars, receiver, outputQueue>>
      BY <2>3 DEF Lose
    <3> QED
      BY <3>1, LossKeeps
  <2> QED
    BY <2>1, <2>2, <2>3
<1>4. CASE \E datagram \in acks : ReceiveAck(datagram) \/ LoseAck(datagram)
  <2>1. PICK datagram \in acks : ReceiveAck(datagram) \/ LoseAck(datagram)
    BY <1>4
  <2>2. CASE ReceiveAck(datagram)
    BY <2>2, ReceiveAckKeeps
  <2>3. CASE LoseAck(datagram)
    <3>1. /\ net' \subseteq net /\ acks' \subseteq acks
          /\ UNCHANGED <<senderVars, receiver, outputQueue>>
      BY <2>3 DEF LoseAck
    <3> QED
      BY <3>1, LossKeeps
  <2> QED
    BY <2>1, <2>2, <2>3
<1>5. CASE UNCHANGED relVars
  <2>1. /\ net' \subseteq net /\ acks' \subseteq acks
        /\ UNCHANGED <<senderVars, receiver, outputQueue>>
    BY <1>5 DEF relVars
  <2> QED
    BY <2>1, LossKeeps
<1> QED
  BY <1>1, <1>2, <1>3, <1>4, <1>5 DEF RelNext

LEMMA ReliabilityInit ==
  ASSUME RelInit
  PROVE  RelInv
<1>1. /\ First \in Int /\ First \in Indices /\ Modulus \in Nat /\ Modulus > 0 /\ 0 \in Indices
      /\ MaxMessages \in Nat /\ ResendBufferLength \in Nat /\ ResendBufferLength > 0
  BY Widths DEF Indices
<1>2. Wrapped(First - First) = 0 /\ Wrapped(First + 0) = First
  <2>1. First - First = 0 /\ First + 0 = First
    BY <1>1
  <2> QED
    BY <1>1, <2>1, WrappedSmall
<1>3. /\ sent = <<>> /\ outgoingPacketBuffer = <<>> /\ outputQueue = <<>>
      /\ orderedWriteIndex = First /\ sequencedWriteIndex = 0
      /\ sendReliableMessageNumberIndex = First
      /\ resendBuffer = [s \in Slots |-> Empty]
      /\ net = {} /\ acks = {} /\ receiver = ReceiverInit
  BY DEF RelInit
<1>4. Len(sent) = 0 /\ Transmitted = 0 /\ DOMAIN sent = {} /\ Len(sent) + 1 = 1 /\ 1..0 = {}
      /\ Len(outgoingPacketBuffer) = 0 /\ DOMAIN outgoingPacketBuffer = {}
      /\ DOMAIN outputQueue = {}
  BY <1>3 DEF Transmitted
<1>5. Before(sent, 1) = 0 /\ Run(sent, 1) = 0
  <2>1. 1 \in Nat \ {0} /\ 1 <= 1 /\ 1 - 1 = 0
    OBVIOUS
  <2>2. Before(sent, 1) \in 0..1 - 1 /\ Run(sent, 1) \in 0..1 - 1
    BY <2>1, BeforeSteps, RunType
  <2> QED
    BY <2>1, <2>2
<1>6. SenderTypes
  BY <1>1, <1>3, <1>4 DEF SenderTypes
<1>7. Numbering
  <2>1. NumberOf(1) = First
    <3>1. First + 1 - 1 = First + 0
      BY <1>1
    <3> QED
      BY <1>2, <3>1 DEF NumberOf
  <2>2. Transmitted + 1 = 1
    BY <1>4
  <2> QED
    BY <1>2, <1>3, <1>4, <1>5, <2>1, <2>2 DEF Numbering
<1>8. SlotsNumbered
  BY <1>3 DEF SlotsNumbered
<1>9. UnderWay /\ SlotOrReceived
  BY <1>3, <1>4 DEF UnderWay, SlotOrReceived
<1>10. /\ receiver.receivedPacketsBaseIndex = First /\ receiver.hasReceivedPacketQueue = <<>>
       /\ receiver.orderedReadIndex = First /\ receiver.orderingHeap = {}
       /\ receiver \in Receivers
  BY <1>1, <1>3 DEF ReceiverInit, Receivers
<1>11. Base(receiver) = 1 /\ Reads(receiver) = 0
  BY <1>2, <1>10 DEF Base, Reads
<1>12. Has(receiver) = {}
  <2> SUFFICES ASSUME NEW p \in Has(receiver) PROVE FALSE
    OBVIOUS
  <2>1. p \in 1..MaxMessages /\ (p < 1 \/ p - 1 + 1 \in DOMAIN receiver.hasReceivedPacketQueue)
    BY <1>11 DEF Has, Marked
  <2>2. DOMAIN receiver.hasReceivedPacketQueue = {}
    BY <1>10
  <2> QED
    BY <2>1, <2>2
<1>13. Filter(receiver, 0)
  <2>1. Len(receiver.hasReceivedPacketQueue) = 0
    BY <1>10
  <2> QED
    BY <1>1, <1>10, <1>11, <2>1 DEF Filter
<1>14. Order({}, receiver, outputQueue, sent)
  <2>1. HeapBehind({}, receiver, outputQueue, sent)
    BY <1>10, FS_EmptySet DEF HeapBehind
  <2>2. OutInOrder({}, receiver, outputQueue, sent)
    BY <1>3, <1>4 DEF OutInOrder
  <2>3. AllGiven(receiver, outputQueue, sent)
    BY <1>4, <1>5, <1>11 DEF AllGiven
  <2>4. NoneSkipped({}, receiver, sent)
    BY DEF NoneSkipped
  <2>5. HighestFits(receiver, outputQueue, sent)
    BY <1>3 DEF HighestFits
  <2> QED
    BY <2>1, <2>2, <2>3, <2>4, <2>5 DEF Order
<1>15. GapAhead(receiver)
  BY <1>10 DEF GapAhead
<1>16. ReceiverInv(receiver, outputQueue, sent, Transmitted)
  BY <1>4, <1>10, <1>12, <1>13, <1>14, <1>15 DEF ReceiverInv
<1> QED
  BY <1>6, <1>7, <1>8, <1>9, <1>16 DEF RelInv

\* The invariant holds always: places, slots, the window and the order agree with each other
\* at sender and receiver, whatever the network does.
THEOREM ReliabilityInvariant == RelSpec => []RelInv
<1>1. RelInit => RelInv
  BY ReliabilityInit
<1>2. RelInv /\ [RelNext]_relVars => RelInv'
  BY ReliabilityStep
<1> QED
  BY <1>1, <1>2, PTL DEF RelSpec

(***************************************************************************)
(* What the layer keeps to.                                                *)
(***************************************************************************)
\* Every variable keeps its type, and numbers and indices their width.
LEMMA InvariantTypes ==
  ASSUME RelInv
  PROVE  ReliabilityTypeOK
<1>1. /\ sent \in Seq(Kinds) /\ Len(sent) \in Nat /\ Len(sent) <= MaxMessages
      /\ outgoingPacketBuffer \in Seq(Messages)
      /\ Transmitted \in Nat /\ Transmitted \in 0..MaxMessages
  BY SentFacts
<1>2. /\ SenderTypes /\ Numbering /\ UnderWay
      /\ ReceiverInv(receiver, outputQueue, sent, Transmitted)
  BY DEF RelInv
<1>3. /\ First \in Int /\ MaxMessages \in Nat /\ Modulus \in Nat
      /\ 2 * MaxMessages <= Modulus /\ MaxMessages > 0
  BY Widths
<1>4. orderedWriteIndex \in Indices
  <2>1. Before(sent, Len(sent) + 1) \in Nat
    BY <1>1, OrderedApart
  <2>2. First + Before(sent, Len(sent) + 1) \in Int
    BY <1>3, <2>1
  <2> QED
    BY <1>2, <2>2, WrappedType DEF Numbering
<1>5. sequencedWriteIndex \in Indices
  <2>1. Run(sent, Len(sent) + 1) \in 0..(Len(sent) + 1) - 1
    BY <1>1, RunType
  <2> QED
    BY <1>1, <1>2, <1>3, <2>1 DEF Numbering, Indices
<1>6. sendReliableMessageNumberIndex \in Indices
  <2>1. First + (Transmitted + 1) - 1 \in Int
    BY <1>1, <1>3
  <2> QED
    BY <1>2, <2>1, WrappedType DEF Numbering, NumberOf
<1>7. \A datagram \in net \cup acks : datagram \in Seq(Numbered)
  BY <1>2 DEF UnderWay, Carries
<1>8. /\ receiver.receivedPacketsBaseIndex \in Indices /\ receiver.orderedReadIndex \in Indices
      /\ receiver.highestSequencedReadIndex \in Indices /\ receiver.heapIndexOffset \in Indices
      /\ receiver.hasReceivedPacketQueue \in Seq(BOOLEAN)
      /\ \A entry \in receiver.orderingHeap : entry.weight \in Nat /\ entry.message \in Messages
  BY <1>2 DEF ReceiverInv, Receivers, HeapEntries
<1>9. outputQueue \in Seq(1..MaxMessages)
  <2>1. outputQueue \in Seq(Has(receiver))
    BY <1>2 DEF ReceiverInv, Order, OutInOrder
  <2>2. Has(receiver) \subseteq 1..MaxMessages
    BY DEF Has, Marked
  <2> QED
    BY <2>1, <2>2, Widened
<1>10. resendBuffer \in [Slots -> Numbered \cup {Empty}]
  BY <1>2 DEF SenderTypes
<1> QED
  BY <1>1, <1>4, <1>5, <1>6, <1>7, <1>8, <1>9, <1>10 DEF ReliabilityTypeOK

\* Numbers, indices and queues keep their types and widths, however many messages are sent
\* and wherever the wrap comes.
THEOREM ReliabilityTypes == RelSpec => []ReliabilityTypeOK
<1>1. RelInv => ReliabilityTypeOK
  BY InvariantTypes
<1> QED
  BY <1>1, ReliabilityInvariant, PTL

LEMMA InvariantWindow ==
  ASSUME RelInv
  PROVE  WindowFits
<1>1. /\ Transmitted \in 0..MaxMessages /\ receiver \in Receivers
      /\ Has(receiver) \subseteq 1..Transmitted /\ Filter(receiver, Transmitted)
  BY SentFacts DEF RelInv, ReceiverInv
<1>2. Len(receiver.hasReceivedPacketQueue) <= ResendBufferLength
  BY <1>1, WindowHas
<1>3. ASSUME NEW datagram \in net, NEW i \in DOMAIN datagram
      PROVE  \/ HoleCount(receiver, datagram[i].number) < ResendBufferLength
             \/ HoleCount(receiver, datagram[i].number) > Half
  <2>1. PICK p \in 1..Transmitted : datagram[i] = EntryAt(sent, p)
    BY <1>3 DEF RelInv, UnderWay, Carries
  <2>2. datagram[i].number = NumberOf(p)
    BY <2>1 DEF EntryAt
  <2>3. \/ HoleCount(receiver, NumberOf(p)) < ResendBufferLength
        \/ HoleCount(receiver, NumberOf(p)) > Half
    BY <1>1, NewIs
  <2> QED
    BY <2>2, <2>3
<1> QED
  BY <1>2, <1>3 DEF WindowFits

\* The resend slots bound the receiver's window, for every number of slots of which half the
\* range of numbers holds two rounds.
THEOREM WindowAlwaysFits == RelSpec => []WindowFits
<1>1. RelInv => WindowFits
  BY InvariantWindow
<1> QED
  BY <1>1, ReliabilityInvariant, PTL

LEMMA InvariantForgets ==
  ASSUME RelInv
  PROVE  NothingForgotten
<1> SUFFICES ASSUME NEW place \in DOMAIN sent
             PROVE  \/ \E i \in DOMAIN outgoingPacketBuffer : outgoingPacketBuffer[i].place = place
                    \/ \E entry \in Unacknowledged : entry.message.place = place
                    \/ ~IsNew(receiver, NumberOf(place))
  BY DEF NothingForgotten
<1>1. /\ DOMAIN sent = 1..Len(sent) /\ Len(sent) \in Nat
      /\ DOMAIN outgoingPacketBuffer = 1..Len(outgoingPacketBuffer)
      /\ Len(outgoingPacketBuffer) \in Nat
      /\ Transmitted \in Nat /\ Transmitted \in 0..MaxMessages
      /\ Transmitted + Len(outgoingPacketBuffer) = Len(sent)
  BY SentFacts
<1>2. CASE place > Transmitted
  <2>1. PICK i : i = place - Transmitted
    OBVIOUS
  <2>2. i \in DOMAIN outgoingPacketBuffer /\ Transmitted + i = place
    BY <1>1, <1>2, <2>1
  <2>3. outgoingPacketBuffer[i] = MessageAt(sent, Transmitted + i)
    BY <2>2 DEF RelInv, Numbering
  <2>4. outgoingPacketBuffer[i].place = place
    BY <2>2, <2>3 DEF MessageAt
  <2> QED
    BY <2>2, <2>4
<1>3. CASE place <= Transmitted
  <2>1. place \in 1..Transmitted /\ place \in 1..Len(sent) /\ place \in Nat
    BY <1>1, <1>3
  <2>2. CASE HoldsSlot(place)
    <3>1. EntryAt(sent, place) # Empty /\ EntryAt(sent, place).message.place = place
      BY <2>1, EntryTypes
    <3>2. Slot(NumberOf(place)) \in Slots
      BY <2>1, SlotsApart
    <3>3. EntryAt(sent, place) \in Unacknowledged
      BY <2>2, <3>1, <3>2 DEF HoldsSlot, Unacknowledged
    <3> QED
      BY <3>1, <3>3
  <2>3. CASE place \in Has(receiver)
    <3>1. /\ receiver \in Receivers
          /\ Has(receiver) \subseteq 1..Transmitted /\ Filter(receiver, Transmitted)
      BY DEF RelInv, ReceiverInv
    <3>2. IsNew(receiver, NumberOf(place)) <=> place \notin Has(receiver)
      BY <1>1, <2>1, <3>1, NewIs
    <3> QED
      BY <2>3, <3>2
  <2> QED
    BY <2>1, <2>2, <2>3 DEF RelInv, SlotOrReceived
<1> QED
  BY <1>1, <1>2, <1>3

\* No message leaves the sender before the receiver has it, whatever is lost, doubled or
\* overtaken.
THEOREM NothingIsForgotten == RelSpec => []NothingForgotten
<1>1. RelInv => NothingForgotten
  BY InvariantForgets
<1> QED
  BY <1>1, ReliabilityInvariant, PTL

(***************************************************************************)
(* The refinement.                                                         *)
(***************************************************************************)
\* What was given out is in order and passes no ordered message over.
LEMMA OutputInOrder ==
  ASSUME NEW r, NEW out, NEW n \in 0..Len(sent), sent \in Seq(Kinds),
         ReceiverInv(r, out, sent, n)
  PROVE  Channel!InOrder(out, sent)
<1> DEFINE got == Has(r)
<1>1. /\ r \in Receivers /\ got \subseteq 1..n /\ OutInOrder(got, r, out, sent)
      /\ AllGiven(r, out, sent)
  BY DEF ReceiverInv, Order
<1>2. DOMAIN sent = 1..Len(sent) /\ Len(sent) \in Nat
  OBVIOUS
<1>3. out \in Seq(got)
  BY <1>1 DEF OutInOrder
<1> HIDE DEF got
<1>4. \A i \in DOMAIN out : out[i] \in 1..Len(sent) /\ out[i] \in DOMAIN sent
  <2>1. \A p \in got : p \in 1..Len(sent)
    BY <1>1, <1>2
  <2> QED
    BY <1>2, <1>3, <2>1
<1>5. ASSUME NEW i \in DOMAIN out, NEW m \in 1..out[i], sent[m] = "RELIABLE_ORDERED"
      PROVE  m \in Range(out)
  <2>1. out[i] \in Nat \ {0} /\ m \in Nat \ {0} /\ m \in DOMAIN sent /\ m <= out[i]
    BY <1>2, <1>4
  <2>2. /\ Before(sent, out[i]) <= Reads(r)
        /\ sent[out[i]] = "RELIABLE_ORDERED" => Before(sent, out[i]) < Reads(r)
    BY <1>1 DEF OutInOrder
  <2>3. /\ m < out[i] => Before(sent, m) < Before(sent, out[i])
        /\ Before(sent, m) \in Nat /\ Before(sent, out[i]) \in Nat
    BY <1>5, <2>1, OrderedApart
  <2>4. Before(sent, m) < Reads(r)
    <3>1. Reads(r) \in Nat
      BY <1>1, ReadsIs
    <3>2. CASE m = out[i]
      BY <1>5, <2>2, <3>2
    <3>3. CASE m # out[i]
      <4>1. m < out[i]
        BY <2>1, <3>3
      <4> QED
        BY <2>2, <2>3, <3>1, <4>1
    <3> QED
      BY <3>2, <3>3
  <2>5. PICK j \in DOMAIN out : out[j] = m
    BY <1>1, <1>5, <2>1, <2>4 DEF AllGiven
  <2> QED
    BY <2>5 DEF Range
<1>6. \A i, j \in DOMAIN out : i < j => out[i] < out[j]
  BY <1>1 DEF OutInOrder
<1> QED
  BY <1>4, <1>5, <1>6 DEF Channel!InOrder, Range, Channel!Range

LEMMA LongerIsAfter ==
  ASSUME NEW s \in Seq(Nat), NEW given \in Seq(Nat), NEW t, t = s \o given
  PROVE  t = s \/ IsStrictPrefix(s, t)
<1>1. /\ t \in Seq(Nat) /\ Len(t) = Len(s) + Len(given) /\ Len(s) \in Nat /\ Len(given) \in Nat
      /\ \A i \in 1..Len(s) : t[i] = s[i]
  OBVIOUS
<1>2. Len(s) <= Len(t)
  BY <1>1
<1>3. SubSeq(s, 1, Len(s)) = SubSeq(t, 1, Len(s))
  <2>1. /\ SubSeq(s, 1, Len(s)) = [i \in 1..Len(s) |-> s[i]]
        /\ SubSeq(t, 1, Len(s)) = [i \in 1..Len(s) |-> t[i]]
    BY <1>1, <1>2
  <2> QED
    BY <1>1, <2>1
<1> QED
  BY <1>2, <1>3 DEF IsStrictPrefix, IsPrefix

LEMMA DeliveryStep ==
  ASSUME RelInv, [RelNext]_relVars
  PROVE  [Channel!DeliveryNext]_(Channel!deliveryVars)
<1>1. CASE \E kind \in Kinds : Send(kind)
  <2>1. PICK kind \in Kinds : Send(kind)
    BY <1>1
  <2>2. sent' = Append(sent, kind) /\ UNCHANGED outputQueue
    BY <2>1 DEF Send
  <2> QED
    BY <2>2 DEF Channel!DeliveryNext, Channel!SendOne
<1>2. CASE UNCHANGED <<sent, outputQueue>>
  BY <1>2 DEF Channel!deliveryVars
<1>3. CASE \E datagram \in net : ReceiveAgain(datagram) \/ ReceiveLast(datagram)
  <2>1. PICK datagram \in net : HandleDatagram(datagram)
    BY <1>3 DEF ReceiveAgain, ReceiveLast
  <2>2. sent' = sent
    BY <2>1 DEF HandleDatagram, senderVars
  <2>3. /\ ReceiverInv(receiver', outputQueue', sent, Transmitted)
        /\ outputQueue \in Seq(Nat)
        /\ \E given \in Seq(Nat) : outputQueue' = outputQueue \o given
    BY <2>1, DatagramHandled
  <2>4. Channel!InOrder(outputQueue', sent)
    <3>1. PICK out : out = outputQueue'
      OBVIOUS
    <3>2. PICK r : r = receiver'
      OBVIOUS
    <3>3. PICK n \in 0..Len(sent) : n = Transmitted
      BY SentFacts
    <3>4. ReceiverInv(r, out, sent, n) /\ sent \in Seq(Kinds)
      BY <2>3, <3>1, <3>2, <3>3, SentFacts
    <3>5. Channel!InOrder(out, sent)
      BY <3>4, OutputInOrder
    <3> QED
      BY <3>1, <3>5
  <2>5. outputQueue' = outputQueue \/ IsStrictPrefix(outputQueue, outputQueue')
    BY <2>3, LongerIsAfter
  <2>6. CASE outputQueue' = outputQueue
    BY <1>2, <2>2, <2>6
  <2>7. CASE IsStrictPrefix(outputQueue, outputQueue')
    <3>1. Channel!IsStrictPrefix(outputQueue, outputQueue')
      BY <2>7 DEF IsStrictPrefix, IsPrefix, Channel!IsStrictPrefix, Channel!IsPrefix
    <3>2. Channel!DeliverSome
      BY <2>2, <2>4, <3>1 DEF Channel!DeliverSome
    <3> QED
      BY <3>2 DEF Channel!DeliveryNext
  <2> QED
    BY <2>5, <2>6, <2>7
<1>4. CASE \E n \in 1..MaxPerDatagram : SendNew(n) \/ Resend(n)
  BY <1>2, <1>4 DEF SendNew, Resend, ResendDatagram, senderVars
<1>5. CASE \E datagram \in net : Lose(datagram)
  BY <1>2, <1>5 DEF Lose, senderVars
<1>6. CASE \E datagram \in acks : ReceiveAck(datagram) \/ LoseAck(datagram)
  BY <1>2, <1>6 DEF ReceiveAck, LoseAck, senderVars
<1>7. CASE UNCHANGED relVars
  BY <1>2, <1>7 DEF relVars, senderVars
<1> QED
  BY <1>1, <1>3, <1>4, <1>5, <1>6, <1>7 DEF RelNext

\* The layer implements the promise of OrderedDelivery: each step of sender, receiver and
\* network sends one message, gives the user more messages in the order sent, passing no
\* ordered one over, or changes nothing the user sees.
THEOREM ReliabilityImplementsDelivery == RelSpec => DeliversInOrder
<1>1. RelInit => Channel!DeliveryInit
  BY DEF RelInit, Channel!DeliveryInit
<1>2. RelInv /\ [RelNext]_relVars => [Channel!DeliveryNext]_(Channel!deliveryVars)
  BY DeliveryStep
<1> QED
  BY <1>1, <1>2, ReliabilityInvariant, PTL DEF RelSpec, DeliversInOrder, Channel!DeliverySpec
=============================================================================
