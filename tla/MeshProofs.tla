------------------------------ MODULE MeshProofs ------------------------------
(***************************************************************************)
(* Proofs about FullyConnectedMesh2: types, that everyone knows everyone's *)
(* id once the mesh has come to rest, that there is one host then, and     *)
(* that it is one of those who met first.                                  *)
(* For any systems, founders, ages, users and number of upsets.            *)
(***************************************************************************)
EXTENDS FullyConnectedMesh2, FiniteSetTheorems, SequenceTheorems, WellFoundedInduction, TLAPS

(***************************************************************************)
(* Ids.                                                                    *)
(***************************************************************************)
\* Of some numbers one is the least.
LEMMA Least ==
  ASSUME NEW T \in SUBSET Nat, T # {}
  PROVE  \E x \in T : \A y \in T : x <= y
<1> DEFINE R == {pair \in Nat \X Nat : pair[1] < pair[2]}
<1>1. IsWellFoundedOn(R, Nat)
  BY NatLessThanWellFounded, Zenon DEF OpToRel
<1> HIDE DEF R
<1>2. \E x \in T : \A y \in T : ~(<<y, x>> \in R)
  BY <1>1, WFMin
<1>3. ASSUME NEW x \in T, NEW y \in T, y < x PROVE <<y, x>> \in R
  <2>1. <<y, x>> \in Nat \X Nat /\ <<y, x>>[1] = y /\ <<y, x>>[2] = x
    OBVIOUS
  <2> QED
    BY <1>3, <2>1 DEF R
<1>4. PICK x \in T : \A y \in T : ~(y < x)
  BY <1>2, <1>3
<1>5. \A y \in T : x <= y
  BY <1>4
<1> QED
  BY <1>5

\* A count of at least one makes an id that is none.
LEMMA IdIsOne ==
  ASSUME NEW count \in Nat \ {0}, NEW random \in Nat
  PROVE  Id(count, random) \in Nat \ {NoId}
BY MeshAssumption DEF Id, NoId

\* Ids with different random numbers are different.
LEMMA IdsDiffer ==
  ASSUME NEW c \in Nat, NEW d \in Nat, NEW r \in 0..Draws - 1, NEW q \in 0..Draws - 1,
         Id(c, r) = Id(d, q)
  PROVE  r = q
<1>1. ASSUME NEW m \in Nat, NEW n \in Nat, m < n, NEW x \in 0..Draws - 1, NEW y \in 0..Draws - 1
      PROVE  Id(m, x) < Id(n, y)
  <2>1. (n - m) \in Nat \ {0} /\ Draws \in Nat \ {0}
    BY <1>1, MeshAssumption
  <2>2. n * Draws = m * Draws + (n - m) * Draws
    BY <2>1
  <2>3. (n - m) * Draws >= Draws
    BY <2>1
  <2>4. m * Draws \in Nat /\ n * Draws \in Nat
    BY <2>1
  <2> QED
    BY <2>1, <2>2, <2>3, <2>4 DEF Id
<1>2. Id(c, r) \in Nat /\ Id(d, q) \in Nat
  BY MeshAssumption DEF Id
<1>3. c = d
  BY <1>1, <1>2
<1>4. c * Draws \in Nat
  BY MeshAssumption
<1> QED
  BY <1>3, <1>4, MeshAssumption DEF Id

(***************************************************************************)
(* Streams.  What matters of a stream is the last id in it, whether it     *)
(* asks for a count, and whether it answers.                               *)
(***************************************************************************)
Carries(p) == p.type \in {"REQUEST_FCMGUID", "INFORM_FCMGUID"} /\ p.fcmGuid # NoId
Queries(p) == p.type = "REQUEST_FCMGUID" /\ p.fcmGuid = NoId
Responds(p) == p.type = "RESPOND_CONNECTION_COUNT"

\* Who is told of an id or answered can draw an id from it.
Sound(p) == /\ p.type = "INFORM_FCMGUID" => p.count # 0 /\ p.fcmGuid # NoId
            /\ Responds(p) => p.count # 0

NoIds(s) == \A i \in 1..Len(s) : ~Carries(s[i])
LastId(s, id) ==
  \E i \in 1..Len(s) :
    /\ Carries(s[i]) /\ s[i].fcmGuid = id
    /\ \A j \in 1..Len(s) : j > i /\ Carries(s[j]) => s[j].fcmGuid = id
Asking(s) == \E i \in 1..Len(s) : Queries(s[i])
Answering(s) == \E i \in 1..Len(s) : Responds(s[i])
AllSound(s) == \A i \in 1..Len(s) : Sound(s[i])

\* What is sent to one system in one step by one whose id is then id.
Parcel(out, id) ==
  \/ out = <<>>
  \/ \E p \in Packets : out = <<p>> /\ Sound(p) /\ (Carries(p) => p.fcmGuid = id)

\* A step sends at the end of a stream.
LEMMA Posted ==
  ASSUME NEW s \in Seq(Packets), NEW out, NEW id, Parcel(out, id)
  PROVE  /\ s \o out \in Seq(Packets)
         /\ AllSound(s) => AllSound(s \o out)
         /\ Asking(s) => Asking(s \o out)
         /\ Answering(s) => Answering(s \o out)
         /\ NoIds(s) => NoIds(s \o out) \/ LastId(s \o out, id)
         /\ LastId(s, id) => LastId(s \o out, id)
         /\ \A p \in Packets : out = <<p>> => /\ Carries(p) => LastId(s \o out, id)
                                              /\ Queries(p) => Asking(s \o out)
                                              /\ Responds(p) => Answering(s \o out)
<1>1. CASE out = <<>>
  <2>1. s \o out = s
    BY <1>1
  <2> QED
    BY <1>1, <2>1
<1>2. ASSUME NEW p \in Packets, out = <<p>>, Sound(p), Carries(p) => p.fcmGuid = id
      PROVE  /\ s \o out \in Seq(Packets)
             /\ AllSound(s) => AllSound(s \o out)
             /\ Asking(s) => Asking(s \o out)
             /\ Answering(s) => Answering(s \o out)
             /\ NoIds(s) => NoIds(s \o out) \/ LastId(s \o out, id)
             /\ LastId(s, id) => LastId(s \o out, id)
             /\ Carries(p) => LastId(s \o out, id)
             /\ Queries(p) => Asking(s \o out)
             /\ Responds(p) => Answering(s \o out)
  <2> DEFINE t == s \o out
  <2>1. /\ t \in Seq(Packets) /\ Len(t) = Len(s) + 1 /\ t[Len(s) + 1] = p
        /\ \A i \in 1..Len(s) : t[i] = s[i]
    BY <1>2
  <2>2. Len(s) \in Nat
    OBVIOUS
  <2> HIDE DEF t
  <2>3. \A i \in 1..Len(t) : i \in 1..Len(s) \/ i = Len(s) + 1
    BY <2>1, <2>2
  <2>4. 1..Len(s) \subseteq 1..Len(t) /\ Len(s) + 1 \in 1..Len(t)
    BY <2>1, <2>2
  <2>5. AllSound(s) => AllSound(t)
    BY <1>2, <2>1, <2>3 DEF AllSound
  <2>6. (Asking(s) => Asking(t)) /\ (Answering(s) => Answering(t))
    BY <2>1, <2>4 DEF Asking, Answering
  <2>7. (Queries(p) => Asking(t)) /\ (Responds(p) => Answering(t))
    BY <2>1, <2>4 DEF Asking, Answering
  <2>8. ASSUME Carries(p) PROVE LastId(t, id)
    <3>1. \A j \in 1..Len(t) : ~(j > Len(s) + 1)
      BY <2>1, <2>2
    <3> QED
      BY <1>2, <2>1, <2>4, <2>8, <3>1 DEF LastId
  <2>9. ASSUME LastId(s, id) PROVE LastId(t, id)
    <3>1. PICK i \in 1..Len(s) : /\ Carries(s[i]) /\ s[i].fcmGuid = id
                                 /\ \A j \in 1..Len(s) : j > i /\ Carries(s[j]) => s[j].fcmGuid = id
      BY <2>9 DEF LastId
    <3>2. \A j \in 1..Len(t) : j > i /\ Carries(t[j]) => t[j].fcmGuid = id
      BY <1>2, <2>1, <2>3, <3>1
    <3>3. i \in 1..Len(t) /\ t[i] = s[i]
      BY <2>1, <2>4
    <3> QED
      BY <3>1, <3>2, <3>3 DEF LastId
  <2>10. NoIds(s) /\ ~Carries(p) => NoIds(t)
    BY <2>1, <2>3 DEF NoIds
  <2> QED
    BY <2>1, <2>5, <2>6, <2>7, <2>8, <2>9, <2>10 DEF t
<1> QED
  BY <1>1, <1>2 DEF Parcel

\* The first packet is taken.
LEMMA Taken ==
  ASSUME NEW s \in Seq(Packets), s # <<>>
  PROVE  /\ Head(s) \in Packets /\ Tail(s) \in Seq(Packets)
         /\ AllSound(s) => Sound(Head(s)) /\ AllSound(Tail(s))
         /\ Asking(s) => Queries(Head(s)) \/ Asking(Tail(s))
         /\ Answering(s) => Responds(Head(s)) \/ Answering(Tail(s))
         /\ NoIds(s) => ~Carries(Head(s)) /\ NoIds(Tail(s))
         /\ \A id : LastId(s, id) =>
              LastId(Tail(s), id) \/ (NoIds(Tail(s)) /\ Carries(Head(s)) /\ Head(s).fcmGuid = id)
<1> DEFINE t == Tail(s)
<1>1. /\ Len(s) \in Nat /\ Len(t) = Len(s) - 1 /\ Len(s) >= 1 /\ Head(s) = s[1]
      /\ t \in Seq(Packets) /\ \A i \in 1..Len(t) : t[i] = s[i + 1]
  BY HeadTailProperties, LenProperties, EmptySeq
<1>2. Head(s) \in Packets
  BY HeadTailProperties
<1> HIDE DEF t
<1>3. \A i \in 1..Len(s) : i = 1 \/ (i - 1 \in 1..Len(t) /\ t[i - 1] = s[i])
  BY <1>1
<1>4. 1 \in 1..Len(s) /\ \A i \in 1..Len(t) : i + 1 \in 1..Len(s)
  BY <1>1
<1>5. AllSound(s) => Sound(Head(s)) /\ AllSound(t)
  BY <1>1, <1>4 DEF AllSound
<1>6. NoIds(s) => ~Carries(Head(s)) /\ NoIds(t)
  BY <1>1, <1>4 DEF NoIds
<1>7. Asking(s) => Queries(Head(s)) \/ Asking(t)
  BY <1>1, <1>3 DEF Asking
<1>8. Answering(s) => Responds(Head(s)) \/ Answering(t)
  BY <1>1, <1>3 DEF Answering
<1>9. ASSUME NEW id, LastId(s, id)
      PROVE  LastId(t, id) \/ (NoIds(t) /\ Carries(Head(s)) /\ Head(s).fcmGuid = id)
  <2>1. PICK i \in 1..Len(s) : /\ Carries(s[i]) /\ s[i].fcmGuid = id
                               /\ \A j \in 1..Len(s) : j > i /\ Carries(s[j]) => s[j].fcmGuid = id
    BY <1>9 DEF LastId
  <2>2. CASE i # 1
    <3>1. i - 1 \in 1..Len(t) /\ t[i - 1] = s[i]
      BY <1>3, <2>2
    <3>2. ASSUME NEW j \in 1..Len(t), j > i - 1, Carries(t[j]) PROVE t[j].fcmGuid = id
      BY <1>1, <1>4, <2>1, <3>2
    <3> QED
      BY <2>1, <3>1, <3>2 DEF LastId
  <2>3. CASE i = 1 /\ ~NoIds(t)
    <3>1. PICK k \in 1..Len(t) : Carries(t[k])
      BY <2>3 DEF NoIds
    <3>2. \A j \in 1..Len(t) : Carries(t[j]) => t[j].fcmGuid = id
      BY <1>1, <1>4, <2>1, <2>3
    <3> QED
      BY <3>1, <3>2 DEF LastId
  <2>4. CASE i = 1 /\ NoIds(t)
    BY <1>1, <2>1, <2>4
  <2> QED
    BY <2>2, <2>3, <2>4
<1> QED
  BY <1>1, <1>2, <1>5, <1>6, <1>7, <1>8, <1>9 DEF t

\* Nothing is known of the empty stream.
LEMMA Nothing ==
  /\ <<>> \in Seq(Packets) /\ AllSound(<<>>) /\ NoIds(<<>>)
  /\ ~Asking(<<>>) /\ ~Answering(<<>>) /\ \A id : ~LastId(<<>>, id)
<1>1. Len(<<>>) = 0 /\ 1..0 = {}
  OBVIOUS
<1> QED
  BY <1>1 DEF AllSound, NoIds, Asking, Answering, LastId

(***************************************************************************)
(* The handlers, by the fields of what they work on.                       *)
(***************************************************************************)
Rec(list, total, id, host, pushed, out) ==
  [list |-> list, total |-> total, id |-> id, host |-> host, pushed |-> pushed, out |-> out]

Hosts == Systems \cup {NoHost}
IsList(a, list) == DOMAIN list \subseteq Systems \ {a} /\ list \in [DOMAIN list -> Nat]
Silence == [c \in Systems |-> <<>>]
Complete(list) == \A b \in DOMAIN list : list[b] # NoId
Larger(i, total) == IF i > total THEN i ELSE total

\* Who has the lowest id among a and those it knows the id of.
Chosen(a, list, id) ==
  LET lower == {b \in DOMAIN list : list[b] # NoId /\ list[b] < id}
  IN IF lower = {} THEN a ELSE CHOOSE b \in lower : \A c \in lower : list[b] <= list[c]

\* The system chosen is there, and nobody whose id is known has a lower one.
LEMMA ChosenIs ==
  ASSUME NEW a \in Systems, NEW list, IsList(a, list), NEW id \in Nat
  PROVE  /\ Chosen(a, list, id) \in {a} \cup DOMAIN list
         /\ Chosen(a, list, id) = a => \A c \in DOMAIN list : list[c] # NoId => id <= list[c]
         /\ Chosen(a, list, id) # a =>
              LET b == Chosen(a, list, id)
              IN b \in DOMAIN list /\ list[b] < id
                 /\ \A c \in DOMAIN list : list[c] # NoId => list[b] <= list[c]
<1> DEFINE lower == {b \in DOMAIN list : list[b] # NoId /\ list[b] < id}
           chosen == Chosen(a, list, id)
<1>1. a \notin DOMAIN list /\ \A c \in DOMAIN list : list[c] \in Nat
  BY DEF IsList
<1>2. CASE lower = {}
  <2>1. chosen = a
    BY <1>2 DEF Chosen
  <2>2. \A c \in DOMAIN list : list[c] # NoId => id <= list[c]
    BY <1>1, <1>2
  <2> QED
    BY <2>1, <2>2
<1>3. CASE lower # {}
  <2>1. {list[b] : b \in lower} \in SUBSET Nat /\ {list[b] : b \in lower} # {}
    BY <1>1, <1>3
  <2>2. PICK x \in {list[b] : b \in lower} : \A y \in {list[b] : b \in lower} : x <= y
    BY <2>1, Least
  <2>3. \E b \in lower : \A c \in lower : list[b] <= list[c]
    BY <2>2
  <2>4. chosen = CHOOSE b \in lower : \A c \in lower : list[b] <= list[c]
    BY <1>3 DEF Chosen
  <2>5. chosen \in lower /\ \A c \in lower : list[chosen] <= list[c]
    BY <2>3, <2>4
  <2>6. chosen \in DOMAIN list /\ list[chosen] < id /\ chosen # a
    BY <1>1, <2>5
  <2>7. ASSUME NEW c \in DOMAIN list, list[c] # NoId PROVE list[chosen] <= list[c]
    <3>1. CASE c \in lower
      BY <2>5, <3>1
    <3>2. CASE c \notin lower
      BY <1>1, <2>6, <2>7, <3>2
    <3> QED
      BY <3>1, <3>2
  <2> HIDE DEF chosen, lower
  <2> QED
    BY <2>6, <2>7 DEF chosen
<1> QED
  BY <1>2, <1>3

\* What each step of a handler does to the fields.
LEMMA StateIs ==
  ASSUME NEW a
  PROVE  State(a) = Rec(fcm2ParticipantList[a], totalConnectionCount[a], ourFCMGuid[a],
                        hostRakNetGuid[a], lastPushedHost[a], Silence)
BY DEF State, Rec, Silence

LEMMA Increments ==
  ASSUME NEW list, NEW total, NEW id, NEW host, NEW pushed, NEW out, NEW i
  PROVE  IncrementTotalConnectionCount(Rec(list, total, id, host, pushed, out), i)
           = Rec(list, Larger(i, total), id, host, pushed, out)
BY DEF IncrementTotalConnectionCount, Rec, Larger

LEMMA SendsTo ==
  ASSUME NEW list, NEW total, NEW id, NEW host, NEW pushed, NEW out, NEW b, NEW q
  PROVE  SendTo(Rec(list, total, id, host, pushed, out), b, q)
           = Rec(list, total, id, host, pushed, [out EXCEPT ![b] = Append(@, q)])
BY DEF SendTo, Rec

LEMMA AddsId ==
  ASSUME NEW list, NEW total, NEW id, NEW host, NEW pushed, NEW out, NEW b, NEW i,
         b \in DOMAIN list
  PROVE  AddParticipantInternal(Rec(list, total, id, host, pushed, out), b, i)
           = Rec([list EXCEPT ![b] = IF i # NoId THEN i ELSE @], total, id, host, pushed, out)
BY DEF AddParticipantInternal, Rec

\* The host is calculated and told when all ids are known.
LEMMA Pushes ==
  ASSUME NEW a, NEW list, NEW total, NEW id, NEW host, NEW pushed, NEW out
  PROVE  CalculateAndPushHost(a, Rec(list, total, id, host, pushed, out)) =
           IF Complete(list) /\ Chosen(a, list, id) # pushed
           THEN Rec(list, total, id, Chosen(a, list, id), Chosen(a, list, id), out)
           ELSE Rec(list, total, id, host, pushed, out)
<1> DEFINE s == Rec(list, total, id, host, pushed, out)
<1>1. s.list = list /\ s.id = id /\ s.pushed = pushed
  BY DEF Rec
<1>2. CalculateHost(a, s) = Chosen(a, list, id)
  BY <1>1 DEF CalculateHost, Chosen
<1>3. ParticipantListComplete(s) = Complete(list)
  BY <1>1 DEF ParticipantListComplete, Complete
<1>4. ASSUME NEW h PROVE [s EXCEPT !.host = h, !.pushed = h] = Rec(list, total, id, h, h, out)
  <2>1. [s EXCEPT !.host = h] = Rec(list, total, id, h, pushed, out)
    BY DEF Rec
  <2>2. [Rec(list, total, id, h, pushed, out) EXCEPT !.pushed = h]
          = Rec(list, total, id, h, h, out)
    BY DEF Rec
  <2>3. [s EXCEPT !.host = h, !.pushed = h] = [[s EXCEPT !.host = h] EXCEPT !.pushed = h]
    OBVIOUS
  <2> QED
    BY <2>1, <2>2, <2>3
<1> HIDE DEF s
<1>5. CalculateAndPushHost(a, s) =
        IF Complete(list) /\ Chosen(a, list, id) # pushed
        THEN [s EXCEPT !.host = Chosen(a, list, id), !.pushed = Chosen(a, list, id)]
        ELSE s
  BY <1>1, <1>2, <1>3 DEF CalculateAndPushHost
<1> QED
  BY <1>4, <1>5 DEF s

\* A new id goes to every participant.
LEMMA Assigns ==
  ASSUME NEW list, NEW total, NEW id, NEW host, NEW pushed, NEW random
  PROVE  AssignAndInform(Rec(list, total, id, host, pushed, Silence), random) =
           Rec(list, total, Id(total, random), host, pushed,
               [b \in Systems |-> IF b \in DOMAIN list
                                  THEN <<[type |-> "INFORM_FCMGUID", fcmGuid |-> Id(total, random),
                                          count |-> total]>>
                                  ELSE <<>>])
<1> DEFINE s == Rec(list, total, id, host, pushed, Silence)
           t == Rec(list, total, Id(total, random), host, pushed, Silence)
           q == [type |-> "INFORM_FCMGUID", fcmGuid |-> Id(total, random), count |-> total]
           news == [b \in Systems |-> IF b \in DOMAIN list THEN <<q>> ELSE <<>>]
<1>1. [s EXCEPT !.id = Id(s.total, random)] = t
  BY DEF Rec
<1>2. Inform(t) = q
  BY DEF Inform, Rec
<1>3. [b \in Systems |-> IF b \in DOMAIN s.list THEN Append(s.out[b], Inform(t)) ELSE s.out[b]] = news
  <2>1. s.list = list /\ s.out = Silence
    BY DEF Rec
  <2>2. \A b \in Systems : Silence[b] = <<>> /\ Append(<<>>, q) = <<q>>
    BY DEF Silence
  <2> HIDE DEF q, s, t
  <2> QED
    BY <1>2, <2>1, <2>2
<1>4. [t EXCEPT !.out = news] = Rec(list, total, Id(total, random), host, pushed, news)
  BY DEF Rec
<1>5. AssignAndInform(s, random) = [t EXCEPT !.out = news]
  <2> HIDE DEF q, news
  <2> QED
    BY <1>1, <1>3 DEF AssignAndInform
<1> QED
  BY <1>4, <1>5

\* The host after CalculateAndPushHost of a, which had host and pushed before.
HostFollows(a, s, host, pushed) ==
  LET chosen == Chosen(a, s.list, s.id)
  IN IF Complete(s.list) /\ chosen # pushed
     THEN s.host = chosen /\ s.pushed = chosen
     ELSE s.host = host /\ s.pushed = pushed

LEMMA PushedFields ==
  ASSUME NEW a, NEW list, NEW total, NEW id, NEW host, NEW pushed, NEW out, NEW s,
         s = CalculateAndPushHost(a, Rec(list, total, id, host, pushed, out))
  PROVE  /\ s.list = list /\ s.total = total /\ s.id = id /\ s.out = out
         /\ HostFollows(a, s, host, pushed)
<1> DEFINE chosen == Chosen(a, list, id)
<1>1. s = IF Complete(list) /\ chosen # pushed
          THEN Rec(list, total, id, chosen, chosen, out)
          ELSE Rec(list, total, id, host, pushed, out)
  BY Pushes
<1> HIDE DEF chosen
<1>2. s.list = list /\ s.total = total /\ s.id = id /\ s.out = out
  BY <1>1 DEF Rec
<1>3. IF Complete(list) /\ chosen # pushed THEN s.host = chosen /\ s.pushed = chosen
      ELSE s.host = host /\ s.pushed = pushed
  BY <1>1 DEF Rec
<1> QED
  BY <1>2, <1>3 DEF HostFollows, chosen

\* What system a has and sends after it has handled the packet p of b.
ListAfter(a, b, p) ==
  IF Carries(p) THEN [fcm2ParticipantList[a] EXCEPT ![b] = p.fcmGuid]
  ELSE fcm2ParticipantList[a]

HostSettles(a, s) ==
  \/ HostFollows(a, s, hostRakNetGuid[a], lastPushedHost[a])
  \/ /\ s.host = hostRakNetGuid[a] /\ s.pushed = lastPushedHost[a]
     /\ s.list = fcm2ParticipantList[a] /\ s.id = ourFCMGuid[a]

Sends(a, b, p, s) ==
  /\ \A c \in Systems : Parcel(s.out[c], s.id)
  /\ s.id # ourFCMGuid[a] =>
       \A c \in DOMAIN fcm2ParticipantList[a] : \E q \in Packets : s.out[c] = <<q>> /\ Carries(q)
  /\ Queries(p) => \E q \in Packets : s.out[b] = <<q>> /\ Responds(q)

Numbered(a, p, random, s) ==
  /\ s.total \in Nat /\ (s.id # NoId => s.total # 0)
  /\ s.id = ourFCMGuid[a] \/ (ourFCMGuid[a] = NoId /\ \E c \in Nat \ {0} : s.id = Id(c, random))
  /\ ourFCMGuid[a] = NoId /\ (Carries(p) \/ Responds(p)) => s.id # NoId

\* A packet that carries an id carries the count of its sender.
Bears(out, id, total) ==
  \/ out = <<>>
  \/ \E q \in Packets :
       /\ out = <<q>>
       /\ q.type \in {"REQUEST_FCMGUID", "INFORM_FCMGUID"} => q.fcmGuid = id /\ q.count = total

\* Counts grow, at least to what the packet says, and an id is drawn from no larger one.
\* Only participants are sent anything.
Counts(a, p, random, s) ==
  /\ s.total >= totalConnectionCount[a]
  /\ Carries(p) => s.total >= p.count
  /\ \/ s.id = ourFCMGuid[a]
     \/ \E k \in Nat : /\ k <= s.total /\ s.id = Id(k, random)
                       /\ p.type = "REQUEST_FCMGUID" => k > p.count
  /\ \A c \in Systems : Bears(s.out[c], s.id, s.total)
  /\ \A c \in Systems \ DOMAIN fcm2ParticipantList[a] : s.out[c] = <<>>

Outcome(a, b, p, random, s) ==
  /\ s.list = ListAfter(a, b, p) /\ Numbered(a, p, random, s) /\ Sends(a, b, p, s)
  /\ HostSettles(a, s) /\ Counts(a, p, random, s)

\* What may be handled: a packet of a participant.
Handles(a, b, p, random) ==
  /\ a \in Systems /\ b \in DOMAIN fcm2ParticipantList[a] /\ IsList(a, fcm2ParticipantList[a])
  /\ ourFCMGuid[a] \in Nat /\ totalConnectionCount[a] \in Nat
  /\ ourFCMGuid[a] # NoId => totalConnectionCount[a] # 0
  /\ p \in Packets /\ Sound(p) /\ random \in Nat

\* A participant's id is entered.
LEMMA Entered ==
  ASSUME NEW a, NEW b, NEW p, NEW random, Handles(a, b, p, random),
         p.type \in {"REQUEST_FCMGUID", "INFORM_FCMGUID"}, NEW total
  PROVE  AddParticipantInternal(Rec(fcm2ParticipantList[a], total, ourFCMGuid[a],
                                    hostRakNetGuid[a], lastPushedHost[a], Silence), b, p.fcmGuid)
           = Rec(ListAfter(a, b, p), total, ourFCMGuid[a], hostRakNetGuid[a],
                 lastPushedHost[a], Silence)
<1> DEFINE list == fcm2ParticipantList[a]
<1>1. [list EXCEPT ![b] = IF p.fcmGuid # NoId THEN p.fcmGuid ELSE @] = ListAfter(a, b, p)
  BY DEF ListAfter, Carries, Handles, IsList
<1>2. b \in DOMAIN list
  BY DEF Handles
<1> HIDE DEF list
<1>3. AddParticipantInternal(Rec(list, total, ourFCMGuid[a], hostRakNetGuid[a],
                                 lastPushedHost[a], Silence), b, p.fcmGuid)
        = Rec([list EXCEPT ![b] = IF p.fcmGuid # NoId THEN p.fcmGuid ELSE @], total, ourFCMGuid[a],
              hostRakNetGuid[a], lastPushedHost[a], Silence)
  BY <1>2, AddsId
<1> QED
  BY <1>1, <1>3 DEF list

\* One packet, sent to one system.
LEMMA OneSent ==
  ASSUME NEW b \in Systems, NEW q \in Packets, NEW id, Sound(q), Carries(q) => q.fcmGuid = id
  PROVE  /\ \A c \in Systems : Parcel([Silence EXCEPT ![b] = Append(@, q)][c], id)
         /\ [Silence EXCEPT ![b] = Append(@, q)][b] = <<q>>
<1>1. Silence[b] = <<>> /\ Append(<<>>, q) = <<q>>
  BY DEF Silence
<1>2. [Silence EXCEPT ![b] = Append(@, q)] = [c \in Systems |-> IF c = b THEN <<q>> ELSE <<>>]
  BY <1>1 DEF Silence
<1> QED
  BY <1>2 DEF Parcel

\* The news of an id.
LEMMA NewsSent ==
  ASSUME NEW list, NEW total \in Nat \ {0}, NEW id \in Nat \ {NoId},
         NEW news, news = [b \in Systems |->
                             IF b \in DOMAIN list
                             THEN <<[type |-> "INFORM_FCMGUID", fcmGuid |-> id, count |-> total]>>
                             ELSE <<>>]
  PROVE  /\ \A c \in Systems : Parcel(news[c], id)
         /\ \A c \in Systems \cap DOMAIN list :
              \E q \in Packets : news[c] = <<q>> /\ Carries(q)
<1> DEFINE q == [type |-> "INFORM_FCMGUID", fcmGuid |-> id, count |-> total]
<1>1. q \in Packets /\ Carries(q) /\ q.fcmGuid = id /\ Sound(q)
  BY DEF Packets, Carries, Sound, Responds
<1> HIDE DEF q
<1>2. news = [b \in Systems |-> IF b \in DOMAIN list THEN <<q>> ELSE <<>>]
  BY DEF q
<1> QED
  BY <1>1, <1>2 DEF Parcel

LEMMA OneBorne ==
  ASSUME NEW b \in Systems, NEW q \in Packets, NEW id, NEW total,
         q.type \in {"REQUEST_FCMGUID", "INFORM_FCMGUID"} => q.fcmGuid = id /\ q.count = total
  PROVE  \A c \in Systems : Bears([Silence EXCEPT ![b] = Append(@, q)][c], id, total)
<1>1. Silence[b] = <<>> /\ Append(<<>>, q) = <<q>>
  BY DEF Silence
<1>2. [Silence EXCEPT ![b] = Append(@, q)] = [c \in Systems |-> IF c = b THEN <<q>> ELSE <<>>]
  BY <1>1 DEF Silence
<1> QED
  BY <1>2 DEF Bears

LEMMA NewsBorne ==
  ASSUME NEW list, NEW total \in Nat, NEW id \in Nat,
         NEW news, news = [b \in Systems |->
                             IF b \in DOMAIN list
                             THEN <<[type |-> "INFORM_FCMGUID", fcmGuid |-> id, count |-> total]>>
                             ELSE <<>>]
  PROVE  \A c \in Systems : Bears(news[c], id, total)
<1> DEFINE q == [type |-> "INFORM_FCMGUID", fcmGuid |-> id, count |-> total]
<1>1. q \in Packets /\ q.fcmGuid = id /\ q.count = total
  BY DEF Packets
<1> HIDE DEF q
<1>2. news = [b \in Systems |-> IF b \in DOMAIN list THEN <<q>> ELSE <<>>]
  BY DEF q
<1> QED
  BY <1>1, <1>2 DEF Bears

LEMMA RequestOutcome ==
  ASSUME NEW a, NEW b, NEW p, NEW random, Handles(a, b, p, random), NEW longer \in BOOLEAN,
         p.type = "REQUEST_FCMGUID"
  PROVE  Outcome(a, b, p, random, AfterRequest(a, b, p, longer, random))
<1> DEFINE list == ListAfter(a, b, p)
           total == totalConnectionCount[a]
           id == ourFCMGuid[a]
           host == hostRakNetGuid[a]
           pushed == lastPushedHost[a]
           s == AfterRequest(a, b, p, longer, random)
<1>1. /\ total \in Nat /\ id \in Nat /\ (id # NoId => total # 0) /\ b \in Systems
      /\ p.fcmGuid \in Nat /\ p.count \in Nat /\ random \in Nat
  BY DEF Handles, IsList, Packets
<1>2. AddParticipantInternal(State(a), b, p.fcmGuid) = Rec(list, total, id, host, pushed, Silence)
  BY Entered, StateIs
<1>3. DOMAIN list = DOMAIN fcm2ParticipantList[a] /\ DOMAIN list \subseteq Systems
  BY DEF Handles, IsList, ListAfter
<1>4. Queries(p) <=> p.fcmGuid = NoId
  BY DEF Queries
<1>5. Carries(p) <=> p.fcmGuid # NoId
  BY DEF Carries
<1>6. ~Responds(p)
  BY DEF Responds
<1>7. ASSUME NEW t, NEW out, NEW i,
             s = CalculateAndPushHost(a, Rec(list, t, i, host, pushed, out))
      PROVE  s.list = list /\ s.total = t /\ s.id = i /\ s.out = out /\ HostSettles(a, s)
  BY <1>7, PushedFields DEF HostSettles
<1>8. CASE p.fcmGuid = NoId
  <2> DEFINE n == IF id # NoId THEN total + 1 ELSE IF longer THEN 2 ELSE 1
             q == [type |-> "RESPOND_CONNECTION_COUNT", count |-> n]
             out == [Silence EXCEPT ![b] = Append(@, q)]
  <2>1. q \in Packets /\ Sound(q) /\ ~Carries(q) /\ Responds(q)
    BY <1>1 DEF Packets, Sound, Carries, Responds
  <2>2. SendConnectionCountResponse(Rec(list, total, id, host, pushed, Silence), b, n)
          = Rec(list, total, id, host, pushed, out)
    <3> HIDE DEF list, total, id, host, pushed, q, n
    <3> QED
      BY SendsTo DEF SendConnectionCountResponse, q
  <2>3. s = CalculateAndPushHost(a, SendConnectionCountResponse(
               Rec(list, total, id, host, pushed, Silence), b, n))
    <3>1. Rec(list, total, id, host, pushed, Silence).id = id
          /\ Rec(list, total, id, host, pushed, Silence).total = total
      BY DEF Rec
    <3> HIDE DEF list, total, id, host, pushed
    <3> QED
      BY <1>2, <1>8, <3>1 DEF AfterRequest
  <2> HIDE DEF list, total, id, host, pushed, s, q, n
  <2>4. /\ s.list = list /\ s.total = total /\ s.id = id /\ s.out = out /\ HostSettles(a, s)
    BY <1>7, <2>2, <2>3
  <2>5. (\A c \in Systems : Parcel(s.out[c], s.id)) /\ s.out[b] = <<q>>
    BY <1>1, <2>1, <2>4, OneSent
  <2>6. Sends(a, b, p, s)
    BY <2>1, <2>4, <2>5 DEF Sends, id
  <2>7. Numbered(a, p, random, s)
    BY <1>1, <1>5, <1>6, <1>8, <2>4 DEF Numbered, id
  <2>8. /\ \A c \in Systems : Bears(s.out[c], s.id, s.total)
        /\ \A c \in Systems \ DOMAIN fcm2ParticipantList[a] : s.out[c] = <<>>
    <3>1. q.type \notin {"REQUEST_FCMGUID", "INFORM_FCMGUID"}
      BY DEF q
    <3>2. \A c \in Systems : Bears(s.out[c], s.id, s.total)
      BY <1>1, <2>1, <2>4, <3>1, OneBorne
    <3>3. \A c \in Systems \ DOMAIN fcm2ParticipantList[a] : s.out[c] = <<>>
      BY <2>4 DEF Handles, Silence
    <3> QED
      BY <3>2, <3>3
  <2>9. Counts(a, p, random, s)
    BY <1>1, <1>5, <1>8, <2>4, <2>8 DEF Counts, total, id
  <2> QED
    BY <2>4, <2>6, <2>7, <2>9 DEF Outcome, list, s
<1>9. CASE p.fcmGuid # NoId /\ id = NoId
  <2> DEFINE n == Larger(p.count + 1, total)
             out == [c \in Systems |-> IF c \in DOMAIN list
                       THEN <<[type |-> "INFORM_FCMGUID", fcmGuid |-> Id(n, random), count |-> n]>>
                       ELSE <<>>]
  <2>1. n \in Nat \ {0}
    BY <1>1 DEF Larger
  <2>2. Id(n, random) \in Nat \ {NoId}
    BY <1>1, <2>1, IdIsOne
  <2>3. AssignAndInform(IncrementTotalConnectionCount(
            Rec(list, total, id, host, pushed, Silence), p.count + 1), random)
          = Rec(list, n, Id(n, random), host, pushed, out)
    <3> HIDE DEF list, total, id, host, pushed
    <3>1. IncrementTotalConnectionCount(Rec(list, total, id, host, pushed, Silence), p.count + 1)
            = Rec(list, n, id, host, pushed, Silence)
      BY Increments
    <3> HIDE DEF n
    <3>2. AssignAndInform(Rec(list, n, id, host, pushed, Silence), random)
            = Rec(list, n, Id(n, random), host, pushed, out)
      BY Assigns
    <3> QED
      BY <3>1, <3>2
  <2>4. s = CalculateAndPushHost(a, AssignAndInform(IncrementTotalConnectionCount(
               Rec(list, total, id, host, pushed, Silence), p.count + 1), random))
    <3>1. Rec(list, total, id, host, pushed, Silence).id = id
      BY DEF Rec
    <3> HIDE DEF list, total, id, host, pushed
    <3> QED
      BY <1>2, <1>9, <3>1 DEF AfterRequest
  <2> HIDE DEF list, total, id, host, pushed, s, n, out
  <2>5. /\ s.list = list /\ s.total = n /\ s.id = Id(n, random) /\ s.out = out /\ HostSettles(a, s)
    BY <1>7, <2>3, <2>4
  <2>6. /\ \A c \in Systems : Parcel(out[c], Id(n, random))
        /\ \A c \in Systems \cap DOMAIN list : \E q \in Packets : out[c] = <<q>> /\ Carries(q)
    <3> DEFINE i == Id(n, random)
    <3>1. out = [c \in Systems |-> IF c \in DOMAIN list
                   THEN <<[type |-> "INFORM_FCMGUID", fcmGuid |-> i, count |-> n]>> ELSE <<>>]
      BY DEF out
    <3>2. i \in Nat \ {NoId}
      BY <2>2
    <3> HIDE DEF i, out
    <3>3. /\ \A c \in Systems : Parcel(out[c], i)
          /\ \A c \in Systems \cap DOMAIN list : \E q \in Packets : out[c] = <<q>> /\ Carries(q)
      BY <2>1, <3>1, <3>2, NewsSent
    <3> QED
      BY <3>3 DEF i
  <2>7. Sends(a, b, p, s)
    BY <1>3, <1>4, <1>9, <2>5, <2>6 DEF Sends, id
  <2>8. Numbered(a, p, random, s)
    BY <1>9, <2>1, <2>2, <2>5 DEF Numbered, id
  <2>9. /\ \A c \in Systems : Bears(s.out[c], s.id, s.total)
        /\ \A c \in Systems \ DOMAIN fcm2ParticipantList[a] : s.out[c] = <<>>
    <3> DEFINE i == Id(n, random)
    <3>1. out = [c \in Systems |-> IF c \in DOMAIN list
                   THEN <<[type |-> "INFORM_FCMGUID", fcmGuid |-> i, count |-> n]>> ELSE <<>>]
      BY DEF out
    <3>2. i \in Nat /\ s.id = i
      BY <2>2, <2>5
    <3> HIDE DEF i, out
    <3>3. \A c \in Systems : Bears(s.out[c], s.id, s.total)
      BY <2>1, <2>5, <3>1, <3>2, NewsBorne
    <3>4. \A c \in Systems \ DOMAIN fcm2ParticipantList[a] : s.out[c] = <<>>
      BY <1>3, <2>5, <3>1
    <3> QED
      BY <3>3, <3>4
  <2>10. n >= total /\ n > p.count
    BY <1>1 DEF n, Larger
  <2>11. Counts(a, p, random, s)
    BY <1>1, <2>1, <2>5, <2>9, <2>10 DEF Counts, total
  <2> QED
    BY <2>5, <2>7, <2>8, <2>11 DEF Outcome, list, s
<1>10. CASE p.fcmGuid # NoId /\ id # NoId
  <2> DEFINE n == Larger(p.count, total)
             q == [type |-> "INFORM_FCMGUID", fcmGuid |-> id, count |-> n]
             out == [Silence EXCEPT ![b] = Append(@, q)]
             counted == Rec(list, n, id, host, pushed, Silence)
  <2>1. n \in Nat \ {0}
    BY <1>1, <1>10 DEF Larger
  <2>2. q \in Packets /\ Sound(q) /\ q.fcmGuid = id /\ Carries(q)
    BY <1>1, <1>10, <2>1 DEF Packets, Sound, Carries, Responds
  <2>3. IncrementTotalConnectionCount(Rec(list, total, id, host, pushed, Silence), p.count) = counted
    <3> HIDE DEF list, total, id, host, pushed
    <3> QED
      BY Increments
  <2>4. Inform(counted) = q
    BY DEF Inform, Rec
  <2>5. SendTo(counted, b, q) = Rec(list, n, id, host, pushed, out)
    <3> HIDE DEF list, total, id, host, pushed, q, n
    <3> QED
      BY SendsTo
  <2>6. s = CalculateAndPushHost(a, SendTo(counted, b, Inform(counted)))
    <3>1. Rec(list, total, id, host, pushed, Silence).id = id
      BY DEF Rec
    <3> HIDE DEF list, total, id, host, pushed, counted
    <3> QED
      BY <1>2, <1>10, <2>3, <3>1 DEF AfterRequest
  <2> HIDE DEF list, total, id, host, pushed, s, n, q, counted
  <2>7. /\ s.list = list /\ s.total = n /\ s.id = id /\ s.out = out /\ HostSettles(a, s)
    BY <1>7, <2>4, <2>5, <2>6
  <2>8. \A c \in Systems : Parcel(s.out[c], s.id)
    BY <1>1, <2>2, <2>7, OneSent
  <2>9. Sends(a, b, p, s)
    BY <1>4, <1>10, <2>7, <2>8 DEF Sends, id
  <2>10. Numbered(a, p, random, s)
    BY <1>10, <2>1, <2>7 DEF Numbered, id
  <2>11. /\ \A c \in Systems : Bears(s.out[c], s.id, s.total)
        /\ \A c \in Systems \ DOMAIN fcm2ParticipantList[a] : s.out[c] = <<>>
    <3>1. q.fcmGuid = id /\ q.count = n
      BY DEF q
    <3>2. \A c \in Systems : Bears(s.out[c], s.id, s.total)
      BY <1>1, <2>2, <2>7, <3>1, OneBorne
    <3>3. \A c \in Systems \ DOMAIN fcm2ParticipantList[a] : s.out[c] = <<>>
      BY <2>7 DEF Handles, Silence
    <3> QED
      BY <3>2, <3>3
  <2>12. n >= total /\ n >= p.count
    BY <1>1 DEF n, Larger
  <2>13. Counts(a, p, random, s)
    BY <2>7, <2>11, <2>12 DEF Counts, total, id
  <2> QED
    BY <2>7, <2>9, <2>10, <2>13 DEF Outcome, list, s
<1> QED
  BY <1>8, <1>9, <1>10

LEMMA ConnectionCountOutcome ==
  ASSUME NEW a, NEW b, NEW p, NEW random, Handles(a, b, p, random),
         p.type = "RESPOND_CONNECTION_COUNT"
  PROVE  Outcome(a, b, p, random, AfterConnectionCount(a, p, random))
<1> DEFINE list == fcm2ParticipantList[a]
           total == totalConnectionCount[a]
           id == ourFCMGuid[a]
           host == hostRakNetGuid[a]
           pushed == lastPushedHost[a]
           s == AfterConnectionCount(a, p, random)
           n == Larger(p.count, total)
           m == Larger(2, n)
           counted == Rec(list, n, id, host, pushed, Silence)
<1>1. /\ total \in Nat /\ id \in Nat /\ (id # NoId => total # 0) /\ b \in Systems
      /\ p.count \in Nat /\ p.count # 0 /\ random \in Nat
  BY DEF Handles, IsList, Packets, Sound, Responds
<1>2. n \in Nat \ {0} /\ m \in Nat \ {0}
  BY <1>1 DEF Larger
<1>3. Responds(p) /\ ~Carries(p) /\ ~Queries(p)
  BY DEF Responds, Carries, Queries
<1>4. DOMAIN list \subseteq Systems
  BY DEF Handles, IsList
<1>5. ListAfter(a, b, p) = list
  BY <1>3 DEF ListAfter
<1>6. IncrementTotalConnectionCount(State(a), p.count) = counted
  <2>1. State(a) = Rec(list, total, id, host, pushed, Silence)
    BY StateIs
  <2> HIDE DEF list, total, id, host, pushed
  <2> QED
    BY <2>1, Increments
<1>7. counted.id = id /\ counted.total = n /\ counted.list = list
  BY DEF Rec
<1>8. CASE id # NoId
  <2>1. s = IncrementTotalConnectionCount(counted, 2)
    <3> HIDE DEF id, list, n, counted
    <3> QED
      BY <1>6, <1>7, <1>8 DEF AfterConnectionCount
  <2>2. IncrementTotalConnectionCount(counted, 2) = Rec(list, m, id, host, pushed, Silence)
    <3> HIDE DEF list, n, id, host, pushed
    <3> QED
      BY Increments
  <2>3. /\ s.list = list /\ s.total = m /\ s.id = id /\ s.host = host /\ s.pushed = pushed
        /\ s.out = Silence
    <3> HIDE DEF s, list, m, id, host, pushed
    <3> QED
      BY <2>1, <2>2 DEF Rec
  <2>4. m >= total
    BY <1>1 DEF Larger
  <2> HIDE DEF s, m
  <2>5. Sends(a, b, p, s)
    BY <1>3, <2>3 DEF Sends, Parcel, Silence
  <2>6. Numbered(a, p, random, s)
    BY <1>2, <1>8, <2>3 DEF Numbered
  <2>7. HostSettles(a, s)
    BY <2>3 DEF HostSettles
  <2>8. Counts(a, p, random, s)
    BY <1>3, <2>3, <2>4 DEF Counts, Bears, Silence
  <2> QED
    BY <1>5, <2>3, <2>5, <2>6, <2>7, <2>8 DEF Outcome, s
<1>9. CASE id = NoId
  <2> DEFINE i == Id(n, random)
             news == [c \in Systems |-> IF c \in DOMAIN list
                        THEN <<[type |-> "INFORM_FCMGUID", fcmGuid |-> i, count |-> m]>> ELSE <<>>]
             assigned == Rec(list, n, i, host, pushed, Silence)
             atLeastTwo == Rec(list, m, i, host, pushed, Silence)
  <2>1. i \in Nat \ {NoId}
    BY <1>1, <1>2, IdIsOne
  <2>2. [counted EXCEPT !.id = Id(counted.total, random)] = assigned
    BY DEF Rec
  <2>3. IncrementTotalConnectionCount(assigned, 2) = atLeastTwo
    <3> HIDE DEF list, n, i, host, pushed
    <3> QED
      BY Increments
  <2>4. Inform(atLeastTwo) = [type |-> "INFORM_FCMGUID", fcmGuid |-> i, count |-> m]
    BY DEF Inform, Rec
  <2>5. [atLeastTwo EXCEPT !.out = news] = Rec(list, m, i, host, pushed, news)
    BY DEF Rec
  <2>6. s = CalculateAndPushHost(a, [atLeastTwo EXCEPT !.out = [c \in Systems |->
              IF c \in DOMAIN counted.list THEN <<Inform(atLeastTwo)>> ELSE <<>>]])
    <3> HIDE DEF list, n, i, host, pushed, counted, assigned, atLeastTwo
    <3> QED
      BY <1>6, <1>7, <1>9, <2>2, <2>3 DEF AfterConnectionCount
  <2>7. s = CalculateAndPushHost(a, Rec(list, m, i, host, pushed, news))
    <3> HIDE DEF list, n, m, i, host, pushed, counted, assigned, atLeastTwo, s
    <3> QED
      BY <1>7, <2>4, <2>5, <2>6
  <2>8. m >= n /\ n >= total
    BY <1>1 DEF Larger
  <2> HIDE DEF s, m, i, news
  <2>9. /\ s.list = list /\ s.total = m /\ s.id = i /\ s.out = news
        /\ HostFollows(a, s, host, pushed)
    <3> HIDE DEF list, host, pushed
    <3> QED
      BY <2>7, PushedFields
  <2>10. /\ \A c \in Systems : Parcel(news[c], i)
        /\ \A c \in Systems \cap DOMAIN list : \E q \in Packets : news[c] = <<q>> /\ Carries(q)
    <3>1. news = [c \in Systems |-> IF c \in DOMAIN list
                    THEN <<[type |-> "INFORM_FCMGUID", fcmGuid |-> i, count |-> m]>> ELSE <<>>]
      BY DEF news
    <3>2. m \in Nat \ {0}
      BY <1>2
    <3> HIDE DEF list, n, counted, assigned, atLeastTwo
    <3> QED
      BY <2>1, <3>1, <3>2, NewsSent
  <2>11. Sends(a, b, p, s)
    BY <1>3, <1>4, <2>9, <2>10 DEF Sends
  <2>12. Numbered(a, p, random, s)
    BY <1>2, <1>9, <2>1, <2>9 DEF Numbered, i
  <2>13. HostSettles(a, s)
    BY <2>9 DEF HostSettles
  <2>14. /\ \A c \in Systems : Bears(s.out[c], s.id, s.total)
        /\ \A c \in Systems \ DOMAIN fcm2ParticipantList[a] : s.out[c] = <<>>
    <3>1. news = [c \in Systems |-> IF c \in DOMAIN list
                    THEN <<[type |-> "INFORM_FCMGUID", fcmGuid |-> i, count |-> m]>> ELSE <<>>]
      BY DEF news
    <3>2. m \in Nat /\ i \in Nat
      BY <1>2, <2>1
    <3>3. \A c \in Systems : Bears(s.out[c], s.id, s.total)
      <4> HIDE DEF list, n, counted, assigned, atLeastTwo
      <4> QED
        BY <2>9, <3>1, <3>2, NewsBorne
    <3>4. \A c \in Systems \ DOMAIN list : s.out[c] = <<>>
      BY <2>9, <3>1
    <3> QED
      BY <3>3, <3>4
  <2>15. m >= total /\ n \in Nat /\ n <= m
    BY <1>1, <1>2, <2>8
  <2>16. Counts(a, p, random, s)
    <3> HIDE DEF n
    <3> QED
      BY <1>3, <2>9, <2>14, <2>15 DEF Counts, i
  <2> QED
    BY <1>5, <2>9, <2>11, <2>12, <2>13, <2>16 DEF Outcome, s
<1> QED
  BY <1>8, <1>9

LEMMA InformOutcome ==
  ASSUME NEW a, NEW b, NEW p, NEW random, Handles(a, b, p, random), p.type = "INFORM_FCMGUID"
  PROVE  Outcome(a, b, p, random, AfterInform(a, b, p, random))
<1> DEFINE list == ListAfter(a, b, p)
           total == totalConnectionCount[a]
           id == ourFCMGuid[a]
           host == hostRakNetGuid[a]
           pushed == lastPushedHost[a]
           s == AfterInform(a, b, p, random)
           n == Larger(p.count, total)
           counted == Rec(fcm2ParticipantList[a], n, id, host, pushed, Silence)
           added == Rec(list, n, id, host, pushed, Silence)
<1>1. /\ total \in Nat /\ id \in Nat /\ (id # NoId => total # 0) /\ b \in Systems
      /\ p.count \in Nat /\ p.count # 0 /\ random \in Nat /\ p.fcmGuid \in Nat
  BY DEF Handles, IsList, Packets, Sound
<1>2. n \in Nat \ {0}
  BY <1>1 DEF Larger
<1>3. ~Responds(p) /\ Carries(p) /\ ~Queries(p)
  BY DEF Responds, Carries, Queries, Handles, Sound
<1>4. DOMAIN list = DOMAIN fcm2ParticipantList[a] /\ DOMAIN list \subseteq Systems
  BY DEF Handles, IsList, ListAfter
<1>5. IncrementTotalConnectionCount(State(a), p.count) = counted
  <2>1. State(a) = Rec(fcm2ParticipantList[a], total, id, host, pushed, Silence)
    BY StateIs
  <2> HIDE DEF total, id, host, pushed
  <2> QED
    BY <2>1, Increments
<1>6. AddParticipantInternal(counted, b, p.fcmGuid) = added
  <2> HIDE DEF n
  <2> QED
    BY Entered
<1>7. b \in DOMAIN counted.list /\ added.id = id
  BY DEF Rec, Handles
<1>8. s = CalculateAndPushHost(a, IF id = NoId THEN AssignAndInform(added, random) ELSE added)
  <2> HIDE DEF id, counted, added
  <2> QED
    BY <1>5, <1>6, <1>7 DEF AfterInform
<1>9. ASSUME NEW t, NEW out, NEW i,
             s = CalculateAndPushHost(a, Rec(list, t, i, host, pushed, out))
      PROVE  s.list = list /\ s.total = t /\ s.id = i /\ s.out = out /\ HostSettles(a, s)
  BY <1>9, PushedFields DEF HostSettles
<1>10. n >= total /\ n >= p.count
  BY <1>1 DEF Larger
<1>11. CASE id # NoId
  <2> HIDE DEF list, total, id, host, pushed, s, n
  <2>1. /\ s.list = list /\ s.total = n /\ s.id = id /\ s.out = Silence /\ HostSettles(a, s)
    BY <1>8, <1>9, <1>11
  <2>2. Sends(a, b, p, s)
    BY <1>3, <2>1 DEF Sends, Parcel, Silence, id
  <2>3. Numbered(a, p, random, s)
    BY <1>2, <1>11, <2>1 DEF Numbered, id
  <2>4. Counts(a, p, random, s)
    BY <1>10, <2>1 DEF Counts, Bears, Silence, total, id
  <2> QED
    BY <2>1, <2>2, <2>3, <2>4 DEF Outcome, list, s
<1>12. CASE id = NoId
  <2> DEFINE i == Id(n, random)
             news == [c \in Systems |-> IF c \in DOMAIN list
                        THEN <<[type |-> "INFORM_FCMGUID", fcmGuid |-> i, count |-> n]>> ELSE <<>>]
  <2>1. i \in Nat \ {NoId}
    BY <1>1, <1>2, IdIsOne
  <2>2. AssignAndInform(added, random) = Rec(list, n, i, host, pushed, news)
    <3> HIDE DEF list, n, id, host, pushed
    <3> QED
      BY Assigns
  <2> HIDE DEF list, total, id, host, pushed, s, n, i, news
  <2>3. /\ s.list = list /\ s.total = n /\ s.id = i /\ s.out = news /\ HostSettles(a, s)
    BY <1>8, <1>9, <1>12, <2>2
  <2>4. /\ \A c \in Systems : Parcel(news[c], i)
        /\ \A c \in Systems \cap DOMAIN list : \E q \in Packets : news[c] = <<q>> /\ Carries(q)
    <3>1. news = [c \in Systems |-> IF c \in DOMAIN list
                    THEN <<[type |-> "INFORM_FCMGUID", fcmGuid |-> i, count |-> n]>> ELSE <<>>]
      BY DEF news
    <3> QED
      BY <1>2, <2>1, <3>1, NewsSent
  <2>5. Sends(a, b, p, s)
    BY <1>3, <1>4, <2>3, <2>4 DEF Sends
  <2>6. Numbered(a, p, random, s)
    BY <1>2, <1>12, <2>1, <2>3 DEF Numbered, i, id
  <2>7. /\ \A c \in Systems : Bears(s.out[c], s.id, s.total)
        /\ \A c \in Systems \ DOMAIN fcm2ParticipantList[a] : s.out[c] = <<>>
    <3>1. news = [c \in Systems |-> IF c \in DOMAIN list
                    THEN <<[type |-> "INFORM_FCMGUID", fcmGuid |-> i, count |-> n]>> ELSE <<>>]
      BY DEF news
    <3>2. \A c \in Systems : Bears(s.out[c], s.id, s.total)
      BY <1>2, <2>1, <2>3, <3>1, NewsBorne
    <3>3. \A c \in Systems \ DOMAIN fcm2ParticipantList[a] : s.out[c] = <<>>
      BY <1>4, <2>3, <3>1
    <3> QED
      BY <3>2, <3>3
  <2>8. Counts(a, p, random, s)
    <3>1. p.type # "REQUEST_FCMGUID"
      OBVIOUS
    <3> QED
      BY <1>2, <1>10, <2>3, <2>7, <3>1 DEF Counts, total, i
  <2> QED
    BY <2>3, <2>5, <2>6, <2>8 DEF Outcome, list, s
<1> QED
  BY <1>11, <1>12

\* What handling a packet comes to.
LEMMA AfterOutcome ==
  ASSUME NEW a, NEW b, NEW p, NEW random, Handles(a, b, p, random), NEW longer \in BOOLEAN
  PROVE  Outcome(a, b, p, random, After(a, b, p, longer, random))
<1>1. CASE p.type = "REQUEST_FCMGUID"
  BY <1>1, RequestOutcome DEF After
<1>2. CASE p.type = "RESPOND_CONNECTION_COUNT"
  BY <1>2, ConnectionCountOutcome DEF After
<1>3. CASE p.type = "INFORM_FCMGUID"
  BY <1>3, InformOutcome DEF After
<1>4. CASE p.type = "UPDATE_MIN_TOTAL_CONNECTION_COUNT"
  <2> DEFINE s == After(a, b, p, longer, random)
             n == Larger(p.count, totalConnectionCount[a])
  <2>1. s = Rec(fcm2ParticipantList[a], n, ourFCMGuid[a], hostRakNetGuid[a], lastPushedHost[a], Silence)
    BY <1>4, StateIs, Increments DEF After
  <2>2. n \in Nat /\ (totalConnectionCount[a] # 0 => n # 0)
    BY <1>4 DEF Larger, Handles, Packets
  <2>3. n >= totalConnectionCount[a]
    BY <1>4 DEF Larger, Handles, Packets
  <2> HIDE DEF s, n
  <2>4. /\ s.list = fcm2ParticipantList[a] /\ s.total = n /\ s.id = ourFCMGuid[a]
        /\ s.host = hostRakNetGuid[a] /\ s.pushed = lastPushedHost[a] /\ s.out = Silence
    BY <2>1 DEF Rec
  <2>5. ~Responds(p) /\ ~Carries(p) /\ ~Queries(p)
    BY <1>4 DEF Responds, Carries, Queries
  <2>6. Sends(a, b, p, s)
    BY <2>4, <2>5 DEF Sends, Parcel, Silence
  <2>7. Numbered(a, p, random, s)
    BY <2>2, <2>4, <2>5 DEF Numbered, Handles
  <2>8. HostSettles(a, s) /\ s.list = ListAfter(a, b, p)
    BY <2>4, <2>5 DEF HostSettles, ListAfter
  <2>9. Counts(a, p, random, s)
    BY <2>4, <2>5, <2>3 DEF Counts, Bears, Silence
  <2> QED
    BY <2>6, <2>7, <2>8, <2>9 DEF Outcome, s
<1>5. p.type \in {"REQUEST_FCMGUID", "INFORM_FCMGUID", "RESPOND_CONNECTION_COUNT",
                  "UPDATE_MIN_TOTAL_CONNECTION_COUNT"}
  BY DEF Handles, Packets
<1> QED
  BY <1>1, <1>2, <1>3, <1>4, <1>5

(***************************************************************************)
(* The invariant.                                                          *)
(***************************************************************************)
OwnTypes ==
  /\ fcm2ParticipantList = [a \in Systems |-> fcm2ParticipantList[a]]
  /\ \A a \in Systems : IsList(a, fcm2ParticipantList[a])
  /\ totalConnectionCount \in [Systems -> Nat]
  /\ ourFCMGuid \in [Systems -> Nat]
  /\ hostRakNetGuid \in [Systems -> Hosts]
  /\ lastPushedHost \in [Systems -> Hosts]

StreamTypes == streams \in [Systems -> [Systems -> Seq(Packets)]]

NetTypes ==
  /\ connected \subseteq Systems \X Systems
  /\ untold \subseteq Systems \X Systems
  /\ lost \subseteq Systems \X Systems
  /\ left \subseteq Systems /\ reset \subseteq Resetters
  /\ drawn \subseteq 0..Draws - 1

Types == OwnTypes /\ StreamTypes /\ NetTypes

\* Connections are of two systems that are there, and carry all packets; who is lost left.
Network ==
  \A a, b \in Systems :
    /\ <<a, b>> \in connected => a # b /\ <<b, a>> \in connected /\ a \notin left
    /\ <<a, b>> \in lost => a \notin left /\ b \in left
    /\ <<a, b>> \in untold => a \notin left /\ <<a, b>> \in connected \cup lost
    /\ streams[a][b] # <<>> => <<a, b>> \in connected

\* Participants are the systems one has been told to be connected to, until one is told
\* that they are gone.
Listed ==
  \A a, b \in Systems : a \notin left =>
    /\ b \in DOMAIN fcm2ParticipantList[a] => <<a, b>> \in (connected \cup lost) \ untold
    /\ <<a, b>> \in connected \ untold => b \in DOMAIN fcm2ParticipantList[a]

\* Counts from which an id is drawn are not 0.
Counted ==
  /\ \A a \in Systems : ourFCMGuid[a] # NoId => totalConnectionCount[a] # 0
  /\ \A a, b \in Systems : AllSound(streams[a][b])

\* No two systems have one id.
Distinct ==
  /\ \A a \in Systems : ourFCMGuid[a] # NoId =>
       \E c \in Nat \ {0}, r \in drawn : ourFCMGuid[a] = Id(c, r)
  /\ \A a, b \in Systems : a # b /\ ourFCMGuid[a] # NoId => ourFCMGuid[a] # ourFCMGuid[b]

\* What a tells b, whom it knows to be connected: its id is on the way or known, or the
\* count it needs to draw one is being asked for.
Tells(a, b) ==
  /\ ourFCMGuid[a] # NoId =>
       \/ LastId(streams[a][b], ourFCMGuid[a])
       \/ NoIds(streams[a][b]) /\ a \in DOMAIN fcm2ParticipantList[b]
            /\ fcm2ParticipantList[b][a] = ourFCMGuid[a]
  /\ ourFCMGuid[a] = NoId => Asking(streams[a][b]) \/ Answering(streams[b][a])

Told == \A a, b \in Systems : <<a, b>> \in connected \ untold => Tells(a, b)

\* A host is oneself or a participant, and oneself as long as one has no id.
HostNear ==
  \A a \in Systems : a \notin left =>
    /\ hostRakNetGuid[a] \in {NoHost, a} \cup DOMAIN fcm2ParticipantList[a]
    /\ ourFCMGuid[a] = NoId => hostRakNetGuid[a] \in {NoHost, a}

\* The host the user was last told is the one that is chosen when all ids are known.
HostTold ==
  left = {} => \A a \in Systems :
    /\ hostRakNetGuid[a] \in {NoHost, lastPushedHost[a]}
    /\ reset = {} => hostRakNetGuid[a] = lastPushedHost[a]
    /\ ourFCMGuid[a] # NoId /\ Complete(fcm2ParticipantList[a]) =>
         lastPushedHost[a] = Chosen(a, fcm2ParticipantList[a], ourFCMGuid[a])

MeshInv == Types /\ Network /\ Listed /\ Counted /\ Distinct /\ Told /\ HostNear /\ HostTold

(***************************************************************************)
(* One system stores what it has and sends.                                *)
(***************************************************************************)
Valid(a, s) ==
  /\ IsList(a, s.list) /\ s.total \in Nat /\ s.id \in Nat /\ s.host \in Hosts /\ s.pushed \in Hosts
  /\ s.id # NoId => s.total # 0
  /\ \A c \in Systems : Parcel(s.out[c], s.id)

\* The first packet of the streams in taken is gone, and a has sent.
Flow(a, s, taken) ==
  streams' = [x \in Systems |-> [y \in Systems |->
                IF x = a THEN Sent(a, s, y)
                ELSE IF <<x, y>> \in taken THEN Tail(streams[x][y]) ELSE streams[x][y]]]

LEMMA Stored ==
  ASSUME OwnTypes, NEW a \in Systems, NEW s, Store(a, s)
  PROVE  /\ \A c \in Systems :
              /\ fcm2ParticipantList'[c] = IF c = a THEN s.list ELSE fcm2ParticipantList[c]
              /\ totalConnectionCount'[c] = IF c = a THEN s.total ELSE totalConnectionCount[c]
              /\ ourFCMGuid'[c] = IF c = a THEN s.id ELSE ourFCMGuid[c]
              /\ hostRakNetGuid'[c] = IF c = a THEN s.host ELSE hostRakNetGuid[c]
              /\ lastPushedHost'[c] = IF c = a THEN s.pushed ELSE lastPushedHost[c]
         /\ Valid(a, s) => OwnTypes'
<1> DEFINE list == fcm2ParticipantList
<1>1. \A c \in Systems :
        /\ fcm2ParticipantList'[c] = IF c = a THEN s.list ELSE fcm2ParticipantList[c]
        /\ totalConnectionCount'[c] = IF c = a THEN s.total ELSE totalConnectionCount[c]
        /\ ourFCMGuid'[c] = IF c = a THEN s.id ELSE ourFCMGuid[c]
        /\ hostRakNetGuid'[c] = IF c = a THEN s.host ELSE hostRakNetGuid[c]
        /\ lastPushedHost'[c] = IF c = a THEN s.pushed ELSE lastPushedHost[c]
  BY DEF Store, OwnTypes
<1>2. ASSUME Valid(a, s) PROVE OwnTypes'
  <2>1. (fcm2ParticipantList = [c \in Systems |-> fcm2ParticipantList[c]])'
    BY DEF Store, OwnTypes
  <2>2. \A c \in Systems : IsList(c, fcm2ParticipantList[c])'
    BY <1>1, <1>2 DEF OwnTypes, Valid, IsList
  <2>3. /\ totalConnectionCount' \in [Systems -> Nat] /\ ourFCMGuid' \in [Systems -> Nat]
        /\ hostRakNetGuid' \in [Systems -> Hosts] /\ lastPushedHost' \in [Systems -> Hosts]
    BY <1>2 DEF Store, OwnTypes, Valid
  <2> QED
    BY <2>1, <2>2, <2>3 DEF OwnTypes, Hosts
<1> QED
  BY <1>1, <1>2

\* Types, counts and that only connections carry packets do not depend on what is done.
LEMMA StepKeeps ==
  ASSUME Types, Counted, NEW a \in Systems, NEW s, Store(a, s), Valid(a, s), NEW taken,
         Flow(a, s, taken),
         \A x, y \in Systems : <<x, y>> \in taken => streams[x][y] # <<>>
  PROVE  /\ OwnTypes' /\ StreamTypes' /\ Counted'
         /\ \A x, y \in Systems :
              streams'[x][y] # <<>> => streams[x][y] # <<>> \/ <<x, y>> \in connected
<1>1. OwnTypes'
  BY Stored DEF Types
<1>2. \A x, y \in Systems : streams[x][y] \in Seq(Packets) /\ AllSound(streams[x][y])
  BY DEF Types, StreamTypes, Counted
<1>3. ASSUME NEW x \in Systems, NEW y \in Systems
      PROVE  /\ streams'[x][y] \in Seq(Packets) /\ AllSound(streams'[x][y])
             /\ streams'[x][y] # <<>> => streams[x][y] # <<>> \/ <<x, y>> \in connected
  <2>1. CASE x = a
    <3>1. Parcel(s.out[y], s.id)
      BY DEF Valid
    <3>2. streams[a][y] \o s.out[y] \in Seq(Packets) /\ AllSound(streams[a][y] \o s.out[y])
      BY <1>2, <3>1, Posted
    <3> QED
      BY <1>2, <2>1, <3>2 DEF Flow, Sent
  <2>2. CASE x # a /\ <<x, y>> \in taken
    <3>1. streams[x][y] # <<>> /\ streams'[x][y] = Tail(streams[x][y])
      BY <2>2 DEF Flow
    <3> QED
      BY <1>2, <3>1, Taken
  <2>3. CASE x # a /\ <<x, y>> \notin taken
    BY <1>2, <2>3 DEF Flow
  <2> QED
    BY <2>1, <2>2, <2>3
<1>4. StreamTypes'
  <2> DEFINE next(x, y) == IF x = a THEN Sent(a, s, y)
                           ELSE IF <<x, y>> \in taken THEN Tail(streams[x][y]) ELSE streams[x][y]
  <2>1. streams' = [x \in Systems |-> [y \in Systems |-> next(x, y)]]
    BY DEF Flow
  <2> HIDE DEF next
  <2>2. \A x, y \in Systems : streams'[x][y] = next(x, y)
    BY <2>1
  <2>3. \A x, y \in Systems : next(x, y) \in Seq(Packets)
    BY <1>3, <2>2
  <2> QED
    BY <2>1, <2>3 DEF StreamTypes
<1>5. \A c \in Systems : ourFCMGuid'[c] # NoId => totalConnectionCount'[c] # 0
  <2>1. \A c \in Systems : ourFCMGuid'[c] = IF c = a THEN s.id ELSE ourFCMGuid[c]
    BY Stored DEF Types
  <2>2. \A c \in Systems : totalConnectionCount'[c] = IF c = a THEN s.total ELSE totalConnectionCount[c]
    BY Stored DEF Types
  <2> QED
    BY <2>1, <2>2 DEF Counted, Valid
<1>6. Counted'
  BY <1>3, <1>5 DEF Counted
<1> QED
  BY <1>1, <1>3, <1>4, <1>6

\* The streams after a step that sends, and after one that also takes a packet.
LEMMA Sending ==
  ASSUME StreamTypes, NEW a \in Systems, NEW s,
         streams' = [streams EXCEPT ![a] = [c \in Systems |-> Sent(a, s, c)]]
  PROVE  Flow(a, s, {})
BY DEF StreamTypes, Flow

LEMMA Receiving ==
  ASSUME StreamTypes, NEW a \in Systems, NEW b \in Systems \ {a}, NEW s,
         streams' = [streams EXCEPT ![a] = [c \in Systems |-> Sent(a, s, c)], ![b][a] = Tail(@)]
  PROVE  Flow(a, s, {<<b, a>>})
<1> DEFINE sent == [streams EXCEPT ![a] = [c \in Systems |-> Sent(a, s, c)]]
<1>1. streams' = [sent EXCEPT ![b][a] = Tail(@)]
  OBVIOUS
<1>2. \A x \in Systems : sent[x] = IF x = a THEN [c \in Systems |-> Sent(a, s, c)] ELSE streams[x]
  BY DEF StreamTypes
<1>3. sent = [x \in Systems |-> sent[x]]
  BY DEF StreamTypes
<1> HIDE DEF sent
<1>4. streams' = [x \in Systems |-> IF x = b THEN [sent[b] EXCEPT ![a] = Tail(sent[b][a])] ELSE sent[x]]
  BY <1>1, <1>3
<1>5. ASSUME NEW x \in Systems
      PROVE  streams'[x] = [y \in Systems |->
               IF x = a THEN Sent(a, s, y)
               ELSE IF <<x, y>> \in {<<b, a>>} THEN Tail(streams[x][y]) ELSE streams[x][y]]
  <2>1. streams[x] = [y \in Systems |-> streams[x][y]]
    BY DEF StreamTypes
  <2>2. CASE x = a
    BY <1>2, <1>4, <2>2
  <2>3. CASE x = b
    <3>1. streams'[b] = [streams[b] EXCEPT ![a] = Tail(streams[b][a])]
      BY <1>2, <1>4
    <3>2. [streams[b] EXCEPT ![a] = Tail(streams[b][a])]
            = [y \in Systems |-> IF y = a THEN Tail(streams[b][y]) ELSE streams[b][y]]
      BY <2>1, <2>3
    <3> QED
      BY <2>3, <3>1, <3>2
  <2>4. CASE x \notin {a, b}
    BY <1>2, <1>4, <2>1, <2>4
  <2> QED
    BY <2>2, <2>3, <2>4
<1>6. streams' = [x \in Systems |-> streams'[x]]
  BY <1>4
<1> QED
  BY <1>5, <1>6 DEF Flow

LEMMA InitHolds == MeshInit => MeshInv
<1> SUFFICES ASSUME MeshInit PROVE MeshInv
  OBVIOUS
<1>1. /\ \A a \in Systems : /\ fcm2ParticipantList[a] = [b \in {} |-> NoId]
                            /\ ourFCMGuid[a] = NoId /\ totalConnectionCount[a] = 0
                            /\ hostRakNetGuid[a] = NoHost /\ lastPushedHost[a] = NoHost
      /\ \A a, b \in Systems : streams[a][b] = <<>>
      /\ connected = {} /\ untold = {} /\ lost = {} /\ left = {} /\ reset = {} /\ drawn = {}
  BY DEF MeshInit
<1>2. \A a \in Systems : DOMAIN fcm2ParticipantList[a] = {} /\ IsList(a, fcm2ParticipantList[a])
  BY <1>1 DEF IsList
<1>3. Types
  <2>1. OwnTypes
    <3>1. fcm2ParticipantList = [a \in Systems |-> fcm2ParticipantList[a]]
      BY DEF MeshInit
    <3>2. NoId \in Nat /\ 0 \in Nat
      BY DEF NoId
    <3> QED
      BY <1>2, <3>1, <3>2 DEF MeshInit, OwnTypes, Hosts, NoId
  <2>2. StreamTypes
    BY DEF MeshInit, StreamTypes
  <2> QED
    BY <1>1, <2>1, <2>2 DEF Types, NetTypes
<1>4. Network /\ Listed
  BY <1>1, <1>2 DEF Network, Listed
<1>5. Counted /\ Distinct
  BY <1>1, Nothing DEF Counted, Distinct
<1>6. Told /\ HostNear
  BY <1>1 DEF Told, HostNear
<1>7. HostTold
  BY <1>1 DEF HostTold
<1> QED
  BY <1>3, <1>4, <1>5, <1>6, <1>7 DEF MeshInv

(***************************************************************************)
(* A packet is received.                                                   *)
(***************************************************************************)
\* Who is told of a connection hears only of participants, and of them until they leave.
Hears(a, b) ==
  /\ a \in Systems /\ b \in Systems \ {a} /\ a \notin left
  /\ <<a, b>> \in connected \ untold /\ <<b, a>> \in connected
  /\ streams[b][a] # <<>> /\ b \in DOMAIN fcm2ParticipantList[a]

LEMMA HeardOf ==
  ASSUME MeshInv, NEW a \in Systems, NEW b \in Systems \ {a}, OnReceive(a, b)
  PROVE  Hears(a, b)
<1>1. streams[b][a] # <<>> /\ <<a, b>> \notin untold
  BY DEF OnReceive
<1>2. <<b, a>> \in connected
  BY <1>1 DEF MeshInv, Network
<1>3. <<a, b>> \in connected /\ a \notin left
  BY <1>2 DEF MeshInv, Network
<1>4. b \in DOMAIN fcm2ParticipantList[a]
  BY <1>1, <1>3 DEF MeshInv, Listed
<1> QED
  BY <1>1, <1>2, <1>3, <1>4 DEF Hears

\* A host that settles is one of the systems.
LEMMA HostIsOne ==
  ASSUME OwnTypes, NEW a \in Systems, NEW s, IsList(a, s.list), s.id \in Nat, HostSettles(a, s)
  PROVE  s.host \in Hosts /\ s.pushed \in Hosts
<1>1. Chosen(a, s.list, s.id) \in Systems
  BY ChosenIs DEF IsList
<1>2. hostRakNetGuid[a] \in Hosts /\ lastPushedHost[a] \in Hosts
  BY DEF OwnTypes
<1> QED
  BY <1>1, <1>2 DEF HostSettles, HostFollows, Hosts

\* What one has after a packet is of the types it should be.
LEMMA OutcomeValid ==
  ASSUME OwnTypes, NEW a, NEW b, NEW p, NEW random, Handles(a, b, p, random), NEW s,
         Outcome(a, b, p, random, s)
  PROVE  Valid(a, s) /\ DOMAIN s.list = DOMAIN fcm2ParticipantList[a]
<1>1. a \in Systems /\ ourFCMGuid[a] \in Nat /\ random \in Nat
  BY DEF Handles
<1>2. IsList(a, s.list) /\ DOMAIN s.list = DOMAIN fcm2ParticipantList[a]
  <2>1. CASE Carries(p)
    <3>1. p.fcmGuid \in Nat
      BY <2>1 DEF Carries, Handles, Packets
    <3> QED
      BY <2>1, <3>1 DEF Outcome, ListAfter, Handles, IsList
  <2>2. CASE ~Carries(p)
    BY <2>2 DEF Outcome, ListAfter, Handles
  <2> QED
    BY <2>1, <2>2
<1>3. s.id \in Nat /\ s.total \in Nat /\ (s.id # NoId => s.total # 0)
  BY <1>1, IdIsOne DEF Outcome, Numbered
<1>4. s.host \in Hosts /\ s.pushed \in Hosts
  BY <1>1, <1>2, <1>3, HostIsOne DEF Outcome
<1> QED
  BY <1>2, <1>3, <1>4 DEF Valid, Outcome, Sends

\* Ids stay different when one is drawn from a number not drawn before.
LEMMA DrawsDiffer ==
  ASSUME Types, Distinct, NEW a \in Systems, NEW s, NEW random,
         \A c \in Systems : ourFCMGuid'[c] = IF c = a THEN s.id ELSE ourFCMGuid[c],
         \/ s.id \in {ourFCMGuid[a], NoId} /\ drawn' = drawn
         \/ /\ random \in (0..Draws - 1) \ drawn /\ drawn' = drawn \cup {random}
            /\ s.id # NoId /\ \E c \in Nat \ {0} : s.id = Id(c, random)
  PROVE  Distinct' /\ (drawn \subseteq 0..Draws - 1)'
<1>1. drawn \subseteq 0..Draws - 1
  BY DEF Types, NetTypes
<1>2. CASE s.id \in {ourFCMGuid[a], NoId} /\ drawn' = drawn
  <2>1. \A c \in Systems : ourFCMGuid'[c] # NoId => ourFCMGuid'[c] = ourFCMGuid[c]
    BY <1>2
  <2>2. \A c \in Systems : ourFCMGuid'[c] # NoId =>
          \E n \in Nat \ {0}, r \in drawn' : ourFCMGuid'[c] = Id(n, r)
    BY <1>2, <2>1 DEF Distinct
  <2>3. \A c, d \in Systems : c # d /\ ourFCMGuid'[c] # NoId => ourFCMGuid'[c] # ourFCMGuid'[d]
    BY <2>1 DEF Distinct
  <2> QED
    BY <1>1, <1>2, <2>2, <2>3 DEF Distinct, Id
<1>3. CASE /\ random \in (0..Draws - 1) \ drawn /\ drawn' = drawn \cup {random}
           /\ s.id # NoId /\ \E c \in Nat \ {0} : s.id = Id(c, random)
  <2>1. PICK n \in Nat \ {0} : s.id = Id(n, random)
    BY <1>3
  <2>2. \A c \in Systems : ourFCMGuid'[c] # NoId =>
          \E m \in Nat \ {0}, r \in drawn' : ourFCMGuid'[c] = Id(m, r)
    BY <1>3, <2>1 DEF Distinct
  <2>3. ASSUME NEW c \in Systems \ {a}, ourFCMGuid[c] # NoId PROVE ourFCMGuid[c] # s.id
    <3>1. PICK m \in Nat \ {0}, r \in drawn : ourFCMGuid[c] = Id(m, r)
      BY <2>3 DEF Distinct
    <3>2. r \in 0..Draws - 1 /\ r # random
      BY <1>1, <1>3
    <3> QED
      BY <1>3, <2>1, <3>1, <3>2, IdsDiffer
  <2>4. \A c, d \in Systems : c # d /\ ourFCMGuid'[c] # NoId => ourFCMGuid'[c] # ourFCMGuid'[d]
    BY <1>3, <2>3 DEF Distinct
  <2> QED
    BY <1>1, <1>3, <2>2, <2>4 DEF Distinct, Id
<1> QED
  BY <1>2, <1>3

\* What a tells the others, and what it is told, after it has handled the packet p of b.
Received(a, b, p, random, s) ==
  /\ Hears(a, b) /\ p = Head(streams[b][a]) /\ Handles(a, b, p, random)
  /\ Outcome(a, b, p, random, s)
  /\ Store(a, s) /\ Flow(a, s, {<<b, a>>})
  /\ UNCHANGED <<connected, untold, lost, left, reset>>

LEMMA ReceivedTells ==
  ASSUME MeshInv, NEW a \in Systems, NEW b \in Systems \ {a}, NEW p, NEW random, NEW s,
         Received(a, b, p, random, s)
  PROVE  Told'
<1>1. /\ \A c \in Systems : ourFCMGuid'[c] = IF c = a THEN s.id ELSE ourFCMGuid[c]
      /\ \A c \in Systems :
           fcm2ParticipantList'[c] = IF c = a THEN s.list ELSE fcm2ParticipantList[c]
  BY Stored DEF Received, MeshInv, Types
<1>2. \A x, y \in Systems :
        streams'[x][y] = IF x = a THEN Sent(a, s, y)
                         ELSE IF x = b /\ y = a THEN Tail(streams[b][a]) ELSE streams[x][y]
  BY DEF Received, Flow
<1>3. /\ \A c \in Systems : Parcel(s.out[c], s.id)
      /\ s.id # ourFCMGuid[a] =>
           \A c \in DOMAIN fcm2ParticipantList[a] :
             \E q \in Packets : s.out[c] = <<q>> /\ Carries(q)
      /\ Queries(p) => \E q \in Packets : s.out[b] = <<q>> /\ Responds(q)
      /\ s.id = ourFCMGuid[a] \/ ourFCMGuid[a] = NoId
      /\ ourFCMGuid[a] = NoId /\ (Carries(p) \/ Responds(p)) => s.id # NoId
      /\ s.list = ListAfter(a, b, p)
  BY DEF Received, Outcome, Sends, Numbered
<1>4. \A x, y \in Systems : streams[x][y] \in Seq(Packets)
  BY DEF MeshInv, Types, StreamTypes
<1>5. /\ streams[b][a] # <<>> /\ p = Head(streams[b][a])
      /\ b \in DOMAIN fcm2ParticipantList[a] /\ <<a, b>> \in connected
  BY DEF Received, Hears
<1>6. connected' = connected /\ untold' = untold
  BY DEF Received
<1>7. DOMAIN s.list = DOMAIN fcm2ParticipantList[a]
  BY <1>3 DEF ListAfter
<1>8. ASSUME NEW x \in Systems, NEW y \in Systems, <<x, y>> \in connected \ untold
      PROVE  Tells(x, y)'
  <2>1. Tells(x, y) /\ x # y /\ <<y, x>> \in connected
    BY <1>8 DEF MeshInv, Told, Network
  <2>2. CASE x = a
    <3>1. streams'[a][y] = streams[a][y] \o s.out[y]
      BY <1>2, <1>8, <2>2 DEF Sent
    <3>2. fcm2ParticipantList'[y] = fcm2ParticipantList[y] /\ ourFCMGuid'[a] = s.id
      BY <1>1, <2>1, <2>2
    <3>3. Parcel(s.out[y], s.id) /\ streams[a][y] \in Seq(Packets)
      BY <1>3, <1>4
    <3>4. ASSUME s.id # NoId, s.id = ourFCMGuid[a]
          PROVE  \/ LastId(streams'[a][y], s.id)
                 \/ NoIds(streams'[a][y]) /\ a \in DOMAIN fcm2ParticipantList'[y]
                      /\ fcm2ParticipantList'[y][a] = s.id
      <4>1. \/ LastId(streams[a][y], s.id)
            \/ NoIds(streams[a][y]) /\ a \in DOMAIN fcm2ParticipantList[y]
                 /\ fcm2ParticipantList[y][a] = s.id
        BY <2>1, <2>2, <3>4 DEF Tells
      <4>2. /\ NoIds(streams[a][y]) => NoIds(streams'[a][y]) \/ LastId(streams'[a][y], s.id)
            /\ LastId(streams[a][y], s.id) => LastId(streams'[a][y], s.id)
        BY <3>1, <3>3, Posted
      <4> QED
        BY <3>2, <4>1, <4>2
    <3>5. ASSUME s.id # ourFCMGuid[a] PROVE LastId(streams'[a][y], s.id)
      <4>1. y \in DOMAIN fcm2ParticipantList[a]
        BY <1>8, <2>2 DEF MeshInv, Listed, Network
      <4>2. PICK q \in Packets : s.out[y] = <<q>> /\ Carries(q)
        BY <1>3, <3>5, <4>1
      <4> QED
        BY <3>1, <3>3, <4>2, Posted
    <3>6. ASSUME s.id = NoId PROVE Asking(streams'[a][y]) \/ Answering(streams'[y][a])
      <4>1. ourFCMGuid[a] = NoId /\ ~Responds(p)
        BY <1>3, <3>6
      <4>2. Asking(streams[a][y]) \/ Answering(streams[y][a])
        BY <2>1, <2>2, <4>1 DEF Tells
      <4>3. Asking(streams[a][y]) => Asking(streams'[a][y])
        BY <3>1, <3>3, Posted
      <4>4. CASE y = b
        <5>1. Answering(streams[b][a]) => Answering(Tail(streams[b][a]))
          BY <1>4, <1>5, <4>1, Taken
        <5>2. streams'[b][a] = Tail(streams[b][a])
          BY <1>2
        <5> QED
          BY <4>2, <4>3, <4>4, <5>1, <5>2
      <4>5. CASE y # b
        BY <1>2, <2>1, <2>2, <4>2, <4>3, <4>5
      <4> QED
        BY <4>4, <4>5
    <3> QED
      BY <2>2, <3>2, <3>4, <3>5, <3>6 DEF Tells
  <2>3. CASE x = b /\ y = a
    <3>1. streams'[b][a] = Tail(streams[b][a]) /\ streams'[a][b] = streams[a][b] \o s.out[b]
      BY <1>2, <1>5 DEF Sent
    <3>2. /\ ourFCMGuid'[b] = ourFCMGuid[b]
          /\ fcm2ParticipantList'[a] = ListAfter(a, b, p)
      BY <1>1, <1>3
    <3>3. ASSUME ourFCMGuid[b] # NoId
          PROVE  \/ LastId(streams'[b][a], ourFCMGuid[b])
                 \/ NoIds(streams'[b][a]) /\ b \in DOMAIN ListAfter(a, b, p)
                      /\ ListAfter(a, b, p)[b] = ourFCMGuid[b]
      <4>1. b \in DOMAIN ListAfter(a, b, p)
        BY <1>5 DEF ListAfter
      <4>2. CASE LastId(streams[b][a], ourFCMGuid[b])
        <5>1. \/ LastId(streams'[b][a], ourFCMGuid[b])
              \/ NoIds(streams'[b][a]) /\ Carries(p) /\ p.fcmGuid = ourFCMGuid[b]
          BY <1>4, <1>5, <3>1, <4>2, Taken
        <5>2. Carries(p) => ListAfter(a, b, p)[b] = p.fcmGuid
          BY <1>5 DEF ListAfter
        <5> QED
          BY <4>1, <5>1, <5>2
      <4>3. CASE NoIds(streams[b][a]) /\ fcm2ParticipantList[a][b] = ourFCMGuid[b]
        <5>1. ~Carries(p) /\ NoIds(streams'[b][a])
          BY <1>4, <1>5, <3>1, <4>3, Taken
        <5> QED
          BY <4>1, <4>3, <5>1 DEF ListAfter
      <4> QED
        BY <2>1, <2>3, <3>3, <4>2, <4>3 DEF Tells
    <3>4. ASSUME ourFCMGuid[b] = NoId PROVE Asking(streams'[b][a]) \/ Answering(streams'[a][b])
      <4>1. Asking(streams[b][a]) \/ Answering(streams[a][b])
        BY <2>1, <2>3, <3>4 DEF Tells
      <4>2. Parcel(s.out[b], s.id) /\ streams[a][b] \in Seq(Packets)
        BY <1>3, <1>4
      <4>3. CASE Answering(streams[a][b])
        BY <3>1, <4>2, <4>3, Posted
      <4>4. CASE Asking(streams[b][a])
        <5>1. Queries(p) \/ Asking(streams'[b][a])
          BY <1>4, <1>5, <3>1, <4>4, Taken
        <5>2. ASSUME Queries(p) PROVE Answering(streams'[a][b])
          <6>1. PICK q \in Packets : s.out[b] = <<q>> /\ Responds(q)
            BY <1>3, <5>2
          <6> QED
            BY <3>1, <4>2, <6>1, Posted
        <5> QED
          BY <5>1, <5>2
      <4> QED
        BY <4>1, <4>3, <4>4
    <3> QED
      BY <2>3, <3>2, <3>3, <3>4 DEF Tells
  <2>4. CASE x # a /\ x # b /\ y = a
    <3>1. streams'[x][a] = streams[x][a] /\ ourFCMGuid'[x] = ourFCMGuid[x]
      BY <1>1, <1>2, <2>4
    <3>2. /\ fcm2ParticipantList'[a] = s.list /\ DOMAIN s.list = DOMAIN fcm2ParticipantList[a]
          /\ x \in DOMAIN s.list => s.list[x] = fcm2ParticipantList[a][x]
      BY <1>1, <1>3, <1>7, <2>4 DEF ListAfter
    <3>3. Answering(streams[a][x]) => Answering(streams'[a][x])
      <4>1. Parcel(s.out[x], s.id) /\ streams[a][x] \in Seq(Packets)
        BY <1>3, <1>4
      <4>2. streams'[a][x] = streams[a][x] \o s.out[x]
        BY <1>2, <2>1, <2>4 DEF Sent
      <4> QED
        BY <4>1, <4>2, Posted
    <3> QED
      BY <2>1, <2>4, <3>1, <3>2, <3>3 DEF Tells
  <2>5. CASE x # a /\ y # a
    <3>1. streams'[x][y] = streams[x][y] /\ streams'[y][x] = streams[y][x]
      BY <1>2, <2>5
    <3>2. ourFCMGuid'[x] = ourFCMGuid[x] /\ fcm2ParticipantList'[y] = fcm2ParticipantList[y]
      BY <1>1, <2>5
    <3> QED
      BY <2>1, <3>1, <3>2 DEF Tells
  <2> QED
    BY <2>2, <2>3, <2>4, <2>5
<1> QED
  BY <1>6, <1>8 DEF Told

\* The host that one who has received a packet has then.
LEMMA ReceivedHosts ==
  ASSUME MeshInv, NEW a \in Systems, NEW b \in Systems \ {a}, NEW p, NEW random, NEW s,
         Received(a, b, p, random, s)
  PROVE  HostNear' /\ HostTold'
<1>1. \A c \in Systems :
        /\ fcm2ParticipantList'[c] = IF c = a THEN s.list ELSE fcm2ParticipantList[c]
        /\ ourFCMGuid'[c] = IF c = a THEN s.id ELSE ourFCMGuid[c]
        /\ hostRakNetGuid'[c] = IF c = a THEN s.host ELSE hostRakNetGuid[c]
        /\ lastPushedHost'[c] = IF c = a THEN s.pushed ELSE lastPushedHost[c]
  BY Stored DEF Received, MeshInv, Types
<1>2. HostSettles(a, s) /\ left' = left /\ reset' = reset /\ a \notin left
  BY DEF Received, Outcome, Hears
<1>3. DOMAIN s.list = DOMAIN fcm2ParticipantList[a] /\ IsList(a, s.list) /\ s.id \in Nat
  BY OutcomeValid DEF Received, MeshInv, Types, Valid
<1>4. s.id = ourFCMGuid[a] \/ ourFCMGuid[a] = NoId
  BY DEF Received, Outcome, Numbered
<1> DEFINE chosen == Chosen(a, s.list, s.id)
<1>5. chosen \in {a} \cup DOMAIN s.list
  BY <1>3, ChosenIs
<1>6. s.id = NoId => chosen = a
  BY <1>3 DEF Chosen, IsList, NoId
<1>7. \/ Complete(s.list) /\ s.host = chosen /\ s.pushed = chosen
      \/ /\ s.host = hostRakNetGuid[a] /\ s.pushed = lastPushedHost[a]
         /\ \/ Complete(s.list) => s.pushed = chosen
            \/ s.list = fcm2ParticipantList[a] /\ s.id = ourFCMGuid[a]
  BY <1>2 DEF HostSettles, HostFollows
<1> HIDE DEF chosen
<1>8. /\ hostRakNetGuid[a] \in {NoHost, a} \cup DOMAIN fcm2ParticipantList[a]
      /\ ourFCMGuid[a] = NoId => hostRakNetGuid[a] \in {NoHost, a}
  BY <1>2 DEF MeshInv, HostNear
<1>9. /\ s.host \in {NoHost, a} \cup DOMAIN s.list
      /\ s.id = NoId => s.host \in {NoHost, a}
  BY <1>3, <1>4, <1>5, <1>6, <1>7, <1>8
<1>10. HostNear'
  BY <1>1, <1>2, <1>9 DEF MeshInv, HostNear
<1>11. ASSUME left = {}
       PROVE  /\ s.host \in {NoHost, s.pushed}
              /\ reset = {} => s.host = s.pushed
              /\ s.id # NoId /\ Complete(s.list) => s.pushed = chosen
  <2>1. /\ hostRakNetGuid[a] \in {NoHost, lastPushedHost[a]}
        /\ reset = {} => hostRakNetGuid[a] = lastPushedHost[a]
        /\ ourFCMGuid[a] # NoId /\ Complete(fcm2ParticipantList[a]) =>
             lastPushedHost[a] = Chosen(a, fcm2ParticipantList[a], ourFCMGuid[a])
    BY <1>11 DEF MeshInv, HostTold
  <2> QED
    BY <1>7, <2>1 DEF chosen
<1>12. ASSUME left' = {}, NEW c \in Systems
       PROVE  /\ hostRakNetGuid'[c] \in {NoHost, lastPushedHost'[c]}
              /\ reset' = {} => hostRakNetGuid'[c] = lastPushedHost'[c]
              /\ ourFCMGuid'[c] # NoId /\ Complete(fcm2ParticipantList'[c]) =>
                   lastPushedHost'[c] = Chosen(c, fcm2ParticipantList'[c], ourFCMGuid'[c])
  <2>1. CASE c = a
    BY <1>1, <1>2, <1>11, <1>12, <2>1 DEF chosen
  <2>2. CASE c # a
    BY <1>1, <1>2, <1>12, <2>2 DEF MeshInv, HostTold
  <2> QED
    BY <2>1, <2>2
<1>13. HostTold'
  BY <1>12 DEF HostTold
<1> QED
  BY <1>10, <1>13

\* A packet is handled.
LEMMA ReceiveIs ==
  ASSUME MeshInv, NEW a \in Systems, NEW b \in Systems \ {a}, OnReceive(a, b)
  PROVE  \E p, random, s :
           /\ random \in 0..Draws - 1 /\ Received(a, b, p, random, s)
           /\ ourFCMGuid[a] = NoId => random \notin drawn
           /\ drawn' = IF s.id = ourFCMGuid[a] THEN drawn ELSE drawn \cup {random}
<1>1. Hears(a, b)
  BY HeardOf
<1> DEFINE p == Head(streams[b][a])
<1>2. PICK longer \in RunsLonger(a, b), random \in Randoms(a) :
        LET s == After(a, b, p, longer, random)
        IN /\ Store(a, s)
           /\ streams' = [streams EXCEPT ![a] = [c \in Systems |-> Sent(a, s, c)],
                                         ![b][a] = Tail(@)]
           /\ drawn' = IF s.id = ourFCMGuid[a] THEN drawn ELSE drawn \cup {random}
  BY DEF OnReceive
<1> DEFINE s == After(a, b, p, longer, random)
<1>3. /\ Store(a, s)
      /\ streams' = [streams EXCEPT ![a] = [c \in Systems |-> Sent(a, s, c)], ![b][a] = Tail(@)]
      /\ drawn' = IF s.id = ourFCMGuid[a] THEN drawn ELSE drawn \cup {random}
  BY <1>2
<1>4. longer \in BOOLEAN /\ random \in 0..Draws - 1
      /\ (ourFCMGuid[a] = NoId => random \notin drawn)
  <2>1. longer \in BOOLEAN
    BY DEF RunsLonger
  <2>2. CASE ourFCMGuid[a] = NoId
    BY <2>1, <2>2 DEF Randoms
  <2>3. CASE ourFCMGuid[a] # NoId
    <3>1. random = 0 /\ 0 \in 0..Draws - 1
      BY <2>3, MeshAssumption DEF Randoms
    <3> QED
      BY <2>1, <2>3, <3>1
  <2> QED
    BY <2>2, <2>3
<1>5. Handles(a, b, p, random)
  <2>1. streams[b][a] \in Seq(Packets) /\ streams[b][a] # <<>> /\ AllSound(streams[b][a])
    BY <1>1 DEF Hears, MeshInv, Types, StreamTypes, Counted
  <2>2. p \in Packets /\ Sound(p)
    BY <2>1, Taken
  <2> HIDE DEF p
  <2> QED
    BY <1>1, <1>4, <2>2 DEF Handles, Hears, MeshInv, Types, OwnTypes, Counted
<1>6. Outcome(a, b, p, random, s)
  <2> HIDE DEF p
  <2> QED
    BY <1>4, <1>5, AfterOutcome
<1> HIDE DEF s, p
<1>7. UNCHANGED <<connected, untold, lost, left, reset>>
  BY DEF OnReceive
<1>8. Flow(a, s, {<<b, a>>})
  BY <1>3, Receiving DEF MeshInv, Types
<1>9. Received(a, b, p, random, s)
  BY <1>1, <1>3, <1>5, <1>6, <1>7, <1>8 DEF Received, p
<1> QED
  BY <1>3, <1>4, <1>9

LEMMA ReceiveKeeps ==
  ASSUME MeshInv, NEW a \in Systems, NEW b \in Systems \ {a}, OnReceive(a, b)
  PROVE  MeshInv'
<1>1. PICK p, random, s :
        /\ random \in 0..Draws - 1 /\ Received(a, b, p, random, s)
        /\ ourFCMGuid[a] = NoId => random \notin drawn
        /\ drawn' = IF s.id = ourFCMGuid[a] THEN drawn ELSE drawn \cup {random}
  BY ReceiveIs
<1>2. /\ Hears(a, b) /\ Handles(a, b, p, random) /\ Outcome(a, b, p, random, s)
      /\ Store(a, s) /\ Flow(a, s, {<<b, a>>})
      /\ UNCHANGED <<connected, untold, lost, left, reset>>
  BY <1>1 DEF Received
<1>3. Valid(a, s) /\ DOMAIN s.list = DOMAIN fcm2ParticipantList[a]
  BY <1>2, OutcomeValid DEF MeshInv, Types
<1>4. /\ OwnTypes' /\ StreamTypes' /\ Counted'
      /\ \A x, y \in Systems :
           streams'[x][y] # <<>> => streams[x][y] # <<>> \/ <<x, y>> \in connected
  BY <1>2, <1>3, StepKeeps DEF MeshInv, Hears
<1>5. Distinct' /\ (drawn \subseteq 0..Draws - 1)'
  <2>1. \A c \in Systems : ourFCMGuid'[c] = IF c = a THEN s.id ELSE ourFCMGuid[c]
    BY <1>2, Stored DEF MeshInv, Types
  <2>2. s.id = ourFCMGuid[a] \/ (ourFCMGuid[a] = NoId /\ \E c \in Nat \ {0} : s.id = Id(c, random))
    BY <1>2 DEF Outcome, Numbered
  <2>3. CASE s.id = ourFCMGuid[a]
    BY <1>1, <2>1, <2>3, DrawsDiffer DEF MeshInv
  <2>4. CASE s.id # ourFCMGuid[a]
    <3>1. random \in (0..Draws - 1) \ drawn /\ drawn' = drawn \cup {random}
      BY <1>1, <2>2, <2>4
    <3>2. s.id # NoId /\ \E c \in Nat \ {0} : s.id = Id(c, random)
      BY <2>2, <2>4
    <3> QED
      BY <2>1, <3>1, <3>2, DrawsDiffer DEF MeshInv
  <2> QED
    BY <2>3, <2>4
<1>6. NetTypes'
  BY <1>2, <1>5 DEF MeshInv, Types, NetTypes
<1>7. Network'
  BY <1>2, <1>4 DEF MeshInv, Network
<1>8. Listed'
  <2>1. \A c \in Systems : DOMAIN fcm2ParticipantList'[c] = DOMAIN fcm2ParticipantList[c]
    BY <1>2, <1>3, Stored DEF MeshInv, Types
  <2> QED
    BY <1>2, <2>1 DEF MeshInv, Listed
<1> QED
  BY <1>1, <1>4, <1>5, <1>6, <1>7, <1>8, ReceivedTells, ReceivedHosts DEF MeshInv, Types

(***************************************************************************)
(* The other steps.                                                        *)
(***************************************************************************)
\* A new participant is asked for its id.
Asks(a, b, s, q) ==
  /\ Sound(q) /\ (Carries(q) => q.fcmGuid = ourFCMGuid[a])
  /\ IF ourFCMGuid[a] = NoId THEN Queries(q)
     ELSE Carries(q) /\ q.type = "REQUEST_FCMGUID" /\ q.count = totalConnectionCount[a]
  /\ s.out = [c \in Systems |-> IF c = b THEN <<q>> ELSE <<>>]
  /\ s.list = [c \in DOMAIN fcm2ParticipantList[a] \cup {b} |->
                 IF c = b THEN NoId ELSE fcm2ParticipantList[a][c]]
  /\ s.id = ourFCMGuid[a] /\ s.total = totalConnectionCount[a]
  /\ s.host = hostRakNetGuid[a] /\ s.pushed = lastPushedHost[a]

LEMMA NewcomerAdded ==
  ASSUME NEW a \in Systems, NEW b \in Systems, OwnTypes, b \notin DOMAIN fcm2ParticipantList[a],
         ourFCMGuid[a] # NoId => totalConnectionCount[a] # 0,
         NEW s, s = AddParticipantInternal(State(a), b, NoId)
  PROVE  \E q \in Packets : Asks(a, b, s, q)
<1> DEFINE list == fcm2ParticipantList[a]
           total == totalConnectionCount[a]
           id == ourFCMGuid[a]
           host == hostRakNetGuid[a]
           pushed == lastPushedHost[a]
           longer == [c \in DOMAIN list \cup {b} |-> IF c = b THEN NoId ELSE list[c]]
           q == [type |-> "REQUEST_FCMGUID", fcmGuid |-> id, count |-> IF id = NoId THEN 0 ELSE total]
           out == [Silence EXCEPT ![b] = Append(@, q)]
<1>1. q \in Packets /\ Sound(q) /\ q.fcmGuid = id
      /\ IF id = NoId THEN Queries(q)
         ELSE Carries(q) /\ q.type = "REQUEST_FCMGUID" /\ q.count = total
  BY DEF OwnTypes, Packets, Sound, Responds, Queries, Carries
<1>2. out = [c \in Systems |-> IF c = b THEN <<q>> ELSE <<>>]
  BY DEF Silence
<1>3. State(a) = Rec(list, total, id, host, pushed, Silence)
  BY StateIs
<1>4. [Rec(list, total, id, host, pushed, Silence) EXCEPT !.list = longer]
        = Rec(longer, total, id, host, pushed, Silence)
  BY DEF Rec
<1>5. SendFCMGuidRequest(Rec(longer, total, id, host, pushed, Silence), b)
        = Rec(longer, total, id, host, pushed, out)
  <2>1. Rec(longer, total, id, host, pushed, Silence).id = id
        /\ Rec(longer, total, id, host, pushed, Silence).total = total
    BY DEF Rec
  <2>2. SendFCMGuidRequest(Rec(longer, total, id, host, pushed, Silence), b)
          = SendTo(Rec(longer, total, id, host, pushed, Silence), b, q)
    BY <2>1 DEF SendFCMGuidRequest
  <2> HIDE DEF longer, total, id, host, pushed, q
  <2> QED
    BY <2>2, SendsTo
<1>6. AddParticipantInternal(Rec(list, total, id, host, pushed, Silence), b, NoId)
        = SendFCMGuidRequest([Rec(list, total, id, host, pushed, Silence) EXCEPT !.list = longer], b)
  <2>1. Rec(list, total, id, host, pushed, Silence).list = list
    BY DEF Rec
  <2>2. [Rec(list, total, id, host, pushed, Silence) EXCEPT
           !.list = [c \in DOMAIN @ \cup {b} |-> IF c = b THEN NoId ELSE @[c]]]
          = [Rec(list, total, id, host, pushed, Silence) EXCEPT !.list = longer]
    BY <2>1
  <2> QED
    BY <2>1, <2>2 DEF AddParticipantInternal
<1> HIDE DEF list, total, id, host, pushed, longer, q, out
<1>7. s = Rec(longer, total, id, host, pushed, out)
  BY <1>3, <1>4, <1>5, <1>6
<1>8. /\ s.list = longer /\ s.total = total /\ s.id = id /\ s.host = host /\ s.pushed = pushed
      /\ s.out = out
  BY <1>7 DEF Rec
<1> QED
  BY <1>1, <1>2, <1>8 DEF Asks, list, total, id, host, pushed, longer

\* OnNewConnection, when the other one still is connected.
LEMMA ToldOfConnected ==
  ASSUME MeshInv, NEW a \in Systems, NEW b \in Systems \ {a}, OnNewConnection(a, b),
         <<a, b>> \in connected
  PROVE  MeshInv'
<1> DEFINE s == AddParticipantInternal(State(a), b, NoId)
<1>1. /\ <<a, b>> \in untold /\ untold' = untold \ {<<a, b>>}
      /\ Store(a, s) /\ streams' = [streams EXCEPT ![a] = [c \in Systems |-> Sent(a, s, c)]]
      /\ UNCHANGED <<connected, lost, left, reset, drawn>>
  BY DEF OnNewConnection
<1>2. a \notin left /\ b \notin DOMAIN fcm2ParticipantList[a]
  BY <1>1 DEF MeshInv, Network, Listed
<1>3. PICK q \in Packets : Asks(a, b, s, q)
  <2>1. OwnTypes /\ (ourFCMGuid[a] # NoId => totalConnectionCount[a] # 0)
    BY DEF MeshInv, Types, Counted
  <2>2. s = AddParticipantInternal(State(a), b, NoId)
    OBVIOUS
  <2> HIDE DEF s
  <2> QED
    BY <1>2, <2>1, <2>2, NewcomerAdded
<1> HIDE DEF s
<1>4. /\ Sound(q) /\ (Carries(q) => q.fcmGuid = ourFCMGuid[a])
      /\ IF ourFCMGuid[a] = NoId THEN Queries(q) ELSE Carries(q)
      /\ s.out = [c \in Systems |-> IF c = b THEN <<q>> ELSE <<>>]
      /\ s.list = [c \in DOMAIN fcm2ParticipantList[a] \cup {b} |->
                     IF c = b THEN NoId ELSE fcm2ParticipantList[a][c]]
      /\ s.id = ourFCMGuid[a] /\ s.total = totalConnectionCount[a]
      /\ s.host = hostRakNetGuid[a] /\ s.pushed = lastPushedHost[a]
  BY <1>3 DEF Asks
<1>5. Flow(a, s, {})
  BY <1>1, Sending DEF MeshInv, Types
<1>6. /\ DOMAIN s.list = DOMAIN fcm2ParticipantList[a] \cup {b} /\ s.list[b] = NoId
      /\ \A c \in DOMAIN fcm2ParticipantList[a] : s.list[c] = fcm2ParticipantList[a][c]
  BY <1>2, <1>4
<1>7. Valid(a, s)
  <2>1. IsList(a, fcm2ParticipantList[a])
    BY DEF MeshInv, Types, OwnTypes
  <2>2. IsList(a, s.list)
    BY <1>4, <2>1 DEF IsList, NoId
  <2>3. \A c \in Systems : Parcel(s.out[c], s.id)
    BY <1>4 DEF Parcel
  <2> QED
    BY <1>4, <2>2, <2>3 DEF Valid, MeshInv, Types, OwnTypes, Counted
<1>8. /\ OwnTypes' /\ StreamTypes' /\ Counted'
      /\ \A x, y \in Systems :
           streams'[x][y] # <<>> => streams[x][y] # <<>> \/ <<x, y>> \in connected
  BY <1>1, <1>5, <1>7, StepKeeps DEF MeshInv
<1>9. \A c \in Systems :
        /\ fcm2ParticipantList'[c] = IF c = a THEN s.list ELSE fcm2ParticipantList[c]
        /\ ourFCMGuid'[c] = ourFCMGuid[c]
        /\ hostRakNetGuid'[c] = hostRakNetGuid[c]
        /\ lastPushedHost'[c] = lastPushedHost[c]
  BY <1>1, <1>4, Stored DEF MeshInv, Types
<1>10. NetTypes'
  BY <1>1 DEF MeshInv, Types, NetTypes
<1>11. Network'
  BY <1>1, <1>8 DEF MeshInv, Network
<1>12. Listed'
  BY <1>1, <1>6, <1>9 DEF MeshInv, Listed
<1>13. Distinct'
  BY <1>1, <1>9 DEF MeshInv, Distinct, Id
<1>14. ASSUME NEW x \in Systems, NEW y \in Systems, <<x, y>> \in (connected \ untold)'
       PROVE  Tells(x, y)'
  <2>1. streams[x][y] \in Seq(Packets)
    BY DEF MeshInv, Types, StreamTypes
  <2>2. CASE x = a /\ y = b
    <3>1. streams'[a][b] = streams[a][b] \o <<q>>
      BY <1>1, <1>4, <1>5, <1>14, <2>2 DEF Flow, Sent
    <3>2. Parcel(<<q>>, ourFCMGuid[a])
      BY <1>4 DEF Parcel
    <3>3. /\ Carries(q) => LastId(streams'[a][b], ourFCMGuid[a])
          /\ Queries(q) => Asking(streams'[a][b])
      BY <2>1, <2>2, <3>1, <3>2, Posted
    <3> QED
      BY <1>4, <1>9, <2>2, <3>3 DEF Tells
  <2>3. CASE <<x, y>> # <<a, b>>
    <3>1. Tells(x, y) /\ x # y
      BY <1>1, <1>14, <2>3 DEF MeshInv, Told, Network
    <3>2. streams'[x][y] = streams[x][y]
      <4>1. CASE x = a
        <5>1. s.out[y] = <<>> /\ streams[x][y] \o <<>> = streams[x][y]
          BY <1>4, <2>1, <2>3, <4>1
        <5> QED
          BY <1>5, <4>1, <5>1 DEF Flow, Sent
      <4>2. CASE x # a
        BY <1>5, <4>2 DEF Flow
      <4> QED
        BY <4>1, <4>2
    <3>3. Answering(streams[y][x]) => Answering(streams'[y][x])
      <4>1. CASE y = a
        <5>1. Parcel(s.out[x], s.id) /\ streams[y][x] \in Seq(Packets)
          BY <1>7 DEF Valid, MeshInv, Types, StreamTypes
        <5>2. Answering(streams[y][x]) => Answering(streams[y][x] \o s.out[x])
          BY <5>1, Posted
        <5> QED
          BY <1>5, <4>1, <5>2 DEF Flow, Sent
      <4>2. CASE y # a
        BY <1>5, <4>2 DEF Flow
      <4> QED
        BY <4>1, <4>2
    <3>4. x \in DOMAIN fcm2ParticipantList[y] =>
            /\ x \in DOMAIN fcm2ParticipantList'[y]
            /\ fcm2ParticipantList'[y][x] = fcm2ParticipantList[y][x]
      BY <1>6, <1>9
    <3> QED
      BY <1>9, <3>1, <3>2, <3>3, <3>4 DEF Tells
  <2> QED
    BY <2>2, <2>3
<1>15. Told'
  BY <1>14 DEF Told
<1>16. HostNear'
  BY <1>1, <1>6, <1>9 DEF MeshInv, HostNear
<1>17. HostTold'
  <2>1. ~Complete(s.list)
    BY <1>6 DEF Complete
  <2> QED
    BY <1>1, <1>9, <2>1 DEF MeshInv, HostTold
<1> QED
  BY <1>8, <1>10, <1>11, <1>12, <1>13, <1>15, <1>16, <1>17 DEF MeshInv, Types

\* OnNewConnection, when the other one has left meanwhile.
LEMMA ToldOfGone ==
  ASSUME MeshInv, NEW a \in Systems, NEW b \in Systems \ {a}, OnNewConnection(a, b),
         <<a, b>> \notin connected
  PROVE  MeshInv'
<1>1. /\ <<a, b>> \in untold /\ untold' = untold \ {<<a, b>>}
      /\ Store(a, State(a))
      /\ streams' = [streams EXCEPT ![a] = [c \in Systems |-> Sent(a, State(a), c)]]
      /\ UNCHANGED <<connected, lost, left, reset, drawn>>
  BY DEF OnNewConnection
<1>2. UNCHANGED own
  BY <1>1 DEF Store, State, own, MeshInv, Types, OwnTypes
<1>3. streams' = streams
  <2>1. \A c \in Systems : Sent(a, State(a), c) = streams[a][c]
    BY DEF Sent, State, MeshInv, Types, StreamTypes
  <2> QED
    BY <1>1, <2>1 DEF MeshInv, Types, StreamTypes
<1>4. Types' /\ Network'
  <2>1. OwnTypes'
    BY <1>2 DEF own, MeshInv, Types, OwnTypes, IsList
  <2>2. StreamTypes'
    BY <1>3 DEF MeshInv, Types, StreamTypes
  <2>3. NetTypes'
    BY <1>1 DEF MeshInv, Types, NetTypes
  <2>4. Network'
    BY <1>1, <1>3 DEF MeshInv, Network
  <2> QED
    BY <2>1, <2>2, <2>3, <2>4 DEF Types
<1>5. \A x, y \in Systems : <<x, y>> \in (connected \ untold)' => <<x, y>> \in connected \ untold
  BY <1>1
<1>6. Listed'
  BY <1>1, <1>2, <1>5 DEF own, MeshInv, Listed
<1>7. Counted' /\ Distinct'
  BY <1>1, <1>2, <1>3 DEF own, MeshInv, Counted, Distinct
<1>8. Told'
  BY <1>2, <1>3, <1>5 DEF own, MeshInv, Told, Tells
<1>9. HostNear' /\ HostTold'
  BY <1>1, <1>2 DEF own, MeshInv, HostNear, HostTold
<1> QED
  BY <1>4, <1>6, <1>7, <1>8, <1>9 DEF MeshInv

ListWithout(a, b) == [c \in DOMAIN fcm2ParticipantList[a] \ {b} |-> fcm2ParticipantList[a][c]]
NextHost(a, b) == Chosen(a, ListWithout(a, b), ourFCMGuid[a])

\* Who was host and is gone is followed by another.
LEMMA ClosedIs ==
  ASSUME NEW a, NEW b, NEW s, s = AfterClosedConnection(a, b)
  PROVE  /\ s.list = ListWithout(a, b) /\ s.total = totalConnectionCount[a] /\ s.id = ourFCMGuid[a]
         /\ IF /\ b \in DOMAIN fcm2ParticipantList[a] /\ hostRakNetGuid[a] = b
               /\ ourFCMGuid[a] # NoId
            THEN s.host = NextHost(a, b) /\ s.pushed = NextHost(a, b)
            ELSE s.host = hostRakNetGuid[a] /\ s.pushed = lastPushedHost[a]
<1> DEFINE list == ListWithout(a, b)
           host == NextHost(a, b)
           total == totalConnectionCount[a]
           id == ourFCMGuid[a]
           before == hostRakNetGuid[a]
           pushed == lastPushedHost[a]
           t == Rec(list, total, id, before, pushed, Silence)
<1>1. [State(a) EXCEPT !.list = [c \in DOMAIN @ \ {b} |-> @[c]]] = t
  <2>1. State(a).list = fcm2ParticipantList[a]
    BY DEF State
  <2>2. [State(a) EXCEPT !.list = [c \in DOMAIN @ \ {b} |-> @[c]]] = [State(a) EXCEPT !.list = list]
    BY <2>1 DEF ListWithout
  <2>3. [State(a) EXCEPT !.list = list] = t
    BY StateIs DEF Rec
  <2> QED
    BY <2>2, <2>3
<1>2. t.list = list /\ t.total = total /\ t.id = id /\ t.host = before /\ t.pushed = pushed
  BY DEF Rec
<1>3. CalculateHost(a, t) = host
  <2> HIDE DEF t
  <2> QED
    BY <1>2 DEF CalculateHost, Chosen, NextHost
<1>4. [t EXCEPT !.host = host, !.pushed = host] = Rec(list, total, id, host, host, Silence)
  <2> HIDE DEF list, total, id, before, host, pushed
  <2>1. [t EXCEPT !.host = host] = Rec(list, total, id, host, pushed, Silence)
    BY DEF Rec
  <2>2. [Rec(list, total, id, host, pushed, Silence) EXCEPT !.pushed = host]
          = Rec(list, total, id, host, host, Silence)
    BY DEF Rec
  <2>3. [t EXCEPT !.host = host, !.pushed = host] = [[t EXCEPT !.host = host] EXCEPT !.pushed = host]
    OBVIOUS
  <2> QED
    BY <2>1, <2>2, <2>3
<1> DEFINE gone == b \in DOMAIN fcm2ParticipantList[a] /\ before = b /\ id # NoId
<1>5. s = IF gone THEN Rec(list, total, id, host, host, Silence) ELSE t
  <2> HIDE DEF t
  <2> QED
    BY <1>1, <1>2, <1>3, <1>4 DEF AfterClosedConnection
<1> HIDE DEF gone
<1>6. /\ s.list = list /\ s.total = total /\ s.id = id
      /\ IF gone THEN s.host = host /\ s.pushed = host ELSE s.host = before /\ s.pushed = pushed
  BY <1>5 DEF Rec
<1> QED
  BY <1>6 DEF gone

LEMMA ClosedKeeps ==
  ASSUME MeshInv, NEW a \in Systems, NEW b \in Systems \ {a}, OnClosedConnection(a, b)
  PROVE  MeshInv'
<1> DEFINE s == AfterClosedConnection(a, b)
           list == ListWithout(a, b)
           host == NextHost(a, b)
<1>1. /\ <<a, b>> \in lost \ untold /\ lost' = lost \ {<<a, b>>} /\ Store(a, s)
      /\ UNCHANGED <<streams, connected, untold, left, reset, drawn>>
  BY DEF OnClosedConnection
<1>2. /\ s.list = list /\ s.total = totalConnectionCount[a] /\ s.id = ourFCMGuid[a]
      /\ IF /\ b \in DOMAIN fcm2ParticipantList[a] /\ hostRakNetGuid[a] = b
            /\ ourFCMGuid[a] # NoId
         THEN s.host = host /\ s.pushed = host
         ELSE s.host = hostRakNetGuid[a] /\ s.pushed = lastPushedHost[a]
  <2>1. s = AfterClosedConnection(a, b)
    OBVIOUS
  <2> HIDE DEF s
  <2> QED
    BY <2>1, ClosedIs
<1>3. /\ IsList(a, fcm2ParticipantList[a]) /\ ourFCMGuid[a] \in Nat
      /\ totalConnectionCount[a] \in Nat
      /\ hostRakNetGuid[a] \in Hosts /\ lastPushedHost[a] \in Hosts
  BY DEF MeshInv, Types, OwnTypes
<1>4. /\ DOMAIN list = DOMAIN fcm2ParticipantList[a] \ {b} /\ IsList(a, list)
      /\ \A c \in DOMAIN list : list[c] = fcm2ParticipantList[a][c]
  BY <1>3 DEF IsList, ListWithout
<1>5. host \in {a} \cup DOMAIN list
  <2> HIDE DEF list
  <2> QED
    BY <1>3, <1>4, ChosenIs DEF NextHost, list
<1> HIDE DEF s, list, host
<1>6. a \notin left /\ b \in left /\ <<a, b>> \notin connected /\ <<b, a>> \notin connected
  BY <1>1 DEF MeshInv, Network
<1>7. s.host \in Hosts /\ s.pushed \in Hosts
  BY <1>2, <1>3, <1>4, <1>5 DEF IsList, Hosts
<1>8. \A c \in Systems :
        /\ fcm2ParticipantList'[c] = IF c = a THEN list ELSE fcm2ParticipantList[c]
        /\ totalConnectionCount'[c] = totalConnectionCount[c]
        /\ ourFCMGuid'[c] = ourFCMGuid[c]
        /\ hostRakNetGuid'[c] = IF c = a THEN s.host ELSE hostRakNetGuid[c]
  BY <1>1, <1>2, Stored DEF MeshInv, Types
<1>9. OwnTypes'
  <2>1. (fcm2ParticipantList = [c \in Systems |-> fcm2ParticipantList[c]])'
    BY <1>1 DEF Store, MeshInv, Types, OwnTypes
  <2>2. \A c \in Systems : IsList(c, fcm2ParticipantList[c])'
    BY <1>4, <1>8 DEF MeshInv, Types, OwnTypes, IsList
  <2>3. /\ totalConnectionCount' \in [Systems -> Nat] /\ ourFCMGuid' \in [Systems -> Nat]
        /\ hostRakNetGuid' \in [Systems -> Hosts] /\ lastPushedHost' \in [Systems -> Hosts]
    BY <1>1, <1>2, <1>3, <1>7 DEF Store, MeshInv, Types, OwnTypes
  <2> QED
    BY <2>1, <2>2, <2>3 DEF OwnTypes, Hosts
<1>10. StreamTypes' /\ NetTypes'
  BY <1>1 DEF MeshInv, Types, StreamTypes, NetTypes
<1>11. Network'
  BY <1>1 DEF MeshInv, Network
<1>12. Listed'
  BY <1>1, <1>4, <1>6, <1>8 DEF MeshInv, Listed
<1>13. Counted' /\ Distinct'
  BY <1>1, <1>8 DEF MeshInv, Counted, Distinct, Id
<1>14. Told'
  <2>1. ASSUME NEW x \in Systems, NEW y \in Systems, <<x, y>> \in connected \ untold
        PROVE  Tells(x, y)'
    <3>1. Tells(x, y) /\ <<x, y>> # <<b, a>>
      BY <1>6, <2>1 DEF MeshInv, Told
    <3>2. streams'[x][y] = streams[x][y] /\ streams'[y][x] = streams[y][x]
      BY <1>1
    <3>3. x \in DOMAIN fcm2ParticipantList[y] =>
            /\ x \in DOMAIN fcm2ParticipantList'[y]
            /\ fcm2ParticipantList'[y][x] = fcm2ParticipantList[y][x]
      BY <1>4, <1>8, <3>1
    <3> QED
      BY <1>8, <3>1, <3>2, <3>3 DEF Tells
  <2> QED
    BY <1>1, <2>1 DEF Told
<1>15. HostNear'
  <2>1. /\ hostRakNetGuid[a] \in {NoHost, a} \cup DOMAIN fcm2ParticipantList[a]
        /\ ourFCMGuid[a] = NoId => hostRakNetGuid[a] \in {NoHost, a}
    BY <1>6 DEF MeshInv, HostNear
  <2>2. b # NoHost
    BY MeshAssumption DEF NoHost
  <2>3. /\ s.host \in {NoHost, a} \cup DOMAIN list
        /\ ourFCMGuid[a] = NoId => s.host \in {NoHost, a}
    BY <1>2, <1>4, <1>5, <2>1, <2>2
  <2> QED
    BY <1>1, <1>8, <2>3 DEF MeshInv, HostNear
<1>16. HostTold'
  BY <1>1, <1>6 DEF HostTold
<1> QED
  BY <1>9, <1>10, <1>11, <1>12, <1>13, <1>14, <1>15, <1>16 DEF MeshInv, Types

\* The one request for a count that who starts over sends to all its participants.
Query == [type |-> "REQUEST_FCMGUID", fcmGuid |-> NoId, count |-> 0]

LEMMA ResetKeeps ==
  ASSUME MeshInv, NEW a \in Systems, ResetHostCalculation(a)
  PROVE  MeshInv'
<1> DEFINE list == fcm2ParticipantList[a]
           pushed == lastPushedHost[a]
           out == [c \in Systems |-> IF c \in DOMAIN list THEN <<Query>> ELSE <<>>]
           s == Rec(list, 0, NoId, NoHost, pushed, out)
<1>1. /\ a \in Resetters \ reset /\ a \notin left /\ reset' = reset \cup {a}
      /\ Store(a, s) /\ streams' = [streams EXCEPT ![a] = [c \in Systems |-> Sent(a, s, c)]]
      /\ UNCHANGED <<connected, untold, lost, left, drawn>>
  <2> DEFINE cleared == [State(a) EXCEPT !.host = NoHost, !.total = 0, !.id = NoId]
             request == SendFCMGuidRequest(cleared, a).out[a]
  <2>1. cleared = Rec(list, 0, NoId, NoHost, pushed, Silence)
    <3>1. [State(a) EXCEPT !.host = NoHost]
            = Rec(list, totalConnectionCount[a], ourFCMGuid[a], NoHost, pushed, Silence)
      BY StateIs DEF Rec
    <3>2. [Rec(list, totalConnectionCount[a], ourFCMGuid[a], NoHost, pushed, Silence) EXCEPT
             !.total = 0] = Rec(list, 0, ourFCMGuid[a], NoHost, pushed, Silence)
      BY DEF Rec
    <3>3. [Rec(list, 0, ourFCMGuid[a], NoHost, pushed, Silence) EXCEPT !.id = NoId]
            = Rec(list, 0, NoId, NoHost, pushed, Silence)
      BY DEF Rec
    <3>4. cleared = [[[State(a) EXCEPT !.host = NoHost] EXCEPT !.total = 0] EXCEPT !.id = NoId]
      OBVIOUS
    <3> QED
      BY <3>1, <3>2, <3>3, <3>4
  <2>2. request = <<Query>>
    <3>1. SendFCMGuidRequest(cleared, a)
            = Rec(list, 0, NoId, NoHost, pushed, [Silence EXCEPT ![a] = Append(@, Query)])
      <4>1. SendFCMGuidRequest(cleared, a) = SendTo(cleared, a, Query)
        <5>1. cleared.id = NoId
          BY <2>1 DEF Rec
        <5> HIDE DEF cleared
        <5> QED
          BY <5>1 DEF SendFCMGuidRequest, Query
      <4> HIDE DEF cleared, list, pushed
      <4> QED
        BY <2>1, <4>1, SendsTo
    <3>2. [Silence EXCEPT ![a] = Append(@, Query)][a] = <<Query>>
      <4>1. Silence[a] = <<>> /\ Append(<<>>, Query) = <<Query>>
        BY DEF Silence
      <4> QED
        BY <4>1 DEF Silence
    <3> HIDE DEF cleared, list, pushed
    <3>3. SendFCMGuidRequest(cleared, a).out = [Silence EXCEPT ![a] = Append(@, Query)]
      BY <3>1 DEF Rec
    <3> QED
      BY <3>2, <3>3
  <2>3. cleared.list = list
    BY <2>1 DEF Rec
  <2>4. [cleared EXCEPT !.out = [c \in Systems |->
           IF c \in DOMAIN cleared.list THEN request ELSE <<>>]] = s
    <3> HIDE DEF list, pushed, cleared, request
    <3>1. [c \in Systems |-> IF c \in DOMAIN cleared.list THEN request ELSE <<>>] = out
      BY <2>2, <2>3
    <3>2. [Rec(list, 0, NoId, NoHost, pushed, Silence) EXCEPT !.out = out] = s
      <4> HIDE DEF out
      <4> QED
        BY DEF Rec
    <3> QED
      BY <2>1, <3>1, <3>2
  <2> HIDE DEF s, cleared, request
  <2> QED
    BY <2>4 DEF ResetHostCalculation, cleared, request
<1>2. /\ s.list = list /\ s.total = 0 /\ s.id = NoId /\ s.host = NoHost /\ s.pushed = pushed
      /\ s.out = out
  BY DEF Rec
<1>3. Query \in Packets /\ Sound(Query) /\ ~Carries(Query) /\ Queries(Query)
  BY DEF Query, Packets, Sound, Carries, Queries, Responds, NoId
<1>4. \A c \in Systems : Parcel(out[c], NoId)
  <2>1. \A c \in Systems : out[c] \in {<<>>, <<Query>>}
    OBVIOUS
  <2> HIDE DEF out
  <2> QED
    BY <1>3, <2>1 DEF Parcel
<1>5. \A c \in Systems \cap DOMAIN list : out[c] = <<Query>>
  OBVIOUS
<1>6. IsList(a, list) /\ pushed \in Hosts
  BY DEF MeshInv, Types, OwnTypes
<1> HIDE DEF s, out
<1>7. Valid(a, s)
  BY <1>2, <1>4, <1>6 DEF Valid, Hosts, NoId
<1>8. Flow(a, s, {})
  BY <1>1, Sending DEF MeshInv, Types
<1>9. /\ OwnTypes' /\ StreamTypes' /\ Counted'
      /\ \A x, y \in Systems :
           streams'[x][y] # <<>> => streams[x][y] # <<>> \/ <<x, y>> \in connected
  BY <1>1, <1>7, <1>8, StepKeeps DEF MeshInv
<1>10. \A c \in Systems :
         /\ fcm2ParticipantList'[c] = fcm2ParticipantList[c]
         /\ ourFCMGuid'[c] = IF c = a THEN NoId ELSE ourFCMGuid[c]
         /\ hostRakNetGuid'[c] = IF c = a THEN NoHost ELSE hostRakNetGuid[c]
         /\ lastPushedHost'[c] = lastPushedHost[c]
  BY <1>1, <1>2, Stored DEF MeshInv, Types
<1>11. NetTypes'
  BY <1>1 DEF MeshInv, Types, NetTypes
<1>12. Network'
  BY <1>1, <1>9 DEF MeshInv, Network
<1>13. Listed'
  BY <1>1, <1>10 DEF MeshInv, Listed
<1>14. Distinct'
  BY <1>1, <1>10 DEF MeshInv, Distinct, Id
<1>15. ASSUME NEW x \in Systems, NEW y \in Systems, <<x, y>> \in connected \ untold
       PROVE  Tells(x, y)'
  <2>1. Tells(x, y) /\ x # y /\ x \notin left
    BY <1>15 DEF MeshInv, Told, Network
  <2>2. CASE x = a
    <3>1. y \in DOMAIN list
      BY <1>15, <2>1, <2>2 DEF MeshInv, Listed
    <3>2. streams'[a][y] = streams[a][y] \o <<Query>>
      BY <1>2, <1>5, <1>8, <1>15, <2>2, <3>1 DEF Flow, Sent
    <3>3. Parcel(<<Query>>, NoId) /\ streams[a][y] \in Seq(Packets)
      BY <1>3 DEF Parcel, MeshInv, Types, StreamTypes
    <3>4. Asking(streams'[a][y])
      BY <1>3, <3>2, <3>3, Posted
    <3> QED
      BY <1>10, <2>2, <3>4 DEF Tells
  <2>3. CASE x # a
    <3>1. streams'[x][y] = streams[x][y]
      BY <1>8, <2>3 DEF Flow
    <3>2. Answering(streams[y][x]) => Answering(streams'[y][x])
      <4>1. Parcel(s.out[x], NoId) /\ streams[y][x] \in Seq(Packets)
        BY <1>2, <1>4 DEF MeshInv, Types, StreamTypes
      <4>2. Answering(streams[y][x]) => Answering(streams[y][x] \o s.out[x])
        BY <4>1, Posted
      <4> QED
        BY <1>8, <4>2 DEF Flow, Sent
    <3> QED
      BY <1>10, <2>1, <2>3, <3>1, <3>2 DEF Tells
  <2> QED
    BY <2>2, <2>3
<1>16. Told'
  BY <1>1, <1>15 DEF Told
<1>17. HostNear'
  BY <1>1, <1>10 DEF MeshInv, HostNear
<1>18. HostTold'
  BY <1>1, <1>10 DEF MeshInv, HostTold
<1> QED
  BY <1>9, <1>11, <1>12, <1>13, <1>14, <1>16, <1>17, <1>18 DEF MeshInv, Types

LEMMA ConnectKeeps ==
  ASSUME MeshInv, NEW a \in Systems, NEW b \in Systems, Connect(a, b)
  PROVE  MeshInv'
<1>1. /\ a # b /\ a \notin left /\ b \notin left
      /\ {<<a, b>>, <<b, a>>} \cap (connected \cup lost) = {}
      /\ connected' = connected \cup {<<a, b>>, <<b, a>>}
      /\ untold' = untold \cup {<<a, b>>, <<b, a>>}
      /\ UNCHANGED own /\ UNCHANGED <<streams, lost, left, reset, drawn>>
  BY DEF Connect
<1>2. OwnTypes'
  BY <1>1 DEF own, MeshInv, Types, OwnTypes, IsList
<1>3. StreamTypes' /\ NetTypes'
  <2>1. {<<a, b>>, <<b, a>>} \subseteq Systems \X Systems
    OBVIOUS
  <2>2. StreamTypes'
    BY <1>1 DEF MeshInv, Types, StreamTypes
  <2>3. connected' \subseteq Systems \X Systems /\ untold' \subseteq Systems \X Systems
    BY <1>1, <2>1 DEF MeshInv, Types, NetTypes
  <2> QED
    BY <1>1, <2>2, <2>3 DEF MeshInv, Types, NetTypes
<1>4. Network'
  BY <1>1 DEF MeshInv, Network
<1>5. (connected \ untold)' \subseteq connected \ untold
  BY <1>1
<1>6. Listed'
  <2>1. \A x, y \in Systems : <<x, y>> \in (connected \cup lost) \ untold =>
          <<x, y>> \in (connected' \cup lost') \ untold'
    BY <1>1
  <2> QED
    BY <1>1, <1>5, <2>1 DEF own, MeshInv, Listed
<1>7. Counted' /\ Distinct'
  BY <1>1 DEF own, MeshInv, Counted, Distinct
<1>8. Told'
  BY <1>1, <1>5 DEF own, MeshInv, Told, Tells
<1>9. HostNear' /\ HostTold'
  BY <1>1 DEF own, MeshInv, HostNear, HostTold
<1> QED
  BY <1>2, <1>3, <1>4, <1>6, <1>7, <1>8, <1>9 DEF MeshInv, Types

LEMMA LeaveKeeps ==
  ASSUME MeshInv, NEW a \in Systems, Leave(a)
  PROVE  MeshInv'
<1>1. /\ a \notin left /\ left' = left \cup {a}
      /\ lost' = {p \in lost : p[1] # a} \cup {p \in connected : p[2] = a}
      /\ connected' = {p \in connected : a \notin {p[1], p[2]}}
      /\ untold' = {p \in untold : p[1] # a}
      /\ streams' = [b \in Systems |-> [c \in Systems |->
                       IF a \in {b, c} THEN <<>> ELSE streams[b][c]]]
      /\ UNCHANGED own /\ UNCHANGED <<reset, drawn>>
  BY DEF Leave
<1>2. \A x, y \in Systems :
        /\ <<x, y>> \in connected' <=> <<x, y>> \in connected /\ x # a /\ y # a
        /\ <<x, y>> \in lost' <=>
             (<<x, y>> \in lost /\ x # a) \/ (<<x, y>> \in connected /\ y = a)
        /\ <<x, y>> \in untold' <=> <<x, y>> \in untold /\ x # a
        /\ streams'[x][y] = IF a \in {x, y} THEN <<>> ELSE streams[x][y]
  BY <1>1
<1>3. OwnTypes'
  BY <1>1 DEF own, MeshInv, Types, OwnTypes, IsList
<1>4. StreamTypes'
  BY <1>1, Nothing DEF MeshInv, Types, StreamTypes
<1>5. NetTypes'
  BY <1>1 DEF MeshInv, Types, NetTypes
<1>6. Network'
  BY <1>1, <1>2 DEF MeshInv, Network
<1>7. Listed'
  BY <1>1, <1>2 DEF own, MeshInv, Listed, Network
<1>8. Counted' /\ Distinct'
  BY <1>1, <1>2, Nothing DEF own, MeshInv, Counted, Distinct
<1>9. Told'
  <2>1. ASSUME NEW x \in Systems, NEW y \in Systems, <<x, y>> \in (connected \ untold)'
        PROVE  Tells(x, y)'
    <3>1. <<x, y>> \in connected \ untold /\ x # a /\ y # a
      BY <1>2, <2>1
    <3>2. Tells(x, y)
      BY <3>1 DEF MeshInv, Told
    <3>3. streams'[x][y] = streams[x][y] /\ streams'[y][x] = streams[y][x]
      BY <1>2, <3>1
    <3> QED
      BY <1>1, <3>2, <3>3 DEF own, Tells
  <2> QED
    BY <2>1 DEF Told
<1>10. HostNear' /\ HostTold'
  BY <1>1 DEF own, MeshInv, HostNear, HostTold
<1> QED
  BY <1>3, <1>4, <1>5, <1>6, <1>7, <1>8, <1>9, <1>10 DEF MeshInv, Types

LEMMA NextKeeps == MeshInv /\ [MeshNext]_meshVars => MeshInv'
<1> SUFFICES ASSUME MeshInv, [MeshNext]_meshVars PROVE MeshInv'
  OBVIOUS
<1>1. ASSUME NEW a \in Systems, NEW b \in Systems \ {a}, Connect(a, b) PROVE MeshInv'
  BY <1>1, ConnectKeeps
<1>2. ASSUME NEW a \in Systems, NEW b \in Systems \ {a}, OnReceive(a, b) PROVE MeshInv'
  BY <1>2, ReceiveKeeps
<1>3. ASSUME NEW a \in Systems, NEW b \in Systems \ {a}, OnNewConnection(a, b) PROVE MeshInv'
  BY <1>3, ToldOfConnected, ToldOfGone
<1>4. ASSUME NEW a \in Systems, NEW b \in Systems \ {a}, OnClosedConnection(a, b) PROVE MeshInv'
  BY <1>4, ClosedKeeps
<1>5. ASSUME NEW a \in Systems, ResetHostCalculation(a) PROVE MeshInv'
  BY <1>5, ResetKeeps
<1>6. ASSUME NEW a \in Systems, Leave(a) PROVE MeshInv'
  BY <1>6, LeaveKeeps
<1>7. CASE UNCHANGED meshVars
  <2>1. OwnTypes'
    BY <1>7 DEF meshVars, own, MeshInv, Types, OwnTypes, IsList
  <2>2. StreamTypes' /\ NetTypes'
    BY <1>7 DEF meshVars, net, MeshInv, Types, StreamTypes, NetTypes
  <2>3. Network' /\ Listed' /\ Counted' /\ Distinct'
    BY <1>7 DEF meshVars, own, net, MeshInv, Network, Listed, Counted, Distinct
  <2>4. Told' /\ HostNear' /\ HostTold'
    BY <1>7 DEF meshVars, own, net, MeshInv, Told, Tells, HostNear, HostTold
  <2> QED
    BY <2>1, <2>2, <2>3, <2>4 DEF MeshInv, Types
<1> QED
  BY <1>1, <1>2, <1>3, <1>4, <1>5, <1>6, <1>7 DEF MeshNext, NetworkStep

LEMMA InvHolds == MeshSpec => []MeshInv
BY InitHolds, NextKeeps, PTL DEF MeshSpec

(***************************************************************************)
(* What follows of a mesh at rest.                                         *)
(***************************************************************************)
LEMMA TypesSuffice == MeshInv => MeshTypeOK
<1> SUFFICES ASSUME MeshInv PROVE MeshTypeOK
  OBVIOUS
<1>1. \A a \in Systems : \E others \in SUBSET (Systems \ {a}) :
        fcm2ParticipantList[a] \in [others -> Nat]
  <2>1. \A a \in Systems : IsList(a, fcm2ParticipantList[a])
    BY DEF MeshInv, Types, OwnTypes
  <2> QED
    BY <2>1 DEF IsList
<1>2. {connected, untold, lost} \subseteq SUBSET (Systems \X Systems)
  BY DEF MeshInv, Types, NetTypes
<1>3. /\ totalConnectionCount \in [Systems -> Nat] /\ ourFCMGuid \in [Systems -> Nat]
      /\ hostRakNetGuid \in [Systems -> Systems \cup {NoHost}]
      /\ lastPushedHost \in [Systems -> Systems \cup {NoHost}]
  BY DEF MeshInv, Types, OwnTypes, Hosts
<1>4. /\ streams \in [Systems -> [Systems -> Seq(Packets)]]
      /\ left \subseteq Systems /\ reset \subseteq Resetters /\ drawn \subseteq 0..Draws - 1
  BY DEF MeshInv, Types, StreamTypes, NetTypes
<1> QED
  BY <1>1, <1>2, <1>3, <1>4 DEF MeshTypeOK

\* At rest nothing is under way.
LEMMA Resting ==
  ASSUME MeshInv, AtRest
  PROVE  /\ untold = {} /\ lost = {}
         /\ \A a, b \in Present : a # b => <<a, b>> \in connected /\ streams[a][b] = <<>>
<1>1. untold \cup lost \subseteq Systems \X Systems
  BY DEF MeshInv, Types, NetTypes
<1>2. \A p \in untold \cup lost : p[1] \notin Systems
  BY DEF AtRest, Settled
<1>3. untold \cup lost = {}
  BY <1>1, <1>2
<1> QED
  BY <1>3 DEF AtRest, Settled, Present

\* Nobody is alone in a mesh at rest.
LEMMA NotAlone ==
  ASSUME AtRest, NEW a \in Present
  PROVE  \E b \in Present : b # a
<1> SUFFICES ASSUME Present = {a} PROVE FALSE
  OBVIOUS
<1>1. Cardinality({a}) = 1
  BY FS_Singleton
<1> QED
  BY <1>1 DEF AtRest

LEMMA IdsKnownHolds == MeshInv => IdsKnown
<1> SUFFICES ASSUME MeshInv, AtRest,
                    NEW a \in Present, NEW b \in Present, a # b
             PROVE  /\ ourFCMGuid[b] # NoId
                    /\ b \in DOMAIN fcm2ParticipantList[a]
                    /\ fcm2ParticipantList[a][b] = ourFCMGuid[b]
  BY DEF IdsKnown
<1>1. /\ a \in Systems /\ b \in Systems
      /\ <<b, a>> \in connected \ untold /\ streams[b][a] = <<>> /\ streams[a][b] = <<>>
  BY Resting DEF Present
<1>2. Tells(b, a)
  BY <1>1 DEF MeshInv, Told
<1>3. ourFCMGuid[b] # NoId
  BY <1>1, <1>2, Nothing DEF Tells
<1> QED
  BY <1>1, <1>2, <1>3, Nothing DEF Tells

\* Everybody in a mesh at rest that nobody left has all ids and was told the host chosen.
LEMMA AllTold ==
  ASSUME MeshInv, AtRest, left = {}, NEW a \in Systems
  PROVE  /\ DOMAIN fcm2ParticipantList[a] = Systems \ {a} /\ ourFCMGuid[a] # NoId
         /\ \A b \in Systems \ {a} :
              fcm2ParticipantList[a][b] = ourFCMGuid[b] /\ ourFCMGuid[b] # NoId
         /\ lastPushedHost[a] = Chosen(a, fcm2ParticipantList[a], ourFCMGuid[a])
<1>1. Present = Systems
  BY DEF Present
<1>2. IsList(a, fcm2ParticipantList[a])
  BY DEF MeshInv, Types, OwnTypes
<1>3. /\ \A b \in Systems \ {a} :
           /\ ourFCMGuid[b] # NoId
           /\ b \in DOMAIN fcm2ParticipantList[a]
           /\ fcm2ParticipantList[a][b] = ourFCMGuid[b]
  BY <1>1, IdsKnownHolds DEF IdsKnown
<1>4. ourFCMGuid[a] # NoId
  <2>1. PICK b \in Systems : b # a
    BY <1>1, NotAlone
  <2> QED
    BY <1>1, <2>1, IdsKnownHolds DEF IdsKnown
<1>5. DOMAIN fcm2ParticipantList[a] = Systems \ {a}
  BY <1>2, <1>3 DEF IsList
<1>6. Complete(fcm2ParticipantList[a])
  BY <1>3, <1>5 DEF Complete
<1> QED
  BY <1>3, <1>4, <1>5, <1>6 DEF MeshInv, HostTold

\* The host told is who has the lowest id of all.
LEMMA LowestIsHost ==
  ASSUME MeshInv, AtRest, left = {}, NEW a \in Systems
  PROVE  lastPushedHost[a] \in Systems /\ \A c \in Systems : ourFCMGuid[lastPushedHost[a]] <= ourFCMGuid[c]
<1> DEFINE list == fcm2ParticipantList[a]
           id == ourFCMGuid[a]
           host == Chosen(a, list, id)
<1>1. /\ DOMAIN list = Systems \ {a} /\ id # NoId
      /\ \A b \in Systems \ {a} : list[b] = ourFCMGuid[b] /\ ourFCMGuid[b] # NoId
      /\ lastPushedHost[a] = host
  BY AllTold
<1>2. IsList(a, list) /\ id \in Nat /\ \A c \in Systems : ourFCMGuid[c] \in Nat
  BY DEF MeshInv, Types, OwnTypes
<1> HIDE DEF list
<1>3. /\ host \in {a} \cup DOMAIN list
      /\ host = a => \A c \in DOMAIN list : list[c] # NoId => id <= list[c]
      /\ host # a => /\ host \in DOMAIN list /\ list[host] < id
                     /\ \A c \in DOMAIN list : list[c] # NoId => list[host] <= list[c]
  BY <1>2, ChosenIs
<1> HIDE DEF host
<1>4. \A c \in Systems : c = a \/ (c \in DOMAIN list /\ list[c] # NoId /\ list[c] = ourFCMGuid[c])
  BY <1>1
<1>5. CASE host = a
  BY <1>1, <1>2, <1>3, <1>4, <1>5
<1>6. CASE host # a
  BY <1>1, <1>2, <1>3, <1>4, <1>6
<1> QED
  BY <1>5, <1>6

LEMMA HostsAgreeHolds == MeshInv => HostsAgree
<1> SUFFICES ASSUME MeshInv, AtRest, left = {},
                    NEW a \in Systems, NEW b \in Systems,
                    hostRakNetGuid[a] # NoHost, hostRakNetGuid[b] # NoHost
             PROVE  hostRakNetGuid[a] = hostRakNetGuid[b]
  BY DEF HostsAgree
<1>1. hostRakNetGuid[a] = lastPushedHost[a] /\ hostRakNetGuid[b] = lastPushedHost[b]
  BY DEF MeshInv, HostTold
<1> DEFINE x == lastPushedHost[a]
           y == lastPushedHost[b]
<1>2. /\ x \in Systems /\ y \in Systems
      /\ ourFCMGuid[x] <= ourFCMGuid[y] /\ ourFCMGuid[y] <= ourFCMGuid[x]
  BY LowestIsHost
<1>3. ourFCMGuid[x] \in Nat /\ ourFCMGuid[y] \in Nat
  BY <1>2 DEF MeshInv, Types, OwnTypes
<1>4. ourFCMGuid[x] = ourFCMGuid[y] /\ ourFCMGuid[x] # NoId
  BY <1>2, <1>3, AllTold
<1>5. x = y
  BY <1>2, <1>4 DEF MeshInv, Distinct
<1> QED
  BY <1>1, <1>5

LEMMA HostIsPresentHolds == MeshInv => HostIsPresent
<1> SUFFICES ASSUME MeshInv, AtRest, NEW a \in Present
             PROVE  hostRakNetGuid[a] \in Present \cup {NoHost}
  BY DEF HostIsPresent
<1>1. lost = {} /\ a \in Systems /\ a \notin left
  BY Resting DEF Present
<1>2. hostRakNetGuid[a] \in {NoHost, a} \cup DOMAIN fcm2ParticipantList[a]
  BY <1>1 DEF MeshInv, HostNear
<1>3. ASSUME NEW b \in DOMAIN fcm2ParticipantList[a] PROVE b \in Present
  <2>1. b \in Systems
    BY <1>1 DEF MeshInv, Types, OwnTypes, IsList
  <2>2. <<a, b>> \in connected
    BY <1>1, <2>1 DEF MeshInv, Listed
  <2> QED
    BY <1>1, <2>1, <2>2 DEF MeshInv, Network, Present
<1> QED
  BY <1>2, <1>3

LEMMA HostKnownHolds == MeshInv => HostKnown
<1> SUFFICES ASSUME MeshInv, AtRest, left = {}, reset = {}, NEW a \in Systems
             PROVE  hostRakNetGuid[a] # NoHost
  BY DEF HostKnown
<1>1. hostRakNetGuid[a] = lastPushedHost[a] /\ lastPushedHost[a] \in Systems
  BY LowestIsHost DEF MeshInv, HostTold
<1> QED
  BY <1>1, MeshAssumption DEF NoHost

(***************************************************************************)
(* Who is first.  As long as nobody left and nobody started over, counts   *)
(* only grow, and ids stay.                                                *)
(***************************************************************************)
\* An id was drawn from this count or a smaller one.
Covers(count, id) == id < (count + 1) * Draws

\* All ids of the founders are lower than any drawn from this count.
Above(count) == \A f \in Founders : ourFCMGuid[f] < count * Draws

\* The count that comes with an id covers it.
Honest(p) == p.type \in {"REQUEST_FCMGUID", "INFORM_FCMGUID"} => Covers(p.count, p.fcmGuid)

AllHonest(s) == \A i \in 1..Len(s) : Honest(s[i])

\* Every system has counted as far as the ids it knows.
CountsFollow ==
  /\ \A a \in Systems :
       /\ Covers(totalConnectionCount[a], ourFCMGuid[a])
       /\ \A b \in DOMAIN fcm2ParticipantList[a] :
            Covers(totalConnectionCount[a], fcm2ParticipantList[a][b])
  /\ \A a, b \in Systems : AllHonest(streams[a][b])

Others == Systems \ Founders

\* The first that one who came later hears is a request with an id, and a count that is
\* beyond all ids of the founders.
Welcomes(p) == p.type = "REQUEST_FCMGUID" /\ p.fcmGuid # NoId /\ Above(p.count + 1)

Greets(a, c) ==
  /\ ourFCMGuid[a] # NoId
  /\ \/ streams[a][c] = <<>> /\ c \notin DOMAIN fcm2ParticipantList[a]
     \/ streams[a][c] # <<>> /\ Welcomes(Head(streams[a][c]))

Begun == \E c \in Others, a \in Systems : <<a, c>> \in connected

\* Who is no founder came when the founders had settled.
OthersFollow ==
  /\ Begun => \A f \in Founders : ourFCMGuid[f] # NoId
  /\ Begun => \A a \in Systems : ourFCMGuid[a] # NoId => Above(totalConnectionCount[a] + 1)
  /\ \A c \in Others : ourFCMGuid[c] # NoId =>
       Begun /\ \A f \in Founders : ourFCMGuid[f] < ourFCMGuid[c]
  /\ \A c \in Others, a \in Systems :
       ourFCMGuid[c] = NoId /\ <<a, c>> \in connected => Greets(a, c)

FirstInv == left \cup reset = {} => CountsFollow /\ OthersFollow

\* Products with Draws grow.
LEMMA Products ==
  ASSUME NEW n \in Nat, NEW m \in Nat, n <= m
  PROVE  n * Draws \in Nat /\ m * Draws \in Nat /\ n * Draws <= m * Draws
<1>1. (m - n) \in Nat /\ Draws \in Nat
  BY MeshAssumption
<1>2. m * Draws = n * Draws + (m - n) * Draws
  BY <1>1
<1>3. (m - n) * Draws \in Nat /\ n * Draws \in Nat
  BY <1>1
<1> QED
  BY <1>2, <1>3

LEMMA CoversMore ==
  ASSUME NEW n \in Nat, NEW m \in Nat, n <= m, NEW id \in Nat, Covers(n, id)
  PROVE  Covers(m, id)
<1>1. (n + 1) * Draws \in Nat /\ (m + 1) * Draws \in Nat /\ (n + 1) * Draws <= (m + 1) * Draws
  BY Products
<1> QED
  BY <1>1 DEF Covers

LEMMA IdCovered ==
  ASSUME NEW k \in Nat, NEW n \in Nat, k <= n, NEW random \in 0..Draws - 1
  PROVE  Covers(n, Id(k, random))
<1>1. Draws \in Nat /\ k * Draws \in Nat /\ (k + 1) * Draws = k * Draws + Draws
  BY MeshAssumption
<1>2. Covers(k, Id(k, random)) /\ Id(k, random) \in Nat
  BY <1>1 DEF Covers, Id
<1> QED
  BY <1>2, CoversMore

LEMMA NoIdCovered ==
  ASSUME NEW n \in Nat
  PROVE  Covers(n, NoId)
<1>1. Draws \in Nat \ {0} /\ n * Draws \in Nat /\ (n + 1) * Draws = n * Draws + Draws
  BY MeshAssumption
<1> QED
  BY <1>1 DEF Covers, NoId

LEMMA AboveMore ==
  ASSUME ourFCMGuid \in [Systems -> Nat], NEW n \in Nat, NEW m \in Nat, n <= m, Above(n)
  PROVE  Above(m)
<1>1. n * Draws \in Nat /\ m * Draws \in Nat /\ n * Draws <= m * Draws
  BY Products
<1>2. \A f \in Founders : ourFCMGuid[f] \in Nat
  BY MeshAssumption
<1> QED
  BY <1>1, <1>2 DEF Above

LEMMA AboveId ==
  ASSUME ourFCMGuid \in [Systems -> Nat], NEW k \in Nat, NEW random \in Nat, Above(k)
  PROVE  \A f \in Founders : ourFCMGuid[f] < Id(k, random)
<1>1. k * Draws \in Nat
  BY MeshAssumption
<1>2. \A f \in Founders : ourFCMGuid[f] \in Nat
  BY MeshAssumption
<1> QED
  BY <1>1, <1>2 DEF Above, Id

\* What is sent is honest as long as its sender has counted as far as its own id.
LEMMA HonestSent ==
  ASSUME NEW s \in Seq(Packets), AllHonest(s), NEW out, NEW id, NEW total,
         Bears(out, id, total), Covers(total, id)
  PROVE  AllHonest(s \o out)
<1>1. CASE out = <<>>
  <2>1. s \o out = s
    BY <1>1
  <2> QED
    BY <2>1
<1>2. CASE out # <<>>
  <2>1. PICK q \in Packets :
          /\ out = <<q>>
          /\ q.type \in {"REQUEST_FCMGUID", "INFORM_FCMGUID"} => q.fcmGuid = id /\ q.count = total
    BY <1>2 DEF Bears
  <2>2. Honest(q)
    BY <2>1 DEF Honest
  <2> DEFINE t == s \o <<q>>
  <2>3. /\ Len(t) = Len(s) + 1 /\ t[Len(s) + 1] = q /\ Len(s) \in Nat
        /\ \A i \in 1..Len(s) : t[i] = s[i]
    OBVIOUS
  <2> HIDE DEF t
  <2>4. \A i \in 1..Len(t) : i \in 1..Len(s) \/ i = Len(s) + 1
    BY <2>3
  <2>5. AllHonest(t)
    BY <2>2, <2>3, <2>4 DEF AllHonest
  <2> QED
    BY <2>1, <2>5 DEF t
<1> QED
  BY <1>1, <1>2

LEMMA HonestTaken ==
  ASSUME NEW s \in Seq(Packets), s # <<>>, AllHonest(s)
  PROVE  Honest(Head(s)) /\ AllHonest(Tail(s))
<1> DEFINE t == Tail(s)
<1>1. /\ Len(s) \in Nat /\ Len(t) = Len(s) - 1 /\ Len(s) >= 1 /\ Head(s) = s[1]
      /\ \A i \in 1..Len(t) : t[i] = s[i + 1]
  BY HeadTailProperties, LenProperties, EmptySeq
<1> HIDE DEF t
<1>2. 1 \in 1..Len(s) /\ \A i \in 1..Len(t) : i + 1 \in 1..Len(s)
  BY <1>1
<1>3. Honest(Head(s)) /\ AllHonest(t)
  BY <1>1, <1>2 DEF AllHonest
<1> QED
  BY <1>3 DEF t

LEMMA FirstInit == MeshInit => FirstInv
<1> SUFFICES ASSUME MeshInit PROVE CountsFollow /\ OthersFollow
  BY DEF FirstInv
<1>1. /\ \A a \in Systems : /\ DOMAIN fcm2ParticipantList[a] = {}
                            /\ ourFCMGuid[a] = NoId /\ totalConnectionCount[a] = 0
      /\ \A a, b \in Systems : streams[a][b] = <<>>
      /\ connected = {}
  BY DEF MeshInit
<1>2. AllHonest(<<>>)
  <2>1. Len(<<>>) = 0 /\ 1..0 = {}
    OBVIOUS
  <2> QED
    BY <2>1 DEF AllHonest
<1>3. CountsFollow
  BY <1>1, <1>2, NoIdCovered DEF CountsFollow
<1>4. OthersFollow
  BY <1>1 DEF OthersFollow, Begun, Others
<1> QED
  BY <1>3, <1>4

(***************************************************************************)
(* A packet, as long as nobody left and nobody started over.               *)
(***************************************************************************)
\* What handling a packet does to counts, ids and streams.
Counting(a, b, p, random, s) ==
  /\ \A c \in Systems :
       /\ fcm2ParticipantList'[c] = IF c = a THEN s.list ELSE fcm2ParticipantList[c]
       /\ totalConnectionCount'[c] = IF c = a THEN s.total ELSE totalConnectionCount[c]
       /\ ourFCMGuid'[c] = IF c = a THEN s.id ELSE ourFCMGuid[c]
  /\ \A x, y \in Systems :
       streams'[x][y] = IF x = a THEN Sent(a, s, y)
                        ELSE IF x = b /\ y = a THEN Tail(streams[b][a]) ELSE streams[x][y]
  /\ connected' = connected /\ <<b, a>> \in connected
  /\ streams[b][a] # <<>> /\ p = Head(streams[b][a])
  /\ p \in Packets /\ random \in 0..Draws - 1
  /\ s.list = ListAfter(a, b, p) /\ b \in DOMAIN fcm2ParticipantList[a]
  /\ s.total \in Nat /\ s.id \in Nat
  /\ s.id = ourFCMGuid[a] \/ ourFCMGuid[a] = NoId
  /\ ourFCMGuid[a] = NoId /\ Carries(p) => s.id # NoId
  /\ Counts(a, p, random, s)

LEMMA ReceivedIsCounted ==
  ASSUME MeshInv, NEW a \in Systems, NEW b \in Systems \ {a}, NEW p,
         NEW random \in 0..Draws - 1, NEW s, Received(a, b, p, random, s)
  PROVE  Counting(a, b, p, random, s)
<1>1. \A c \in Systems :
        /\ fcm2ParticipantList'[c] = IF c = a THEN s.list ELSE fcm2ParticipantList[c]
        /\ totalConnectionCount'[c] = IF c = a THEN s.total ELSE totalConnectionCount[c]
        /\ ourFCMGuid'[c] = IF c = a THEN s.id ELSE ourFCMGuid[c]
  BY Stored DEF Received, MeshInv, Types
<1>2. \A x, y \in Systems :
        streams'[x][y] = IF x = a THEN Sent(a, s, y)
                         ELSE IF x = b /\ y = a THEN Tail(streams[b][a]) ELSE streams[x][y]
  BY DEF Received, Flow
<1>3. connected' = connected /\ <<b, a>> \in connected /\ streams[b][a] # <<>>
      /\ p = Head(streams[b][a]) /\ Handles(a, b, p, random) /\ Outcome(a, b, p, random, s)
  BY DEF Received, Hears
<1>4. Valid(a, s)
  BY <1>3, OutcomeValid DEF MeshInv, Types
<1> QED
  BY <1>1, <1>2, <1>3, <1>4 DEF Counting, Outcome, Numbered, Handles, Valid

LEMMA CountedFollow ==
  ASSUME MeshInv, CountsFollow, NEW a \in Systems, NEW b \in Systems \ {a}, NEW p, NEW random,
         NEW s, Counting(a, b, p, random, s)
  PROVE  CountsFollow'
<1>1. /\ s.total \in Nat /\ s.id \in Nat /\ totalConnectionCount[a] \in Nat /\ ourFCMGuid[a] \in Nat
      /\ s.total >= totalConnectionCount[a] /\ IsList(a, fcm2ParticipantList[a])
  BY DEF Counting, Counts, MeshInv, Types, OwnTypes
<1>2. \A x, y \in Systems : streams[x][y] \in Seq(Packets) /\ AllHonest(streams[x][y])
  BY DEF MeshInv, Types, StreamTypes, CountsFollow
<1>3. p \in Packets /\ Honest(p) /\ AllHonest(Tail(streams[b][a]))
  BY <1>2, HonestTaken DEF Counting
<1>4. \A id \in Nat : Covers(totalConnectionCount[a], id) => Covers(s.total, id)
  BY <1>1, CoversMore
<1>5. Covers(s.total, s.id)
  <2>1. CASE s.id = ourFCMGuid[a]
    BY <1>1, <1>4, <2>1 DEF CountsFollow
  <2>2. CASE \E k \in Nat : k <= s.total /\ s.id = Id(k, random)
    <3>1. PICK k \in Nat : k <= s.total /\ s.id = Id(k, random)
      BY <2>2
    <3>2. random \in 0..Draws - 1
      BY DEF Counting
    <3> QED
      BY <1>1, <3>1, <3>2, IdCovered
  <2>3. Counts(a, p, random, s)
    BY DEF Counting
  <2>4. s.id = ourFCMGuid[a] \/ \E k \in Nat : k <= s.total /\ s.id = Id(k, random)
    BY <2>3 DEF Counts
  <2> QED
    BY <2>1, <2>2, <2>4
<1>6. ASSUME NEW d \in DOMAIN s.list PROVE Covers(s.total, s.list[d])
  <2>1. CASE Carries(p) /\ d = b
    <3>1. s.list[d] = p.fcmGuid
      BY <2>1 DEF Counting, ListAfter
    <3>2. /\ p.fcmGuid \in Nat /\ p.count \in Nat /\ Covers(p.count, p.fcmGuid)
          /\ p.count <= s.total
      BY <1>1, <1>3, <2>1 DEF Carries, Honest, Packets, Counting, Counts
    <3> QED
      BY <1>1, <3>1, <3>2, CoversMore
  <2>2. CASE ~(Carries(p) /\ d = b)
    <3>1. d \in DOMAIN fcm2ParticipantList[a] /\ s.list[d] = fcm2ParticipantList[a][d]
      BY <2>2 DEF Counting, ListAfter
    <3>2. Covers(totalConnectionCount[a], fcm2ParticipantList[a][d])
          /\ fcm2ParticipantList[a][d] \in Nat
      BY <1>1, <3>1 DEF CountsFollow, IsList
    <3> QED
      BY <1>4, <3>1, <3>2
  <2> QED
    BY <2>1, <2>2
<1>7. ASSUME NEW x \in Systems, NEW y \in Systems PROVE AllHonest(streams'[x][y])
  <2>1. CASE x = a
    <3>1. Bears(s.out[y], s.id, s.total)
      BY DEF Counting, Counts
    <3>2. AllHonest(streams[a][y] \o s.out[y])
      BY <1>2, <1>5, <3>1, HonestSent
    <3> QED
      BY <1>2, <2>1, <3>2 DEF Counting, Sent
  <2>2. CASE x # a
    BY <1>2, <1>3, <2>2 DEF Counting
  <2> QED
    BY <2>1, <2>2
<1>8. \A c \in Systems :
        /\ Covers(totalConnectionCount'[c], ourFCMGuid'[c])
        /\ \A d \in DOMAIN fcm2ParticipantList'[c] :
             Covers(totalConnectionCount'[c], fcm2ParticipantList'[c][d])
  BY <1>5, <1>6 DEF Counting, CountsFollow
<1> QED
  BY <1>7, <1>8 DEF CountsFollow, AllHonest, Honest, Covers

\* What is sent goes behind what is on its way.
LEMMA FirstStays ==
  ASSUME NEW s \in Seq(Packets), s # <<>>, NEW out,
         out = <<>> \/ \E q \in Packets : out = <<q>>
  PROVE  s \o out # <<>> /\ Head(s \o out) = Head(s)
<1>1. CASE out = <<>>
  <2>1. s \o out = s
    BY <1>1
  <2> QED
    BY <2>1
<1>2. CASE \E q \in Packets : out = <<q>>
  <2>1. PICK q \in Packets : out = <<q>>
    BY <1>2
  <2> DEFINE t == s \o <<q>>
  <2>2. Len(s) \in Nat /\ Len(s) >= 1 /\ Head(s) = s[1]
    BY HeadTailProperties, LenProperties, EmptySeq
  <2>3. t \in Seq(Packets) /\ Len(t) = Len(s) + 1 /\ \A i \in 1..Len(s) : t[i] = s[i]
    OBVIOUS
  <2>4. 1 \in 1..Len(s)
    BY <2>2
  <2> HIDE DEF t
  <2>5. t # <<>> /\ Head(t) = t[1]
    BY <2>2, <2>3, HeadTailProperties, LenProperties, EmptySeq
  <2> QED
    BY <2>1, <2>2, <2>3, <2>4, <2>5 DEF t
<1> QED
  BY <1>1, <1>2

\* Who is no founder draws its id from the first packet it hears.
LEMMA FirstHeard ==
  ASSUME OthersFollow, NEW a \in Systems, NEW b \in Systems \ {a}, NEW p, NEW random, NEW s,
         Counting(a, b, p, random, s), a \in Others, ourFCMGuid[a] = NoId
  PROVE  /\ Begun /\ Carries(p) /\ p.type = "REQUEST_FCMGUID" /\ Above(p.count + 1)
         /\ s.id # NoId
<1>1. <<b, a>> \in connected /\ streams[b][a] # <<>> /\ p = Head(streams[b][a])
  BY DEF Counting
<1>2. Begun
  BY <1>1 DEF Begun
<1>3. Greets(b, a)
  BY <1>1 DEF OthersFollow
<1>4. Welcomes(p)
  BY <1>1, <1>3 DEF Greets
<1>5. Carries(p)
  BY <1>4 DEF Welcomes, Carries
<1> QED
  BY <1>2, <1>4, <1>5 DEF Welcomes, Counting

LEMMA ReceivedFollow ==
  ASSUME MeshInv, OthersFollow, NEW a \in Systems, NEW b \in Systems \ {a}, NEW p, NEW random,
         NEW s, Counting(a, b, p, random, s)
  PROVE  OthersFollow'
<1>1. /\ ourFCMGuid \in [Systems -> Nat] /\ totalConnectionCount \in [Systems -> Nat]
      /\ Founders \subseteq Systems
  BY MeshAssumption DEF MeshInv, Types, OwnTypes
<1>2. /\ \A c \in Systems :
           /\ fcm2ParticipantList'[c] = IF c = a THEN s.list ELSE fcm2ParticipantList[c]
           /\ totalConnectionCount'[c] = IF c = a THEN s.total ELSE totalConnectionCount[c]
           /\ ourFCMGuid'[c] = IF c = a THEN s.id ELSE ourFCMGuid[c]
      /\ connected' = connected /\ <<b, a>> \in connected
      /\ s.id = ourFCMGuid[a] \/ ourFCMGuid[a] = NoId
      /\ s.total \in Nat /\ s.total >= totalConnectionCount[a]
      /\ p \in Packets /\ random \in Nat
  BY DEF Counting, Counts
<1>3. Begun' <=> Begun
  BY <1>2 DEF Begun
<1>4. ASSUME Begun PROVE \A f \in Founders : ourFCMGuid[f] # NoId /\ ourFCMGuid'[f] = ourFCMGuid[f]
  BY <1>1, <1>2, <1>4 DEF OthersFollow
<1>5. ASSUME Begun, NEW n, Above(n) PROVE Above(n)'
  BY <1>4, <1>5 DEF Above
<1>6. Begun' => \A f \in Founders : ourFCMGuid'[f] # NoId
  BY <1>3, <1>4
<1>7. ASSUME ourFCMGuid[a] = NoId, a \in Others
      PROVE  /\ Begun /\ Carries(p) /\ p.type = "REQUEST_FCMGUID" /\ Above(p.count + 1)
             /\ s.id # NoId
  BY <1>7, FirstHeard
<1>8. ASSUME Begun, ourFCMGuid[a] = NoId PROVE a \in Others
  BY <1>4, <1>8 DEF Others
<1>9. ASSUME Begun, NEW c \in Systems, ourFCMGuid'[c] # NoId
      PROVE  \A f \in Founders : ourFCMGuid'[f] < (totalConnectionCount'[c] + 1) * Draws
  <2>1. CASE ourFCMGuid[c] # NoId
    <3>1. totalConnectionCount[c] \in Nat /\ totalConnectionCount'[c] \in Nat
          /\ totalConnectionCount[c] + 1 <= totalConnectionCount'[c] + 1
      BY <1>1, <1>2
    <3>2. Above(totalConnectionCount[c] + 1)
      BY <1>9, <2>1 DEF OthersFollow
    <3>3. Above(totalConnectionCount'[c] + 1)
      BY <1>1, <3>1, <3>2, AboveMore
    <3> QED
      BY <1>4, <1>9, <3>3 DEF Above
  <2>2. CASE ourFCMGuid[c] = NoId
    <3>1. c = a /\ a \in Others
      BY <1>2, <1>8, <1>9, <2>2
    <3>2. /\ Carries(p) /\ Above(p.count + 1)
      BY <1>7, <2>2, <3>1
    <3>3. p.count \in Nat /\ p.count + 1 <= s.total + 1
      BY <1>2, <3>2 DEF Counting, Counts, Packets
    <3>4. Above(s.total + 1)
      BY <1>1, <1>2, <3>2, <3>3, AboveMore
    <3>5. totalConnectionCount'[c] = s.total
      BY <1>2, <3>1
    <3> QED
      BY <1>4, <1>9, <3>4, <3>5 DEF Above
  <2> QED
    BY <2>1, <2>2
<1>10. ASSUME NEW c \in Others, ourFCMGuid'[c] # NoId
       PROVE  Begun' /\ \A f \in Founders : ourFCMGuid'[f] < ourFCMGuid'[c]
  <2>1. c \in Systems
    BY DEF Others
  <2>2. CASE ourFCMGuid[c] # NoId
    <3>1. Begun /\ \A f \in Founders : ourFCMGuid[f] < ourFCMGuid[c]
      BY <2>2 DEF OthersFollow
    <3>2. ourFCMGuid'[c] = ourFCMGuid[c]
      BY <1>2, <2>1, <2>2
    <3> QED
      BY <1>3, <1>4, <3>1, <3>2
  <2>3. CASE ourFCMGuid[c] = NoId
    <3>1. c = a
      BY <1>2, <1>10, <2>1, <2>3
    <3>2. Begun /\ p.type = "REQUEST_FCMGUID" /\ Above(p.count + 1)
      BY <1>7, <2>3, <3>1
    <3>3. s.id # ourFCMGuid[a]
      BY <1>2, <1>10, <2>1, <2>3, <3>1
    <3>4. Counts(a, p, random, s)
      BY DEF Counting
    <3>5. \E k \in Nat : s.id = Id(k, random) /\ k > p.count
      BY <3>2, <3>3, <3>4 DEF Counts
    <3>6. PICK k \in Nat : s.id = Id(k, random) /\ k > p.count
      BY <3>5
    <3>7. p.count \in Nat
      BY <1>2, <3>2 DEF Packets
    <3>8. Above(k)
      BY <1>1, <3>2, <3>6, <3>7, AboveMore
    <3>9. \A f \in Founders : ourFCMGuid[f] < s.id
      BY <1>1, <1>2, <3>6, <3>8, AboveId
    <3> QED
      BY <1>2, <1>3, <1>4, <2>1, <3>1, <3>2, <3>9
  <2> QED
    BY <2>2, <2>3
<1>11. ASSUME NEW c \in Others, NEW x \in Systems, ourFCMGuid'[c] = NoId, <<x, c>> \in connected'
       PROVE  Greets(x, c)'
  <2>1. c \in Systems
    BY DEF Others
  <2>2. c # a /\ ourFCMGuid[c] = NoId
    BY <1>2, <1>7, <1>11, <2>1
  <2>3. Begun
    BY <1>2, <1>11 DEF Begun
  <2>4. Greets(x, c)
    BY <1>2, <1>11, <2>2 DEF OthersFollow
  <2>5. ASSUME NEW q, Welcomes(q) PROVE Welcomes(q)'
    BY <1>5, <2>3, <2>5 DEF Welcomes
  <2>6. ourFCMGuid'[x] = ourFCMGuid[x] /\ ourFCMGuid[x] # NoId
    BY <1>2, <2>4 DEF Greets
  <2>7. CASE x # a
    <3>1. streams'[x][c] = streams[x][c] /\ fcm2ParticipantList'[x] = fcm2ParticipantList[x]
      BY <1>2, <2>1, <2>2, <2>7 DEF Counting
    <3> QED
      BY <2>4, <2>5, <2>6, <3>1 DEF Greets
  <2>8. CASE x = a
    <3>1. streams'[a][c] = streams[a][c] \o s.out[c] /\ streams[a][c] \in Seq(Packets)
      BY <1>2, <1>11, <2>1, <2>8 DEF Counting, Sent, MeshInv, Types, StreamTypes
    <3>2. CASE streams[a][c] = <<>> /\ c \notin DOMAIN fcm2ParticipantList[a]
      <4>1. s.out[c] = <<>>
        BY <2>1, <3>2 DEF Counting, Counts
      <4>2. streams'[a][c] = <<>>
        BY <3>1, <3>2, <4>1
      <4>3. DOMAIN s.list = DOMAIN fcm2ParticipantList[a]
        BY DEF Counting, ListAfter
      <4> QED
        BY <1>2, <2>6, <2>8, <3>2, <4>2, <4>3 DEF Greets
    <3>3. CASE streams[a][c] # <<>> /\ Welcomes(Head(streams[a][c]))
      <4>1. s.out[c] = <<>> \/ \E q \in Packets : s.out[c] = <<q>>
        BY <2>1 DEF Counting, Counts, Bears
      <4>2. streams'[a][c] # <<>> /\ Head(streams'[a][c]) = Head(streams[a][c])
        BY <3>1, <3>3, <4>1, FirstStays
      <4> QED
        BY <2>5, <2>6, <2>8, <3>3, <4>2 DEF Greets
    <3> QED
      BY <2>4, <2>8, <3>2, <3>3 DEF Greets
  <2> QED
    BY <2>7, <2>8
<1>12. \A c \in Systems : Begun' /\ ourFCMGuid'[c] # NoId =>
         \A f \in Founders : ourFCMGuid'[f] < (totalConnectionCount'[c] + 1) * Draws
  BY <1>3, <1>9
<1> QED
  BY <1>6, <1>10, <1>11, <1>12 DEF OthersFollow, Above, Others

LEMMA ReceiveFollows ==
  ASSUME MeshInv, CountsFollow, OthersFollow, NEW a \in Systems, NEW b \in Systems \ {a},
         OnReceive(a, b)
  PROVE  CountsFollow' /\ OthersFollow'
<1>1. PICK p, random, s : random \in 0..Draws - 1 /\ Received(a, b, p, random, s)
  BY ReceiveIs
<1>2. Counting(a, b, p, random, s)
  BY <1>1, ReceivedIsCounted
<1> QED
  BY <1>2, CountedFollow, ReceivedFollow

(***************************************************************************)
(* The other steps, as long as nobody left and nobody started over.        *)
(***************************************************************************)
LEMMA NewConnectionFollows ==
  ASSUME MeshInv, CountsFollow, OthersFollow, left = {}, NEW a \in Systems, NEW b \in Systems \ {a},
         OnNewConnection(a, b)
  PROVE  CountsFollow' /\ OthersFollow'
<1> DEFINE s == AddParticipantInternal(State(a), b, NoId)
<1>1. <<a, b>> \in connected /\ b \notin DOMAIN fcm2ParticipantList[a]
  BY DEF OnNewConnection, MeshInv, Network, Listed
<1>2. /\ Store(a, s) /\ streams' = [streams EXCEPT ![a] = [c \in Systems |-> Sent(a, s, c)]]
      /\ connected' = connected
  BY <1>1 DEF OnNewConnection
<1>3. PICK q \in Packets : Asks(a, b, s, q)
  <2>1. OwnTypes /\ (ourFCMGuid[a] # NoId => totalConnectionCount[a] # 0)
    BY DEF MeshInv, Types, Counted
  <2>2. s = AddParticipantInternal(State(a), b, NoId)
    OBVIOUS
  <2> HIDE DEF s
  <2> QED
    BY <1>1, <2>1, <2>2, NewcomerAdded
<1> HIDE DEF s
<1>4. /\ \A c \in Systems :
           /\ fcm2ParticipantList'[c] = IF c = a THEN s.list ELSE fcm2ParticipantList[c]
           /\ totalConnectionCount'[c] = totalConnectionCount[c]
           /\ ourFCMGuid'[c] = ourFCMGuid[c]
  BY <1>2, <1>3, Stored DEF Asks, MeshInv, Types
<1>5. /\ s.list = [c \in DOMAIN fcm2ParticipantList[a] \cup {b} |->
                     IF c = b THEN NoId ELSE fcm2ParticipantList[a][c]]
      /\ s.out = [c \in Systems |-> IF c = b THEN <<q>> ELSE <<>>]
      /\ IF ourFCMGuid[a] = NoId THEN Queries(q)
         ELSE Carries(q) /\ q.type = "REQUEST_FCMGUID" /\ q.count = totalConnectionCount[a]
      /\ Carries(q) => q.fcmGuid = ourFCMGuid[a]
  BY <1>3 DEF Asks
<1>6. \A x, y \in Systems : streams[x][y] \in Seq(Packets)
  BY DEF MeshInv, Types, StreamTypes
<1>7. \A x, y \in Systems : streams'[x][y] =
        IF x = a /\ y = b THEN streams[a][b] \o <<q>> ELSE streams[x][y]
  <2>1. Flow(a, s, {})
    BY <1>2, Sending DEF MeshInv, Types
  <2>2. \A y \in Systems : Sent(a, s, y) = IF y = b THEN streams[a][b] \o <<q>> ELSE streams[a][y]
    <3> SUFFICES ASSUME NEW y \in Systems
                 PROVE  Sent(a, s, y) = IF y = b THEN streams[a][b] \o <<q>> ELSE streams[a][y]
      OBVIOUS
    <3>1. s.out[y] = IF y = b THEN <<q>> ELSE <<>>
      BY <1>5
    <3>2. streams[a][y] \o <<>> = streams[a][y]
      BY <1>6
    <3> QED
      BY <1>1, <3>1, <3>2 DEF Sent
  <2> QED
    BY <2>1, <2>2 DEF Flow
<1>8. totalConnectionCount[a] \in Nat /\ q.type = "REQUEST_FCMGUID"
      /\ (q.count \in Nat /\ Covers(q.count, q.fcmGuid))
  <2>1. totalConnectionCount[a] \in Nat
    BY DEF MeshInv, Types, OwnTypes
  <2>2. CASE ourFCMGuid[a] = NoId
    <3>1. q.type = "REQUEST_FCMGUID" /\ q.fcmGuid = NoId
      BY <1>5, <2>2 DEF Queries
    <3>2. q.count \in Nat
      BY <3>1 DEF Packets
    <3> QED
      BY <2>1, <3>1, <3>2, NoIdCovered
  <2>3. CASE ourFCMGuid[a] # NoId
    <3>1. q.type = "REQUEST_FCMGUID" /\ q.fcmGuid = ourFCMGuid[a] /\ q.count = totalConnectionCount[a]
      BY <1>5, <2>3
    <3> QED
      BY <2>1, <3>1 DEF CountsFollow
  <2> QED
    BY <2>2, <2>3
<1>9. CountsFollow'
  <2>1. \A c \in Systems :
          /\ Covers(totalConnectionCount'[c], ourFCMGuid'[c])
          /\ \A d \in DOMAIN fcm2ParticipantList'[c] :
               Covers(totalConnectionCount'[c], fcm2ParticipantList'[c][d])
    <3>1. \A d \in DOMAIN s.list : Covers(totalConnectionCount[a], s.list[d])
      BY <1>5, <1>8, NoIdCovered DEF CountsFollow
    <3> QED
      BY <1>4, <3>1 DEF CountsFollow
  <2>2. \A x, y \in Systems : AllHonest(streams'[x][y])
    <3>1. AllHonest(streams[a][b] \o <<q>>)
      <4>1. Bears(<<q>>, q.fcmGuid, q.count)
        BY DEF Bears
      <4> QED
        BY <1>6, <1>8, <4>1, HonestSent DEF CountsFollow
    <3> QED
      BY <1>7, <3>1 DEF CountsFollow
  <2> QED
    BY <2>1, <2>2 DEF CountsFollow, AllHonest, Honest, Covers
<1>10. (Begun' <=> Begun) /\ \A n : Above(n)' <=> Above(n)
  BY <1>2, <1>4, MeshAssumption DEF Begun, Above
<1>11. \A p : Welcomes(p)' <=> Welcomes(p)
  BY <1>10 DEF Welcomes
<1>12. ASSUME NEW c \in Others, NEW x \in Systems, ourFCMGuid'[c] = NoId, <<x, c>> \in connected'
       PROVE  Greets(x, c)'
  <2>1. c \in Systems
    BY DEF Others
  <2>2. Greets(x, c) /\ ourFCMGuid[x] # NoId /\ ourFCMGuid'[x] # NoId
    BY <1>2, <1>4, <1>12, <2>1 DEF OthersFollow, Greets
  <2>3. CASE x # a
    BY <1>4, <1>7, <1>11, <2>1, <2>2, <2>3 DEF Greets
  <2>4. CASE x = a /\ c # b
    <3>1. streams'[a][c] = streams[a][c]
      BY <1>7, <2>1, <2>4
    <3>2. c \in DOMAIN fcm2ParticipantList'[a] => c \in DOMAIN fcm2ParticipantList[a]
      BY <1>4, <1>5, <2>4
    <3> QED
      BY <1>11, <2>2, <2>4, <3>1, <3>2 DEF Greets
  <2>5. CASE x = a /\ c = b
    <3>1. streams'[a][b] = streams[a][b] \o <<q>>
      BY <1>7
    <3>2. CASE streams[a][b] = <<>>
      <4>1. streams'[a][b] = <<q>>
        BY <3>1, <3>2
      <4>2. Begun
        BY <1>2, <1>12, <2>1 DEF Begun
      <4>3. Welcomes(q)
        BY <1>5, <2>2, <2>5, <4>2 DEF Welcomes, Carries, OthersFollow
      <4> QED
        BY <1>11, <2>2, <2>5, <4>1, <4>3 DEF Greets
    <3>3. CASE streams[a][b] # <<>>
      <4>1. streams'[a][b] # <<>> /\ Head(streams'[a][b]) = Head(streams[a][b])
        BY <1>6, <3>1, <3>3, FirstStays
      <4> QED
        BY <1>11, <2>2, <2>5, <3>3, <4>1 DEF Greets
    <3> QED
      BY <3>2, <3>3
  <2> QED
    BY <2>3, <2>4, <2>5
<1>13. OthersFollow'
  <2>1. Begun' => \A f \in Founders : ourFCMGuid'[f] # NoId
    BY <1>4, <1>10, MeshAssumption DEF OthersFollow
  <2>2. \A c \in Systems : Begun' /\ ourFCMGuid'[c] # NoId =>
          \A f \in Founders : ourFCMGuid'[f] < (totalConnectionCount'[c] + 1) * Draws
    BY <1>4, <1>10, MeshAssumption DEF OthersFollow, Above
  <2>3. \A c \in Others : ourFCMGuid'[c] # NoId =>
          Begun' /\ \A f \in Founders : ourFCMGuid'[f] < ourFCMGuid'[c]
    BY <1>4, <1>10, MeshAssumption DEF OthersFollow, Others
  <2> QED
    BY <1>12, <2>1, <2>2, <2>3 DEF OthersFollow, Above, Others
<1> QED
  BY <1>9, <1>13

\* When the founders have met, each has counted as far as all their ids.
LEMMA FoundersCount ==
  ASSUME MeshInv, CountsFollow, FoundersMet, left = {}, NEW a \in Founders
  PROVE  Above(totalConnectionCount[a] + 1)
<1>1. Founders \subseteq Systems
  BY MeshAssumption
<1> SUFFICES ASSUME NEW f \in Founders
             PROVE  ourFCMGuid[f] < (totalConnectionCount[a] + 1) * Draws
  BY DEF Above
<1>2. CASE f = a
  BY <1>1, <1>2 DEF CountsFollow, Covers
<1>3. CASE f # a
  <2>1. <<f, a>> \in connected \ untold /\ streams[f][a] = <<>> /\ ourFCMGuid[f] # NoId
    BY <1>3 DEF FoundersMet, Settled
  <2>2. Tells(f, a)
    BY <1>1, <2>1 DEF MeshInv, Told
  <2>3. f \in DOMAIN fcm2ParticipantList[a] /\ fcm2ParticipantList[a][f] = ourFCMGuid[f]
    BY <2>1, <2>2, Nothing DEF Tells
  <2> QED
    BY <1>1, <2>3 DEF CountsFollow, Covers
<1> QED
  BY <1>2, <1>3

LEMMA ConnectFollows ==
  ASSUME MeshInv, CountsFollow, OthersFollow, left = {}, NEW a \in Systems, NEW b \in Systems,
         Connect(a, b)
  PROVE  CountsFollow' /\ OthersFollow'
<1>1. /\ a # b /\ {<<a, b>>, <<b, a>>} \cap (connected \cup lost) = {}
      /\ connected' = connected \cup {<<a, b>>, <<b, a>>}
      /\ UNCHANGED own /\ streams' = streams
      /\ {a, b} \subseteq Founders \/ (FoundersMet /\ \E c \in {a, b} : ourFCMGuid[c] # NoId)
  BY DEF Connect
<1>2. /\ fcm2ParticipantList' = fcm2ParticipantList
      /\ totalConnectionCount' = totalConnectionCount /\ ourFCMGuid' = ourFCMGuid
  BY <1>1 DEF own
<1>3. CountsFollow'
  BY <1>1, <1>2 DEF CountsFollow, AllHonest, Honest, Covers
<1>4. \A x, y \in Systems : <<x, y>> \in connected' =>
        <<x, y>> \in connected \/ (<<x, y>> = <<a, b>> \/ <<x, y>> = <<b, a>>)
  BY <1>1
<1>5. \A n : Above(n)' <=> Above(n)
  BY <1>2 DEF Above
<1>6. \A x, c \in Systems : Greets(x, c) => Greets(x, c)'
  BY <1>1, <1>2, <1>5 DEF Greets, Welcomes
<1>7. CASE {a, b} \subseteq Founders
  <2>1. \A c \in Others, x \in Systems : <<x, c>> \in connected' => <<x, c>> \in connected
    BY <1>4, <1>7 DEF Others
  <2>2. Begun' <=> Begun
    BY <1>1, <2>1 DEF Begun
  <2>3. \A c \in Others, x \in Systems :
          ourFCMGuid'[c] = NoId /\ <<x, c>> \in connected' => Greets(x, c)'
    BY <1>2, <1>6, <2>1 DEF OthersFollow, Others
  <2> QED
    BY <1>2, <1>3, <1>5, <2>2, <2>3 DEF OthersFollow, Above, Others
<1>8. CASE FoundersMet /\ \E c \in {a, b} : ourFCMGuid[c] # NoId
  <2>1. \A f \in Founders : ourFCMGuid[f] # NoId
    BY <1>8 DEF FoundersMet
  <2>2. ASSUME NEW c \in Systems, ourFCMGuid[c] # NoId PROVE Above(totalConnectionCount[c] + 1)
    <3>1. CASE c \in Founders
      BY <1>8, <3>1, FoundersCount
    <3>2. CASE c \notin Founders
      BY <2>2, <3>2 DEF OthersFollow, Others
    <3> QED
      BY <3>1, <3>2
  <2>3. Begun => Begun'
    BY <1>1 DEF Begun
  <2>4. ASSUME NEW c \in Others, NEW x \in Systems, ourFCMGuid'[c] = NoId, <<x, c>> \in connected'
        PROVE  Greets(x, c)'
    <3>1. c \in Systems /\ ourFCMGuid[c] = NoId
      BY <1>2, <2>4 DEF Others
    <3>2. CASE <<x, c>> \in connected
      BY <1>6, <2>4, <3>1, <3>2 DEF OthersFollow
    <3>3. CASE <<x, c>> \notin connected
      <4>1. (x = a /\ c = b) \/ (x = b /\ c = a)
        BY <1>4, <2>4, <3>1, <3>3
      <4>2. ourFCMGuid[x] # NoId
        BY <1>8, <3>1, <4>1
      <4>3. streams[x][c] = <<>>
        BY <3>1, <3>3 DEF MeshInv, Network
      <4>4. <<x, c>> \notin connected \cup lost
        BY <1>1, <4>1
      <4>5. c \notin DOMAIN fcm2ParticipantList[x]
        BY <3>1, <4>4 DEF MeshInv, Listed
      <4>6. Greets(x, c)
        BY <4>2, <4>3, <4>5 DEF Greets
      <4> QED
        BY <1>6, <3>1, <4>6
    <3> QED
      BY <3>2, <3>3
  <2> QED
    BY <1>2, <1>3, <1>5, <2>1, <2>2, <2>3, <2>4 DEF OthersFollow, Above, Others
<1> QED
  BY <1>1, <1>7, <1>8

LEMMA FirstKeeps == MeshInv /\ FirstInv /\ [MeshNext]_meshVars => FirstInv'
<1> SUFFICES ASSUME MeshInv, FirstInv, [MeshNext]_meshVars, left' \cup reset' = {}
             PROVE  CountsFollow' /\ OthersFollow'
  BY DEF FirstInv
<1>1. ASSUME left' = left, reset' = reset PROVE left = {} /\ CountsFollow /\ OthersFollow
  BY <1>1 DEF FirstInv
<1>2. ASSUME NEW a \in Systems, NEW b \in Systems \ {a}, Connect(a, b)
      PROVE  CountsFollow' /\ OthersFollow'
  <2>1. left' = left /\ reset' = reset
    BY <1>2 DEF Connect
  <2> QED
    BY <1>1, <1>2, <2>1, ConnectFollows
<1>3. ASSUME NEW a \in Systems, NEW b \in Systems \ {a}, OnReceive(a, b)
      PROVE  CountsFollow' /\ OthersFollow'
  <2>1. left' = left /\ reset' = reset
    BY <1>3 DEF OnReceive
  <2> QED
    BY <1>1, <1>3, <2>1, ReceiveFollows
<1>4. ASSUME NEW a \in Systems, NEW b \in Systems \ {a}, OnNewConnection(a, b)
      PROVE  CountsFollow' /\ OthersFollow'
  <2>1. left' = left /\ reset' = reset
    BY <1>4 DEF OnNewConnection
  <2> QED
    BY <1>1, <1>4, <2>1, NewConnectionFollows
<1>5. ASSUME NEW a \in Systems, NEW b \in Systems \ {a}, OnClosedConnection(a, b) PROVE FALSE
  <2>1. left' = left /\ reset' = reset /\ <<a, b>> \in lost
    BY <1>5 DEF OnClosedConnection
  <2> QED
    BY <1>1, <2>1 DEF MeshInv, Network
<1>6. ASSUME NEW a \in Systems, ResetHostCalculation(a) \/ Leave(a) PROVE FALSE
  BY <1>6 DEF ResetHostCalculation, Leave
<1>7. CASE UNCHANGED meshVars
  <2>1. left' = left /\ reset' = reset /\ UNCHANGED <<own, connected, streams>>
    BY <1>7 DEF meshVars, net
  <2>2. CountsFollow'
    BY <1>1, <2>1 DEF own, CountsFollow, AllHonest, Honest, Covers
  <2>3. OthersFollow'
    BY <1>1, <2>1 DEF own, OthersFollow, Begun, Above, Others, Greets, Welcomes
  <2> QED
    BY <2>2, <2>3
<1> QED
  BY <1>2, <1>3, <1>4, <1>5, <1>6, <1>7 DEF MeshNext, NetworkStep

LEMMA FoundersFirstHolds == MeshInv /\ FirstInv => FoundersFirst
<1> SUFFICES ASSUME MeshInv, FirstInv, AtRest, left = {}, reset = {}, Founders # {},
                    NEW a \in Systems
             PROVE  hostRakNetGuid[a] \in Founders \cup {NoHost}
  BY DEF FoundersFirst
<1> DEFINE host == lastPushedHost[a]
<1>1. hostRakNetGuid[a] = host /\ host \in Systems /\ \A c \in Systems : ourFCMGuid[host] <= ourFCMGuid[c]
  BY LowestIsHost DEF MeshInv, HostTold
<1>2. ourFCMGuid[host] # NoId
  BY <1>1, AllTold
<1>3. PICK f \in Founders : f \in Systems
  BY MeshAssumption
<1>4. ourFCMGuid[f] \in Nat /\ ourFCMGuid[host] \in Nat
  BY <1>1, <1>3 DEF MeshInv, Types, OwnTypes
<1>5. ASSUME host \notin Founders PROVE ourFCMGuid[f] < ourFCMGuid[host]
  BY <1>1, <1>2, <1>5 DEF FirstInv, OthersFollow, Others
<1> QED
  BY <1>1, <1>3, <1>4, <1>5

\* Types, for any mesh.
THEOREM MeshTypes == MeshSpec => []MeshTypeOK
BY InvHolds, TypesSuffice, PTL

\* In a mesh at rest everyone has an id and everyone knows it, whoever came, left and
\* started over, and in whatever order the requests, answers and news crossed.
THEOREM IdsBecomeKnown == MeshSpec => []IdsKnown
BY InvHolds, IdsKnownHolds, PTL

\* A mesh at rest that nobody left has one host, whoever started over.
THEOREM OneHost == MeshSpec => []HostsAgree
BY InvHolds, HostsAgreeHolds, PTL

\* No one in a mesh at rest takes someone for host who has left.
THEOREM HostStaysPresent == MeshSpec => []HostIsPresent
BY InvHolds, HostIsPresentHolds, PTL

\* Everyone in a mesh at rest has a host if nobody left and nobody started over.
THEOREM HostBecomesKnown == MeshSpec => []HostKnown
BY InvHolds, HostKnownHolds, PTL

\* Who came after the founders had settled is not host unless somebody left or started over.
THEOREM FoundersComeFirst == MeshSpec => []FoundersFirst
<1>1. MeshSpec => [](MeshInv /\ FirstInv)
  <2>1. MeshInit => MeshInv /\ FirstInv
    BY InitHolds, FirstInit
  <2>2. MeshInv /\ FirstInv /\ [MeshNext]_meshVars => (MeshInv /\ FirstInv)'
    BY NextKeeps, FirstKeeps
  <2> QED
    BY <2>1, <2>2, PTL DEF MeshSpec
<1> QED
  BY <1>1, FoundersFirstHolds, PTL
===============================================================================
