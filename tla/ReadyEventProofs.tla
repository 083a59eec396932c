--------------------------- MODULE ReadyEventProofs ---------------------------
(***************************************************************************)
(* Proofs about ReadyEvent: types, what each system believes of the others *)
(* and the second stage of completion.  For any systems and any number of  *)
(* steps that take something back.                                         *)
(***************************************************************************)
EXTENDS ReadyEvent, SequenceTheorems, TLAPS

(***************************************************************************)
(* Streams.  What matters of a stream is its last signal, the one that     *)
(* decides what the receiver will believe, and whether it asks for one.    *)
(***************************************************************************)
NoSignal(s) == \A i \in DOMAIN s : s[i] = "QUERY"
Asks(s) == \E i \in DOMAIN s : s[i] = "QUERY"
LastSignal(s, status) ==
  \E i \in DOMAIN s : s[i] = status /\ \A j \in DOMAIN s : j > i => s[j] = "QUERY"

\* What is sent in one step: a query, a signal, both or nothing.
Parcels(status) == {<<>>, <<"QUERY">>, <<status>>, <<"QUERY", status>>}

\* One packet more at the end of a stream.
LEMMA Appended ==
  ASSUME NEW s \in Seq(Packets), NEW p \in Packets
  PROVE  /\ s \o <<p>> \in Seq(Packets)
         /\ Len(s \o <<p>>) = Len(s) + 1
         /\ (s \o <<p>>)[Len(s) + 1] = p
         /\ \A i \in 1..Len(s) : (s \o <<p>>)[i] = s[i]
OBVIOUS

LEMMA AppendedSignal ==
  ASSUME NEW s \in Seq(Packets), NEW p \in Packets
  PROVE  LastSignal(s \o <<p>>, p) /\ (Asks(s) => Asks(s \o <<p>>))
<1> DEFINE t == s \o <<p>>
<1>1. /\ t \in Seq(Packets) /\ Len(t) = Len(s) + 1 /\ t[Len(s) + 1] = p
      /\ \A i \in 1..Len(s) : t[i] = s[i]
  BY Appended
<1> HIDE DEF t
<1>2. LastSignal(t, p)
  <2>1. Len(s) + 1 \in DOMAIN t /\ \A j \in DOMAIN t : ~(j > Len(s) + 1)
    BY <1>1
  <2> QED
    BY <1>1, <2>1 DEF LastSignal
<1>3. ASSUME Asks(s) PROVE Asks(t)
  <2>1. PICK i \in 1..Len(s) : s[i] = "QUERY"
    BY <1>3 DEF Asks
  <2> QED
    BY <1>1, <2>1 DEF Asks
<1> QED
  BY <1>2, <1>3 DEF t

LEMMA AppendedQuery ==
  ASSUME NEW s \in Seq(Packets), NEW status
  PROVE  /\ Asks(s \o <<"QUERY">>)
         /\ NoSignal(s) => NoSignal(s \o <<"QUERY">>)
         /\ LastSignal(s, status) => LastSignal(s \o <<"QUERY">>, status)
<1> DEFINE t == s \o <<"QUERY">>
<1>1. /\ t \in Seq(Packets) /\ Len(t) = Len(s) + 1 /\ t[Len(s) + 1] = "QUERY"
      /\ \A i \in 1..Len(s) : t[i] = s[i]
  BY Appended DEF Packets
<1> HIDE DEF t
<1>2. Asks(t)
  BY <1>1 DEF Asks
<1>3. NoSignal(s) => NoSignal(t)
  BY <1>1 DEF NoSignal
<1>4. ASSUME LastSignal(s, status) PROVE LastSignal(t, status)
  <2>1. PICK i \in 1..Len(s) : s[i] = status /\ \A j \in 1..Len(s) : j > i => s[j] = "QUERY"
    BY <1>4 DEF LastSignal
  <2>2. i \in DOMAIN t /\ t[i] = status /\ \A j \in DOMAIN t : j > i => t[j] = "QUERY"
    BY <1>1, <2>1
  <2> QED
    BY <2>2 DEF LastSignal
<1> QED
  BY <1>2, <1>3, <1>4 DEF t

\* A step sends what it sends behind what is under way.
LEMMA Posted ==
  ASSUME NEW s \in Seq(Packets), NEW new \in Statuses, NEW parcel \in Parcels(new)
  PROVE  /\ s \o parcel \in Seq(Packets)
         /\ Asks(s) => Asks(s \o parcel)
         /\ parcel \in {<<"QUERY">>, <<"QUERY", new>>} => Asks(s \o parcel)
         /\ parcel \in {<<new>>, <<"QUERY", new>>} => LastSignal(s \o parcel, new)
         /\ parcel \in {<<>>, <<"QUERY">>} =>
              /\ NoSignal(s) => NoSignal(s \o parcel)
              /\ LastSignal(s, new) => LastSignal(s \o parcel, new)
<1>1. new \in Packets /\ "QUERY" \in Packets
  BY DEF Packets
<1>2. s \o <<"QUERY", new>> = (s \o <<"QUERY">>) \o <<new>>
  BY <1>1
<1>3. s \o <<"QUERY">> \in Seq(Packets) /\ s \o <<>> = s
  BY <1>1
<1>4. CASE parcel = <<>>
  BY <1>3, <1>4
<1>5. CASE parcel = <<"QUERY">>
  BY <1>1, <1>3, <1>5, AppendedQuery, AppendedSignal
<1>6. CASE parcel = <<new>>
  <2>1. s \o parcel \in Seq(Packets) /\ parcel # <<"QUERY">>
    BY <1>1, <1>6 DEF Statuses, Signals
  <2> QED
    BY <1>1, <1>6, <2>1, AppendedSignal
<1>7. CASE parcel = <<"QUERY", new>>
  <2>1. s \o parcel \in Seq(Packets)
    BY <1>1, <1>7
  <2>2. LastSignal(s \o parcel, new) /\ Asks(s \o parcel)
    BY <1>1, <1>2, <1>3, <1>7, AppendedQuery, AppendedSignal
  <2> QED
    BY <1>7, <2>1, <2>2
<1> QED
  BY <1>4, <1>5, <1>6, <1>7 DEF Parcels

\* The first packet of a stream is taken.
LEMMA Taken ==
  ASSUME NEW s \in Seq(Packets), s # <<>>, NEW status, status # "QUERY"
  PROVE  /\ Tail(s) \in Seq(Packets) /\ Head(s) \in Packets
         /\ NoSignal(s) => Head(s) = "QUERY" /\ NoSignal(Tail(s))
         /\ LastSignal(s, status) =>
              LastSignal(Tail(s), status) \/ (Head(s) = status /\ NoSignal(Tail(s)))
         /\ Asks(s) /\ Head(s) # "QUERY" => Asks(Tail(s))
<1> DEFINE t == Tail(s)
<1>1. /\ t \in Seq(Packets) /\ Len(s) > 0 /\ Len(t) = Len(s) - 1
      /\ Head(s) = s[1] /\ Head(s) \in Packets
      /\ \A i \in 1..Len(t) : t[i] = s[i + 1]
  OBVIOUS
<1> HIDE DEF t
<1>2. NoSignal(s) => Head(s) = "QUERY" /\ NoSignal(t)
  BY <1>1 DEF NoSignal
<1>3. ASSUME LastSignal(s, status) PROVE LastSignal(t, status) \/ (Head(s) = status /\ NoSignal(t))
  <2>1. PICK i \in 1..Len(s) : s[i] = status /\ \A j \in 1..Len(s) : j > i => s[j] = "QUERY"
    BY <1>3 DEF LastSignal
  <2>2. CASE i = 1
    BY <1>1, <2>1, <2>2 DEF NoSignal
  <2>3. CASE i # 1
    <3>1. i - 1 \in DOMAIN t /\ t[i - 1] = status
      BY <1>1, <2>1, <2>3
    <3>2. \A j \in DOMAIN t : j > i - 1 => t[j] = "QUERY"
      BY <1>1, <2>1, <2>3
    <3> QED
      BY <3>1, <3>2 DEF LastSignal
  <2> QED
    BY <2>2, <2>3
<1>4. ASSUME Asks(s), Head(s) # "QUERY" PROVE Asks(t)
  <2>1. PICK i \in 1..Len(s) : s[i] = "QUERY"
    BY <1>4 DEF Asks
  <2>2. i - 1 \in DOMAIN t /\ t[i - 1] = "QUERY"
    BY <1>1, <1>4, <2>1
  <2> QED
    BY <2>2 DEF Asks
<1> QED
  BY <1>1, <1>2, <1>3, <1>4 DEF t

(***************************************************************************)
(* What b believes of a, told by values of the state: a's status, whether  *)
(* a waits for b and what it last sent it, the stream to b, whether b      *)
(* waits for a and its view of it, and the stream to a.  The last signal   *)
(* under way is the status; when none is, b has it already, or knows       *)
(* nothing and has asked.  Who does not wait for b has sent it nothing.    *)
(***************************************************************************)
Agreed(status, waits, sent, s, waited, view, r) ==
  /\ waits => /\ sent = status
              /\ \/ LastSignal(s, status)
                 \/ NoSignal(s) /\ (waited => view = status \/ (view = "UNSET" /\ Asks(r)))
  /\ ~waits => s = <<>> /\ (waited => view = "UNSET")

\* The parcel to b fits what a was and is to b: what the new status asks to be sent.
Fits(new, waits, sent, waitsNow, sentBefore, parcel) ==
  /\ ~waitsNow => ~waits /\ parcel = <<>>
  /\ waits => sentBefore = sent
  /\ ~waits /\ waitsNow => sentBefore = "UNSET"
  /\ waitsNow /\ sentBefore # new => parcel \in {<<new>>, <<"QUERY", new>>}
  /\ waitsNow /\ sentBefore = new => parcel \in {<<>>, <<"QUERY">>}

\* a updates its status or whom it waits for, and tells b if it has not.
LEMMA AgreedAfterSending ==
  ASSUME NEW status, NEW waits \in BOOLEAN, NEW sent, NEW s \in Seq(Packets),
         NEW waited \in BOOLEAN, NEW view, NEW r, NEW rNow,
         Agreed(status, waits, sent, s, waited, view, r),
         Asks(r) => Asks(rNow),
         NEW new \in Statuses, NEW waitsNow \in BOOLEAN, NEW sentBefore,
         NEW parcel \in Parcels(new), Fits(new, waits, sent, waitsNow, sentBefore, parcel)
  PROVE  Agreed(new, waitsNow, new, s \o parcel, waited, view, rNow)
<1>1. CASE ~waitsNow
  <2>1. ~waits /\ s \o parcel = s
    BY <1>1 DEF Fits
  <2> QED
    BY <1>1, <2>1 DEF Agreed
<1>2. CASE waitsNow /\ sentBefore # new
  BY <1>2, Posted DEF Agreed, Fits
<1>3. CASE waitsNow /\ sentBefore = new /\ waits
  <2>1. status = new /\ sent = new
    BY <1>3 DEF Agreed, Fits
  <2>2. parcel \in {<<>>, <<"QUERY">>}
    BY <1>3 DEF Fits
  <2>3. /\ NoSignal(s) => NoSignal(s \o parcel)
        /\ LastSignal(s, new) => LastSignal(s \o parcel, new)
    BY <2>2, Posted
  <2> QED
    BY <1>3, <2>1, <2>3 DEF Agreed
<1>4. CASE waitsNow /\ sentBefore = new /\ ~waits
  <2>1. new = "UNSET" /\ s = <<>> /\ (waited => view = "UNSET")
    BY <1>4 DEF Agreed, Fits
  <2>2. NoSignal(s)
    BY <2>1 DEF NoSignal
  <2>3. NoSignal(s \o parcel)
    BY <1>4, <2>2, Posted DEF Fits
  <2> QED
    BY <1>4, <2>1, <2>3 DEF Agreed
<1> QED
  BY <1>1, <1>2, <1>3, <1>4

\* b updates whom it waits for, and asks when a is new to it.
LEMMA AgreedAfterListing ==
  ASSUME NEW status, NEW waits \in BOOLEAN, NEW sent, NEW s,
         NEW waited \in BOOLEAN, NEW view, NEW r \in Seq(Packets),
         Agreed(status, waits, sent, s, waited, view, r),
         NEW new \in Statuses, NEW waitedNow \in BOOLEAN, NEW viewNow,
         NEW parcel \in Parcels(new),
         waitedNow => \/ waited /\ viewNow = view
                      \/ viewNow = "UNSET" /\ parcel \in {<<"QUERY">>, <<"QUERY", new>>}
  PROVE  Agreed(status, waits, sent, s, waitedNow, viewNow, r \o parcel)
BY Posted DEF Agreed

\* b takes a packet of a, and records it when it is a signal.
LEMMA AgreedAfterTaking ==
  ASSUME NEW status, status # "QUERY", status # "FORCE_ALL_SET",
         NEW waits \in BOOLEAN, NEW sent, NEW s \in Seq(Packets), s # <<>>,
         NEW waited \in BOOLEAN, NEW view, NEW r,
         Agreed(status, waits, sent, s, waited, view, r),
         NEW viewNow,
         waited => viewNow = IF Head(s) \in Signals THEN Head(s) ELSE view
  PROVE  Agreed(status, waits, sent, Tail(s), waited, viewNow, r)
<1>1. /\ Head(s) \in Packets
      /\ NoSignal(s) => Head(s) = "QUERY" /\ NoSignal(Tail(s))
      /\ LastSignal(s, status) =>
           LastSignal(Tail(s), status) \/ (Head(s) = status /\ NoSignal(Tail(s)))
  BY Taken
<1>2. waits
  BY DEF Agreed
<1>3. sent = status
  BY <1>2 DEF Agreed
<1>4. CASE LastSignal(s, status)
  <2>1. CASE LastSignal(Tail(s), status)
    BY <1>2, <1>3, <2>1 DEF Agreed
  <2>2. CASE Head(s) = status /\ NoSignal(Tail(s))
    <3>1. Head(s) \in Signals
      BY <1>1, <2>2 DEF Packets, Statuses
    <3>2. waited => viewNow = status
      BY <2>2, <3>1
    <3> QED
      BY <1>2, <1>3, <2>2, <3>2 DEF Agreed
  <2> QED
    BY <1>1, <1>4, <2>1, <2>2
<1>5. CASE ~LastSignal(s, status)
  <2>1. NoSignal(s) /\ (waited => view = status \/ (view = "UNSET" /\ Asks(r)))
    BY <1>2, <1>5 DEF Agreed
  <2>2. Head(s) = "QUERY" /\ NoSignal(Tail(s))
    BY <1>1, <2>1
  <2>3. waited => viewNow = view
    BY <2>2 DEF Signals
  <2> QED
    BY <1>2, <1>3, <2>1, <2>2, <2>3 DEF Agreed
<1> QED
  BY <1>4, <1>5

\* What is under way to a has changed, but for a query at most that a has answered or
\* does not owe an answer.
LEMMA AgreedAfterAnswer ==
  ASSUME NEW status \in Statuses \cup {NoEvent}, NEW waits \in BOOLEAN, NEW sent,
         NEW s \in Seq(Packets), NEW waited \in BOOLEAN, NEW view, NEW r, NEW rNow,
         Agreed(status, waits, sent, s, waited, view, r)
  PROVE  /\ ~waits => Agreed(status, waits, sent, s, waited, view, rNow)
         /\ status = "UNSET" => Agreed(status, waits, sent, s, waited, view, rNow)
         /\ waits /\ status # NoEvent =>
              Agreed(status, waits, status, s \o <<status>>, waited, view, rNow)
<1>1. ~waits \/ status = "UNSET" => Agreed(status, waits, sent, s, waited, view, rNow)
  BY DEF Agreed
<1>2. ASSUME waits, status # NoEvent
      PROVE  Agreed(status, waits, status, s \o <<status>>, waited, view, rNow)
  <2>1. LastSignal(s \o <<status>>, status)
    BY <1>2, AppendedSignal DEF Packets
  <2> QED
    BY <1>2, <2>1 DEF Agreed
<1> QED
  BY <1>1, <1>2

(***************************************************************************)
(* The invariant.                                                          *)
(***************************************************************************)
\* Only who has the event waits for others, and who has seen all set sees nobody unset.
Nodes ==
  \A a \in Systems :
    /\ DOMAIN systemList[a] # {} => HasEvent(a)
    /\ eventStatus[a] = "ALL_SET" => ~AnyUnset(systemList[a])

\* Connections have two ends; nothing is under way without one; and who waits for a system
\* is connected to it or will be told that it is not.
Links ==
  \A a, b \in Systems :
    /\ <<a, b>> \in connected => a # b /\ <<b, a>> \in connected /\ <<a, b>> \notin lost
    /\ <<a, b>> \notin connected => streams[a][b] = <<>>
    /\ Waits(a, b) => <<a, b>> \in connected \cup lost

AgreedOf(a, b) ==
  Agreed(eventStatus[a], Waits(a, b), systemList[a][b].lastSentStatus, streams[a][b],
         Waits(b, a), View(b, a), streams[b][a])

ViewsFollow ==
  \A a \in Systems \ Leavers : \A b \in Systems \ {a} :
    <<a, b>> \in connected /\ eventStatus[a] # "FORCE_ALL_SET" => AgreedOf(a, b)

ReadyInv == ReadyTypeOK /\ Nodes /\ Links /\ ViewsFollow

LEMMA InitReady == ReadyInit => ReadyInv
<1> SUFFICES ASSUME ReadyInit PROVE ReadyInv
  OBVIOUS
<1> USE DEF ReadyInit, Nobody
<1>1. ReadyTypeOK
  <2>1. \A a \in Systems : \E others \in SUBSET (Systems \ {a}) :
          systemList[a] \in [others -> RemoteSystems]
    <3> TAKE a \in Systems
    <3>1. systemList[a] \in [{} -> RemoteSystems]
      OBVIOUS
    <3> QED
      BY <3>1
  <2>2. <<>> \in Seq(Packets) /\ 0 \in 0..MaxWhims
    BY WhimsAssumption
  <2>3. streams \in [Systems -> [Systems -> Seq(Packets)]]
    BY <2>2
  <2>4. /\ eventStatus \in [Systems -> Statuses \cup {NoEvent}]
        /\ DOMAIN systemList = Systems
        /\ connected \subseteq Systems \X Systems /\ lost \subseteq Systems \X Systems
    OBVIOUS
  <2> QED
    BY <2>1, <2>2, <2>3, <2>4 DEF ReadyTypeOK
<1>2. Nodes
  BY DEF Nodes, NoEvent
<1>3. Links
  BY DEF Links, Waits
<1>4. ViewsFollow
  BY DEF ViewsFollow, AgreedOf, Agreed, Waits
<1> QED
  BY <1>1, <1>2, <1>3, <1>4 DEF ReadyInv

\* What the types say of one system.
LEMMA ListTypes ==
  ASSUME ReadyTypeOK, NEW a \in Systems
  PROVE  /\ DOMAIN systemList[a] \subseteq Systems \ {a}
         /\ systemList[a] \in [DOMAIN systemList[a] -> RemoteSystems]
         /\ \A b \in DOMAIN systemList[a] :
              /\ systemList[a][b] \in RemoteSystems
              /\ systemList[a][b].lastReceivedStatus \in Signals
              /\ systemList[a][b].lastSentStatus \in Statuses
BY DEF ReadyTypeOK, RemoteSystems

LEMMA UpdatedTypes ==
  ASSUME NEW status \in Statuses, NEW list
  PROVE  /\ Updated(status, list) \in Statuses
         /\ Updated(status, list) = "ALL_SET" => ~AnyUnset(list)
         /\ Updated(status, list) = "FORCE_ALL_SET" <=> status = "FORCE_ALL_SET"
BY DEF Updated, Statuses, Signals

\* What a step sends to b that has this list and asks these systems.
Parcel(b, list, asked, new) ==
  (IF b \in asked THEN <<"QUERY">> ELSE <<>>)
    \o (IF b \in DOMAIN list /\ list[b].lastSentStatus # new THEN <<new>> ELSE <<>>)

LEMMA ParcelIs ==
  ASSUME NEW b, NEW list, NEW asked, NEW new \in Statuses
  PROVE  /\ Parcel(b, list, asked, new) \in Parcels(new)
         /\ b \notin asked /\ b \notin DOMAIN list => Parcel(b, list, asked, new) = <<>>
         /\ b \in asked => Parcel(b, list, asked, new) \in {<<"QUERY">>, <<"QUERY", new>>}
         /\ b \in DOMAIN list /\ list[b].lastSentStatus # new =>
              Parcel(b, list, asked, new) \in {<<new>>, <<"QUERY", new>>}
         /\ b \in DOMAIN list /\ list[b].lastSentStatus = new =>
              Parcel(b, list, asked, new) \in {<<>>, <<"QUERY">>}
         /\ b \notin asked => Parcel(b, list, asked, new) =
              IF b \in DOMAIN list /\ list[b].lastSentStatus # new THEN <<new>> ELSE <<>>
<1>1. /\ <<>> \o <<>> = <<>> /\ <<"QUERY">> \o <<>> = <<"QUERY">>
      /\ <<>> \o <<new>> = <<new>> /\ <<"QUERY">> \o <<new>> = <<"QUERY", new>>
  <2>1. new \in Packets /\ "QUERY" \in Packets
    BY DEF Packets
  <2>2. <<>> \in Seq(Packets) /\ <<"QUERY">> \in Seq(Packets) /\ <<new>> \in Seq(Packets)
    BY <2>1
  <2>3. <<"QUERY">> \o <<new>> = <<"QUERY", new>>
    <3> DEFINE both == <<"QUERY">> \o <<new>>
               pair == <<"QUERY", new>>
    <3>1. both \in Seq(Packets) /\ Len(both) = 2 /\ both[1] = "QUERY" /\ both[2] = new
      BY <2>2
    <3>2. pair \in Seq(Packets) /\ Len(pair) = 2 /\ pair[1] = "QUERY" /\ pair[2] = new
      BY <2>1
    <3> HIDE DEF both, pair
    <3>3. \A i \in 1..Len(both) : both[i] = pair[i]
      BY <3>1, <3>2
    <3>4. both = pair
      BY <3>1, <3>2, <3>3, SeqEqual
    <3> QED
      BY <3>4 DEF both, pair
  <2> QED
    BY <2>2, <2>3
<1>2. Parcel(b, list, asked, new) =
        IF b \in asked
        THEN IF b \in DOMAIN list /\ list[b].lastSentStatus # new
             THEN <<"QUERY", new>> ELSE <<"QUERY">>
        ELSE IF b \in DOMAIN list /\ list[b].lastSentStatus # new THEN <<new>> ELSE <<>>
  BY <1>1, ZenonT(30) DEF Parcel
<1> QED
  BY <1>2 DEF Parcels

(***************************************************************************)
(* A system x gets a new status and list and sends what follows from them, *)
(* of its own accord or when it takes a signal.                            *)
(***************************************************************************)
Listed(x, list, asked, b) ==
  \/ Waits(x, b) /\ list[b] = systemList[x][b]
  \/ ~Waits(x, b) /\ list[b] = NewSystem /\ b \in asked /\ <<x, b>> \in connected

TookSignal(x, list, a) ==
  /\ streams[a][x] # <<>>
  /\ streams'[a][x] = Tail(streams[a][x])
  /\ Head(streams[a][x]) \in Signals
  /\ Waits(x, a)
  /\ list[a].lastReceivedStatus = Head(streams[a][x])
  /\ list[a].lastSentStatus = systemList[x][a].lastSentStatus

Rewrites(x, new, list, asked) ==
  /\ asked \subseteq DOMAIN list
  /\ list \in [DOMAIN list -> RemoteSystems] /\ DOMAIN list \subseteq Systems \ {x}
  /\ eventStatus' = [eventStatus EXCEPT ![x] = new]
  /\ DOMAIN systemList' = Systems
  /\ systemList'[x] = [b \in DOMAIN list |-> [list[b] EXCEPT !.lastSentStatus = new]]
  /\ \A a \in Systems \ {x} : systemList'[a] = systemList[a]
  /\ streams' \in [Systems -> [Systems -> Seq(Packets)]]
  /\ \A b \in Systems : streams'[x][b] =
       IF <<x, b>> \in connected THEN streams[x][b] \o Parcel(b, list, asked, new)
       ELSE streams[x][b]
  /\ \A a \in Systems \ {x} : \A b \in Systems \ {x} : streams'[a][b] = streams[a][b]
  /\ \A a \in Systems \ {x} :
       \/ /\ streams'[a][x] = streams[a][x]
          /\ a \in DOMAIN list => Listed(x, list, asked, a)
       \/ a \in DOMAIN list /\ TookSignal(x, list, a)
  /\ \A b \in DOMAIN systemList[x] \ DOMAIN list : x \in Leavers \/ <<x, b>> \notin connected
  /\ \A b \in DOMAIN list : <<x, b>> \in connected \cup lost'
  /\ eventStatus[x] = "FORCE_ALL_SET" => new = "FORCE_ALL_SET"
  /\ new = "ALL_SET" => ~AnyUnset(list)
  /\ connected' = connected
  /\ lost' \subseteq lost
  /\ \A a, b \in Systems : a # x /\ <<a, b>> \in lost => <<a, b>> \in lost'
  /\ whims' \in 0..MaxWhims

LEMMA RewriteKeeps ==
  ASSUME ReadyInv, NEW x \in Systems, NEW new \in Statuses, NEW list, NEW asked,
         Rewrites(x, new, list, asked)
  PROVE  ReadyInv'
<1> DEFINE nodes == [b \in DOMAIN list |-> [list[b] EXCEPT !.lastSentStatus = new]]
<1>1. /\ DOMAIN systemList = Systems /\ DOMAIN systemList' = Systems
      /\ systemList'[x] = nodes
      /\ \A a \in Systems \ {x} : systemList'[a] = systemList[a]
      /\ eventStatus'[x] = new
      /\ \A a \in Systems \ {x} : eventStatus'[a] = eventStatus[a]
      /\ eventStatus' \in [Systems -> Statuses \cup {NoEvent}]
  BY DEF Rewrites, ReadyInv, ReadyTypeOK
<1>2. /\ nodes \in [DOMAIN list -> RemoteSystems]
      /\ \A b \in DOMAIN list : /\ nodes[b].lastSentStatus = new
                                /\ nodes[b].lastReceivedStatus = list[b].lastReceivedStatus
  <2>1. list \in [DOMAIN list -> RemoteSystems]
    BY DEF Rewrites
  <2> QED
    BY <2>1 DEF RemoteSystems
<1>3. \A b \in Systems : Waits(x, b)' <=> b \in DOMAIN list
  BY <1>1 DEF Waits
<1>4. \A a \in Systems \ {x}, b \in Systems : Waits(a, b)' <=> Waits(a, b)
  BY <1>1 DEF Waits
<1> HIDE DEF nodes
<1>5. ReadyTypeOK'
  <2>1. \A a \in Systems : \E others \in SUBSET (Systems \ {a}) :
          systemList'[a] \in [others -> RemoteSystems]
    <3> TAKE a \in Systems
    <3>1. CASE a = x
      <4>1. DOMAIN list \in SUBSET (Systems \ {x})
        BY DEF Rewrites
      <4> QED
        BY <1>1, <1>2, <3>1, <4>1
    <3>2. CASE a # x
      BY <1>1, <3>2 DEF ReadyInv, ReadyTypeOK
    <3> QED
      BY <3>1, <3>2
  <2> QED
    BY <1>1, <2>1 DEF Rewrites, ReadyInv, ReadyTypeOK
<1>6. Nodes'
  <2> SUFFICES ASSUME NEW a \in Systems
               PROVE  /\ DOMAIN systemList'[a] # {} => HasEvent(a)'
                      /\ eventStatus'[a] = "ALL_SET" => ~AnyUnset(systemList'[a])
    BY DEF Nodes
  <2>1. CASE a = x
    <3>1. new # NoEvent
      BY DEF Statuses, Signals, NoEvent
    <3>2. DOMAIN nodes = DOMAIN list
      BY <1>2
    <3>3. AnyUnset(nodes) => AnyUnset(list)
      BY <1>2, <3>2 DEF AnyUnset
    <3> QED
      BY <1>1, <2>1, <3>1, <3>3 DEF HasEvent, Rewrites
  <2>2. CASE a # x
    BY <1>1, <2>2 DEF ReadyInv, Nodes, HasEvent
  <2> QED
    BY <2>1, <2>2
<1>7. Links'
  <2> connected' = connected
    BY DEF Rewrites
  <2> SUFFICES ASSUME NEW a \in Systems, NEW b \in Systems
               PROVE  /\ <<a, b>> \in connected =>
                           a # b /\ <<b, a>> \in connected /\ <<a, b>> \notin lost'
                      /\ <<a, b>> \notin connected => streams'[a][b] = <<>>
                      /\ Waits(a, b)' => <<a, b>> \in connected \cup lost'
    BY DEF Links
  <2>1. /\ <<a, b>> \in connected => a # b /\ <<b, a>> \in connected /\ <<a, b>> \notin lost
        /\ <<a, b>> \notin connected => streams[a][b] = <<>>
        /\ Waits(a, b) => <<a, b>> \in connected \cup lost
    BY DEF ReadyInv, Links
  <2>2. ASSUME <<a, b>> \notin connected PROVE streams'[a][b] = <<>>
    <3>1. CASE a = x
      BY <2>1, <2>2, <3>1 DEF Rewrites
    <3>2. CASE a # x /\ b # x
      BY <2>1, <2>2, <3>2 DEF Rewrites
    <3>3. CASE a # x /\ b = x
      BY <2>1, <2>2, <3>3 DEF Rewrites, TookSignal
    <3> QED
      BY <3>1, <3>2, <3>3
  <2>3. ASSUME Waits(a, b)' PROVE <<a, b>> \in connected \cup lost'
    <3>1. CASE a = x
      BY <1>3, <2>3, <3>1 DEF Rewrites
    <3>2. CASE a # x
      BY <1>4, <2>1, <2>3, <3>2 DEF Rewrites
    <3> QED
      BY <3>1, <3>2
  <2>4. lost' \subseteq lost
    BY DEF Rewrites
  <2> QED
    BY <2>1, <2>2, <2>3, <2>4
<1>8. ViewsFollow'
  <2> SUFFICES ASSUME NEW a \in Systems \ Leavers, NEW b \in Systems \ {a},
                      <<a, b>> \in connected, eventStatus'[a] # "FORCE_ALL_SET"
               PROVE  AgreedOf(a, b)'
    BY DEF ViewsFollow, Rewrites
  <2>1. <<b, a>> \in connected
    BY DEF ReadyInv, Links
  <2>2. eventStatus[a] # "FORCE_ALL_SET"
    BY <1>1 DEF Rewrites
  <2>3. AgreedOf(a, b)
    BY <2>2 DEF ReadyInv, ViewsFollow
  <2>4. streams[a][b] \in Seq(Packets) /\ streams[b][a] \in Seq(Packets)
    BY DEF ReadyInv, ReadyTypeOK
  <2>5. Waits(a, b) \in BOOLEAN /\ Waits(b, a) \in BOOLEAN
    BY DEF Waits
  <2>6. CASE a # x /\ b # x
    <3>1. streams'[a][b] = streams[a][b] /\ streams'[b][a] = streams[b][a]
      BY <2>6 DEF Rewrites
    <3> QED
      BY <1>1, <2>3, <2>6, <3>1 DEF AgreedOf, View, Waits
  <2>7. CASE a = x
    <3> DEFINE parcel == Parcel(b, list, asked, new)
               listed == b \in DOMAIN list
               before == list[b].lastSentStatus
    <3>1. streams'[a][b] = streams[a][b] \o parcel
      BY <2>7 DEF Rewrites
    <3>2. Waits(b, a)' = Waits(b, a) /\ View(b, a)' = View(b, a)
      BY <1>1, <1>4, <2>5, <2>7 DEF View, Waits
    <3>3. \/ streams'[b][a] = streams[b][a] /\ (listed => Listed(x, list, asked, b))
          \/ listed /\ TookSignal(x, list, b)
      BY <2>7 DEF Rewrites
    <3>4. Asks(streams[b][a]) => Asks(streams'[b][a])
      <4>1. CASE listed /\ TookSignal(x, list, b)
        <5>1. streams[b][a] # <<>> /\ Head(streams[b][a]) # "QUERY"
          BY <2>7, <4>1 DEF TookSignal, Signals
        <5>2. Asks(streams[b][a]) => Asks(Tail(streams[b][a]))
          BY <2>4, <5>1, Taken
        <5> QED
          BY <2>7, <4>1, <5>2 DEF TookSignal
      <4> QED
        BY <3>3, <4>1
    <3>5. /\ Waits(a, b) => listed /\ before = systemList[a][b].lastSentStatus
          /\ ~Waits(a, b) /\ listed => before = "UNSET"
      <4>1. Waits(a, b) => listed
        BY <2>7 DEF Rewrites, Waits
      <4>2. CASE listed /\ TookSignal(x, list, b)
        BY <2>7, <4>2 DEF TookSignal
      <4>3. CASE listed /\ Listed(x, list, asked, b)
        BY <2>7, <4>3 DEF Listed, NewSystem
      <4> QED
        BY <3>3, <4>1, <4>2, <4>3
    <3>6. ~listed => parcel = <<>>
      BY ParcelIs DEF Rewrites
    <3>7. /\ parcel \in Parcels(new)
          /\ listed /\ before # new => parcel \in {<<new>>, <<"QUERY", new>>}
          /\ listed /\ before = new => parcel \in {<<>>, <<"QUERY">>}
      BY ParcelIs
    <3>8. Agreed(eventStatus[a], Waits(a, b), systemList[a][b].lastSentStatus, streams[a][b],
                 Waits(b, a), View(b, a), streams[b][a])
      BY <2>3 DEF AgreedOf
    <3>9. listed \in BOOLEAN
      OBVIOUS
    <3> HIDE DEF parcel, listed, before
    <3>10. Agreed(new, listed, new, streams[a][b] \o parcel, Waits(b, a), View(b, a),
                  streams'[b][a])
      <4>1. Fits(new, Waits(a, b), systemList[a][b].lastSentStatus, listed, before, parcel)
        BY <3>5, <3>6, <3>7 DEF Fits
      <4> QED
        BY <2>4, <2>5, <3>4, <3>7, <3>8, <3>9, <4>1, AgreedAfterSending
    <3>11. /\ eventStatus'[a] = new
           /\ Waits(a, b)' = listed
           /\ listed => systemList'[a][b].lastSentStatus = new
      BY <1>1, <1>2, <1>3, <2>7 DEF listed, Waits
    <3>12. AgreedOf(a, b)' <=>
             Agreed(new, listed, systemList'[a][b].lastSentStatus, streams[a][b] \o parcel,
                    Waits(b, a), View(b, a), streams'[b][a])
      BY <3>1, <3>2, <3>11 DEF AgreedOf
    <3> QED
      BY <3>10, <3>11, <3>12 DEF Agreed
  <2>8. CASE b = x
    <3> DEFINE parcel == Parcel(a, list, asked, new)
               listed == a \in DOMAIN list
               viewNow == list[a].lastReceivedStatus
    <3>1. streams'[b][a] = streams[b][a] \o parcel
      BY <2>1, <2>8 DEF Rewrites
    <3>2. /\ Waits(a, b)' = Waits(a, b)
          /\ systemList'[a][b] = systemList[a][b]
          /\ eventStatus'[a] = eventStatus[a]
      BY <1>1, <1>4, <2>5, <2>8 DEF Waits
    <3>3. Waits(b, a)' = listed /\ (listed => View(b, a)' = viewNow)
      BY <1>1, <1>2, <1>3, <2>8 DEF View, Waits
    <3>4. /\ parcel \in Parcels(new)
          /\ a \in asked => parcel \in {<<"QUERY">>, <<"QUERY", new>>}
      BY ParcelIs
    <3>5. Agreed(eventStatus[a], Waits(a, b), systemList[a][b].lastSentStatus, streams[a][b],
                 Waits(b, a), View(b, a), streams[b][a])
      BY <2>3 DEF AgreedOf
    <3>6. listed \in BOOLEAN
      OBVIOUS
    <3>7. \/ streams'[a][b] = streams[a][b] /\ (listed => Listed(x, list, asked, a))
          \/ listed /\ TookSignal(x, list, a)
      BY <2>8 DEF Rewrites
    <3>8. Agreed(eventStatus[a], Waits(a, b), systemList[a][b].lastSentStatus, streams'[a][b],
                 listed, viewNow, streams[b][a] \o parcel)
      <4>1. CASE streams'[a][b] = streams[a][b] /\ (listed => Listed(x, list, asked, a))
        <5>1. listed => \/ Waits(b, a) /\ viewNow = View(b, a)
                        \/ viewNow = "UNSET" /\ parcel \in {<<"QUERY">>, <<"QUERY", new>>}
          BY <2>8, <3>4, <4>1 DEF Listed, NewSystem, View
        <5> HIDE DEF parcel, listed, viewNow
        <5>2. Agreed(eventStatus[a], Waits(a, b), systemList[a][b].lastSentStatus,
                     streams[a][b], listed, viewNow, streams[b][a] \o parcel)
          BY <2>4, <2>5, <3>4, <3>5, <3>6, <5>1, AgreedAfterListing
        <5> QED
          BY <4>1, <5>2
      <4>2. CASE listed /\ TookSignal(x, list, a)
        <5>1. /\ streams[a][b] # <<>> /\ streams'[a][b] = Tail(streams[a][b])
              /\ Waits(b, a) /\ viewNow = Head(streams[a][b])
              /\ Head(streams[a][b]) \in Signals
          BY <2>8, <4>2 DEF TookSignal
        <5>2. eventStatus[a] # "QUERY"
          BY DEF ReadyInv, ReadyTypeOK, Statuses, Signals, NoEvent
        <5> HIDE DEF parcel, viewNow
        <5>3. Agreed(eventStatus[a], Waits(a, b), systemList[a][b].lastSentStatus,
                     Tail(streams[a][b]), Waits(b, a), viewNow, streams[b][a])
          BY <2>2, <2>4, <2>5, <3>5, <5>1, <5>2, AgreedAfterTaking
        <5>4. Agreed(eventStatus[a], Waits(a, b), systemList[a][b].lastSentStatus,
                     Tail(streams[a][b]), Waits(b, a), viewNow, streams[b][a] \o parcel)
          BY <2>4, <2>5, <3>4, <5>3, AgreedAfterListing
        <5> QED
          BY <4>2, <5>1, <5>4
      <4> QED
        BY <3>7, <4>1, <4>2
    <3> HIDE DEF parcel, listed, viewNow
    <3>9. AgreedOf(a, b)' <=>
            Agreed(eventStatus[a], Waits(a, b), systemList[a][b].lastSentStatus,
                   streams'[a][b], listed, View(b, a)', streams[b][a] \o parcel)
      BY <3>1, <3>2, <3>3 DEF AgreedOf
    <3> QED
      BY <3>3, <3>6, <3>8, <3>9 DEF Agreed
  <2> QED
    BY <2>6, <2>7, <2>8
<1> QED
  BY <1>5, <1>6, <1>7, <1>8 DEF ReadyInv

\* Update of a system's node.
LEMMA UpdateRewrites ==
  ASSUME ReadyInv, NEW x \in Systems, NEW status \in Statuses, NEW list, NEW asked,
         Update(x, status, list, asked),
         asked \subseteq DOMAIN list,
         list \in [DOMAIN list -> RemoteSystems], DOMAIN list \subseteq Systems \ {x},
         \A b \in DOMAIN list : Listed(x, list, asked, b),
         \A b \in DOMAIN systemList[x] \ DOMAIN list : x \in Leavers \/ <<x, b>> \notin connected,
         \A b \in DOMAIN list : <<x, b>> \in connected \cup lost',
         eventStatus[x] = "FORCE_ALL_SET" => status = "FORCE_ALL_SET",
         connected' = connected, lost' \subseteq lost,
         \A a, b \in Systems : a # x /\ <<a, b>> \in lost => <<a, b>> \in lost',
         whims' \in 0..MaxWhims
  PROVE  ReadyInv'
<1> DEFINE new == Updated(status, list)
<1>1. /\ new \in Statuses
      /\ new = "ALL_SET" => ~AnyUnset(list)
      /\ status = "FORCE_ALL_SET" => new = "FORCE_ALL_SET"
  BY UpdatedTypes
<1>2. streams' = [streams EXCEPT ![x] =
                    [b \in Systems |-> Sent(x, b, Parcel(b, list, asked, new))]]
  BY DEF Update, Parcel
<1>3. streams \in [Systems -> [Systems -> Seq(Packets)]]
  BY DEF ReadyInv, ReadyTypeOK
<1>4. /\ eventStatus' = [eventStatus EXCEPT ![x] = new]
      /\ DOMAIN systemList' = Systems
      /\ systemList'[x] = [b \in DOMAIN list |-> [list[b] EXCEPT !.lastSentStatus = new]]
      /\ \A a \in Systems \ {x} : systemList'[a] = systemList[a]
  BY DEF Update, ReadyInv, ReadyTypeOK
<1> HIDE DEF new
<1>5. \A b \in Systems : streams'[x][b] = IF <<x, b>> \in connected
                                         THEN streams[x][b] \o Parcel(b, list, asked, new)
                                         ELSE streams[x][b]
  BY <1>2, <1>3 DEF Sent
<1>6. \A a \in Systems \ {x} : streams'[a] = streams[a]
  BY <1>2, <1>3
<1>7. \A b \in Systems : streams'[x][b] \in Seq(Packets)
  <2> TAKE b \in Systems
  <2>1. streams[x][b] \in Seq(Packets)
    BY <1>3
  <2>2. streams[x][b] \o Parcel(b, list, asked, new) \in Seq(Packets)
    BY <1>1, <2>1, ParcelIs, Posted
  <2> QED
    BY <1>5, <2>1, <2>2
<1>8. streams' \in [Systems -> [Systems -> Seq(Packets)]]
  <2>1. /\ streams' = [a \in Systems |-> streams'[a]]
        /\ streams'[x] = [b \in Systems |-> streams'[x][b]]
    BY <1>2, <1>3
  <2>2. streams'[x] \in [Systems -> Seq(Packets)]
    BY <1>7, <2>1
  <2>3. \A a \in Systems : streams'[a] \in [Systems -> Seq(Packets)]
    BY <1>3, <1>6, <2>2
  <2> QED
    BY <2>1, <2>3
<1>9. Rewrites(x, new, list, asked)
  BY <1>1, <1>4, <1>5, <1>6, <1>8 DEF Rewrites
<1> QED
  BY <1>1, <1>9, RewriteKeeps

\* Without a change of the list.
LEMMA UpdateInPlace ==
  ASSUME ReadyInv, NEW x \in Systems, NEW status \in Statuses,
         Update(x, status, systemList[x], {}),
         eventStatus[x] = "FORCE_ALL_SET" => status = "FORCE_ALL_SET",
         connected' = connected, lost' = lost, whims' \in 0..MaxWhims
  PROVE  ReadyInv'
<1>1. /\ DOMAIN systemList[x] \subseteq Systems \ {x}
      /\ systemList[x] \in [DOMAIN systemList[x] -> RemoteSystems]
  BY ListTypes DEF ReadyInv
<1>2. \A b \in DOMAIN systemList[x] : Listed(x, systemList[x], {}, b)
  BY DEF Listed, Waits
<1>3. \A b \in DOMAIN systemList[x] : <<x, b>> \in connected \cup lost'
  BY <1>1 DEF ReadyInv, Links, Waits
<1> QED
  BY <1>1, <1>2, <1>3, UpdateRewrites

(***************************************************************************)
(* The user's calls.                                                       *)
(***************************************************************************)
LEMMA WhimTypes ==
  ASSUME ReadyTypeOK, Whim \/ UNCHANGED whims
  PROVE  whims' \in 0..MaxWhims
BY WhimsAssumption DEF ReadyTypeOK, Whim

LEMMA SetReadyKeeps ==
  ASSUME ReadyInv, NEW a \in Systems, SetReady(a)
  PROVE  ReadyInv'
<1>1. whims' \in 0..MaxWhims /\ connected' = connected /\ lost' = lost
  BY DEF SetReady, ReadyInv, ReadyTypeOK
<1>2. CASE HasEvent(a)
  <2>1. Update(a, "SET", systemList[a], {}) /\ eventStatus[a] # "FORCE_ALL_SET"
    BY <1>2 DEF SetReady, NoEvent
  <2>2. "SET" \in Statuses
    BY DEF Statuses, Signals
  <2> QED
    BY <1>1, <2>1, <2>2, UpdateInPlace
<1>3. CASE ~HasEvent(a)
  <2> DEFINE list == systemList[a]
  <2>1. DOMAIN list = {} /\ list \in [DOMAIN list -> RemoteSystems]
    BY <1>3, ListTypes DEF ReadyInv, Nodes
  <2>2. /\ eventStatus' = [eventStatus EXCEPT ![a] = "SET"]
        /\ systemList' = systemList /\ streams' = streams
    BY <1>3 DEF SetReady
  <2>3. systemList'[a] = [b \in DOMAIN list |-> [list[b] EXCEPT !.lastSentStatus = "SET"]]
    BY <2>1, <2>2
  <2> HIDE DEF list
  <2>4. \A b \in Systems : streams[a][b] \o Parcel(b, list, {}, "SET") = streams[a][b]
    <3> TAKE b \in Systems
    <3>1. Parcel(b, list, {}, "SET") = <<>>
      BY <2>1, ParcelIs DEF Statuses, Signals
    <3>2. streams[a][b] \in Seq(Packets)
      BY DEF ReadyInv, ReadyTypeOK
    <3>3. streams[a][b] \o <<>> = streams[a][b]
      BY <3>2
    <3> QED
      BY <3>1, <3>3
  <2>5. "SET" \in Statuses /\ eventStatus[a] # "FORCE_ALL_SET"
    BY <1>3 DEF HasEvent, Statuses, Signals, NoEvent
  <2>6. streams \in [Systems -> [Systems -> Seq(Packets)]]
    BY DEF ReadyInv, ReadyTypeOK
  <2>7. DOMAIN systemList[a] = {} /\ DOMAIN systemList = Systems
    BY <2>1 DEF list, ReadyInv, ReadyTypeOK
  <2>8. Rewrites(a, "SET", list, {})
    BY <1>1, <2>1, <2>2, <2>3, <2>4, <2>5, <2>6, <2>7 DEF Rewrites
  <2> QED
    BY <2>5, <2>8, RewriteKeeps
<1> QED
  BY <1>2, <1>3

LEMMA AddKeeps ==
  ASSUME ReadyInv, NEW a \in Systems, NEW added \in SUBSET Connected(a),
         AddToWaitList(a, added)
  PROVE  ReadyInv'
<1> DEFINE new == added \ DOMAIN systemList[a]
           list == [b \in DOMAIN systemList[a] \cup new |->
                      IF b \in new THEN NewSystem ELSE systemList[a][b]]
           status == IF HasEvent(a) THEN eventStatus[a] ELSE "UNSET"
<1>1. /\ Update(a, status, list, new)
      /\ connected' = connected /\ lost' = lost /\ whims' = whims
  BY DEF AddToWaitList
<1>2. status \in Statuses
  BY DEF ReadyInv, ReadyTypeOK, HasEvent, Statuses, Signals
<1>3. new \subseteq Systems \ {a} /\ \A b \in new : <<a, b>> \in connected
  BY DEF Connected, ReadyInv, Links
<1>4. NewSystem \in RemoteSystems
  BY DEF NewSystem, RemoteSystems, Signals, Statuses
<1>5. /\ list \in [DOMAIN list -> RemoteSystems] /\ DOMAIN list \subseteq Systems \ {a}
      /\ DOMAIN list = DOMAIN systemList[a] \cup new
  BY <1>3, <1>4, ListTypes DEF ReadyInv
<1>6. \A b \in DOMAIN list : Listed(a, list, new, b)
  BY <1>3, <1>5 DEF Listed, Waits
<1>7. \A b \in DOMAIN list : <<a, b>> \in connected \cup lost'
  <2> TAKE b \in DOMAIN list
  <2>1. CASE b \in new
    BY <1>3, <2>1
  <2>2. CASE b \notin new
    <3>1. Waits(a, b) /\ b \in Systems
      BY <1>5, <2>2 DEF Waits
    <3> QED
      BY <1>1, <3>1 DEF ReadyInv, Links
  <2> QED
    BY <2>1, <2>2
<1>8. whims' \in 0..MaxWhims
  BY <1>1 DEF ReadyInv, ReadyTypeOK
<1>9. eventStatus[a] = "FORCE_ALL_SET" => status = "FORCE_ALL_SET"
  BY DEF HasEvent, NoEvent
<1> HIDE DEF new, list, status
<1> QED
  BY <1>1, <1>2, <1>5, <1>6, <1>7, <1>8, <1>9, UpdateRewrites

\* Systems that are removed from the list: by a leaver, or because they are gone.
LEMMA WithoutKeeps ==
  ASSUME ReadyInv, NEW a \in Systems, NEW gone, HasEvent(a),
         Update(a, eventStatus[a], Without(systemList[a], gone), {}),
         \A b \in DOMAIN systemList[a] \cap gone : a \in Leavers \/ <<a, b>> \notin connected,
         \A b \in Systems \ gone : <<a, b>> \in lost => <<a, b>> \in lost',
         \A c, b \in Systems : c # a /\ <<c, b>> \in lost => <<c, b>> \in lost',
         connected' = connected, lost' \subseteq lost, whims' \in 0..MaxWhims
  PROVE  ReadyInv'
<1> DEFINE list == Without(systemList[a], gone)
<1>1. /\ DOMAIN list = DOMAIN systemList[a] \ gone
      /\ \A b \in DOMAIN list : list[b] = systemList[a][b]
  BY DEF Without
<1>2. list \in [DOMAIN list -> RemoteSystems] /\ DOMAIN list \subseteq Systems \ {a}
  BY ListTypes DEF Without, ReadyInv
<1>3. \A b \in DOMAIN list : Listed(a, list, {}, b)
  BY <1>1 DEF Listed, Waits
<1>4. \A b \in DOMAIN list : <<a, b>> \in connected \cup lost'
  BY <1>1, <1>2 DEF ReadyInv, Links, Waits
<1>5. eventStatus[a] \in Statuses
  BY DEF HasEvent, ReadyInv, ReadyTypeOK
<1>6. \A b \in DOMAIN systemList[a] \ DOMAIN list : a \in Leavers \/ <<a, b>> \notin connected
  BY <1>1
<1>7. Update(a, eventStatus[a], list, {})
  OBVIOUS
<1> HIDE DEF list
<1> QED
  BY <1>2, <1>3, <1>4, <1>5, <1>6, <1>7, UpdateRewrites

LEMMA DeleteKeeps ==
  ASSUME ReadyInv, NEW a \in Systems, DeleteEvent(a)
  PROVE  ReadyInv'
<1>1. /\ a \in Leavers
      /\ eventStatus' = [eventStatus EXCEPT ![a] = NoEvent]
      /\ systemList' = [systemList EXCEPT ![a] = Nobody]
      /\ streams' = streams /\ connected' = connected /\ lost' = lost
      /\ whims' \in 0..MaxWhims
  BY WhimTypes DEF DeleteEvent, ReadyInv
<1>2. /\ DOMAIN systemList' = Systems /\ systemList'[a] = Nobody /\ DOMAIN Nobody = {}
      /\ \A b \in Systems \ {a} : systemList'[b] = systemList[b]
      /\ eventStatus'[a] = NoEvent
      /\ \A b \in Systems \ {a} : eventStatus'[b] = eventStatus[b]
  BY <1>1 DEF ReadyInv, ReadyTypeOK, Nobody
<1>3. \A b, c \in Systems : Waits(b, c)' <=> b # a /\ Waits(b, c)
  BY <1>2 DEF Waits
<1>4. ReadyTypeOK'
  <2>1. \A b \in Systems : \E others \in SUBSET (Systems \ {b}) :
          systemList'[b] \in [others -> RemoteSystems]
    <3> TAKE b \in Systems
    <3>1. CASE b = a
      <4>1. Nobody \in [{} -> RemoteSystems]
        BY DEF Nobody
      <4> QED
        BY <1>2, <3>1, <4>1
    <3>2. CASE b # a
      BY <1>2, <3>2 DEF ReadyInv, ReadyTypeOK
    <3> QED
      BY <3>1, <3>2
  <2> QED
    BY <1>1, <1>2, <2>1 DEF ReadyInv, ReadyTypeOK
<1>5. Nodes'
  BY <1>2 DEF ReadyInv, Nodes, HasEvent, NoEvent
<1>6. Links'
  BY <1>1, <1>3 DEF ReadyInv, Links
<1>7. ViewsFollow'
  <2> SUFFICES ASSUME NEW c \in Systems \ Leavers, NEW b \in Systems \ {c},
                      <<c, b>> \in connected, eventStatus'[c] # "FORCE_ALL_SET"
               PROVE  AgreedOf(c, b)'
    BY <1>1 DEF ViewsFollow
  <2>1. AgreedOf(c, b)
    BY <1>1, <1>2 DEF ReadyInv, ViewsFollow
  <2> QED
    BY <1>1, <1>2, <1>3, <2>1 DEF AgreedOf, Agreed, View
<1> QED
  BY <1>4, <1>5, <1>6, <1>7 DEF ReadyInv

(***************************************************************************)
(* Packets.                                                                *)
(***************************************************************************)
\* x takes a packet of y without a change of what it tells others but y.
Takes(x, y, list) ==
  /\ streams[y][x] # <<>>
  /\ streams'[y][x] = Tail(streams[y][x])
  /\ streams' \in [Systems -> [Systems -> Seq(Packets)]]
  /\ \A a, b \in Systems : ~(a = x /\ b = y) /\ ~(a = y /\ b = x) =>
       streams'[a][b] = streams[a][b]
  /\ Asks(streams[x][y]) => Asks(streams'[x][y])
  /\ \/ eventStatus' = eventStatus
     \/ HasEvent(x) /\ eventStatus' = [eventStatus EXCEPT ![x] = "FORCE_ALL_SET"]
  /\ DOMAIN systemList' = Systems /\ systemList'[x] = list
  /\ \A a \in Systems \ {x} : systemList'[a] = systemList[a]
  /\ DOMAIN list = DOMAIN systemList[x] /\ list \in [DOMAIN list -> RemoteSystems]
  /\ \A b \in DOMAIN list \ {y} : list[b] = systemList[x][b]
  /\ y \in DOMAIN list => list[y].lastReceivedStatus =
       IF Head(streams[y][x]) \in Signals THEN Head(streams[y][x]) ELSE View(x, y)
  /\ eventStatus'[x] = "ALL_SET" => ~AnyUnset(list)
  /\ x \notin Leavers /\ eventStatus'[x] # "FORCE_ALL_SET" /\ AgreedOf(x, y) => AgreedOf(x, y)'
  /\ UNCHANGED <<connected, lost, whims>>

LEMMA TakeKeeps ==
  ASSUME ReadyInv, NEW x \in Systems, NEW y \in Systems \ {x}, NEW list, Takes(x, y, list)
  PROVE  ReadyInv'
<1>1. \A a, b \in Systems : Waits(a, b)' <=> Waits(a, b)
  BY DEF Takes, Waits
<1>2. /\ eventStatus' \in [Systems -> Statuses \cup {NoEvent}]
      /\ \A a \in Systems \ {x} : eventStatus'[a] = eventStatus[a]
      /\ eventStatus'[x] = eventStatus[x] \/ eventStatus'[x] = "FORCE_ALL_SET"
      /\ HasEvent(x) => eventStatus'[x] # NoEvent
  <2>1. eventStatus \in [Systems -> Statuses \cup {NoEvent}]
    BY DEF ReadyInv, ReadyTypeOK
  <2>2. \/ eventStatus' = eventStatus
        \/ eventStatus' = [eventStatus EXCEPT ![x] = "FORCE_ALL_SET"]
    BY DEF Takes
  <2>3. "FORCE_ALL_SET" \in Statuses /\ "FORCE_ALL_SET" # NoEvent
    BY DEF Statuses, NoEvent
  <2> QED
    BY <2>1, <2>2, <2>3 DEF HasEvent
<1>3. /\ connected' = connected /\ lost' = lost /\ whims' = whims
      /\ \A a \in Systems \ {x} : systemList'[a] = systemList[a]
      /\ systemList'[x] = list /\ DOMAIN list = DOMAIN systemList[x]
      /\ \A b \in DOMAIN list \ {y} : list[b] = systemList[x][b]
  BY DEF Takes
<1>4. ReadyTypeOK'
  <2>1. \A a \in Systems : \E others \in SUBSET (Systems \ {a}) :
          systemList'[a] \in [others -> RemoteSystems]
    <3> TAKE a \in Systems
    <3>1. CASE a = x
      <4>1. DOMAIN list \in SUBSET (Systems \ {x})
        BY <1>3, ListTypes DEF ReadyInv
      <4> QED
        BY <1>3, <3>1, <4>1 DEF Takes
    <3>2. CASE a # x
      BY <1>3, <3>2 DEF ReadyInv, ReadyTypeOK
    <3> QED
      BY <3>1, <3>2
  <2>2. DOMAIN systemList' = Systems /\ streams' \in [Systems -> [Systems -> Seq(Packets)]]
    BY DEF Takes
  <2> QED
    BY <1>2, <1>3, <2>1, <2>2 DEF ReadyInv, ReadyTypeOK
<1>5. Nodes'
  <2> SUFFICES ASSUME NEW a \in Systems
               PROVE  /\ DOMAIN systemList'[a] # {} => eventStatus'[a] # NoEvent
                      /\ eventStatus'[a] = "ALL_SET" => ~AnyUnset(systemList'[a])
    BY DEF Nodes, HasEvent
  <2>1. CASE a = x
    BY <1>2, <1>3, <2>1 DEF ReadyInv, Nodes, Takes
  <2>2. CASE a # x
    BY <1>2, <1>3, <2>2 DEF ReadyInv, Nodes, HasEvent
  <2> QED
    BY <2>1, <2>2
<1>6. Links'
  <2> SUFFICES ASSUME NEW a \in Systems, NEW b \in Systems
               PROVE  /\ <<a, b>> \in connected =>
                           a # b /\ <<b, a>> \in connected /\ <<a, b>> \notin lost
                      /\ <<a, b>> \notin connected => streams'[a][b] = <<>>
                      /\ Waits(a, b) => <<a, b>> \in connected \cup lost
    BY <1>1, <1>3 DEF Links
  <2>1. /\ <<a, b>> \in connected => a # b /\ <<b, a>> \in connected /\ <<a, b>> \notin lost
        /\ <<a, b>> \notin connected => streams[a][b] = <<>>
        /\ Waits(a, b) => <<a, b>> \in connected \cup lost
    BY DEF ReadyInv, Links
  <2>2. <<y, x>> \in connected /\ <<x, y>> \in connected
    BY DEF ReadyInv, Links, Takes
  <2>3. <<a, b>> \notin connected => ~(a = x /\ b = y) /\ ~(a = y /\ b = x)
    BY <2>1, <2>2
  <2>4. <<a, b>> \notin connected => streams'[a][b] = <<>>
    BY <2>1, <2>3 DEF Takes
  <2> QED
    BY <2>1, <2>4
<1>7. ViewsFollow'
  <2> SUFFICES ASSUME NEW a \in Systems \ Leavers, NEW b \in Systems \ {a},
                      <<a, b>> \in connected, eventStatus'[a] # "FORCE_ALL_SET"
               PROVE  AgreedOf(a, b)'
    BY <1>3 DEF ViewsFollow
  <2>1. eventStatus'[a] = eventStatus[a] /\ eventStatus[a] # "FORCE_ALL_SET"
    BY <1>2
  <2>2. AgreedOf(a, b)
    BY <2>1 DEF ReadyInv, ViewsFollow
  <2>3. Waits(a, b)' = Waits(a, b) /\ Waits(b, a)' = Waits(b, a)
    BY <1>3 DEF Waits
  <2>4. CASE ~(a = x /\ b = y) /\ ~(a = y /\ b = x)
    <3>1. streams'[a][b] = streams[a][b] /\ streams'[b][a] = streams[b][a]
      BY <2>4 DEF Takes
    <3>2. Waits(a, b) => systemList'[a][b] = systemList[a][b]
      BY <1>3, <2>4 DEF Waits
    <3>3. Waits(b, a) => systemList'[b][a] = systemList[b][a]
      BY <1>3, <2>4 DEF Waits
    <3> QED
      BY <2>1, <2>2, <2>3, <3>1, <3>2, <3>3 DEF AgreedOf, Agreed, View
  <2>5. CASE a = x /\ b = y
    BY <2>1, <2>2, <2>5 DEF Takes
  <2>6. CASE a = y /\ b = x
    <3>1. /\ streams[a][b] # <<>> /\ streams'[a][b] = Tail(streams[a][b])
          /\ Asks(streams[b][a]) => Asks(streams'[b][a])
      BY <2>6 DEF Takes
    <3>2. Waits(b, a) => View(b, a)' =
            IF Head(streams[a][b]) \in Signals THEN Head(streams[a][b]) ELSE View(b, a)
      BY <1>3, <2>6 DEF Takes, View, Waits
    <3>3. streams[a][b] \in Seq(Packets) /\ eventStatus[a] # "QUERY"
      <4>1. eventStatus[a] \in Statuses \cup {NoEvent}
        BY DEF ReadyInv, ReadyTypeOK
      <4>2. eventStatus[a] # "QUERY"
        BY <4>1 DEF Statuses, Signals, NoEvent
      <4> QED
        BY <4>2 DEF ReadyInv, ReadyTypeOK
    <3>4. Waits(a, b) \in BOOLEAN /\ Waits(b, a) \in BOOLEAN
      BY DEF Waits
    <3>5. Agreed(eventStatus[a], Waits(a, b), systemList[a][b].lastSentStatus, streams[a][b],
                 Waits(b, a), View(b, a), streams[b][a])
      BY <2>2 DEF AgreedOf
    <3>6. Agreed(eventStatus[a], Waits(a, b), systemList[a][b].lastSentStatus,
                 Tail(streams[a][b]), Waits(b, a), View(b, a)', streams[b][a])
      BY <2>1, <3>1, <3>2, <3>3, <3>4, <3>5, AgreedAfterTaking
    <3>7. systemList'[a][b] = systemList[a][b]
      BY <1>3, <2>6
    <3> QED
      BY <2>1, <2>3, <3>1, <3>6, <3>7 DEF AgreedOf, Agreed
  <2> QED
    BY <2>4, <2>5, <2>6
<1> QED
  BY <1>4, <1>5, <1>6, <1>7 DEF ReadyInv

\* What every reception does to the streams.
LEMMA ReceiveStreams ==
  ASSUME ReadyInv, NEW y \in Systems, NEW x \in Systems \ {y}, streams[y][x] # <<>>
  PROVE  /\ Head(streams[y][x]) \in Packets
         /\ <<x, y>> \in connected /\ <<y, x>> \in connected
         /\ Receive(y, x) =>
              /\ streams'[y][x] = Tail(streams[y][x])
              /\ streams' \in [Systems -> [Systems -> Seq(Packets)]]
              /\ \A a, b \in Systems : ~(a = y /\ b = x) => streams'[a][b] = streams[a][b]
<1>1. streams \in [Systems -> [Systems -> Seq(Packets)]]
  BY DEF ReadyInv, ReadyTypeOK
<1>2. Head(streams[y][x]) \in Packets /\ Tail(streams[y][x]) \in Seq(Packets)
  BY <1>1
<1>3. <<x, y>> \in connected /\ <<y, x>> \in connected
  BY DEF ReadyInv, Links
<1>4. ASSUME Receive(y, x)
      PROVE  /\ streams'[y][x] = Tail(streams[y][x])
             /\ streams' \in [Systems -> [Systems -> Seq(Packets)]]
             /\ \A a, b \in Systems : ~(a = y /\ b = x) => streams'[a][b] = streams[a][b]
  <2>1. streams' = [streams EXCEPT ![y][x] = Tail(streams[y][x])]
    BY <1>4 DEF Receive
  <2> QED
    BY <1>1, <1>2, <2>1
<1> QED
  BY <1>2, <1>3, <1>4

LEMMA PacketUpdateKeeps ==
  ASSUME ReadyInv, NEW a \in Systems, NEW b \in Systems \ {a}, NEW status \in Signals,
         streams[a][b] # <<>>, status = Head(streams[a][b]),
         OnReadyEventPacketUpdate(a, b, status)
  PROVE  ReadyInv'
<1> DEFINE list == [systemList[b] EXCEPT ![a].lastReceivedStatus = status]
<1>1. /\ connected' = connected /\ lost' = lost /\ whims' = whims
      /\ whims' \in 0..MaxWhims
  BY DEF OnReadyEventPacketUpdate, ReadyInv, ReadyTypeOK
<1>2. /\ <<a, b>> \in connected /\ <<b, a>> \in connected
      /\ Receive(a, b) =>
           /\ streams'[a][b] = Tail(streams[a][b])
           /\ streams' \in [Systems -> [Systems -> Seq(Packets)]]
           /\ \A c, d \in Systems : ~(c = a /\ d = b) => streams'[c][d] = streams[c][d]
  BY ReceiveStreams
<1>3. Asks(streams[a][b]) => Asks(Tail(streams[a][b]))
  <2>1. streams[a][b] \in Seq(Packets) /\ status # "QUERY"
    BY DEF ReadyInv, ReadyTypeOK, Signals
  <2>2. LastSignal(streams[a][b], status) \in BOOLEAN
    BY DEF LastSignal
  <2> QED
    BY <2>1, <2>2, Taken
<1>4. /\ DOMAIN systemList[b] \subseteq Systems \ {b}
      /\ systemList[b] \in [DOMAIN systemList[b] -> RemoteSystems]
      /\ DOMAIN systemList = Systems
  BY ListTypes DEF ReadyInv, ReadyTypeOK
<1>5. CASE ~Waits(b, a) \/ systemList[b][a].lastReceivedStatus = status
  <2>1. Receive(a, b) /\ eventStatus' = eventStatus /\ systemList' = systemList
    BY <1>5 DEF OnReadyEventPacketUpdate
  <2>2. a \in DOMAIN systemList[b] => systemList[b][a].lastReceivedStatus = Head(streams[a][b])
    BY <1>5 DEF Waits
  <2>3. eventStatus[b] = "ALL_SET" => ~AnyUnset(systemList[b])
    BY DEF ReadyInv, Nodes
  <2>4. AgreedOf(b, a) => AgreedOf(b, a)'
    <3>1. streams'[b][a] = streams[b][a] /\ Asks(streams[a][b]) => Asks(streams'[a][b])
      BY <1>2, <1>3, <2>1
    <3>2. streams'[b][a] = streams[b][a]
      BY <1>2, <2>1
    <3> QED
      BY <2>1, <3>1, <3>2 DEF AgreedOf, Agreed, View, Waits
  <2>5. Takes(b, a, systemList[b])
    BY <1>1, <1>2, <1>4, <2>1, <2>2, <2>3, <2>4 DEF Takes, View
  <2> QED
    BY <2>5, TakeKeeps
<1>6. CASE Waits(b, a) /\ systemList[b][a].lastReceivedStatus # status
           /\ eventStatus[b] = "FORCE_ALL_SET"
  <2>1. /\ Receive(a, b) /\ eventStatus' = eventStatus
        /\ systemList' = [systemList EXCEPT ![b] = list]
    BY <1>6 DEF OnReadyEventPacketUpdate
  <2>2. /\ a \in DOMAIN systemList[b]
        /\ DOMAIN list = DOMAIN systemList[b]
        /\ list \in [DOMAIN list -> RemoteSystems]
        /\ \A c \in DOMAIN list \ {a} : list[c] = systemList[b][c]
        /\ list[a].lastReceivedStatus = status
    BY <1>4, <1>6 DEF Waits, RemoteSystems
  <2>3. eventStatus[b] # "ALL_SET" /\ eventStatus'[b] = "FORCE_ALL_SET"
    BY <1>6, <2>1
  <2>4. /\ DOMAIN systemList' = Systems /\ systemList'[b] = list
        /\ \A c \in Systems \ {b} : systemList'[c] = systemList[c]
    BY <1>4, <2>1
  <2> HIDE DEF list
  <2>5. Takes(b, a, list)
    BY <1>1, <1>2, <2>1, <2>2, <2>3, <2>4 DEF Takes
  <2> QED
    BY <2>5, TakeKeeps
<1>7. CASE Waits(b, a) /\ systemList[b][a].lastReceivedStatus # status
           /\ eventStatus[b] # "FORCE_ALL_SET"
  <2> DEFINE new == Updated(eventStatus[b], list)
             signal(c) == IF c \in DOMAIN list /\ list[c].lastSentStatus # new
                          THEN <<new>> ELSE <<>>
  <2>1. ReceiveAndUpdate(a, b, eventStatus[b], list)
    BY <1>7 DEF OnReadyEventPacketUpdate
  <2>2. /\ a \in DOMAIN systemList[b]
        /\ DOMAIN list = DOMAIN systemList[b]
        /\ list \in [DOMAIN list -> RemoteSystems]
        /\ \A c \in DOMAIN list \ {a} : list[c] = systemList[b][c]
        /\ list[a].lastReceivedStatus = status
        /\ list[a].lastSentStatus = systemList[b][a].lastSentStatus
    BY <1>4, <1>7 DEF Waits, RemoteSystems
  <2>3. eventStatus[b] \in Statuses
    BY <2>2 DEF ReadyInv, ReadyTypeOK, Nodes, HasEvent
  <2> HIDE DEF list
  <2>4. new \in Statuses /\ (new = "ALL_SET" => ~AnyUnset(list))
    BY <2>3, UpdatedTypes
  <2>5. /\ eventStatus' = [eventStatus EXCEPT ![b] = new]
        /\ systemList' = [systemList EXCEPT ![b] =
                            [c \in DOMAIN list |-> [list[c] EXCEPT !.lastSentStatus = new]]]
        /\ streams' = [streams EXCEPT ![b] = [c \in Systems |-> Sent(b, c, signal(c))],
                                      ![a][b] = Tail(@)]
    BY <2>1 DEF ReceiveAndUpdate
  <2>6. \A c \in Systems : signal(c) = Parcel(c, list, {}, new)
    BY <2>4, ParcelIs
  <2> HIDE DEF new, signal
  <2>7. streams \in [Systems -> [Systems -> Seq(Packets)]]
    BY DEF ReadyInv, ReadyTypeOK
  <2>8. \A c \in Systems : streams'[b][c] = IF <<b, c>> \in connected
                                           THEN streams[b][c] \o Parcel(c, list, {}, new)
                                           ELSE streams[b][c]
    BY <2>5, <2>6, <2>7 DEF Sent
  <2>9. /\ streams'[a][b] = Tail(streams[a][b])
        /\ \A c \in Systems \ {b}, d \in Systems :
             ~(c = a /\ d = b) => streams'[c][d] = streams[c][d]
    BY <2>5, <2>7
  <2>10. streams' \in [Systems -> [Systems -> Seq(Packets)]]
    <3>1. \A c \in Systems : streams'[b][c] \in Seq(Packets)
      <4> TAKE c \in Systems
      <4>1. streams[b][c] \in Seq(Packets)
        BY <2>7
      <4>2. streams[b][c] \o Parcel(c, list, {}, new) \in Seq(Packets)
        BY <2>4, <4>1, ParcelIs, Posted
      <4> QED
        BY <2>8, <4>1, <4>2
    <3>2. \A c \in Systems : Sent(b, c, signal(c)) \in Seq(Packets)
      BY <2>6, <2>7, <2>8, <3>1 DEF Sent
    <3>3. Tail(streams[a][b]) \in Seq(Packets)
      BY <2>7
    <3> QED
      BY <2>5, <2>7, <3>2, <3>3
  <2>11. TookSignal(b, list, a)
    BY <1>7, <2>2, <2>9 DEF TookSignal
  <2>12. \A c \in DOMAIN list \ {a} : Listed(b, list, {}, c)
    BY <2>2 DEF Listed, Waits
  <2>13. /\ DOMAIN systemList' = Systems
         /\ systemList'[b] = [c \in DOMAIN list |-> [list[c] EXCEPT !.lastSentStatus = new]]
         /\ \A c \in Systems \ {b} : systemList'[c] = systemList[c]
    BY <1>4, <2>5
  <2>14. \A c \in DOMAIN list : <<b, c>> \in connected \cup lost'
    BY <1>1, <1>4, <2>2 DEF ReadyInv, Links, Waits
  <2>15. \A c \in Systems \ {b} :
           \/ streams'[c][b] = streams[c][b] /\ (c \in DOMAIN list => Listed(b, list, {}, c))
           \/ c \in DOMAIN list /\ TookSignal(b, list, c)
    BY <2>2, <2>9, <2>11, <2>12
  <2>16. DOMAIN list \subseteq Systems \ {b} /\ DOMAIN systemList[b] \ DOMAIN list = {}
    BY <1>4, <2>2
  <2>17. \A c \in Systems \ {b} : \A d \in Systems \ {b} : streams'[c][d] = streams[c][d]
    BY <2>9
  <2>18. Rewrites(b, new, list, {})
    BY <1>1, <1>7, <2>2, <2>4, <2>5, <2>8, <2>10, <2>13, <2>14, <2>15, <2>16, <2>17
       DEF Rewrites
  <2> QED
    BY <2>4, <2>18, RewriteKeeps
<1> QED
  BY <1>5, <1>6, <1>7

LEMMA ForceKeeps ==
  ASSUME ReadyInv, NEW a \in Systems, NEW b \in Systems \ {a},
         streams[a][b] # <<>>, Head(streams[a][b]) = "FORCE_ALL_SET",
         OnReadyEventForceAllSet(a, b)
  PROVE  ReadyInv'
<1>1. /\ streams'[a][b] = Tail(streams[a][b])
      /\ streams' \in [Systems -> [Systems -> Seq(Packets)]]
      /\ \A c, d \in Systems : ~(c = a /\ d = b) => streams'[c][d] = streams[c][d]
  BY ReceiveStreams DEF OnReadyEventForceAllSet
<1>2. /\ systemList' = systemList /\ UNCHANGED <<connected, lost, whims>>
      /\ eventStatus' = IF HasEvent(b) THEN [eventStatus EXCEPT ![b] = "FORCE_ALL_SET"]
                        ELSE eventStatus
  BY DEF OnReadyEventForceAllSet
<1>3. /\ DOMAIN systemList[b] \subseteq Systems \ {b}
      /\ systemList[b] \in [DOMAIN systemList[b] -> RemoteSystems]
      /\ DOMAIN systemList = Systems
  BY ListTypes DEF ReadyInv, ReadyTypeOK
<1>4. eventStatus'[b] = IF HasEvent(b) THEN "FORCE_ALL_SET" ELSE eventStatus[b]
  BY <1>2 DEF ReadyInv, ReadyTypeOK
<1>5. eventStatus'[b] = "ALL_SET" => ~AnyUnset(systemList[b])
  BY <1>4 DEF ReadyInv, Nodes
<1>6. eventStatus'[b] # "FORCE_ALL_SET" => ~Waits(b, a) /\ eventStatus' = eventStatus
  BY <1>2, <1>4 DEF ReadyInv, Nodes, Waits
<1>7. eventStatus'[b] # "FORCE_ALL_SET" /\ AgreedOf(b, a) => AgreedOf(b, a)'
  BY <1>1, <1>2, <1>6 DEF AgreedOf, Agreed, View, Waits
<1>8. Head(streams[a][b]) \notin Signals
  BY DEF Signals
<1>9. Takes(b, a, systemList[b])
  BY <1>1, <1>2, <1>3, <1>5, <1>7, <1>8 DEF Takes, View
<1> QED
  BY <1>9, TakeKeeps

LEMMA QueryKeeps ==
  ASSUME ReadyInv, NEW a \in Systems, NEW b \in Systems \ {a},
         streams[a][b] # <<>>, Head(streams[a][b]) = "QUERY", OnReadyEventQuery(a, b)
  PROVE  ReadyInv'
<1> DEFINE answers == Waits(b, a) /\ (eventStatus[b] # "UNSET"
                                      \/ systemList[b][a].lastSentStatus # "UNSET")
           status == eventStatus[b]
           list == IF answers THEN [systemList[b] EXCEPT ![a].lastSentStatus = status]
                   ELSE systemList[b]
<1>1. /\ <<a, b>> \in connected /\ <<b, a>> \in connected
      /\ Receive(a, b) =>
           /\ streams'[a][b] = Tail(streams[a][b])
           /\ streams' \in [Systems -> [Systems -> Seq(Packets)]]
           /\ \A c, d \in Systems : ~(c = a /\ d = b) => streams'[c][d] = streams[c][d]
  BY ReceiveStreams
<1>2. /\ DOMAIN systemList[b] \subseteq Systems \ {b}
      /\ systemList[b] \in [DOMAIN systemList[b] -> RemoteSystems]
      /\ DOMAIN systemList = Systems
  BY ListTypes DEF ReadyInv, ReadyTypeOK
<1>3. UNCHANGED <<eventStatus, connected, lost, whims>>
  BY DEF OnReadyEventQuery
<1>4. streams \in [Systems -> [Systems -> Seq(Packets)]] /\ status \in Statuses \cup {NoEvent}
  BY DEF ReadyInv, ReadyTypeOK
<1>5. Head(streams[a][b]) \notin Signals /\ (status = "ALL_SET" => ~AnyUnset(systemList[b]))
  BY DEF Signals, ReadyInv, Nodes
<1>6. CASE answers
  <2>1. /\ streams' = [streams EXCEPT ![a][b] = Tail(@), ![b][a] = Sent(b, a, <<status>>)]
        /\ systemList' = [systemList EXCEPT ![b][a].lastSentStatus = status]
    BY <1>6 DEF OnReadyEventQuery
  <2>2. a \in DOMAIN systemList[b] /\ status \in Statuses
    BY <1>4, <1>6 DEF Waits, ReadyInv, Nodes, HasEvent
  <2>3. Sent(b, a, <<status>>) = streams[b][a] \o <<status>>
    BY <1>1 DEF Sent
  <2>4. /\ streams'[a][b] = Tail(streams[a][b])
        /\ streams'[b][a] = streams[b][a] \o <<status>>
        /\ \A c, d \in Systems : ~(c = a /\ d = b) /\ ~(c = b /\ d = a) =>
             streams'[c][d] = streams[c][d]
    BY <1>4, <2>1, <2>3
  <2>5. /\ streams[b][a] \o <<status>> \in Seq(Packets)
        /\ Asks(streams[b][a]) => Asks(streams[b][a] \o <<status>>)
    <3>1. streams[b][a] \in Seq(Packets) /\ <<status>> \in Parcels(status)
      BY <1>4 DEF Parcels
    <3> QED
      BY <2>2, <3>1, Posted
  <2>6. streams' \in [Systems -> [Systems -> Seq(Packets)]]
    <3>1. Tail(streams[a][b]) \in Seq(Packets)
      BY <1>4
    <3> QED
      BY <1>4, <2>1, <2>3, <2>5, <3>1
  <2>7. /\ DOMAIN list = DOMAIN systemList[b]
        /\ list \in [DOMAIN list -> RemoteSystems]
        /\ \A c \in DOMAIN list : list[c].lastReceivedStatus = systemList[b][c].lastReceivedStatus
        /\ \A c \in DOMAIN list \ {a} : list[c] = systemList[b][c]
        /\ list[a].lastSentStatus = status
    BY <1>2, <1>6, <2>2 DEF RemoteSystems
  <2>8. /\ DOMAIN systemList' = Systems /\ systemList'[b] = list
        /\ \A c \in Systems \ {b} : systemList'[c] = systemList[c]
    BY <1>2, <1>6, <2>1
  <2> HIDE DEF list
  <2>9. ASSUME AgreedOf(b, a) PROVE AgreedOf(b, a)'
    <3>1. Agreed(status, Waits(b, a), systemList[b][a].lastSentStatus, streams[b][a],
                 Waits(a, b), View(a, b), streams[a][b])
      BY <2>9 DEF AgreedOf
    <3>2. Waits(b, a) \in BOOLEAN /\ Waits(a, b) \in BOOLEAN /\ streams[b][a] \in Seq(Packets)
      BY <1>4 DEF Waits
    <3>3. Waits(b, a) /\ status # NoEvent
      BY <1>6, <2>2 DEF Statuses, Signals, NoEvent
    <3>4. Agreed(status, Waits(b, a), status, streams[b][a] \o <<status>>,
                 Waits(a, b), View(a, b), streams'[a][b])
      BY <1>4, <3>1, <3>2, <3>3, AgreedAfterAnswer
    <3>5. Waits(b, a)' = Waits(b, a) /\ Waits(a, b)' = Waits(a, b)
      BY <2>7, <2>8 DEF Waits
    <3>6. View(a, b)' = View(a, b) /\ systemList'[b][a].lastSentStatus = status
      BY <2>7, <2>8 DEF View
    <3> QED
      BY <1>3, <2>4, <3>4, <3>5, <3>6 DEF AgreedOf
  <2>10. status = "ALL_SET" => ~AnyUnset(list)
    BY <1>5, <2>7 DEF AnyUnset
  <2>11. Takes(b, a, list)
    BY <1>3, <1>5, <2>2, <2>4, <2>5, <2>6, <2>7, <2>8, <2>9, <2>10 DEF Takes, View
  <2> QED
    BY <2>11, TakeKeeps
<1>7. CASE ~answers
  <2>1. Receive(a, b) /\ systemList' = systemList
    BY <1>7 DEF OnReadyEventQuery
  <2>2. ASSUME b \notin Leavers, status # "FORCE_ALL_SET", AgreedOf(b, a) PROVE AgreedOf(b, a)'
    <3>1. Agreed(status, Waits(b, a), systemList[b][a].lastSentStatus, streams[b][a],
                 Waits(a, b), View(a, b), streams[a][b])
      BY <2>2 DEF AgreedOf
    <3>2. Waits(b, a) \in BOOLEAN /\ Waits(a, b) \in BOOLEAN /\ streams[b][a] \in Seq(Packets)
      BY <1>4 DEF Waits
    <3>3. ~Waits(b, a) \/ status = "UNSET"
      BY <1>7
    <3>4. Agreed(status, Waits(b, a), systemList[b][a].lastSentStatus, streams[b][a],
                 Waits(a, b), View(a, b), streams'[a][b])
      BY <1>4, <3>1, <3>2, <3>3, AgreedAfterAnswer
    <3>5. streams'[b][a] = streams[b][a]
      BY <1>1, <2>1
    <3> QED
      BY <1>3, <2>1, <3>4, <3>5 DEF AgreedOf, View, Waits
  <2>3. /\ streams'[a][b] = Tail(streams[a][b])
        /\ streams' \in [Systems -> [Systems -> Seq(Packets)]]
        /\ \A c, d \in Systems : ~(c = a /\ d = b) => streams'[c][d] = streams[c][d]
    BY <1>1, <2>1
  <2>4. Takes(b, a, systemList[b])
    BY <1>2, <1>3, <1>5, <2>1, <2>2, <2>3 DEF Takes, View
  <2> QED
    BY <2>4, TakeKeeps
<1> QED
  BY <1>6, <1>7

LEMMA ReceiveKeeps ==
  ASSUME ReadyInv, NEW a \in Systems, NEW b \in Systems \ {a}, OnReceive(a, b)
  PROVE  ReadyInv'
<1>1. streams[a][b] # <<>>
  BY DEF OnReceive
<1>2. CASE Head(streams[a][b]) \in Signals
           /\ OnReadyEventPacketUpdate(a, b, Head(streams[a][b]))
  BY <1>1, <1>2, PacketUpdateKeeps
<1>3. CASE Head(streams[a][b]) = "FORCE_ALL_SET" /\ OnReadyEventForceAllSet(a, b)
  BY <1>1, <1>3, ForceKeeps
<1>4. CASE Head(streams[a][b]) = "QUERY" /\ OnReadyEventQuery(a, b)
  BY <1>1, <1>4, QueryKeeps
<1> QED
  BY <1>2, <1>3, <1>4 DEF OnReceive

(***************************************************************************)
(* Connections.                                                            *)
(***************************************************************************)
LEMMA ClosedKeeps ==
  ASSUME ReadyInv, NEW a \in Systems, NEW b \in Systems \ {a}, OnClosedConnection(a, b)
  PROVE  ReadyInv'
<1>1. /\ <<a, b>> \in lost /\ lost' = lost \ {<<a, b>>}
      /\ connected' = connected /\ whims' = whims /\ whims' \in 0..MaxWhims
  BY DEF OnClosedConnection, ReadyInv, ReadyTypeOK
<1>2. <<a, b>> \notin connected
  BY <1>1 DEF ReadyInv, Links
<1>3. CASE HasEvent(a)
  <2>1. Update(a, eventStatus[a], Without(systemList[a], {b}), {})
    BY <1>3 DEF OnClosedConnection
  <2>2. \A c \in DOMAIN systemList[a] \cap {b} : a \in Leavers \/ <<a, c>> \notin connected
    BY <1>2
  <2>3. /\ \A c \in Systems \ {b} : <<a, c>> \in lost => <<a, c>> \in lost'
        /\ \A c, d \in Systems : c # a /\ <<c, d>> \in lost => <<c, d>> \in lost'
        /\ lost' \subseteq lost
    BY <1>1
  <2> QED
    BY <1>1, <1>3, <2>1, <2>2, <2>3, WithoutKeeps
<1>4. CASE ~HasEvent(a)
  <2>1. /\ eventStatus' = eventStatus /\ systemList' = systemList /\ streams' = streams
    BY <1>4 DEF OnClosedConnection
  <2>2. ~Waits(a, b)
    BY <1>4 DEF ReadyInv, Nodes, Waits
  <2>3. ReadyTypeOK'
    BY <1>1, <2>1 DEF ReadyInv, ReadyTypeOK
  <2>4. Nodes'
    BY <2>1 DEF ReadyInv, Nodes, HasEvent, AnyUnset
  <2>5. Links'
    <3> SUFFICES ASSUME NEW c \in Systems, NEW d \in Systems
                 PROVE  /\ <<c, d>> \in connected =>
                             c # d /\ <<d, c>> \in connected /\ <<c, d>> \notin lost'
                        /\ <<c, d>> \notin connected => streams[c][d] = <<>>
                        /\ Waits(c, d) => <<c, d>> \in connected \cup lost'
      BY <1>1, <2>1 DEF Links, Waits
    <3>1. /\ <<c, d>> \in connected => c # d /\ <<d, c>> \in connected /\ <<c, d>> \notin lost
          /\ <<c, d>> \notin connected => streams[c][d] = <<>>
          /\ Waits(c, d) => <<c, d>> \in connected \cup lost
      BY DEF ReadyInv, Links
    <3> QED
      BY <1>1, <2>2, <3>1
  <2>6. ViewsFollow'
    BY <1>1, <2>1 DEF ReadyInv, ViewsFollow, AgreedOf, View, Waits
  <2> QED
    BY <2>3, <2>4, <2>5, <2>6 DEF ReadyInv
<1> QED
  BY <1>3, <1>4

\* A connection of a and b breaks, or is made anew.
LEMMA LinkKeeps ==
  ASSUME ReadyInv, NEW a \in Systems, NEW b \in Systems, Break(a, b) \/ Reconnect(a, b)
  PROVE  ReadyInv'
<1>1. eventStatus' = eventStatus /\ systemList' = systemList
  BY DEF Break, Reconnect
<1>2. \A c, d \in Systems : Waits(c, d)' = Waits(c, d) /\ View(c, d)' = View(c, d)
  BY <1>1 DEF Waits, View
<1>3. streams \in [Systems -> [Systems -> Seq(Packets)]] /\ <<>> \in Seq(Packets)
  BY DEF ReadyInv, ReadyTypeOK
<1>4. whims' \in 0..MaxWhims
  BY WhimTypes DEF Break, Reconnect, ReadyInv
<1>5. /\ streams' \in [Systems -> [Systems -> Seq(Packets)]]
      /\ \A c, d \in Systems : ~(c = a /\ d = b) /\ ~(c = b /\ d = a) =>
           streams'[c][d] = streams[c][d]
  <2>1. CASE Break(a, b)
    <3>1. streams' = [streams EXCEPT ![a][b] = <<>>, ![b][a] = <<>>]
      BY <2>1 DEF Break
    <3> QED
      BY <1>3, <3>1
  <2>2. CASE Reconnect(a, b)
    BY <1>3, <2>2 DEF Reconnect
  <2> QED
    BY <2>1, <2>2
<1>6. Nodes'
  BY <1>1 DEF ReadyInv, Nodes, HasEvent, AnyUnset
<1>7. CASE Break(a, b)
  <2>1. /\ <<a, b>> \in connected /\ <<b, a>> \in connected /\ a # b
        /\ connected' = connected \ {<<a, b>>, <<b, a>>}
        /\ lost' = lost \cup {<<a, b>>, <<b, a>>}
    BY <1>7 DEF Break, ReadyInv, Links
  <2>2. streams'[a][b] = <<>> /\ streams'[b][a] = <<>>
    BY <1>3, <1>7, <2>1 DEF Break
  <2>3. ReadyTypeOK'
    <3>1. connected' \subseteq Systems \X Systems /\ lost' \subseteq Systems \X Systems
      BY <2>1 DEF ReadyInv, ReadyTypeOK
    <3> QED
      BY <1>1, <1>4, <1>5, <3>1 DEF ReadyInv, ReadyTypeOK
  <2>4. Links'
    <3> SUFFICES ASSUME NEW c \in Systems, NEW d \in Systems
                 PROVE  /\ <<c, d>> \in connected' =>
                             c # d /\ <<d, c>> \in connected' /\ <<c, d>> \notin lost'
                        /\ <<c, d>> \notin connected' => streams'[c][d] = <<>>
                        /\ Waits(c, d) => <<c, d>> \in connected' \cup lost'
      BY <1>1 DEF Links, Waits
    <3>1. /\ <<c, d>> \in connected => c # d /\ <<d, c>> \in connected /\ <<c, d>> \notin lost
          /\ <<c, d>> \notin connected => streams[c][d] = <<>>
          /\ Waits(c, d) => <<c, d>> \in connected \cup lost
      BY DEF ReadyInv, Links
    <3> QED
      BY <1>5, <2>1, <2>2, <3>1
  <2>5. ViewsFollow'
    <3> SUFFICES ASSUME NEW c \in Systems \ Leavers, NEW d \in Systems \ {c},
                        <<c, d>> \in connected', eventStatus[c] # "FORCE_ALL_SET"
                 PROVE  AgreedOf(c, d)'
      BY <1>1 DEF ViewsFollow
    <3>1. <<c, d>> \in connected /\ ~(c = a /\ d = b) /\ ~(c = b /\ d = a)
      BY <2>1
    <3>2. streams'[c][d] = streams[c][d] /\ streams'[d][c] = streams[d][c]
      BY <1>5, <3>1
    <3>3. AgreedOf(c, d)
      BY <3>1 DEF ReadyInv, ViewsFollow
    <3> QED
      BY <1>1, <3>2, <3>3 DEF AgreedOf, View, Waits
  <2> QED
    BY <1>6, <2>3, <2>4, <2>5 DEF ReadyInv
<1>8. CASE Reconnect(a, b)
  <2>1. /\ a # b
        /\ <<a, b>> \notin connected \cup lost /\ <<b, a>> \notin connected \cup lost
        /\ connected' = connected \cup {<<a, b>>, <<b, a>>}
        /\ lost' = lost /\ streams' = streams
    BY <1>8 DEF Reconnect
  <2>2. ReadyTypeOK'
    <3>1. connected' \subseteq Systems \X Systems /\ lost' \subseteq Systems \X Systems
      BY <2>1 DEF ReadyInv, ReadyTypeOK
    <3> QED
      BY <1>1, <1>4, <1>5, <3>1 DEF ReadyInv, ReadyTypeOK
  <2>3. Links'
    <3> SUFFICES ASSUME NEW c \in Systems, NEW d \in Systems
                 PROVE  /\ <<c, d>> \in connected' =>
                             c # d /\ <<d, c>> \in connected' /\ <<c, d>> \notin lost
                        /\ <<c, d>> \notin connected' => streams[c][d] = <<>>
                        /\ Waits(c, d) => <<c, d>> \in connected' \cup lost
      BY <1>1, <2>1 DEF Links, Waits
    <3>1. /\ <<c, d>> \in connected => c # d /\ <<d, c>> \in connected /\ <<c, d>> \notin lost
          /\ <<c, d>> \notin connected => streams[c][d] = <<>>
          /\ Waits(c, d) => <<c, d>> \in connected \cup lost
      BY DEF ReadyInv, Links
    <3> QED
      BY <2>1, <3>1
  <2>4. ViewsFollow'
    <3> SUFFICES ASSUME NEW c \in Systems \ Leavers, NEW d \in Systems \ {c},
                        <<c, d>> \in connected', eventStatus[c] # "FORCE_ALL_SET"
                 PROVE  AgreedOf(c, d)'
      BY <1>1 DEF ViewsFollow
    <3>1. CASE <<c, d>> \in connected
      <4>1. AgreedOf(c, d)
        BY <3>1 DEF ReadyInv, ViewsFollow
      <4> QED
        BY <1>1, <2>1, <4>1 DEF AgreedOf, View, Waits
    <3>2. CASE <<c, d>> \notin connected
      <4>1. <<d, c>> \notin connected \cup lost /\ <<c, d>> \notin connected \cup lost
        BY <2>1, <3>2
      <4>2. ~Waits(c, d) /\ ~Waits(d, c) /\ streams[c][d] = <<>>
        BY <4>1 DEF ReadyInv, Links
      <4> QED
        BY <1>1, <2>1, <4>2 DEF AgreedOf, Agreed, Waits
    <3> QED
      BY <3>1, <3>2
  <2> QED
    BY <1>6, <2>2, <2>3, <2>4 DEF ReadyInv
<1> QED
  BY <1>7, <1>8

(***************************************************************************)
(* Every step, and what follows from the invariant.                        *)
(***************************************************************************)
LEMMA UserCallKeeps ==
  ASSUME ReadyInv, NEW a \in Systems, UserCall(a)
  PROVE  ReadyInv'
<1>1. CASE SetReady(a)
  BY <1>1, SetReadyKeeps
<1>2. CASE SetUnready(a)
  <2>1. Update(a, "UNSET", systemList[a], {}) /\ connected' = connected /\ lost' = lost
    BY <1>2 DEF SetUnready
  <2>2. whims' \in 0..MaxWhims
    BY <1>2, WhimTypes DEF SetUnready, ReadyInv
  <2>3. "UNSET" \in Statuses /\ eventStatus[a] # "FORCE_ALL_SET"
    BY <1>2 DEF SetUnready, Statuses, Signals, HasEvent, NoEvent
  <2> QED
    BY <2>1, <2>2, <2>3, UpdateInPlace
<1>3. CASE ForceCompletion(a)
  <2>1. /\ Update(a, "FORCE_ALL_SET", systemList[a], {})
        /\ connected' = connected /\ lost' = lost
    BY <1>3 DEF ForceCompletion
  <2>2. whims' \in 0..MaxWhims
    BY <1>3, WhimTypes DEF ForceCompletion, ReadyInv
  <2>3. "FORCE_ALL_SET" \in Statuses
    BY DEF Statuses
  <2> QED
    BY <2>1, <2>2, <2>3, UpdateInPlace
<1>4. CASE DeleteEvent(a)
  BY <1>4, DeleteKeeps
<1>5. CASE AddToWaitList(a, Connected(a))
  BY <1>5, AddKeeps
<1>6. CASE \E b \in Connected(a) : AddToWaitList(a, {b})
  BY <1>6, AddKeeps
<1>7. ASSUME NEW removed, RemoveFromWaitList(a, removed)
      PROVE  ReadyInv'
  <2>1. /\ a \in Leavers /\ HasEvent(a) /\ connected' = connected /\ lost' = lost
        /\ Update(a, eventStatus[a], Without(systemList[a], removed), {})
    BY <1>7 DEF RemoveFromWaitList
  <2>2. whims' \in 0..MaxWhims
    BY <1>7, WhimTypes DEF RemoveFromWaitList, ReadyInv
  <2> QED
    BY <2>1, <2>2, WithoutKeeps
<1> QED
  BY <1>1, <1>2, <1>3, <1>4, <1>5, <1>6, <1>7 DEF UserCall

LEMMA ReadyStep == ReadyInv /\ [ReadyNext]_readyVars => ReadyInv'
<1> SUFFICES ASSUME ReadyInv, [ReadyNext]_readyVars
             PROVE  ReadyInv'
  OBVIOUS
<1>1. ASSUME NEW a \in Systems, UserCall(a)
      PROVE  ReadyInv'
  BY <1>1, UserCallKeeps
<1>2. ASSUME NEW a \in Systems, NEW b \in Systems \ {a},
             OnReceive(a, b) \/ OnClosedConnection(a, b) \/ Break(a, b) \/ Reconnect(a, b)
      PROVE  ReadyInv'
  BY <1>2, ReceiveKeeps, ClosedKeeps, LinkKeeps
<1>3. CASE UNCHANGED readyVars
  BY <1>3 DEF readyVars, ReadyInv, ReadyTypeOK, Nodes, HasEvent, AnyUnset, Links, Waits,
              ViewsFollow, AgreedOf, View
<1> QED
  BY <1>1, <1>2, <1>3 DEF ReadyNext

LEMMA ReadyInvariant == ReadySpec => []ReadyInv
<1> QED
  BY InitReady, ReadyStep, PTL DEF ReadySpec

\* What a quiet stream says.
LEMMA QuietViews ==
  ASSUME ReadyInv
  PROVE  ViewsCurrent
<1> SUFFICES ASSUME NEW a \in Systems \ Leavers, NEW b \in Systems,
                    Mutual(a, b), Quiet(a, b), eventStatus[a] # "FORCE_ALL_SET"
             PROVE  View(b, a) = eventStatus[a]
  BY DEF ViewsCurrent, ViewsCurrentOf
<1>1. Waits(a, b) /\ Waits(b, a) /\ <<a, b>> \in connected
  BY DEF Mutual
<1>2. a # b
  BY <1>1 DEF ReadyInv, Links
<1>3. AgreedOf(a, b)
  BY <1>1, <1>2 DEF ReadyInv, ViewsFollow
<1>4. ~LastSignal(streams[a][b], eventStatus[a]) /\ ~Asks(streams[b][a])
  BY DEF Quiet, LastSignal, Asks
<1> QED
  BY <1>1, <1>3, <1>4 DEF AgreedOf, Agreed

\* Every variable keeps its type; the packets are those their handlers understand.
THEOREM ReadyTypes == ReadySpec => []ReadyTypeOK
<1>1. ReadyInv => ReadyTypeOK
  BY DEF ReadyInv
<1> QED
  BY <1>1, ReadyInvariant, PTL

\* Whatever was signalled, taken back, asked again or lost: what b believes of a is what
\* a is, once nothing is under way between them.
THEOREM ViewsStayCurrent == ReadySpec => []ViewsCurrent
<1>1. ReadyInv => ViewsCurrent
  BY QuietViews
<1> QED
  BY <1>1, ReadyInvariant, PTL

\* Who has completed waits for systems that have passed the first stage, each of which
\* waits for nobody unset.
THEOREM CompletionHasTwoStages == ReadySpec => []TwoStages
<1>1. ASSUME ReadyInv PROVE TwoStages
  <2> SUFFICES ASSUME NEW a \in Systems, Completed(a), eventStatus[a] # "FORCE_ALL_SET",
                      NEW b \in DOMAIN systemList[a] \ Leavers, Mutual(a, b), Quiet(b, a)
               PROVE  /\ eventStatus[b] \in {"ALL_SET", "FORCE_ALL_SET"}
                      /\ eventStatus[b] = "ALL_SET" =>
                           \A c \in DOMAIN systemList[b] \ Leavers :
                             Mutual(b, c) /\ Quiet(c, b) => eventStatus[c] # "UNSET"
    BY DEF TwoStages
  <2>1. ViewsCurrent
    BY <1>1, QuietViews
  <2>2. b \in Systems
    BY <1>1, ListTypes DEF ReadyInv
  <2>3. \A c, d \in Systems : Mutual(c, d) => Mutual(d, c)
    BY <1>1 DEF Mutual, ReadyInv, Links
  <2>4. View(a, b) = "ALL_SET"
    BY DEF Completed, View
  <2>5. eventStatus[b] \in {"ALL_SET", "FORCE_ALL_SET"}
    BY <2>1, <2>2, <2>3, <2>4 DEF ViewsCurrent, ViewsCurrentOf
  <2>6. ASSUME eventStatus[b] = "ALL_SET", NEW c \in DOMAIN systemList[b] \ Leavers,
               Mutual(b, c), Quiet(c, b)
        PROVE  eventStatus[c] # "UNSET"
    <3>1. c \in Systems
      BY <1>1, <2>2, ListTypes DEF ReadyInv
    <3>2. View(b, c) # "UNSET"
      BY <1>1, <2>2, <2>6 DEF ReadyInv, Nodes, AnyUnset, View
    <3> QED
      BY <2>1, <2>2, <2>3, <2>6, <3>1, <3>2 DEF ViewsCurrent, ViewsCurrentOf
  <2> QED
    BY <2>5, <2>6
<1> QED
  BY <1>1, ReadyInvariant, PTL
=============================================================================
