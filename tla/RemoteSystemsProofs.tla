------------------------- MODULE RemoteSystemsProofs -------------------------
(***************************************************************************)
(* What the operators of RemoteSystems do to the lists of a peer, for any  *)
(* number of peers and slots: they keep the types, they keep the three     *)
(* structures in agreement, and they touch no other address than the one   *)
(* they are called with.                                                   *)
(***************************************************************************)
EXTENDS RemoteSystems, WellFoundedInduction, TLAPS

\* A set of slots has a first one.
LEMMA FirstSlot ==
  ASSUME NEW p \in Peers, NEW S \in SUBSET Slots(p), S # {}
  PROVE  \E i \in S : \A j \in S : i <= j
<1> DEFINE less == OpToRel(<, Nat)
<1>1. \A x, y \in Nat : y < x => <<y, x>> \in less
  BY DEF OpToRel
<1>2. IsWellFoundedOn(less, Nat)
  BY NatLessThanWellFounded
<1>3. S \subseteq Nat
  BY SlotsAssumption DEF Slots
<1> HIDE DEF less
<1>4. PICK x \in S : \A y \in S : ~ (<<y, x>> \in less)
  BY <1>2, <1>3, WFMin
<1>5. ASSUME NEW y \in S PROVE x <= y
  <2>1. x \in Nat /\ y \in Nat
    BY <1>3
  <2>2. ~ (y < x)
    BY <1>1, <1>4, <2>1
  <2> QED
    BY <2>1, <2>2
<1> QED
  BY <1>5

\* NoIndex is no slot.
LEMMA NoIndexNoSlot == ASSUME NEW p \in Peers PROVE NoIndex \notin Slots(p)
  BY SlotsAssumption DEF NoIndex, Slots

\* An index found is in the chain of the address, and none is found in an empty one.
LEMMA IndexFound ==
  ASSUME NEW p \in Peers, NEW r \in SystemLists(p), NEW a \in Peers
  PROVE  /\ InChain(r, a) \in SUBSET Slots(p)
         /\ IF InChain(r, a) = {} THEN GetRemoteSystemIndex(r, a) = NoIndex
                                  ELSE GetRemoteSystemIndex(r, a) \in InChain(r, a)
<1>1. InChain(r, a) \in SUBSET Slots(p)
  BY DEF InChain, SystemLists
<1> QED
  BY <1>1 DEF GetRemoteSystemIndex

\* What is active is an active entry of a slot, with the address it is looked up by.
LEMMA ActiveFound ==
  ASSUME NEW p \in Peers, NEW r \in SystemLists(p), NEW a \in Peers, IsActive(r, a)
  PROVE  /\ GetRemoteSystemIndex(r, a) \in InChain(r, a)
         /\ GetRemoteSystemIndex(r, a) \in Slots(p)
         /\ Entry(r, a) \in Entries
         /\ Entry(r, a).systemAddress = a
         /\ Entry(r, a).isActive
<1>1. GetRemoteSystemIndex(r, a) \in InChain(r, a) /\ InChain(r, a) \in SUBSET Slots(p)
  BY IndexFound DEF IsActive
<1>2. Entry(r, a) = r.remoteSystemList[GetRemoteSystemIndex(r, a)]
  BY DEF Entry
<1>3. r.remoteSystemList \in [Slots(p) -> Entries]
  BY DEF SystemLists
<1>4. r.remoteSystemList[GetRemoteSystemIndex(r, a)].systemAddress = a
  BY <1>1 DEF InChain
<1> QED
  BY <1>1, <1>2, <1>3, <1>4 DEF IsActive

LEMMA FreshLayerTyped == FreshLayer \in Layers
  BY DEF FreshLayer, Layers

LEMMA InactiveTyped ==
  ASSUME NEW a \in Peers \cup {UNASSIGNED} PROVE Inactive(a) \in Entries
  BY FreshLayerTyped DEF Inactive, Entries, ConnectModes

LEMMA NoSystemsTyped ==
  ASSUME NEW p \in Peers
  PROVE  NoSystems(p) \in SystemLists(p) /\ ListsAgreeIn(NoSystems(p))
<1>1. NoSystems(p) \in SystemLists(p)
  BY InactiveTyped DEF NoSystems, SystemLists
<1>2. ListsAgreeIn(NoSystems(p))
  BY DEF NoSystems, ListsAgreeIn, Inactive
<1> QED
  BY <1>1, <1>2

\* Nothing is active in an empty list.
LEMMA NoSystemsInactive ==
  ASSUME NEW p \in Peers, NEW a \in Peers PROVE ~IsActive(NoSystems(p), a)
<1>1. InChain(NoSystems(p), a) = {}
  BY DEF InChain, NoSystems
<1> QED
  BY <1>1 DEF IsActive, GetRemoteSystemIndex

(***************************************************************************)
(* Types.                                                                  *)
(***************************************************************************)
LEMMA EnqueuedTyped ==
  ASSUME NEW layer \in Layers, NEW kind \in Unordered \cup Ordered
  PROVE  Enqueued(layer, kind) \in Layers
<1> DEFINE ord == IF kind \in Ordered THEN layer.ordered + 1 ELSE NoOrder
           message == [kind |-> kind, no |-> layer.sent + 1, ord |-> ord]
<1>1. layer.sent + 1 \in Nat \ {0} /\ ord \in Nat
  BY DEF Layers, NoOrder
<1>2. message \in Messages
  BY <1>1 DEF Messages
<1>3. layer.outgoing \cup {message} \in SUBSET Messages
  BY <1>2 DEF Layers
<1>4. Enqueued(layer, kind) =
        [layer EXCEPT !.sent = layer.sent + 1,
                      !.ordered = IF kind \in Ordered THEN ord ELSE layer.ordered,
                      !.outgoing = layer.outgoing \cup {message}]
  BY DEF Enqueued, Layers
<1> HIDE DEF ord, message
<1> QED
  BY <1>1, <1>3, <1>4 DEF Layers

LEMMA ChangedTyped ==
  ASSUME NEW p \in Peers, NEW r \in SystemLists(p), NEW a \in Peers, NEW e \in Entries
  PROVE  Changed(r, a, e) \in SystemLists(p)
  BY DEF Changed, SystemLists

(***************************************************************************)
(* Agreement.                                                              *)
(***************************************************************************)
\* An active entry is the one that is found under its address.
LEMMA EntryFound ==
  ASSUME NEW p \in Peers, NEW r \in SystemLists(p), ListsAgreeIn(r),
         NEW s \in Slots(p), r.remoteSystemList[s].isActive
  PROVE  LET a == r.remoteSystemList[s].systemAddress
         IN /\ a \in Peers
            /\ IsActive(r, a)
            /\ GetRemoteSystemIndex(r, a) = s
            /\ Entry(r, a) = r.remoteSystemList[s]
<1> DEFINE a == r.remoteSystemList[s].systemAddress
<1>1. DOMAIN r.remoteSystemList = Slots(p)
  BY DEF SystemLists
<1>2. a \in Peers /\ s \in r.remoteSystemLookup[a]
  BY <1>1 DEF ListsAgreeIn
<1>3. \A t \in r.remoteSystemLookup[a] : t = s
  BY <1>2 DEF ListsAgreeIn
<1>4. InChain(r, a) = {s}
  BY <1>2, <1>3 DEF InChain
<1>5. GetRemoteSystemIndex(r, a) = s
  BY <1>4 DEF GetRemoteSystemIndex
<1>6. s # NoIndex
  BY NoIndexNoSlot
<1> HIDE DEF a
<1>7. IsActive(r, a) /\ Entry(r, a) = r.remoteSystemList[s]
  BY <1>5, <1>6 DEF IsActive, Entry
<1> QED
  BY <1>2, <1>5, <1>7 DEF a

\* The systems of the other addresses stay as they were.
OthersKept(r, t, a) ==
  \A b \in Peers \ {a} : /\ IsActive(t, b) = IsActive(r, b)
                         /\ IsActive(r, b) => Entry(t, b) = Entry(r, b)

LEMMA OtherEntriesKept ==
  ASSUME NEW p \in Peers, NEW r \in SystemLists(p), NEW t \in SystemLists(p),
         ListsAgreeIn(r), ListsAgreeIn(t), NEW a \in Peers,
         \A s \in Slots(p) : \/ t.remoteSystemList[s] = r.remoteSystemList[s]
                             \/ /\ ~r.remoteSystemList[s].isActive
                                   \/ r.remoteSystemList[s].systemAddress = a
                                /\ ~t.remoteSystemList[s].isActive
                                   \/ t.remoteSystemList[s].systemAddress = a
  PROVE  OthersKept(r, t, a)
<1> SUFFICES ASSUME NEW b \in Peers \ {a}
             PROVE  /\ IsActive(t, b) = IsActive(r, b)
                    /\ IsActive(r, b) => Entry(t, b) = Entry(r, b)
  BY DEF OthersKept
<1>1. ASSUME IsActive(r, b) PROVE IsActive(t, b) /\ Entry(t, b) = Entry(r, b)
  <2> DEFINE s == GetRemoteSystemIndex(r, b)
  <2>1. s \in Slots(p) /\ Entry(r, b) = r.remoteSystemList[s]
    BY <1>1, ActiveFound DEF Entry
  <2>2. r.remoteSystemList[s].isActive /\ r.remoteSystemList[s].systemAddress = b
    BY <1>1, <2>1, ActiveFound
  <2> HIDE DEF s
  <2>3. t.remoteSystemList[s] = r.remoteSystemList[s]
    BY <2>1, <2>2
  <2> QED
    BY <2>1, <2>2, <2>3, EntryFound
<1>2. ASSUME IsActive(t, b) PROVE IsActive(r, b)
  <2> DEFINE s == GetRemoteSystemIndex(t, b)
  <2>1. s \in Slots(p) /\ Entry(t, b) = t.remoteSystemList[s]
    BY <1>2, ActiveFound DEF Entry
  <2>2. t.remoteSystemList[s].isActive /\ t.remoteSystemList[s].systemAddress = b
    BY <1>2, <2>1, ActiveFound
  <2> HIDE DEF s
  <2>3. t.remoteSystemList[s] = r.remoteSystemList[s]
    BY <2>1, <2>2
  <2> QED
    BY <2>1, <2>2, <2>3, EntryFound
<1>3. IsActive(t, b) \in BOOLEAN /\ IsActive(r, b) \in BOOLEAN
  <2>1. \A u \in {r, t} : \A s \in Slots(p) : u.remoteSystemList[s].isActive \in BOOLEAN
    BY DEF SystemLists, Entries
  <2>2. \A u \in {r, t} : GetRemoteSystemIndex(u, b) # NoIndex
                            => GetRemoteSystemIndex(u, b) \in Slots(p)
    BY IndexFound
  <2> QED
    BY <2>1, <2>2 DEF IsActive
<1> QED
  BY <1>1, <1>2, <1>3

\* A system changed in place is found changed.
LEMMA ChangedAgrees ==
  ASSUME NEW p \in Peers, NEW r \in SystemLists(p), ListsAgreeIn(r), NEW a \in Peers,
         IsActive(r, a), NEW e \in Entries, e.systemAddress = a, e.isActive
  PROVE  LET t == Changed(r, a, e)
         IN /\ t \in SystemLists(p)
            /\ ListsAgreeIn(t)
            /\ IsActive(t, a) /\ Entry(t, a) = e
            /\ OthersKept(r, t, a)
<1> DEFINE t == Changed(r, a, e)
           i == GetRemoteSystemIndex(r, a)
<1>1. i \in Slots(p) /\ i \in r.remoteSystemLookup[a]
  BY ActiveFound DEF InChain
<1>2. r.remoteSystemList[i].systemAddress = a /\ r.remoteSystemList[i].isActive
  BY ActiveFound DEF Entry
<1>3. t \in SystemLists(p)
  BY ChangedTyped
<1> HIDE DEF i
<1>4. /\ t.remoteSystemLookup = r.remoteSystemLookup
      /\ t.activeSystemList = r.activeSystemList
      /\ DOMAIN t.remoteSystemList = Slots(p) /\ DOMAIN r.remoteSystemList = Slots(p)
      /\ t.remoteSystemList[i] = e
      /\ \A s \in Slots(p) \ {i} : t.remoteSystemList[s] = r.remoteSystemList[s]
  BY <1>1 DEF Changed, SystemLists, i
<1> HIDE DEF t
<1>5. \A s \in Slots(p) : /\ t.remoteSystemList[s].systemAddress = r.remoteSystemList[s].systemAddress
                          /\ t.remoteSystemList[s].isActive = r.remoteSystemList[s].isActive
  <2>1. e.isActive = TRUE /\ r.remoteSystemList[i].isActive = TRUE
    BY <1>1, <1>2 DEF SystemLists, Entries
  <2> QED
    BY <1>2, <1>4, <2>1
<1>6. r.remoteSystemLookup \in [Peers -> SUBSET Slots(p)]
  BY DEF SystemLists
<1>7. ListsAgreeIn(t)
  BY <1>4, <1>5, <1>6 DEF ListsAgreeIn
<1>8. IsActive(t, a) /\ Entry(t, a) = e
  BY <1>1, <1>3, <1>4, <1>7, EntryFound
<1>9. OthersKept(r, t, a)
  BY <1>2, <1>3, <1>4, <1>7, OtherEntriesKept
<1> QED
  BY <1>3, <1>7, <1>8, <1>9 DEF t

\* A system closed is active no more, whichever slot it had.
LEMMA CloseAgrees ==
  ASSUME NEW p \in Peers, NEW r \in SystemLists(p), ListsAgreeIn(r), NEW a \in Peers
  PROVE  LET t == Close(r, a)
         IN /\ t \in SystemLists(p)
            /\ ListsAgreeIn(t)
            /\ ~IsActive(t, a)
            /\ OthersKept(r, t, a)
<1> DEFINE t == Close(r, a)
           i == GetRemoteSystemIndex(r, a)
<1>1. CASE ~IsActive(r, a)
  <2>1. t = r
    BY <1>1 DEF Close
  <2> QED
    BY <1>1, <2>1 DEF OthersKept
<1>2. CASE IsActive(r, a)
  <2>1. i \in Slots(p) /\ i \in r.remoteSystemLookup[a]
    BY <1>2, ActiveFound DEF InChain
  <2>2. r.remoteSystemList[i].systemAddress = a /\ r.remoteSystemList[i].isActive
    BY <1>2, ActiveFound DEF Entry
  <2>3. \A s \in Slots(p) :
          r.remoteSystemList[s].isActive /\ r.remoteSystemList[s].systemAddress = a => s = i
    BY EntryFound
  <2> DEFINE listed == {s \in r.activeSystemList : r.remoteSystemList[s].systemAddress = a}
             removed == IF listed = {} THEN {} ELSE {CHOOSE s \in listed : TRUE}
  <2>4. DOMAIN r.remoteSystemList = Slots(p)
    BY DEF SystemLists
  <2>5. listed = {i}
    BY <2>1, <2>2, <2>3, <2>4 DEF ListsAgreeIn
  <2>6. removed = {i}
    BY <2>5
  <2>7. t = [r EXCEPT !.remoteSystemList[i] = Inactive(a), !.activeSystemList = @ \ removed]
    BY <1>2 DEF Close
  <2>8. Inactive(a) \in Entries /\ Inactive(a).systemAddress = a /\ ~Inactive(a).isActive
    BY InactiveTyped DEF Inactive
  <2> HIDE DEF i, t, removed
  <2>9. t \in SystemLists(p)
    BY <2>1, <2>7, <2>8 DEF SystemLists
  <2>10. /\ t.remoteSystemLookup = r.remoteSystemLookup
         /\ t.activeSystemList = r.activeSystemList \ {i}
         /\ DOMAIN t.remoteSystemList = Slots(p)
         /\ t.remoteSystemList[i] = Inactive(a)
         /\ \A s \in Slots(p) \ {i} : t.remoteSystemList[s] = r.remoteSystemList[s]
    BY <2>1, <2>6, <2>7 DEF SystemLists
  <2>11. r.remoteSystemLookup \in [Peers -> SUBSET Slots(p)]
    BY DEF SystemLists
  <2>12. \A s \in Slots(p) : t.remoteSystemList[s].systemAddress = r.remoteSystemList[s].systemAddress
    BY <2>2, <2>8, <2>10
  <2>13. t.activeSystemList = {s \in Slots(p) : t.remoteSystemList[s].isActive}
    BY <2>4, <2>8, <2>10 DEF ListsAgreeIn
  <2>14. \A s \in Slots(p) : t.remoteSystemList[s].isActive =>
           /\ t.remoteSystemList[s].systemAddress \in Peers
           /\ s \in t.remoteSystemLookup[t.remoteSystemList[s].systemAddress]
    BY <2>4, <2>8, <2>10, <2>12 DEF ListsAgreeIn
  <2>15. ListsAgreeIn(t)
    BY <2>10, <2>11, <2>12, <2>13, <2>14 DEF ListsAgreeIn
  <2>16. ~IsActive(t, a)
    <3> SUFFICES ASSUME IsActive(t, a) PROVE FALSE
      OBVIOUS
    <3> DEFINE j == GetRemoteSystemIndex(t, a)
    <3>1. j \in Slots(p) /\ t.remoteSystemList[j].systemAddress = a /\ t.remoteSystemList[j].isActive
      BY <2>9, ActiveFound DEF Entry
    <3> HIDE DEF j
    <3> QED
      BY <2>3, <2>8, <2>10, <3>1
  <2>17. OthersKept(r, t, a)
    BY <2>2, <2>8, <2>9, <2>10, <2>15, OtherEntriesKept
  <2> QED
    BY <2>9, <2>15, <2>16, <2>17 DEF t
<1> QED
  BY <1>1, <1>2

\* In lists that agree the slot is found in no bucket but that of its own address, and
\* ReferenceRemoteSystem leaves it in that of the new address alone.
LEMMA ReferencedBuckets ==
  ASSUME NEW p \in Peers, NEW r \in SystemLists(p), ListsAgreeIn(r), NEW a \in Peers,
         NEW s \in Slots(p)
  PROVE  ReferenceRemoteSystem(r, a, s) =
           [remoteSystemList |-> [r.remoteSystemList EXCEPT ![s].systemAddress = a],
            remoteSystemLookup |->
              [b \in Peers |-> IF b = a THEN {s} ELSE r.remoteSystemLookup[b] \ {s}],
            activeSystemList |-> r.activeSystemList]
<1> DEFINE old == r.remoteSystemList[s].systemAddress
           without == IF old # UNASSIGNED /\ GetRemoteSystemIndex(r, old) = s
                      THEN DereferenceRemoteSystem(r, old) ELSE r
           both == DereferenceRemoteSystem(without, a)
<1>1. old \in Peers \cup {UNASSIGNED}
  BY DEF SystemLists, Entries
<1>2. r.remoteSystemLookup \in [Peers -> SUBSET Slots(p)]
  BY DEF SystemLists
<1>3. \A b \in Peers : InChain(r, b) = r.remoteSystemLookup[b]
  BY <1>2 DEF InChain, ListsAgreeIn
<1>4. \A b \in Peers : s \in r.remoteSystemLookup[b] =>
        b = old /\ r.remoteSystemLookup[b] = {s} /\ GetRemoteSystemIndex(r, b) = s
  <2> SUFFICES ASSUME NEW b \in Peers, s \in r.remoteSystemLookup[b]
               PROVE  b = old /\ r.remoteSystemLookup[b] = {s} /\ GetRemoteSystemIndex(r, b) = s
    OBVIOUS
  <2>1. b = old /\ r.remoteSystemLookup[b] = {s}
    BY DEF ListsAgreeIn
  <2>2. InChain(r, b) = {s}
    BY <1>3, <2>1
  <2>3. GetRemoteSystemIndex(r, b) = s
    BY <2>2 DEF GetRemoteSystemIndex
  <2> QED
    BY <2>1, <2>3
<1>5. \A b \in Peers : GetRemoteSystemIndex(r, b) = s => s \in r.remoteSystemLookup[b]
  BY <1>3, IndexFound, NoIndexNoSlot
<1>6. /\ without.remoteSystemLookup = [b \in Peers |-> r.remoteSystemLookup[b] \ {s}]
      /\ without.remoteSystemList = r.remoteSystemList
      /\ without.activeSystemList = r.activeSystemList
      /\ without \in SystemLists(p)
  <2>1. CASE old # UNASSIGNED /\ GetRemoteSystemIndex(r, old) = s
    <3>1. old \in Peers /\ InChain(r, old) = {s}
      BY <1>1, <1>3, <1>4, <1>5, <2>1
    <3>2. without = [r EXCEPT !.remoteSystemLookup[old] = @ \ {s}]
      BY <2>1, <3>1 DEF DereferenceRemoteSystem
    <3>3. \A b \in Peers \ {old} : s \notin r.remoteSystemLookup[b]
      BY <1>4
    <3> HIDE DEF without, old
    <3>4. [r.remoteSystemLookup EXCEPT ![old] = @ \ {s}]
            = [b \in Peers |-> r.remoteSystemLookup[b] \ {s}]
      BY <1>2, <3>1, <3>3
    <3>5. /\ without.remoteSystemLookup = [r.remoteSystemLookup EXCEPT ![old] = @ \ {s}]
          /\ without.remoteSystemList = r.remoteSystemList
          /\ without.activeSystemList = r.activeSystemList
          /\ without \in SystemLists(p)
      BY <3>1, <3>2 DEF SystemLists
    <3> QED
      BY <3>4, <3>5
  <2>2. CASE ~(old # UNASSIGNED /\ GetRemoteSystemIndex(r, old) = s)
    <3>1. without = r
      BY <2>2
    <3>2. \A b \in Peers : s \notin r.remoteSystemLookup[b]
      BY <1>4, <2>2, PeersAssumption
    <3>3. r.remoteSystemLookup = [b \in Peers |-> r.remoteSystemLookup[b] \ {s}]
      BY <1>2, <3>2
    <3> QED
      BY <3>1, <3>3
  <2> QED
    BY <2>1, <2>2
<1> HIDE DEF without
<1>7. InChain(without, a) = r.remoteSystemLookup[a] \ {s}
  BY <1>3, <1>6 DEF InChain
<1>8. both = [without EXCEPT !.remoteSystemLookup[a] = @ \ InChain(without, a)]
  BY DEF DereferenceRemoteSystem
<1> HIDE DEF both
<1>9. /\ both.remoteSystemLookup =
           [b \in Peers |-> IF b = a THEN {} ELSE r.remoteSystemLookup[b] \ {s}]
      /\ both.remoteSystemList = r.remoteSystemList
      /\ both.activeSystemList = r.activeSystemList
      /\ both \in SystemLists(p)
  BY <1>6, <1>7, <1>8 DEF SystemLists
<1>10. ReferenceRemoteSystem(r, a, s) =
         [both EXCEPT !.remoteSystemList[s].systemAddress = a, !.remoteSystemLookup[a] = @ \cup {s}]
  BY DEF ReferenceRemoteSystem, both, without
<1>11. ReferenceRemoteSystem(r, a, s) =
         [remoteSystemList |-> [r.remoteSystemList EXCEPT ![s].systemAddress = a],
          remoteSystemLookup |-> [both.remoteSystemLookup EXCEPT ![a] = @ \cup {s}],
          activeSystemList |-> r.activeSystemList]
  BY <1>9, <1>10 DEF SystemLists
<1>12. [both.remoteSystemLookup EXCEPT ![a] = @ \cup {s}]
         = [b \in Peers |-> IF b = a THEN {s} ELSE r.remoteSystemLookup[b] \ {s}]
  BY <1>9
<1> QED
  BY <1>11, <1>12

\* A system that was not active is so after it was assigned, unless no slot was free.
LEMMA AssignAgrees ==
  ASSUME NEW p \in Peers, NEW r \in SystemLists(p), ListsAgreeIn(r), NEW a \in Peers,
         NEW g \in Guids, ~IsActive(r, a)
  PROVE  LET t == Assign(r, a, g)
         IN /\ t \in SystemLists(p)
            /\ ListsAgreeIn(t)
            /\ IsActive(t, a) => Entry(t, a) = Assigned(a, g)
            /\ OthersKept(r, t, a)
<1> DEFINE t == Assign(r, a, g)
<1>0. DOMAIN r.remoteSystemList = Slots(p)
  BY DEF SystemLists
<1>1. CASE FreeSlots(r) = {}
  <2>1. t = r
    BY <1>1 DEF Assign
  <2> QED
    BY <2>1 DEF OthersKept
<1>2. CASE FreeSlots(r) # {}
  <2> DEFINE s == CHOOSE i \in FreeSlots(r) : \A j \in FreeSlots(r) : i <= j
             referenced == ReferenceRemoteSystem(r, a, s)
  <2>1. FreeSlots(r) \in SUBSET Slots(p)
    BY <1>0 DEF FreeSlots
  <2>2. s \in FreeSlots(r)
    BY <1>2, <2>1, FirstSlot
  <2>3. s \in Slots(p) /\ ~r.remoteSystemList[s].isActive
    BY <1>0, <2>2 DEF FreeSlots
  <2>4. t = [referenced EXCEPT !.remoteSystemList[s] = Assigned(a, g),
                               !.activeSystemList = @ \cup {s}]
    BY <1>2 DEF Assign
  <2> HIDE DEF s
  <2>5. referenced =
          [remoteSystemList |-> [r.remoteSystemList EXCEPT ![s].systemAddress = a],
           remoteSystemLookup |->
             [b \in Peers |-> IF b = a THEN {s} ELSE r.remoteSystemLookup[b] \ {s}],
           activeSystemList |-> r.activeSystemList]
    BY <2>3, ReferencedBuckets
  <2> HIDE DEF referenced, t
  <2>6. t = [remoteSystemList |-> [r.remoteSystemList EXCEPT ![s] = Assigned(a, g)],
             remoteSystemLookup |->
               [b \in Peers |-> IF b = a THEN {s} ELSE r.remoteSystemLookup[b] \ {s}],
             activeSystemList |-> r.activeSystemList \cup {s}]
    BY <2>3, <2>4, <2>5 DEF SystemLists
  <2>7. Assigned(a, g) \in Entries
    BY FreshLayerTyped DEF Assigned, Entries, ConnectModes
  <2>8. Assigned(a, g).isActive /\ Assigned(a, g).systemAddress = a
    BY DEF Assigned
  <2>9. t \in SystemLists(p)
    <3>1. [r.remoteSystemList EXCEPT ![s] = Assigned(a, g)] \in [Slots(p) -> Entries]
      BY <2>3, <2>7 DEF SystemLists
    <3>2. [b \in Peers |-> IF b = a THEN {s} ELSE r.remoteSystemLookup[b] \ {s}]
            \in [Peers -> SUBSET Slots(p)]
      BY <2>3 DEF SystemLists
    <3>3. r.activeSystemList \cup {s} \in SUBSET Slots(p)
      BY <2>3 DEF SystemLists
    <3> QED
      BY <2>6, <3>1, <3>2, <3>3 DEF SystemLists
  <2>10. /\ DOMAIN t.remoteSystemList = Slots(p)
         /\ t.remoteSystemList[s] = Assigned(a, g)
         /\ \A u \in Slots(p) \ {s} : t.remoteSystemList[u] = r.remoteSystemList[u]
         /\ t.remoteSystemLookup[a] = {s}
         /\ \A b \in Peers \ {a} : t.remoteSystemLookup[b] = r.remoteSystemLookup[b] \ {s}
         /\ t.activeSystemList = r.activeSystemList \cup {s}
    BY <1>0, <2>3, <2>6
  <2>11. \A u \in Slots(p) : r.remoteSystemList[u].isActive
                               => r.remoteSystemList[u].systemAddress # a
    BY EntryFound
  <2>12. t.activeSystemList = {u \in Slots(p) : t.remoteSystemList[u].isActive}
    BY <1>0, <2>3, <2>8, <2>10 DEF ListsAgreeIn
  <2>13. \A b \in Peers : \A u \in t.remoteSystemLookup[b] : t.remoteSystemList[u].systemAddress = b
    <3> SUFFICES ASSUME NEW b \in Peers, NEW u \in t.remoteSystemLookup[b]
                 PROVE  t.remoteSystemList[u].systemAddress = b
      OBVIOUS
    <3>1. CASE b = a
      BY <2>8, <2>10, <3>1
    <3>2. CASE b # a
      <4>1. u \in r.remoteSystemLookup[b] /\ u # s
        BY <2>10, <3>2
      <4>2. u \in Slots(p) /\ r.remoteSystemList[u].systemAddress = b
        BY <4>1 DEF ListsAgreeIn, SystemLists
      <4> QED
        BY <2>10, <4>1, <4>2
    <3> QED
      BY <3>1, <3>2
  <2>14. \A b \in Peers : \A u, v \in t.remoteSystemLookup[b] : u = v
    <3>1. \A b \in Peers : \A u, v \in r.remoteSystemLookup[b] : u = v
      BY DEF ListsAgreeIn
    <3> QED
      BY <2>10, <3>1
  <2>15. \A u \in Slots(p) : t.remoteSystemList[u].isActive =>
           /\ t.remoteSystemList[u].systemAddress \in Peers
           /\ u \in t.remoteSystemLookup[t.remoteSystemList[u].systemAddress]
    <3> SUFFICES ASSUME NEW u \in Slots(p), t.remoteSystemList[u].isActive
                 PROVE  /\ t.remoteSystemList[u].systemAddress \in Peers
                        /\ u \in t.remoteSystemLookup[t.remoteSystemList[u].systemAddress]
      OBVIOUS
    <3>1. CASE u = s
      BY <2>8, <2>10, <3>1
    <3>2. CASE u # s
      <4>1. r.remoteSystemList[u].isActive /\ t.remoteSystemList[u] = r.remoteSystemList[u]
        BY <2>10, <3>2
      <4>2. /\ r.remoteSystemList[u].systemAddress \in Peers \ {a}
            /\ u \in r.remoteSystemLookup[r.remoteSystemList[u].systemAddress]
        BY <1>0, <2>11, <4>1 DEF ListsAgreeIn
      <4> QED
        BY <2>10, <3>2, <4>1, <4>2
    <3> QED
      BY <3>1, <3>2
  <2>16. ListsAgreeIn(t)
    BY <2>10, <2>12, <2>13, <2>14, <2>15 DEF ListsAgreeIn
  <2>17. IsActive(t, a) /\ Entry(t, a) = Assigned(a, g)
    BY <2>3, <2>8, <2>9, <2>10, <2>16, EntryFound
  <2>18. OthersKept(r, t, a)
    BY <2>3, <2>8, <2>9, <2>10, <2>16, OtherEntriesKept
  <2> QED
    BY <2>9, <2>16, <2>17, <2>18 DEF t
<1> QED
  BY <1>1, <1>2
=============================================================================
