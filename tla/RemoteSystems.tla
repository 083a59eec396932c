---------------------------- MODULE RemoteSystems ----------------------------
(***************************************************************************)
(* How one RakPeer keeps the systems it deals with: remoteSystemList, the  *)
(* hash table remoteSystemLookup over it and activeSystemList, and what    *)
(* its reliability layer keeps of each.  The operators take the three as   *)
(* one record r and return the new one, as the methods of RakPeer.cpp      *)
(* change them; RakPeer uses them in its actions.                          *)
(***************************************************************************)
EXTENDS Naturals, FiniteSets

CONSTANTS Peers,                \* the peers, each known by its address
          maximumNumberOfPeers, \* maxConnections of each peer's Startup: its slots
          UNASSIGNED,           \* UNASSIGNED_SYSTEM_ADDRESS
          MaxRestarts           \* bound: restarts of each peer

ASSUME PeersAssumption == IsFiniteSet(Peers) /\ UNASSIGNED \notin Peers
ASSUME SlotsAssumption == maximumNumberOfPeers \in [Peers -> Nat \ {0}]
ASSUME RestartsAssumption == MaxRestarts \in [Peers -> Nat]

Slots(p) == 1..maximumNumberOfPeers[p]
NoIndex == 0                          \* (unsigned int) -1

\* A start of a peer has a guid of its own: GenerateGUID is unique in effect.
Guids == UNION {{p} \X (0..MaxRestarts[p]) : p \in Peers}
UNASSIGNED_RAKNET_GUID == <<UNASSIGNED, 0>>

Disconnecting == {"DISCONNECT_ASAP", "DISCONNECT_ASAP_SILENTLY", "DISCONNECT_ON_NO_ACK"}
\* Mutant: only what comes in is given 10 seconds.
IncomingOnly == {"UNVERIFIED_SENDER", "HANDLING_CONNECTION_REQUEST"}
HalfOpen == {"UNVERIFIED_SENDER", "REQUESTED_CONNECTION", "HANDLING_CONNECTION_REQUEST"}
ConnectModes == {"UNVERIFIED_SENDER", "REQUESTED_CONNECTION", "HANDLING_CONNECTION_REQUEST",
                 "CONNECTED", "NO_ACTION"} \cup Disconnecting

-----------------------------------------------------------------------------
\* What a reliability layer keeps of a connection (Reliability models the layer):
\* the messages to be acknowledged, the numbers received, the ordered messages that
\* wait for an earlier one.  A message has its number no and, when it is ordered,
\* its ordering index ord; ord is NoOrder for a message sent RELIABLE only.
Unordered == {"CONNECTION_REQUEST", "BAD_CONNECTION_REQUEST", "INVALID_PASSWORD"}
\* Mutant: the last message of the handshake is not ordered.
LastUnordered == {"CONNECTION_REQUEST_ACCEPTED", "DISCONNECTION_NOTIFICATION", "DATA"}
Ordered == {"CONNECTION_REQUEST_ACCEPTED", "NEW_INCOMING_CONNECTION",
            "DISCONNECTION_NOTIFICATION", "DATA"}
NoOrder == 0
Messages == [kind : Unordered \cup Ordered, no : Nat \ {0}, ord : Nat]

FreshLayer == [sent |-> 0, ordered |-> 0, outgoing |-> {}, received |-> {},
               delivered |-> 0, held |-> {}]
Layers == [sent : Nat, ordered : Nat, outgoing : SUBSET Messages,
           received : SUBSET (Nat \ {0}), delivered : Nat, held : SUBSET Messages]

Enqueued(layer, kind) ==
  LET ord == IF kind \in Ordered THEN layer.ordered + 1 ELSE NoOrder
      message == [kind |-> kind, no |-> layer.sent + 1, ord |-> ord]
  IN [layer EXCEPT !.sent = @ + 1, !.ordered = IF kind \in Ordered THEN ord ELSE @,
                   !.outgoing = @ \cup {message}]

-----------------------------------------------------------------------------
Entries == [systemAddress : Peers \cup {UNASSIGNED}, guid : Guids \cup {UNASSIGNED_RAKNET_GUID},
            isActive : BOOLEAN, connectMode : ConnectModes,
            weInitiatedTheConnection : BOOLEAN, layer : Layers]

\* Of an inactive entry only the address is ever read.
Inactive(address) ==
  [systemAddress |-> address, guid |-> UNASSIGNED_RAKNET_GUID, isActive |-> FALSE,
   connectMode |-> "NO_ACTION", weInitiatedTheConnection |-> FALSE, layer |-> FreshLayer]

\* remoteSystemLookup: the indices in the chain of each address's bucket.  (Addresses
\* that share a bucket do not meet: every search compares the address of the entry.)
SystemLists(p) == [remoteSystemList : [Slots(p) -> Entries],
                   remoteSystemLookup : [Peers -> SUBSET Slots(p)],
                   activeSystemList : SUBSET Slots(p)]

NoSystems(p) == [remoteSystemList |-> [s \in Slots(p) |-> Inactive(UNASSIGNED)],
                 remoteSystemLookup |-> [a \in Peers |-> {}],
                 activeSystemList |-> {}]

InChain(r, a) == {s \in r.remoteSystemLookup[a] : r.remoteSystemList[s].systemAddress = a}

GetRemoteSystemIndex(r, a) ==
  IF InChain(r, a) = {} THEN NoIndex ELSE CHOOSE s \in InChain(r, a) : TRUE

\* GetRemoteSystemFromSystemAddress(a, true, true) # 0.
IsActive(r, a) ==
  LET s == GetRemoteSystemIndex(r, a)
  IN s # NoIndex /\ r.remoteSystemList[s].isActive

\* GetRemoteSystemFromSystemAddress(a, false, true) # 0: the user's thread does not
\* use the hash table.
ActiveWith(r, a) ==
  {s \in DOMAIN r.remoteSystemList :
     r.remoteSystemList[s].isActive /\ r.remoteSystemList[s].systemAddress = a}

Entry(r, a) == r.remoteSystemList[GetRemoteSystemIndex(r, a)]

\* GetRemoteSystemFromGUID(g, true), as an index.
GetRemoteSystemFromGUID(r, g) ==
  LET found == {s \in DOMAIN r.remoteSystemList :
                  r.remoteSystemList[s].isActive /\ r.remoteSystemList[s].guid = g}
  IN IF found = {} THEN NoIndex ELSE CHOOSE s \in found : \A t \in found : s <= t

DereferenceRemoteSystem(r, a) == [r EXCEPT !.remoteSystemLookup[a] = @ \ InChain(r, a)]

\* Mutant: the slot stays in the bucket of the address it had before.
ReferenceOldKept(r, a, s) ==
  [DereferenceRemoteSystem(r, a) EXCEPT
     !.remoteSystemList[s].systemAddress = a,
     !.remoteSystemLookup[a] = @ \cup {s}]

ReferenceRemoteSystem(r, a, s) ==
  LET old == r.remoteSystemList[s].systemAddress
      without == IF old # UNASSIGNED /\ GetRemoteSystemIndex(r, old) = s
                 THEN DereferenceRemoteSystem(r, old) ELSE r
  IN [DereferenceRemoteSystem(without, a) EXCEPT
        !.remoteSystemList[s].systemAddress = a,
        !.remoteSystemLookup[a] = @ \cup {s}]

FreeSlots(r) == {s \in DOMAIN r.remoteSystemList : ~r.remoteSystemList[s].isActive}

Assigned(a, g) ==
  [systemAddress |-> a, guid |-> g, isActive |-> TRUE, connectMode |-> "UNVERIFIED_SENDER",
   weInitiatedTheConnection |-> FALSE, layer |-> FreshLayer]

\* AssignSystemAddressToRemoteSystemList with limitConnectionFrequencyFromTheSameIP
\* off: the first free slot is taken, and nothing happens when there is none.
Assign(r, a, g) ==
  IF FreeSlots(r) = {} THEN r
  ELSE LET s == CHOOSE i \in FreeSlots(r) : \A j \in FreeSlots(r) : i <= j
       IN [ReferenceRemoteSystem(r, a, s) EXCEPT !.remoteSystemList[s] = Assigned(a, g),
                                                 !.activeSystemList = @ \cup {s}]

\* CloseConnectionInternal(a, false, true, ...).  The entry keeps its address and its
\* reference.
Close(r, a) ==
  IF ~IsActive(r, a) THEN r
  ELSE LET listed == {s \in r.activeSystemList : r.remoteSystemList[s].systemAddress = a}
           removed == IF listed = {} THEN {} ELSE {CHOOSE s \in listed : TRUE}
       IN [r EXCEPT !.remoteSystemList[GetRemoteSystemIndex(r, a)] = Inactive(a),
                    !.activeSystemList = @ \ removed]

\* The entry of an active address is changed in place.
Changed(r, a, e) == [r EXCEPT !.remoteSystemList[GetRemoteSystemIndex(r, a)] = e]

\* GetNumberOfRemoteInitiatedConnections counts what is CONNECTED, and nothing that is
\* on its way to be.
RemoteInitiated(r) ==
  {s \in r.activeSystemList :
     /\ r.remoteSystemList[s].connectMode = "CONNECTED"
     /\ ~r.remoteSystemList[s].weInitiatedTheConnection}

-----------------------------------------------------------------------------
\* The three structures agree: an active entry is found under its address, through
\* the hash table and only there; the active list holds exactly the active entries.
ListsAgreeIn(r) ==
  /\ r.activeSystemList = {s \in DOMAIN r.remoteSystemList : r.remoteSystemList[s].isActive}
  /\ \A a \in Peers : \A s \in r.remoteSystemLookup[a] : r.remoteSystemList[s].systemAddress = a
  /\ \A a \in Peers : \A s, t \in r.remoteSystemLookup[a] : s = t
  /\ \A s \in DOMAIN r.remoteSystemList : r.remoteSystemList[s].isActive =>
       /\ r.remoteSystemList[s].systemAddress \in Peers
       /\ s \in r.remoteSystemLookup[r.remoteSystemList[s].systemAddress]
=============================================================================
