------------------------------ MODULE MCRakPeer ------------------------------
(* RakPeer with a server and two clients, for TLC. *)
EXTENDS RakPeer, TLC

CONSTANTS server, c1, c2

Server(at, elsewhere) == [p \in Peers |-> IF p = server THEN at ELSE elsewhere]

ServerSlots == Server(2, 1)
OneSlot == Server(1, 1)
OneIncoming == Server(1, 0)
ToServer == Server({}, {server})
NoRestart == Server(0, 0)
ServerRestarts == Server(1, 0)
ClientRestarts == Server(0, 1)
ClientCalls == Server(0, 1)
TwoCalls == Server(0, 2)
NoData == Server(0, 0)
ClientData == Server(0, 2)

\* Either the server restarts once or a client calls Connect a second time.
OneRestartOrCall == starts[server] + calls[c1] <= 2

ClientSymmetry == Permutations({c1, c2})

RemoteFairSpec == RemoteSpec /\ RemoteFairness
=============================================================================
