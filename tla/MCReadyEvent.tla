---------------------------- MODULE MCReadyEvent ----------------------------
(* ReadyEvent among three systems that have met, for TLC. *)
EXTENDS ReadyEvent, TLC

CONSTANTS x, y, z

\* Everyone has added everyone and every query has arrived, a state of ReadySpec.
MetInit ==
  /\ eventStatus = [a \in Systems |-> "UNSET"]
  /\ systemList = [a \in Systems |-> [b \in Systems \ {a} |-> NewSystem]]
  /\ streams = [a \in Systems |-> [b \in Systems |-> <<>>]]
  /\ connected = {p \in Systems \X Systems : p[1] # p[2]}
  /\ lost = {}
  /\ whims = 0

MetSpec == MetInit /\ [][ReadyNext]_readyVars
FairMetSpec == MetSpec /\ ReadyFairness
=============================================================================
