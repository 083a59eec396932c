------------------------------ MODULE Lifecycle ------------------------------
(***************************************************************************)
(* What RakPeer promises the user of one peer about a remote system, by    *)
(* the packets Receive returns: a connection begins at most once before it *)
(* ends, data comes only while it is open, and a call of Connect is        *)
(* answered at most once.  The game relies on it: OnIncomingConnection and *)
(* the client's state machine have no case for anything else.  An end is   *)
(* promised less: it may be told of a connection that never began, when    *)
(* the other side closed it while it was being made, and told again when   *)
(* one closes a connection that is gone and another has taken its place.   *)
(* Data may come after such an end, and while the connection is closed.    *)
(***************************************************************************)
CONSTANT Peers

VARIABLES told,    \* told[p][q]: the last packet about q that p's user was given
          asked,   \* asked[p][q]: a call of Connect of p's user to q is unanswered
          leaving  \* leaving[p][q]: the connection is being closed, by p or by q

lifecycleVars == <<told, asked, leaving>>

Open == {"CONNECTION_REQUEST_ACCEPTED", "NEW_INCOMING_CONNECTION", "DATA"}
Ended == {"CONNECTION_LOST", "DISCONNECTION_NOTIFICATION", "LATE_DATA"}
Refused == {"CONNECTION_ATTEMPT_FAILED", "ALREADY_CONNECTED", "INVALID_PASSWORD",
            "NO_FREE_INCOMING_CONNECTIONS", "CONNECTION_BANNED"}
Notices == Open \cup Ended \cup Refused \cup {"none"}

LifecycleInit ==
  /\ told = [p \in Peers |-> [q \in Peers |-> "none"]]
  /\ asked = [p \in Peers |-> [q \in Peers |-> FALSE]]
  /\ leaving = [p \in Peers |-> [q \in Peers |-> FALSE]]

Told(p, q, notices) == \E n \in notices : told' = [told EXCEPT ![p][q] = n]

Asks(p, q, value) == asked' = [asked EXCEPT ![p][q] = value]
Leaves(p, q, value) == leaving' = [leaving EXCEPT ![p][q] = value]

Ask(p, q) ==
  /\ ~asked[p][q] /\ told[p][q] \notin Open
  /\ Asks(p, q, TRUE)
  /\ UNCHANGED <<told, leaving>>

Accepted(p, q) ==
  /\ asked[p][q] /\ told[p][q] \notin Open
  /\ Told(p, q, {"CONNECTION_REQUEST_ACCEPTED"})
  /\ Asks(p, q, FALSE)
  /\ UNCHANGED leaving

Incoming(p, q) ==
  /\ told[p][q] \notin Open
  /\ Told(p, q, {"NEW_INCOMING_CONNECTION"})
  /\ UNCHANGED <<asked, leaving>>

\* A connection whose password was refused is closed.
Refusal(p, q) ==
  /\ asked[p][q] /\ told[p][q] \notin Open
  /\ Told(p, q, Refused)
  /\ Asks(p, q, FALSE)
  /\ \E closing \in BOOLEAN : Leaves(p, q, closing)

\* What is being made or is open is closed, or gone without a word.
Leave(p, q) ==
  /\ Asks(p, q, FALSE)
  /\ \E closing \in BOOLEAN : Leaves(p, q, closing)
  /\ UNCHANGED told

Data(p, q) ==
  /\ told[p][q] \in Open
  /\ Told(p, q, {"DATA"})
  /\ UNCHANGED <<asked, leaving>>

LateData(p, q) ==
  /\ told[p][q] \in Ended \/ (leaving[p][q] /\ told[p][q] \notin Open)
  /\ Told(p, q, {"LATE_DATA"})
  /\ UNCHANGED <<asked, leaving>>

\* The end of a connection, or of a call of Connect.
End(p, q) ==
  /\ Told(p, q, Ended \ {"LATE_DATA"})
  /\ Asks(p, q, FALSE)
  /\ Leaves(p, q, FALSE)

\* The program of p stops and starts again: its user knows nothing of before.
Crash(p) ==
  /\ told' = [told EXCEPT ![p] = [q \in Peers |-> "none"]]
  /\ asked' = [asked EXCEPT ![p] = [q \in Peers |-> FALSE]]
  /\ leaving' = [leaving EXCEPT ![p] = [q \in Peers |-> FALSE]]

LifecycleNext ==
  \E p \in Peers :
    \/ Crash(p)
    \/ \E q \in Peers : \/ Ask(p, q) \/ Accepted(p, q) \/ Incoming(p, q)
                        \/ Refusal(p, q) \/ Leave(p, q) \/ Data(p, q)
                        \/ LateData(p, q) \/ End(p, q)

LifecycleSpec == LifecycleInit /\ [][LifecycleNext]_lifecycleVars
=============================================================================
