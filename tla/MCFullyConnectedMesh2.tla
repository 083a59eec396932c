------------------------ MODULE MCFullyConnectedMesh2 ------------------------
(* FullyConnectedMesh2 with two founders and one who comes later, for TLC; and with two
   pairs of founders who meet in a certain order. *)
EXTENDS FullyConnectedMesh2, TLC

CONSTANTS a1, a2, a3, a4

Ages == [a \in Systems |-> IF a = a1 THEN 1 ELSE 2]

Met(a, b) == <<a, b>> \in connected

\* Nothing is under way but between a1 and a4.
Calm ==
  \A a, b \in Systems : {a, b} # {a1, a4} =>
    streams[a][b] = <<>> /\ {<<a, b>>} \cap (untold \cup lost) = {}

MayMeet(a, b) ==
  CASE {a, b} = {a1, a2} -> TRUE
    [] {a, b} = {a3, a4} -> Met(a1, a2)
    [] {a, b} = {a1, a4} -> Met(a3, a4)
    [] {a, b} = {a1, a3} -> Met(a1, a4)
    [] {a, b} = {a2, a3} -> left = {a4}
    [] OTHER -> FALSE

\* Two pairs meet by a1, who hears nothing of a4; a4 leaves before the last two meet.
PairsMeet ==
  /\ <<a4, a1>> \in connected' => <<a4, a1>> \in untold'
  /\ ~(connected' \subseteq connected)
       => Calm /\ \A p \in connected' \ connected : MayMeet(p[1], p[2])
  /\ left' # left => left' = {a4} /\ Calm /\ Met(a1, a3)
=============================================================================
