------------------------------ MODULE FlagRules ------------------------------
(***************************************************************************)
(* What the flag of capture the flag promises, apart from the network: one *)
(* player at a time carries it, and between two carriers it lies on the    *)
(* ground for a cooldown and is then available to whoever touches it.      *)
(***************************************************************************)
CONSTANTS Players, NoPlayer

VARIABLES phase, carrier

ruleVars == <<phase, carrier>>

RulesInit == phase = "Available" /\ carrier = NoPlayer

PickUp(p) ==
  /\ phase = "Available"
  /\ phase' = "Possessed"
  /\ carrier' = p

Drop ==
  /\ phase = "Possessed"
  /\ phase' = "Dropped"
  /\ carrier' = NoPlayer

Return ==
  /\ phase = "Dropped"
  /\ phase' = "Available"
  /\ UNCHANGED carrier

RulesNext == (\E p \in Players : PickUp(p)) \/ Drop \/ Return

RulesSpec == RulesInit /\ [][RulesNext]_ruleVars
=============================================================================
