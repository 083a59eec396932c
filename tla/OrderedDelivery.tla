--------------------------- MODULE OrderedDelivery ---------------------------
(***************************************************************************)
(* What one ordering channel promises its user: "Sequenced and ordered     *)
(* messages sent on the same channel will arrive in the order sent", each  *)
(* at most once, and no ordered message is passed over.  Messages are      *)
(* known by their place among those sent.                                  *)
(***************************************************************************)
EXTENDS Integers, SequencesExt

CONSTANT Kinds

VARIABLES sent, outputQueue

deliveryVars == <<sent, outputQueue>>

InOrder(output, of) ==
  /\ \A i \in DOMAIN output : output[i] \in DOMAIN of
  /\ \A i, j \in DOMAIN output : i < j => output[i] < output[j]
  /\ \A i \in DOMAIN output : \A m \in 1..output[i] :
       of[m] = "RELIABLE_ORDERED" => m \in Range(output)

DeliveryInit == sent = <<>> /\ outputQueue = <<>>

SendOne ==
  /\ \E kind \in Kinds : sent' = Append(sent, kind)
  /\ UNCHANGED outputQueue

DeliverSome ==
  /\ IsStrictPrefix(outputQueue, outputQueue')
  /\ InOrder(outputQueue', sent)
  /\ UNCHANGED sent

DeliveryNext == SendOne \/ DeliverSome

DeliverySpec == DeliveryInit /\ [][DeliveryNext]_deliveryVars
=============================================================================
