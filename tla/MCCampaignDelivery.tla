------------------------- MODULE MCCampaignDelivery -------------------------
(* CampaignDelivery with interchangeable requests and recipients. *)
EXTENDS CampaignDelivery, TLC

Symmetry == Permutations(Requests) \cup Permutations(Recipients)
=============================================================================
