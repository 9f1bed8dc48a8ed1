------------------------------ MODULE MCFields ------------------------------
(* Two crops over a short strip: maize needs cultivated soil and wheat does not. *)
EXTENDS Fields, TLC

CONSTANTS wheat, maize, first, second

MCFieldIds == {first, second}
MCSymmetry == Permutations(MCFieldIds)
MCCrops == {wheat, maize}
MCCultivated == {maize}
MCLasts == [k \in MCCrops |->
              [p \in Timed |-> IF p = "GROWING" /\ k = maize THEN 2 ELSE 1]]
=============================================================================
