-------------------------- MODULE MCExtractionFence --------------------------
(***************************************************************************)
(* The extraction fence on a small instance: one identity, two accounts    *)
(* that can pay for it and one that cannot.                                *)
(***************************************************************************)
EXTENDS ExtractionFence, TLC

CONSTANTS a1, a2, a3

MCFunding == a1 :> 1 @@ a2 :> 1 @@ a3 :> 0

=============================================================================
