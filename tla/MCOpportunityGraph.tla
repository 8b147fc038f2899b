------------------------- MODULE MCOpportunityGraph -------------------------
(***************************************************************************)
(* Three opportunities and contents of every way to be linked: a tender    *)
(* (which may be amended), an award that names the tender officially, a    *)
(* contract that shares an identifier with the tender, and a pair of       *)
(* look-alikes.                                                            *)
(***************************************************************************)
EXTENDS OpportunityGraph, TLC

CONSTANTS oA, oB, oC

MCContents == {"tender", "amended", "award", "contract"}

MCStage == [c \in MCContents |->
  CASE c = "tender" -> "tender" [] c = "amended" -> "amendment"
    [] c = "award" -> "award" [] c = "contract" -> "contract"]

MCReferences == [c \in MCContents |-> IF c = "award" THEN {<<oA, "tender">>} ELSE {}]

MCIdentifiers == [c \in MCContents |-> IF c \in {"tender", "contract"} THEN {"id"} ELSE {}]

MCFingerprint == [c \in MCContents |-> IF c \in {"amended", "contract"} THEN "same" ELSE None]

=============================================================================
