-------------------------- MODULE MCDerivedResults --------------------------
(***************************************************************************)
(* One owner; two of three facts mean the same.                            *)
(***************************************************************************)
EXTENDS DerivedResults

MCMeaning == [f \in Facts |-> IF f = 3 THEN 1 ELSE f]
MCMatches == {<<"broad", f>> : f \in Facts} \cup {<<"narrow", 2>>}

=============================================================================
