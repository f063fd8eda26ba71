----------------------------- MODULE MCCatalog ------------------------------
(* Instance of Catalog for TLC: one provider with one model whose refresh states *)
(* that it is listed.                                                            *)
EXTENDS Catalog

CONSTANTS p1, m1, v1, k1

OneOwner == [m \in Models |-> p1]
ListedOnly == {{"listed"}}
=============================================================================
