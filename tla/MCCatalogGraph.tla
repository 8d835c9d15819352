--------------------------- MODULE MCCatalogGraph ---------------------------
(* An instance of CatalogGraph for TLC. *)
EXTENDS CatalogGraph, TLC

CONSTANTS x, work, other, c1, c2, p1

InDomains == (c1 :> work) @@ (c2 :> work)
DerivedIds == (c1 :> x) @@ (c2 :> x)

Interchangeable == Permutations(Contents)
=============================================================================
