-------------------------- MODULE MCCatalogRelease --------------------------
(* Small instances of CatalogRelease: three catalogues, one of which lost  *)
(* more records than a switch may lose.                                    *)
EXTENDS CatalogRelease

CONSTANTS c1, c2, c3

MCCountOf == [c \in Contents |-> CASE c = c1 -> 10 [] c = c2 -> 9 [] c = c3 -> 5]
MCDigest  == [c \in Contents |-> CASE c = c1 -> 2 [] c = c2 -> 1 [] c = c3 -> 3]

=============================================================================
