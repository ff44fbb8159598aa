--------------------------- MODULE MCCatalogUpdate ---------------------------
(* Small instances of CatalogUpdate: a version of GCAT that does not parse, *)
(* and one of SATCAT that lost half of its records.                         *)
EXTENDS CatalogUpdate

MCLast    == [s \in Sources |-> IF s = "satcat" THEN 1 ELSE 2]
MCSound   == {c \in Contents : c["gcat"] # 1}
MCCountOf == [c \in Contents |->
                IF c["satcat"] = 0 THEN 10 ELSE 5]

=============================================================================
