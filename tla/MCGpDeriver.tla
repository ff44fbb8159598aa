---------------------------- MODULE MCGpDeriver ----------------------------
(* Small instances of GpDeriver: two rules, three bodies of the source, one *)
(* of which a rule selects too little of and one far less of.               *)
EXTENDS GpDeriver

CONSTANTS r1, r2, b1, b2, b3

MCRank     == [r \in Rules |-> IF r = r1 THEN 1 ELSE 2]
MCMinimum  == [r \in Rules |-> 2]
MCSelected ==
  [r \in Rules |-> [b \in Bodies |->
     IF r = r1 THEN CASE b = b1 -> 10 [] b = b2 -> 8 [] b = b3 -> 1
               ELSE CASE b = b1 -> 10 [] b = b2 -> 7 [] b = b3 -> 9]]

=============================================================================
