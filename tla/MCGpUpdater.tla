---------------------------- MODULE MCGpUpdater ----------------------------
(* Small instances of GpUpdater.                                           *)
EXTENDS GpUpdater

CONSTANTS h1, h2, big, mid, small, b1, b2, b3

\* Clocks: the second host runs ahead of the first.
MCSkewOf   == [h \in Hosts |-> IF h = h1 THEN 0 ELSE MaxSkew]
MCStamps   == 0 .. (MaxClock + MaxSkew)
MCRank     == [d \in Datasets |-> CASE d = big -> 1 [] d = mid -> 2 [] d = small -> 3]

\* Bodies: a catalogue, one that lost records, and one that does not parse.
MCSizeOf   == [b \in Bodies |-> CASE b = b1 -> 3 [] b = b2 -> 2 [] b = b3 -> 1]
MCCountOf  == [b \in Bodies |-> CASE b = b1 -> 10 [] b = b2 -> 8 [] b = b3 -> 6]
MCMinimum  == [d \in Datasets |-> 1]

MCNoCap    == [d \in Datasets |-> Unknown]
MCCap      == [d \in Datasets |-> IF d = small THEN Unknown ELSE 1]

=============================================================================
