--------------------------- MODULE MCCatalogMerge ---------------------------
(* Small catalogues: a Starlink, a OneWeb and a payload that decays.       *)
EXTENDS CatalogMerge

Blank  == [c \in SatcatColumns |-> ""]
GBlank == [c \in GcatColumns |-> "-"]

Starlink == [Blank EXCEPT !.NORAD_CAT_ID = "44713", !.OBJECT_NAME = "STARLINK-1007",
               !.OBJECT_TYPE = "PAY", !.OPS_STATUS_CODE = "+", !.LAUNCH_DATE = "d2",
               !.RCS = "0.5", !.PERIOD = "95", !.ORBIT_CENTER = "EA"]
OneWeb   == [Blank EXCEPT !.NORAD_CAT_ID = "44057", !.OBJECT_NAME = "ONEWEB-0012", !.OWNER = "UK",
               !.OBJECT_TYPE = "?", !.LAUNCH_DATE = "bad", !.RCS = "bad", !.ORBIT_CENTER = "25544"]
Payload  == [Blank EXCEPT !.NORAD_CAT_ID = "00005", !.OBJECT_NAME = "USA 1", !.DECAY_DATE = "d1",
               !.OBJECT_TYPE = "PAY", !.RCS = "12", !.DATA_STATUS_CODE = "NEA"]
Renamed  == [Payload EXCEPT !.NORAD_CAT_ID = "5", !.OBJECT_NAME = "-", !.DECAY_DATE = "d0"]
Damaged  == [Payload EXCEPT !.NORAD_CAT_ID = "five"]

GStarlink == [GBlank EXCEPT !.Satcat = "44713", !.LDate = "g1", !.Owner = "SPXS", !.State = "US",
                !.Mass = "260", !.TotMass = "0", !.OpOrbit = "LEO", !.Status = "O"]
GLater    == [GStarlink EXCEPT !.LDate = "g2", !.Span = "8", !.TotMass = "295"]
GEmpty    == [GBlank EXCEPT !.Satcat = "00005"]
GHollow   == [GBlank EXCEPT !.Satcat = "44057", !.Status = "R", !.OpOrbit = "DSO"]

MCSatcat == {<<Payload, Starlink, Renamed>>, <<Starlink, Damaged, Payload, OneWeb>>,
             <<Starlink, Payload>>, <<Starlink, OneWeb>>}
MCGcat   == {<<GStarlink, GEmpty>>, <<GStarlink, GLater>>, <<GHollow, GStarlink>>}

MCMeasured == 5 :> 60
MCNumberOf == "0.5" :> 50 @@ "95" :> 9500 @@ "12" :> 1200 @@ "260" :> 26000 @@ "0" :> 0
              @@ "8" :> 800 @@ "295" :> 29500
MCNoradOf  == "44713" :> 44713 @@ "44057" :> 44057 @@ "00005" :> 5 @@ "5" :> 5
MCDateOf   == "d0" :> 0 @@ "d1" :> 1 @@ "d2" :> 2
MCGcatDateOf == "g1" :> 1 @@ "g2" :> 2
MCObjectTypes == "PAY" :> "payload"
MCOpsStatus   == "+" :> "operational"
MCDataStatus  == "NEA" :> "no-elements-available"
MCOrbitCenters == "EA" :> "earth"
MCOrbitClass  == "LEO" :> "LEO"
MCLifecycle   == "O" :> "in-orbit" @@ "R" :> "decayed"
MCConstellationOf == "STARLINK-1007" :> "Starlink" @@ "ONEWEB-0012" :> "OneWeb"
MCEstimates   == "OneWeb" :> 75

=============================================================================
