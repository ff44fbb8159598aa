---------------------------- MODULE CatalogMerge ----------------------------
(***************************************************************************)
(* From the bodies of SATCAT and GCAT to the documents of a release:       *)
(* parse_satcat and parse_gcat, row by row, merge_catalogues, number by    *)
(* number, the gates of CatalogUpdater on the result, and                  *)
(* build_catalog_artifacts.  Runs follow each other on later days and with *)
(* other bodies; CatalogUpdate models where the bodies come from.          *)
(*                                                                         *)
(* Cells are model strings.  The tables below say what the conversions of  *)
(* the code make of them: a cell outside the domain of one is refused.     *)
(***************************************************************************)
EXTENDS Integers, FiniteSets, Sequences, SequencesExt, TLC

CONSTANTS
  SatcatBodies, GcatBodies,   \* sequences of rows, which are functions on columns
  Measured,                   \* parse_mmccants: numbers to magnitudes, in tenths
  Days,                       \* on which a run may merge
  NumberOf,                   \* _number, float(): cells to numbers, in hundredths
  NoradOf,                    \* int(): cells to catalogue numbers
  DateOf, GcatDateOf,         \* _iso_date, _gcat_date: cells to days
  ObjectTypes, OpsStatus, DataStatus, OrbitCenters,
  OrbitClass, Lifecycle,      \* _orbit_class, _lifecycle, by the head of the cell
  ConstellationOf,            \* names to the patterns of estimate_magnitude
  Estimates,                  \* what that estimates, other than for Starlink
  Visor,                      \* 2020-06-01
  Window,                     \* 365 days
  BucketSize,                 \* 1000 catalogue numbers
  JoinPercent, DropPercent,   \* minimum_gcat_join_fraction, maximum_record_drop_fraction
  MaxRuns,                    \* bound on the number of runs
  None                        \* Python's, and no release

SatcatColumns ==
  {"NORAD_CAT_ID", "OBJECT_ID", "OBJECT_NAME", "OBJECT_TYPE", "OPS_STATUS_CODE", "OWNER",
   "LAUNCH_DATE", "LAUNCH_SITE", "DECAY_DATE", "RCS", "DATA_STATUS_CODE", "ORBIT_CENTER",
   "PERIOD", "INCLINATION"}
GcatColumns ==
  {"Satcat", "Owner", "State", "LDate", "TotMass", "Mass", "DryMass", "Span", "Length",
   "Diameter", "Shape", "OpOrbit", "Status", "AltNames"}

ASSUME MergeAssumption ==
  /\ SatcatBodies \subseteq Seq([SatcatColumns -> STRING])
  /\ GcatBodies \subseteq Seq([GcatColumns -> STRING])
  /\ \A cell \in DOMAIN NoradOf : NoradOf[cell] \in Int
  /\ \A cell \in DOMAIN DateOf : DateOf[cell] \in Int
  /\ Days \subseteq Int /\ Window \in Nat /\ BucketSize \in Nat \ {0} /\ MaxRuns \in Nat \ {0}
  /\ \A pattern \in DOMAIN Estimates : Estimates[pattern] # 45
  /\ \A n \in DOMAIN Measured : Measured[n] # None
  /\ None \notin DOMAIN ConstellationOf \cup DOMAIN Estimates
  /\ None \notin {"mmccants", "estimate", "Starlink"}

VARIABLES
  today, satcatBody, gcatBody,   \* what a run works on
  pc,
  rows,                          \* the rows still to parse
  satcat, gcat,                  \* the RecordMaps of the parsers
  todo,                          \* numbers still to merge
  output, counts,
  release,                       \* the public documents and their manifest's counts
  prior,                         \* history: what the run before worked on and gave
  runs                           \* history: runs so far

inputs == <<today, satcatBody, gcatBody>>
vars   == <<inputs, pc, rows, satcat, gcat, todo, output, counts, release, prior, runs>>

-----------------------------------------------------------------------------
(* Conversions of cells.                                                   *)

Look(table, cell, default) == IF cell \in DOMAIN table THEN table[cell] ELSE default

Text(cell) == IF cell \in {"", "-"} THEN None ELSE cell

Number(cell) == Look(NumberOf, cell, None)

Positive(cell) == IF Number(cell) # None /\ Number(cell) > 0 THEN Number(cell) ELSE None

Stated(f) == [k \in {k \in DOMAIN f : f[k] # None} |-> f[k]]

First(values) ==
  LET stated == {i \in DOMAIN values : values[i] # None}
  IN  IF stated = {} THEN None ELSE values[Min(stated)]

\* f, and what g has where f has nothing.
Extend(f, g) == [k \in DOMAIN f \cup DOMAIN g |-> IF k \in DOMAIN f THEN f[k] ELSE g[k]]

\* The catalogue number in a column of a row.
NumberIn(row, column) == Look(NoradOf, row[column], None)

RcsSize(rcs) ==
  CASE rcs = None -> None
    [] rcs # None /\ rcs < 10 -> "small"
    [] rcs # None /\ rcs \in 10 .. 100 -> "medium"
    [] OTHER -> "large"

\* A docked object has the number of its host for a centre: it is kept.
OrbitCenter(cell) == IF cell = "" THEN None ELSE Look(OrbitCenters, cell, cell)

ApproximateOrbit(row) ==
  IF Number(row.PERIOD) = None /\ Number(row.INCLINATION) = None
  THEN None
  ELSE [periodMinutes |-> Number(row.PERIOD), inclinationDeg |-> Number(row.INCLINATION)]

SatcatRecord(row) ==
  [cospar     |-> Text(row.OBJECT_ID),
   name       |-> Text(row.OBJECT_NAME),
   objectType |-> Look(ObjectTypes, row.OBJECT_TYPE, "unknown"),
   opsStatus  |-> Look(OpsStatus, row.OPS_STATUS_CODE, "unknown"),
   country    |-> Text(row.OWNER),
   launchDate |-> Look(DateOf, row.LAUNCH_DATE, None),
   launchSite |-> Text(row.LAUNCH_SITE),
   decayDate  |-> Look(DateOf, row.DECAY_DATE, None),
   rcsValue_m2 |-> Number(row.RCS),
   rcsSize    |-> RcsSize(Number(row.RCS)),
   dataStatus |-> Look(DataStatus, row.DATA_STATUS_CODE, None),
   orbitCenter |-> OrbitCenter(row.ORBIT_CENTER),
   approximateOrbit |-> ApproximateOrbit(row)]

Dimensions(row) ==
  Stated([span_m |-> Positive(row.Span), length_m |-> Positive(row.Length),
          diameter_m |-> Positive(row.Diameter)])

GcatRecord(row) ==
  [owner      |-> Text(row.Owner),
   country    |-> Text(row.State),
   launchDate |-> Look(GcatDateOf, row.LDate, None),
   massKg     |-> First(<<Positive(row.TotMass), Positive(row.Mass), Positive(row.DryMass)>>),
   dimensions |-> IF DOMAIN Dimensions(row) = {} THEN None ELSE Dimensions(row),
   shape      |-> Text(row.Shape),
   orbitClass |-> IF Text(row.OpOrbit) = None THEN None ELSE Look(OrbitClass, row.OpOrbit, "other"),
   status     |-> Look(Lifecycle, row.Status, None),
   altNames   |-> Text(row.AltNames)]

-----------------------------------------------------------------------------
(* merge_catalogues: which source is asked first for which field.          *)

NullFields == {"dataStatus", "orbitCenter", "approximateOrbit"}

SatcatFields == {"cospar", "opsStatus", "launchSite", "rcsSize", "rcsValue_m2", "decayDate"}
GcatFields   == {"altNames", "orbitClass", "owner", "massKg", "dimensions", "shape"}
SharedFields == {"name", "objectType", "country"}

Order ==
  [f \in SatcatFields \cup GcatFields \cup SharedFields \cup NullFields
          \cup {"launchDate", "status", "stdMag"} |->
     CASE f \in SharedFields              -> <<"satcat", "gcat">>
       [] f = "launchDate"                -> <<"gcat", "satcat">>
       [] f = "status"                    -> <<"gcat", "satcat:derived">>
       [] f \in GcatFields                -> <<"gcat">>
       [] f = "stdMag"                    -> <<"mmccants">>
       [] f \in SatcatFields \cup NullFields -> <<"satcat">>]

NoRecords == [n \in {} |-> None]

\* What the tables have about a number of SATCAT; GCAT may have nothing.
Entry(n) == [norad |-> n, satcat |-> satcat[n], gcat |-> Look(gcat, n, NoRecords)]

Says(source, e, f) ==
  CASE source = "satcat" -> e.satcat[f]
    [] source = "satcat:derived" -> IF e.satcat.decayDate # None THEN "decayed" ELSE "in-orbit"
    [] source = "gcat" -> Look(e.gcat, f, None)
    [] source = "mmccants" -> Look(Measured, e.norad, None)

\* _set_field, for every field: the first source that states it.
Sources(e) ==
  LET Stating(f) == {i \in DOMAIN Order[f] : Says(Order[f][i], e, f) # None}
  IN  [f \in {f \in DOMAIN Order : Stating(f) # {}} |-> Order[f][Min(Stating(f))]]

\* Faulty variant: the launch that SATCAT gives decides, whatever is published.
Estimate_Satcat(e, record) ==
  LET pattern == Look(ConstellationOf, Look(record, "name", None), None)
      early   == e.satcat.launchDate # None /\ e.satcat.launchDate < Visor
  IN  IF pattern = "Starlink" THEN IF early THEN 45 ELSE 55 ELSE Look(Estimates, pattern, None)

\* estimate_magnitude, of the record as far as it is merged.
Estimate(e, record) ==
  LET pattern == Look(ConstellationOf, Look(record, "name", None), None)
      early   == "launchDate" \in DOMAIN record /\ record.launchDate < Visor
  IN  IF pattern = "Starlink" THEN IF early THEN 45 ELSE 55 ELSE Look(Estimates, pattern, None)

\* The fields that a source states, and those that are there without one.
Plain(e) ==
  [f \in DOMAIN Sources(e) \cup NullFields |->
     IF f \in DOMAIN Sources(e) THEN Says(Sources(e)[f], e, f) ELSE None]

Merged(e) ==
  LET sources == Sources(e)
      plain   == Plain(e)
      guess   == Estimate(e, plain)
  IN  CASE "stdMag" \in DOMAIN sources ->
             Extend([norad |-> e.norad, magSource |-> "mmccants", _sources |-> sources], plain)
        [] "stdMag" \notin DOMAIN sources /\ guess # None ->
             Extend([norad |-> e.norad, stdMag |-> guess, magSource |-> "estimate",
                     _sources |-> Extend([stdMag |-> "estimate"], sources)], plain)
        [] OTHER -> Extend([norad |-> e.norad, _sources |-> sources], plain)

\* Faulty variant: what decayed lately is dropped, not what decayed long ago.
Dropped_Lately(record) == "decayDate" \in DOMAIN record /\ record.decayDate >= today - Window

Dropped(record) == "decayDate" \in DOMAIN record /\ record.decayDate < today - Window

-----------------------------------------------------------------------------
(* build_catalog_artifacts: the search index, in the order of the numbers, *)
(* and the records in buckets of them.  Neither has a time in it.          *)

IndexFields ==
  {"norad", "name", "objectType", "country", "opsStatus", "rcsSize", "stdMag", "dataStatus"}

IndexRow(record) ==
  Extend([magEst |-> Look(record, "magSource", None) = "estimate"],
         [f \in IndexFields |-> Look(record, f, None)])

\* The i-th of some numbers, in their order.
Nth(S, i) == CHOOSE n \in S : Cardinality({m \in S : m <= n}) = i

Index == [i \in 1 .. Cardinality(DOMAIN output) |-> IndexRow(output[Nth(DOMAIN output, i)])]

Enrichment ==
  [b \in {n \div BucketSize : n \in DOMAIN output} |->
     [n \in {n \in DOMAIN output : n \div BucketSize = b} |-> output[n]]]

Documents == [index |-> Index, enrichment |-> Enrichment]

\* Faulty variant: only the index is hashed.
SameContent_Index(documents) == release # None /\ release.documents.index = documents.index

\* _content_hash, and the comparison with the manifest that is public.
SameContent(documents) == release # None /\ release.documents = documents

\* _validate_merged_counts and _validate_record_drop.
Allowed ==
  /\ counts.records >= 1
  /\ counts.withGcat * 100 >= JoinPercent * counts.records
  /\ release # None => counts.records * 100 >= release.counts.records * (100 - DropPercent)

-----------------------------------------------------------------------------
NoCounts == [c \in {"records", "withGcat", "withMag", "withMagEst", "droppedDecayed"} |-> 0]

Init ==
  /\ today \in Days /\ satcatBody \in SatcatBodies /\ gcatBody \in GcatBodies
  /\ pc = "satcat" /\ rows = satcatBody
  /\ satcat = NoRecords /\ gcat = NoRecords /\ todo = {}
  /\ output = NoRecords /\ counts = NoCounts
  /\ release = None /\ prior = None /\ runs = 1

\* Faulty variant: of two rows with a number the first one counts.
ParseSatcat_First ==
  /\ pc = "satcat" /\ rows # <<>>
  /\ LET n == NumberIn(Head(rows), "NORAD_CAT_ID")
     IN  satcat' = IF n = None THEN satcat
                   ELSE Extend(satcat, [k \in {n} |-> SatcatRecord(Head(rows))])
  /\ rows' = Tail(rows)
  /\ UNCHANGED <<inputs, pc, gcat, todo, output, counts, release, prior, runs>>

\* A row without a number is skipped; of two rows with the same one, however it
\* is written, the last one counts.
ParseSatcat ==
  /\ pc = "satcat" /\ rows # <<>>
  /\ LET n == NumberIn(Head(rows), "NORAD_CAT_ID")
     IN  satcat' = IF n = None THEN satcat
                   ELSE Extend([k \in {n} |-> SatcatRecord(Head(rows))], satcat)
  /\ rows' = Tail(rows)
  /\ UNCHANGED <<inputs, pc, gcat, todo, output, counts, release, prior, runs>>

SatcatParsed ==
  /\ pc = "satcat" /\ rows = <<>>
  /\ pc' = "gcat" /\ rows' = gcatBody
  /\ UNCHANGED <<inputs, satcat, gcat, todo, output, counts, release, prior, runs>>

ParseGcat ==
  /\ pc = "gcat" /\ rows # <<>>
  /\ LET n == NumberIn(Head(rows), "Satcat")
     IN  gcat' = IF n = None THEN gcat
                 ELSE Extend([k \in {n} |-> GcatRecord(Head(rows))], gcat)
  /\ rows' = Tail(rows)
  /\ UNCHANGED <<inputs, pc, satcat, todo, output, counts, release, prior, runs>>

GcatParsed ==
  /\ pc = "gcat" /\ rows = <<>>
  /\ pc' = "merge" /\ todo' = DOMAIN satcat
  /\ UNCHANGED <<inputs, rows, satcat, gcat, output, counts, release, prior, runs>>

Count(record) ==
  [counts EXCEPT !.records = @ + 1,
     !.withGcat = IF record.norad \in DOMAIN gcat THEN @ + 1 ELSE @,
     !.withMag = IF Look(record, "magSource", None) = "mmccants" THEN @ + 1 ELSE @,
     !.withMagEst = IF Look(record, "magSource", None) = "estimate" THEN @ + 1 ELSE @]

\* Faulty variant: a record is counted before it is dropped.
MergeOne_CountedFirst(n) ==
  /\ pc = "merge" /\ n \in todo
  /\ todo' = todo \ {n}
  /\ LET record == Merged(Entry(n))
     IN  IF Dropped(record)
         THEN counts' = [Count(record) EXCEPT !.droppedDecayed = @ + 1] /\ UNCHANGED output
         ELSE counts' = Count(record) /\ output' = Extend([k \in {n} |-> record], output)
  /\ UNCHANGED <<inputs, pc, rows, satcat, gcat, release, prior, runs>>

\* Faulty variant: a number is merged and merged again.
MergeOne_Again(n) ==
  /\ pc = "merge" /\ n \in todo
  /\ LET record == Merged(Entry(n))
     IN  IF Dropped(record)
         THEN counts' = [counts EXCEPT !.droppedDecayed = @ + 1] /\ UNCHANGED output
         ELSE counts' = Count(record) /\ output' = Extend([k \in {n} |-> record], output)
  /\ UNCHANGED <<inputs, pc, rows, satcat, gcat, todo, release, prior, runs>>

\* Numbers come in the order of the rows; here in any.
MergeOne(n) ==
  /\ pc = "merge" /\ n \in todo
  /\ todo' = todo \ {n}
  /\ LET record == Merged(Entry(n))
     IN  IF Dropped(record)
         THEN counts' = [counts EXCEPT !.droppedDecayed = @ + 1] /\ UNCHANGED output
         ELSE counts' = Count(record) /\ output' = Extend([k \in {n} |-> record], output)
  /\ UNCHANGED <<inputs, pc, rows, satcat, gcat, release, prior, runs>>

\* The run publishes, finds the content unchanged and keeps the release with
\* the manifest it has, or fails at a gate.
Build ==
  /\ pc = "merge" /\ todo = {}
  /\ pc' = IF Allowed THEN "built" ELSE "failed"
  /\ release' = IF Allowed /\ ~ SameContent(Documents)
                THEN [documents |-> Documents, counts |-> counts] ELSE release
  /\ UNCHANGED <<inputs, rows, satcat, gcat, todo, output, counts, prior, runs>>

\* Another run, on this day or a later one, with whatever the sources have.
NextRun ==
  /\ pc \in {"built", "failed"} /\ runs < MaxRuns
  /\ today' \in {d \in Days : d >= today}
  /\ satcatBody' \in SatcatBodies /\ gcatBody' \in GcatBodies
  /\ prior' = [inputs |-> <<satcatBody, gcatBody>>, output |-> output]
  /\ pc' = "satcat" /\ rows' = satcatBody' /\ runs' = runs + 1
  /\ satcat' = NoRecords /\ gcat' = NoRecords
  /\ output' = NoRecords /\ counts' = NoCounts
  /\ UNCHANGED <<todo, release>>

Next ==
  \/ ParseSatcat \/ SatcatParsed \/ ParseGcat \/ GcatParsed
  \/ \E n \in todo : MergeOne(n)
  \/ Build \/ NextRun

Spec == Init /\ [][Next]_vars

-----------------------------------------------------------------------------
(* Properties.                                                             *)

Numbers == {NoradOf[cell] : cell \in DOMAIN NoradOf}

\* The type invariant.
TypeOK ==
  /\ today \in Days /\ satcatBody \in SatcatBodies /\ gcatBody \in GcatBodies
  /\ pc \in {"satcat", "gcat", "merge", "built", "failed"}
  /\ rows \in Suffixes(satcatBody) \cup Suffixes(gcatBody)
  /\ DOMAIN satcat \subseteq Numbers /\ DOMAIN gcat \subseteq Numbers
  /\ todo \subseteq DOMAIN satcat /\ DOMAIN output \subseteq DOMAIN satcat
  /\ counts \in [DOMAIN NoCounts -> 0 .. Cardinality(DOMAIN satcat)]
  /\ release # None => DOMAIN release = {"documents", "counts"}
  /\ prior # None => DOMAIN prior = {"inputs", "output"}
  /\ runs \in 1 .. MaxRuns

\* The last row of a body that is about a number.
LastRow(body, column, n) == body[Max({i \in DOMAIN body : NumberIn(body[i], column) = n})]

\* What `_sources' says is true of the bodies, however often and however written
\* a number is in them: the field has the value that source states in its last
\* row about it, and a field nobody is named for is stated by no one.
ProvenanceIsTrue ==
  \A n \in DOMAIN output :
    LET record  == output[n]
        sources == record._sources
        base    == SatcatRecord(LastRow(satcatBody, "NORAD_CAT_ID", n))
        From(source) == {f \in DOMAIN sources : sources[f] = source}
    IN  /\ \A f \in From("satcat") : record[f] = base[f]
        /\ \A f \in From("gcat") :
             record[f] = GcatRecord(LastRow(gcatBody, "Satcat", n))[f]
        /\ \A f \in DOMAIN base \ DOMAIN sources : base[f] = None
        /\ \A f \in NullFields : record[f] = base[f]

\* The counts of the manifest are those of the documents: they account for every
\* object of SATCAT, kept or dropped, and for every magnitude (merge_catalogues).
CountsAgree ==
  pc = "built" =>
    /\ counts.records = Cardinality(DOMAIN output)
    /\ counts.records + counts.droppedDecayed = Cardinality(DOMAIN satcat)
    /\ counts.withGcat = Cardinality(DOMAIN output \cap DOMAIN gcat)
    /\ counts.withMag + counts.withMagEst
         = Cardinality({n \in DOMAIN output : "stdMag" \in DOMAIN output[n]})

\* A run on a later day from the same bodies only drops what decayed: no object
\* comes back, and what stays has the same record (the twelve-month window).
AgeingOnlyDrops ==
  pc \in {"built", "failed"} /\ prior # None /\ prior.inputs = <<satcatBody, gcatBody>> =>
    /\ \A n \in DOMAIN output : n \in DOMAIN prior.output /\ output[n] = prior.output[n]
    /\ \A n \in DOMAIN prior.output \ DOMAIN output :
         "decayDate" \in DOMAIN prior.output[n] /\ prior.output[n].decayDate < today - Window

\* An estimate fits the record it is published with (estimate_magnitude): 4.5 is
\* for a Starlink whose published launch is before the visors, and what is
\* measured is never replaced by an estimate.
EstimateFitsRecord ==
  \A n \in DOMAIN output :
    Look(output[n], "magSource", None) = "estimate" =>
      /\ n \notin DOMAIN Measured
      /\ output[n].stdMag = 45 <=>
           "launchDate" \in DOMAIN output[n] /\ output[n].launchDate < Visor
           /\ ConstellationOf[output[n].name] = "Starlink"

\* What a run that is content with its result leaves public is what it merged,
\* even if it found it unchanged: each row of the index leads to the record in
\* the bucket that a client computes for its number.
ClientFindsRecord ==
  pc = "built" =>
    /\ Len(release.documents.index) = Cardinality(DOMAIN output)
    /\ \A i \in DOMAIN release.documents.index :
         LET row == release.documents.index[i]
         IN  /\ release.documents.enrichment[row.norad \div BucketSize][row.norad] = output[row.norad]
             /\ row = IndexRow(output[row.norad])
             /\ i > 1 => release.documents.index[i - 1].norad < row.norad

\* The manifest is not written again when the content is unchanged, and the
\* limit on dropped records reads its counts: those of records and magnitudes
\* still hold of the later run, whatever was dropped or joined in it.
ManifestCountsHold ==
  pc = "built" =>
    \A c \in {"records", "withMag", "withMagEst"} : release.counts[c] = counts[c]

=============================================================================
