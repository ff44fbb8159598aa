------------------------- MODULE CatalogMergeProofs -------------------------
(***************************************************************************)
(* What the merge guarantees for any bodies of SATCAT and GCAT, any tables *)
(* of the conversions, any number of runs on any days.                     *)
(***************************************************************************)
EXTENDS CatalogMerge, SequenceTheorems, FiniteSums

-----------------------------------------------------------------------------
(* The fields of a merged record and the sources that state them.          *)

LEMMA Least ==
  ASSUME NEW S \in SUBSET Nat, S # {}
  PROVE  Min(S) \in S
<1>1. \E x \in S : \A y \in S : x <= y
  BY LeastNumber
<1> QED
  BY <1>1 DEF Min

\* Fields that SATCAT states or nobody does, and those that have one source.
BaseFields == SatcatFields \cup NullFields

LEMMA Precedence ==
  /\ DOMAIN Order = BaseFields \cup GcatFields \cup SharedFields
                      \cup {"launchDate", "status", "stdMag"}
  /\ \A f \in BaseFields : Order[f] = <<"satcat">>
  /\ \A f \in GcatFields : Order[f] = <<"gcat">>
  /\ \A f \in SharedFields : Order[f] = <<"satcat", "gcat">>
  /\ Order["launchDate"] = <<"gcat", "satcat">>
  /\ Order["status"] = <<"gcat", "satcat:derived">>
  /\ Order["stdMag"] = <<"mmccants">>
<1>1. DOMAIN Order = BaseFields \cup GcatFields \cup SharedFields
                       \cup {"launchDate", "status", "stdMag"}
  BY DEF Order, BaseFields
<1>2. /\ BaseFields \cap (GcatFields \cup SharedFields \cup {"launchDate", "status", "stdMag"}) = {}
      /\ GcatFields \cap (SharedFields \cup {"launchDate", "status", "stdMag"}) = {}
      /\ SharedFields \cap {"launchDate", "status", "stdMag"} = {}
  BY DEF BaseFields, SatcatFields, NullFields, GcatFields, SharedFields
<1>3. ASSUME NEW f \in BaseFields PROVE Order[f] = <<"satcat">>
  BY <1>2, <1>3 DEF Order, BaseFields
<1>4. ASSUME NEW f \in GcatFields PROVE Order[f] = <<"gcat">>
  BY <1>2, <1>4 DEF Order, BaseFields
<1>5. ASSUME NEW f \in SharedFields PROVE Order[f] = <<"satcat", "gcat">>
  BY <1>2, <1>5 DEF Order, BaseFields
<1>6. /\ Order["launchDate"] = <<"gcat", "satcat">>
      /\ Order["status"] = <<"gcat", "satcat:derived">>
      /\ Order["stdMag"] = <<"mmccants">>
  BY <1>2 DEF Order, BaseFields
<1> QED
  BY <1>1, <1>3, <1>4, <1>5, <1>6

LEMMA StatedBy ==
  ASSUME NEW e, NEW f \in DOMAIN Order
  PROVE  /\ f \in DOMAIN Sources(e) =>
              \E i \in DOMAIN Order[f] : /\ Sources(e)[f] = Order[f][i]
                                         /\ Says(Order[f][i], e, f) # None
         /\ f \notin DOMAIN Sources(e) =>
              \A i \in DOMAIN Order[f] : Says(Order[f][i], e, f) = None
<1> DEFINE Stating(g) == {i \in DOMAIN Order[g] : Says(Order[g][i], e, g) # None}
<1>1. /\ DOMAIN Sources(e) = {g \in DOMAIN Order : Stating(g) # {}}
      /\ \A g \in DOMAIN Sources(e) : Sources(e)[g] = Order[g][Min(Stating(g))]
  BY DEF Sources
<1>2. DOMAIN Order[f] \subseteq Nat
  BY Precedence
<1>3. Stating(f) # {} => Min(Stating(f)) \in Stating(f)
  <2>1. Stating(f) \in SUBSET Nat
    BY <1>2
  <2> QED
    BY <2>1, Least
<1> QED
  BY <1>1, <1>3

LEMMA SourceOf ==
  ASSUME NEW e
  PROVE  /\ DOMAIN Sources(e) \subseteq DOMAIN Order
         /\ \A f \in DOMAIN Sources(e) : Says(Sources(e)[f], e, f) # None
         /\ \A f \in DOMAIN Sources(e) \cap BaseFields : Sources(e)[f] = "satcat"
         /\ \A f \in DOMAIN Sources(e) :
              Sources(e)[f] \in {"satcat", "gcat", "satcat:derived", "mmccants"}
         /\ \A f \in BaseFields \cup SharedFields \cup {"launchDate"} :
              f \notin DOMAIN Sources(e) => e.satcat[f] = None
         /\ "stdMag" \notin DOMAIN Sources(e) => e.norad \notin DOMAIN Measured
<1>1. DOMAIN Sources(e) \subseteq DOMAIN Order
  BY DEF Sources
<1>2. ASSUME NEW f \in DOMAIN Sources(e)
      PROVE  /\ Says(Sources(e)[f], e, f) # None
             /\ Sources(e)[f] \in {"satcat", "gcat", "satcat:derived", "mmccants"}
             /\ f \in BaseFields => Sources(e)[f] = "satcat"
  <2>1. PICK i \in DOMAIN Order[f] : /\ Sources(e)[f] = Order[f][i]
                                     /\ Says(Order[f][i], e, f) # None
    BY <1>1, <1>2, StatedBy
  <2>2. Order[f] \in {<<"satcat">>, <<"gcat">>, <<"mmccants">>, <<"satcat", "gcat">>,
                      <<"gcat", "satcat">>, <<"gcat", "satcat:derived">>}
    BY <1>1, <1>2, Precedence
  <2>3. Order[f][i] \in {"satcat", "gcat", "satcat:derived", "mmccants"}
    BY <2>1, <2>2
  <2>4. f \in BaseFields => Order[f][i] = "satcat"
    BY <2>1, Precedence
  <2> QED
    BY <2>1, <2>3, <2>4
<1>3. ASSUME NEW f \in BaseFields \cup SharedFields \cup {"launchDate"}, f \notin DOMAIN Sources(e)
      PROVE  e.satcat[f] = None
  <2>1. \E i \in DOMAIN Order[f] : Order[f][i] = "satcat"
    <3>1. Order[f] \in {<<"satcat">>, <<"satcat", "gcat">>, <<"gcat", "satcat">>}
      BY <1>3, Precedence
    <3>2. /\ 1 \in DOMAIN <<"satcat">> /\ <<"satcat">>[1] = "satcat"
          /\ 1 \in DOMAIN <<"satcat", "gcat">> /\ <<"satcat", "gcat">>[1] = "satcat"
          /\ 2 \in DOMAIN <<"gcat", "satcat">> /\ <<"gcat", "satcat">>[2] = "satcat"
      OBVIOUS
    <3> QED
      BY <3>1, <3>2
  <2>2. f \in DOMAIN Order
    BY Precedence
  <2>3. Says("satcat", e, f) = None
    BY <1>3, <2>1, <2>2, StatedBy
  <2> QED
    BY <2>3 DEF Says
<1>4. ASSUME "stdMag" \notin DOMAIN Sources(e)
      PROVE  e.norad \notin DOMAIN Measured
  <2>1. "stdMag" \in DOMAIN Order /\ 1 \in DOMAIN Order["stdMag"] /\ Order["stdMag"][1] = "mmccants"
    BY Precedence
  <2>2. Says("mmccants", e, "stdMag") = None
    BY <1>4, <2>1, StatedBy
  <2>3. Says("mmccants", e, "stdMag") = Look(Measured, e.norad, None)
    BY DEF Says
  <2> QED
    BY <2>2, <2>3, MergeAssumption DEF Look
<1> QED
  BY <1>1, <1>2, <1>3, <1>4

LEMMA ExtendDef ==
  ASSUME NEW f, NEW g
  PROVE  /\ DOMAIN Extend(f, g) = DOMAIN f \cup DOMAIN g
         /\ \A k \in DOMAIN f : Extend(f, g)[k] = f[k]
         /\ \A k \in DOMAIN g \ DOMAIN f : Extend(f, g)[k] = g[k]
BY DEF Extend

LEMMA PlainDef ==
  ASSUME NEW e
  PROVE  /\ DOMAIN Plain(e) = DOMAIN Sources(e) \cup NullFields
         /\ \A f \in DOMAIN Sources(e) : Plain(e)[f] = Says(Sources(e)[f], e, f)
         /\ \A f \in NullFields \ DOMAIN Sources(e) : Plain(e)[f] = None
         /\ DOMAIN Plain(e) \cap {"norad", "magSource", "_sources"} = {}
         /\ "stdMag" \in DOMAIN Plain(e) <=> "stdMag" \in DOMAIN Sources(e)
<1>1. /\ DOMAIN Plain(e) = DOMAIN Sources(e) \cup NullFields
      /\ \A f \in DOMAIN Sources(e) : Plain(e)[f] = Says(Sources(e)[f], e, f)
      /\ \A f \in NullFields \ DOMAIN Sources(e) : Plain(e)[f] = None
  BY DEF Plain
<1>2. DOMAIN Sources(e) \subseteq DOMAIN Order
  BY SourceOf
<1>3. /\ DOMAIN Order \cap {"norad", "magSource", "_sources"} = {}
      /\ NullFields \subseteq DOMAIN Order /\ "stdMag" \notin NullFields
  BY Precedence DEF BaseFields, SatcatFields, NullFields, GcatFields, SharedFields
<1> QED
  BY <1>1, <1>2, <1>3

\* A merged record has its fields, what they come from, and a magnitude exactly
\* if it says where that comes from.
Shaped(e, m) ==
  /\ "norad" \in DOMAIN m /\ m.norad = e.norad
  /\ Look(m, "magSource", None) \in {"mmccants", "estimate", None}
  /\ Look(m, "magSource", None) # None <=> "stdMag" \in DOMAIN m
  /\ DOMAIN m \subseteq DOMAIN Plain(e) \cup {"norad", "stdMag", "magSource", "_sources"}
  /\ \A f \in DOMAIN Plain(e) : f \in DOMAIN m /\ m[f] = Plain(e)[f]
  /\ DOMAIN m._sources \subseteq DOMAIN Sources(e) \cup {"stdMag"}
  /\ \A f \in DOMAIN Sources(e) : f \in DOMAIN m._sources /\ m._sources[f] = Sources(e)[f]
  /\ "stdMag" \notin DOMAIN Sources(e) /\ "stdMag" \in DOMAIN m._sources =>
       m._sources["stdMag"] = "estimate"
  /\ Look(m, "magSource", None) = "estimate" =>
       /\ "stdMag" \notin DOMAIN Sources(e)
       /\ m.stdMag = Estimate(e, Plain(e)) /\ m.stdMag # None

LEMMA MergedShape == ASSUME NEW e PROVE Shaped(e, Merged(e))
<1> DEFINE sources == Sources(e)
           guess   == Estimate(e, Plain(e))
           h1 == [norad |-> e.norad, magSource |-> "mmccants", _sources |-> sources]
           s2 == Extend([stdMag |-> "estimate"], sources)
           h2 == [norad |-> e.norad, stdMag |-> guess, magSource |-> "estimate", _sources |-> s2]
           h3 == [norad |-> e.norad, _sources |-> sources]
<1>0. "mmccants" # None /\ "estimate" # None
  BY MergeAssumption
<1>1. CASE "stdMag" \in DOMAIN sources
  <2>1. Merged(e) = Extend(h1, Plain(e))
    BY <1>1 DEF Merged
  <2>2. /\ DOMAIN h1 = {"norad", "magSource", "_sources"}
        /\ h1["norad"] = e.norad /\ h1["magSource"] = "mmccants" /\ h1["_sources"] = sources
    OBVIOUS
  <2> HIDE DEF h1, sources
  <2>3. /\ DOMAIN Extend(h1, Plain(e)) = {"norad", "magSource", "_sources"} \cup DOMAIN Plain(e)
        /\ \A k \in {"norad", "magSource", "_sources"} : Extend(h1, Plain(e))[k] = h1[k]
        /\ \A k \in DOMAIN Plain(e) : Extend(h1, Plain(e))[k] = Plain(e)[k]
    BY <2>2, PlainDef DEF Extend
  <2> QED
    BY <1>0, <1>1, <2>1, <2>2, <2>3, PlainDef DEF Shaped, Look, sources
<1>2. CASE "stdMag" \notin DOMAIN sources /\ guess # None
  <2>1. Merged(e) = Extend(h2, Plain(e))
    BY <1>2 DEF Merged
  <2>2. /\ DOMAIN h2 = {"norad", "stdMag", "magSource", "_sources"}
        /\ h2["norad"] = e.norad /\ h2["magSource"] = "estimate" /\ h2["_sources"] = s2
        /\ h2["stdMag"] = guess
    OBVIOUS
  <2>3. /\ DOMAIN s2 = {"stdMag"} \cup DOMAIN sources /\ s2["stdMag"] = "estimate"
        /\ \A f \in DOMAIN sources : s2[f] = sources[f]
    <3>1. DOMAIN [stdMag |-> "estimate"] = {"stdMag"} /\ [stdMag |-> "estimate"]["stdMag"] = "estimate"
      OBVIOUS
    <3> QED
      BY <1>2, <3>1 DEF Extend
  <2> HIDE DEF h2, s2, sources, guess
  <2>4. /\ DOMAIN Extend(h2, Plain(e))
             = {"norad", "stdMag", "magSource", "_sources"} \cup DOMAIN Plain(e)
        /\ \A k \in {"norad", "stdMag", "magSource", "_sources"} : Extend(h2, Plain(e))[k] = h2[k]
        /\ \A k \in DOMAIN Plain(e) : Extend(h2, Plain(e))[k] = Plain(e)[k]
    <3>1. "stdMag" \notin DOMAIN Plain(e)
      BY <1>2, PlainDef DEF sources
    <3> QED
      BY <2>2, <3>1, PlainDef DEF Extend
  <2> QED
    BY <1>0, <1>2, <2>1, <2>2, <2>3, <2>4, PlainDef DEF Shaped, Look, sources, guess
<1>3. CASE "stdMag" \notin DOMAIN sources /\ guess = None
  <2>1. Merged(e) = Extend(h3, Plain(e))
    BY <1>3 DEF Merged
  <2>2. /\ DOMAIN h3 = {"norad", "_sources"}
        /\ h3["norad"] = e.norad /\ h3["_sources"] = sources
    OBVIOUS
  <2> HIDE DEF h3, sources, guess
  <2>3. /\ DOMAIN Extend(h3, Plain(e)) = {"norad", "_sources"} \cup DOMAIN Plain(e)
        /\ \A k \in {"norad", "_sources"} : Extend(h3, Plain(e))[k] = h3[k]
        /\ \A k \in DOMAIN Plain(e) : Extend(h3, Plain(e))[k] = Plain(e)[k]
    BY <2>2, PlainDef DEF Extend
  <2> QED
    BY <1>0, <1>3, <2>1, <2>2, <2>3, PlainDef DEF Shaped, Look, sources
<1> QED
  BY <1>1, <1>2, <1>3

-----------------------------------------------------------------------------
(* The parsers: the last row about a number decides what the table has.    *)

Known(body, column, k) == {NumberIn(body[i], column) : i \in 1 .. k} \ {None}

LastIn(body, column, n, k) == Max({i \in 1 .. k : NumberIn(body[i], column) = n})

LEMMA LastStep ==
  ASSUME NEW body, NEW column, NEW k \in Nat, NEW n
  PROVE  /\ NumberIn(body[k + 1], column) = n => LastIn(body, column, n, k + 1) = k + 1
         /\ NumberIn(body[k + 1], column) # n =>
              LastIn(body, column, n, k + 1) = LastIn(body, column, n, k)
<1> DEFINE S(j) == {i \in 1 .. j : NumberIn(body[i], column) = n}
<1>1. ASSUME NumberIn(body[k + 1], column) = n
      PROVE  LastIn(body, column, n, k + 1) = k + 1
  <2>1. k + 1 \in S(k + 1) /\ \A y \in S(k + 1) : k + 1 >= y
    BY <1>1
  <2>2. Max(S(k + 1)) \in S(k + 1) /\ \A y \in S(k + 1) : Max(S(k + 1)) >= y
    BY <2>1 DEF Max
  <2>3. S(k + 1) \subseteq Int
    OBVIOUS
  <2> HIDE DEF S
  <2>4. Max(S(k + 1)) = k + 1
    BY <2>1, <2>2, <2>3
  <2> QED
    BY <2>4 DEF LastIn, S
<1>2. ASSUME NumberIn(body[k + 1], column) # n
      PROVE  S(k + 1) = S(k)
  BY <1>2
<1> QED
  BY <1>1, <1>2 DEF LastIn

LEMMA KnownStep ==
  ASSUME NEW body, NEW column, NEW k \in Nat
  PROVE  Known(body, column, k + 1)
           = Known(body, column, k) \cup ({NumberIn(body[k + 1], column)} \ {None})
<1>1. 1 .. k + 1 = (1 .. k) \cup {k + 1}
  OBVIOUS
<1> QED
  BY <1>1 DEF Known

LEMMA KnownNumbers ==
  ASSUME NEW body, NEW column, NEW k
  PROVE  Known(body, column, k) \subseteq Int \cap Numbers
BY MergeAssumption DEF Known, NumberIn, Look, Numbers

LEMMA NoneKnown == ASSUME NEW body, NEW column PROVE Known(body, column, 0) = {}
BY DEF Known

\* What a table has after k rows of its body.
SatcatRead(k) ==
  /\ DOMAIN satcat = Known(satcatBody, "NORAD_CAT_ID", k)
  /\ \A n \in DOMAIN satcat :
       satcat[n] = SatcatRecord(satcatBody[LastIn(satcatBody, "NORAD_CAT_ID", n, k)])

GcatRead(k) ==
  /\ DOMAIN gcat = Known(gcatBody, "Satcat", k)
  /\ \A n \in DOMAIN gcat : gcat[n] = GcatRecord(gcatBody[LastIn(gcatBody, "Satcat", n, k)])

Left(body, k) == SubSeq(body, k + 1, Len(body))

LEMMA LeftFacts ==
  ASSUME NEW S, NEW body \in Seq(S)
  PROVE  /\ Left(body, 0) = body /\ Left(body, Len(body)) = <<>>
         /\ \A k \in 0 .. Len(body) :
              /\ Left(body, k) = <<>> <=> k = Len(body)
              /\ k < Len(body) =>
                   Head(Left(body, k)) = body[k + 1] /\ Tail(Left(body, k)) = Left(body, k + 1)
<1>1. Len(body) \in Nat
  BY LenProperties
<1>2. Left(body, 0) = body
  BY SubSeqFull DEF Left
<1>3. Left(body, Len(body)) = <<>>
  <2>1. Len(body) + 1 \in Int /\ Len(body) \in Int /\ Len(body) < Len(body) + 1
    BY <1>1
  <2> QED
    BY <2>1, SubSeqEmpty DEF Left
<1>4. ASSUME NEW k \in 0 .. Len(body), k < Len(body)
      PROVE  /\ Left(body, k) # <<>>
             /\ Head(Left(body, k)) = body[k + 1] /\ Tail(Left(body, k)) = Left(body, k + 1)
  <2>1. k + 1 \in 1 .. Len(body) /\ Len(body) \in k + 1 .. Len(body)
    BY <1>1, <1>4
  <2>2. Head(Left(body, k)) = body[k + 1] /\ Tail(Left(body, k)) = Left(body, k + 1)
    BY <2>1, HeadTailOfSubSeq DEF Left
  <2>3. Len(Left(body, k)) = Len(body) - k /\ Len(body) - k > 0
    BY <1>1, <2>1, SubSeqProperties DEF Left
  <2> QED
    BY <2>2, <2>3
<1> QED
  BY <1>1, <1>2, <1>3, <1>4

Merging == pc \in {"merge", "built", "failed"}

ParseInv ==
  /\ today \in Days /\ satcatBody \in SatcatBodies /\ gcatBody \in GcatBodies
  /\ runs \in 1 .. MaxRuns
  /\ pc \in {"satcat", "gcat", "merge", "built", "failed"}
  /\ IsFiniteSet(DOMAIN satcat)
  /\ pc = "satcat" =>
       /\ DOMAIN gcat = {}
       /\ \E k \in 0 .. Len(satcatBody) : rows = Left(satcatBody, k) /\ SatcatRead(k)
  /\ pc = "gcat" =>
       /\ SatcatRead(Len(satcatBody))
       /\ \E k \in 0 .. Len(gcatBody) : rows = Left(gcatBody, k) /\ GcatRead(k)
  /\ Merging => SatcatRead(Len(satcatBody)) /\ GcatRead(Len(gcatBody)) /\ rows = <<>>

LEMMA Bodies ==
  /\ \A body \in SatcatBodies : body \in Seq([SatcatColumns -> STRING]) /\ Len(body) \in Nat
  /\ \A body \in GcatBodies : body \in Seq([GcatColumns -> STRING]) /\ Len(body) \in Nat
BY MergeAssumption, LenProperties

LEMMA NothingRead == DOMAIN NoRecords = {} /\ IsFiniteSet(DOMAIN NoRecords)
<1>1. DOMAIN NoRecords = {}
  BY DEF NoRecords
<1> QED
  BY <1>1, FS_EmptySet

LEMMA ParseStart ==
  ASSUME satcatBody \in SatcatBodies, gcatBody \in GcatBodies, rows = satcatBody,
         satcat = NoRecords, gcat = NoRecords
  PROVE  /\ IsFiniteSet(DOMAIN satcat) /\ DOMAIN gcat = {}
         /\ \E k \in 0 .. Len(satcatBody) : rows = Left(satcatBody, k) /\ SatcatRead(k)
<1>1. 0 \in 0 .. Len(satcatBody) /\ rows = Left(satcatBody, 0)
  BY Bodies, LeftFacts
<1>2. SatcatRead(0)
  BY NothingRead, NoneKnown DEF SatcatRead
<1> QED
  BY <1>1, <1>2, NothingRead

LEMMA ParseInit == Init => ParseInv
<1> SUFFICES ASSUME Init PROVE ParseInv
  OBVIOUS
<1>1. 1 \in 1 .. MaxRuns
  BY MergeAssumption
<1> QED
  BY <1>1, ParseStart DEF Init, ParseInv, Merging

LEMMA ParseSatcatRow ==
  ASSUME NEW k \in 0 .. Len(satcatBody), k < Len(satcatBody), satcatBody \in SatcatBodies,
         rows = Left(satcatBody, k), SatcatRead(k), ParseSatcat
  PROVE  /\ SatcatRead(k + 1)' /\ rows' = Left(satcatBody, k + 1)
         /\ \E n : DOMAIN satcat' \subseteq DOMAIN satcat \cup {n}
<1> DEFINE row == satcatBody[k + 1]
           new == NumberIn(row, "NORAD_CAT_ID")
           one == [x \in {new} |-> SatcatRecord(row)]
<1>1. Head(rows) = row /\ Tail(rows) = Left(satcatBody, k + 1) /\ k \in Nat
  BY Bodies, LeftFacts
<1>2. /\ satcat' = IF new = None THEN satcat ELSE Extend(one, satcat)
      /\ rows' = Left(satcatBody, k + 1) /\ satcatBody' = satcatBody
  BY <1>1 DEF ParseSatcat, inputs
<1>3. Known(satcatBody, "NORAD_CAT_ID", k + 1)
        = Known(satcatBody, "NORAD_CAT_ID", k) \cup ({new} \ {None})
  BY <1>1, KnownStep
<1>4. \A n \in Known(satcatBody, "NORAD_CAT_ID", k) :
        n # new => LastIn(satcatBody, "NORAD_CAT_ID", n, k + 1) = LastIn(satcatBody, "NORAD_CAT_ID", n, k)
  BY <1>1, LastStep
<1>5. LastIn(satcatBody, "NORAD_CAT_ID", new, k + 1) = k + 1
  BY <1>1, LastStep
<1>6. DOMAIN satcat' = Known(satcatBody, "NORAD_CAT_ID", k + 1)
      /\ DOMAIN satcat' \subseteq DOMAIN satcat \cup {new}
  BY <1>2, <1>3 DEF SatcatRead, Extend
<1>7. ASSUME NEW n \in DOMAIN satcat'
      PROVE  satcat'[n] = SatcatRecord(satcatBody[LastIn(satcatBody, "NORAD_CAT_ID", n, k + 1)])
  <2>1. CASE n = new
    <3>1. new # None
      BY <1>6, <2>1 DEF Known
    <3>2. n \in DOMAIN one /\ one[n] = SatcatRecord(row)
      BY <2>1
    <3> HIDE DEF one, new, row
    <3>3. satcat'[n] = one[n]
      BY <1>2, <3>1, <3>2 DEF Extend
    <3> QED
      BY <1>5, <2>1, <3>2, <3>3 DEF row
  <2>2. CASE n # new
    <3>1. n \in DOMAIN satcat /\ n \notin DOMAIN one
      BY <1>6, <2>2
    <3> HIDE DEF one, new, row
    <3>2. satcat'[n] = satcat[n]
      BY <1>2, <3>1 DEF Extend
    <3> QED
      BY <1>4, <2>2, <3>1, <3>2 DEF SatcatRead
  <2> QED
    BY <2>1, <2>2
<1> QED
  BY <1>2, <1>6, <1>7 DEF SatcatRead

LEMMA ParseGcatRow ==
  ASSUME NEW k \in 0 .. Len(gcatBody), k < Len(gcatBody), gcatBody \in GcatBodies,
         rows = Left(gcatBody, k), GcatRead(k), ParseGcat
  PROVE  GcatRead(k + 1)' /\ rows' = Left(gcatBody, k + 1)
<1> DEFINE row == gcatBody[k + 1]
           new == NumberIn(row, "Satcat")
           one == [x \in {new} |-> GcatRecord(row)]
<1>1. Head(rows) = row /\ Tail(rows) = Left(gcatBody, k + 1) /\ k \in Nat
  BY Bodies, LeftFacts
<1>2. /\ gcat' = IF new = None THEN gcat ELSE Extend(one, gcat)
      /\ rows' = Left(gcatBody, k + 1) /\ gcatBody' = gcatBody
  BY <1>1 DEF ParseGcat, inputs
<1>3. Known(gcatBody, "Satcat", k + 1) = Known(gcatBody, "Satcat", k) \cup ({new} \ {None})
  BY <1>1, KnownStep
<1>4. \A n \in Known(gcatBody, "Satcat", k) :
        n # new => LastIn(gcatBody, "Satcat", n, k + 1) = LastIn(gcatBody, "Satcat", n, k)
  BY <1>1, LastStep
<1>5. LastIn(gcatBody, "Satcat", new, k + 1) = k + 1
  BY <1>1, LastStep
<1>6. /\ DOMAIN gcat' = Known(gcatBody, "Satcat", k + 1)
      /\ DOMAIN gcat' \subseteq DOMAIN gcat \cup {new}
  BY <1>2, <1>3 DEF GcatRead, Extend
<1>7. ASSUME NEW n \in DOMAIN gcat'
      PROVE  gcat'[n] = GcatRecord(gcatBody[LastIn(gcatBody, "Satcat", n, k + 1)])
  <2>1. CASE n = new
    <3>1. new # None
      BY <1>6, <2>1 DEF Known
    <3>2. n \in DOMAIN one /\ one[n] = GcatRecord(row)
      BY <2>1
    <3> HIDE DEF one, new, row
    <3>3. gcat'[n] = one[n]
      BY <1>2, <3>1, <3>2 DEF Extend
    <3> QED
      BY <1>5, <2>1, <3>2, <3>3 DEF row
  <2>2. CASE n # new
    <3>1. n \in DOMAIN gcat /\ n \notin DOMAIN one
      BY <1>6, <2>2
    <3> HIDE DEF one, new, row
    <3>2. gcat'[n] = gcat[n]
      BY <1>2, <3>1 DEF Extend
    <3> QED
      BY <1>4, <2>2, <3>1, <3>2 DEF GcatRead
  <2> QED
    BY <2>1, <2>2
<1> QED
  BY <1>2, <1>6, <1>7 DEF GcatRead

LEMMA ParseStep == ParseInv /\ [Next]_vars => ParseInv'
<1> SUFFICES ASSUME ParseInv, [Next]_vars PROVE ParseInv'
  OBVIOUS
<1>0. Len(satcatBody) \in Nat /\ Len(gcatBody) \in Nat
  BY Bodies DEF ParseInv
<1>1. CASE ParseSatcat
  <2>1. PICK k \in 0 .. Len(satcatBody) : rows = Left(satcatBody, k) /\ SatcatRead(k)
    BY <1>1 DEF ParseInv, ParseSatcat
  <2>2. k < Len(satcatBody)
    BY <1>0, <1>1, <2>1, Bodies, LeftFacts DEF ParseInv, ParseSatcat
  <2>3. /\ SatcatRead(k + 1)' /\ rows' = Left(satcatBody, k + 1)
        /\ \E n : DOMAIN satcat' \subseteq DOMAIN satcat \cup {n}
    BY <1>1, <2>1, <2>2, ParseSatcatRow DEF ParseInv
  <2>4. IsFiniteSet(DOMAIN satcat')
    BY <2>3, FS_AddElement, FS_Subset DEF ParseInv
  <2>5. k + 1 \in 0 .. Len(satcatBody)
    BY <1>0, <2>1, <2>2
  <2>6. /\ UNCHANGED <<today, satcatBody, gcatBody, pc, gcat, runs>> /\ pc = "satcat"
    BY <1>1 DEF ParseSatcat, inputs
  <2>7. \E j \in 0 .. Len(satcatBody) : rows' = Left(satcatBody, j) /\ SatcatRead(j)'
    BY <2>3, <2>5
  <2> QED
    BY <2>4, <2>6, <2>7 DEF ParseInv, Merging, Left
<1>2. CASE SatcatParsed
  <2>1. /\ UNCHANGED <<today, satcatBody, gcatBody, satcat, gcat, runs>>
        /\ pc = "satcat" /\ pc' = "gcat" /\ rows = <<>> /\ rows' = gcatBody
    BY <1>2 DEF SatcatParsed, inputs
  <2>2. SatcatRead(Len(satcatBody))
    BY <1>0, <2>1, Bodies, LeftFacts DEF ParseInv
  <2>3. 0 \in 0 .. Len(gcatBody) /\ rows' = Left(gcatBody, 0)
    BY <1>0, <2>1, Bodies, LeftFacts DEF ParseInv
  <2>4. GcatRead(0)'
    BY <2>1, NoneKnown DEF ParseInv, GcatRead
  <2> QED
    BY <2>1, <2>2, <2>3, <2>4 DEF ParseInv, Merging, SatcatRead, Left
<1>3. CASE ParseGcat
  <2>1. PICK k \in 0 .. Len(gcatBody) : rows = Left(gcatBody, k) /\ GcatRead(k)
    BY <1>3 DEF ParseInv, ParseGcat
  <2>2. k < Len(gcatBody)
    BY <1>0, <1>3, <2>1, Bodies, LeftFacts DEF ParseInv, ParseGcat
  <2>3. GcatRead(k + 1)' /\ rows' = Left(gcatBody, k + 1)
    BY <1>3, <2>1, <2>2, ParseGcatRow DEF ParseInv
  <2>4. k + 1 \in 0 .. Len(gcatBody)
    BY <1>0, <2>1, <2>2
  <2>5. /\ UNCHANGED <<today, satcatBody, gcatBody, pc, satcat, runs>> /\ pc = "gcat"
    BY <1>3 DEF ParseGcat, inputs
  <2>6. \E j \in 0 .. Len(gcatBody) : rows' = Left(gcatBody, j) /\ GcatRead(j)'
    BY <2>3, <2>4
  <2> QED
    BY <2>5, <2>6 DEF ParseInv, Merging, SatcatRead, Left
<1>4. CASE GcatParsed
  <2>1. /\ UNCHANGED <<today, satcatBody, gcatBody, satcat, gcat, runs, rows>>
        /\ pc = "gcat" /\ pc' = "merge" /\ rows = <<>>
    BY <1>4 DEF GcatParsed, inputs
  <2>2. GcatRead(Len(gcatBody)) /\ SatcatRead(Len(satcatBody))
    BY <1>0, <2>1, Bodies, LeftFacts DEF ParseInv
  <2> QED
    BY <2>1, <2>2 DEF ParseInv, Merging, SatcatRead, GcatRead
<1>5. CASE Build \/ UNCHANGED vars \/ \E n \in todo : MergeOne(n)
  <2>1. /\ UNCHANGED <<today, satcatBody, gcatBody, satcat, gcat, runs, rows>>
        /\ \/ pc' = pc
           \/ pc = "merge" /\ pc' \in {"built", "failed"}
    BY <1>5 DEF Build, MergeOne, vars, inputs
  <2> QED
    BY <2>1 DEF ParseInv, Merging, SatcatRead, GcatRead, Left
<1>6. CASE NextRun
  <2>1. /\ today' \in Days /\ satcatBody' \in SatcatBodies /\ gcatBody' \in GcatBodies
        /\ pc' = "satcat" /\ rows' = satcatBody' /\ runs < MaxRuns /\ runs' = runs + 1
        /\ satcat' = NoRecords /\ gcat' = NoRecords
    BY <1>6 DEF NextRun
  <2>2. runs' \in 1 .. MaxRuns
    BY <2>1, MergeAssumption DEF ParseInv
  <2>3. 0 \in 0 .. Len(satcatBody') /\ rows' = Left(satcatBody', 0)
    BY <2>1, Bodies, LeftFacts
  <2>4. SatcatRead(0)'
    BY <2>1, NothingRead, NoneKnown DEF SatcatRead
  <2>5. \E k \in 0 .. Len(satcatBody') : rows' = Left(satcatBody', k) /\ SatcatRead(k)'
    BY <2>3, <2>4
  <2> QED
    BY <2>1, <2>2, <2>5, NothingRead DEF ParseInv, Merging, Left
<1> QED
  BY <1>1, <1>2, <1>3, <1>4, <1>5, <1>6 DEF Next

-----------------------------------------------------------------------------
(* The merge: every number of SATCAT is merged once, from its last rows.   *)

EntryOf(s, g, n) ==
  [norad  |-> n,
   satcat |-> SatcatRecord(LastRow(s, "NORAD_CAT_ID", n)),
   gcat   |-> IF n \in Known(g, "Satcat", Len(g)) THEN GcatRecord(LastRow(g, "Satcat", n))
              ELSE NoRecords]

LEMMA LastRowIs ==
  /\ \A body \in SatcatBodies : \A n :
       LastRow(body, "NORAD_CAT_ID", n) = body[LastIn(body, "NORAD_CAT_ID", n, Len(body))]
  /\ \A body \in GcatBodies : \A n :
       LastRow(body, "Satcat", n) = body[LastIn(body, "Satcat", n, Len(body))]
<1>1. /\ \A body \in SatcatBodies : DOMAIN body = 1 .. Len(body)
      /\ \A body \in GcatBodies : DOMAIN body = 1 .. Len(body)
  BY Bodies, LenProperties
<1> QED
  BY <1>1 DEF LastRow, LastIn

LEMMA EntriesRead ==
  ASSUME ParseInv, Merging
  PROVE  /\ DOMAIN satcat = Known(satcatBody, "NORAD_CAT_ID", Len(satcatBody))
         /\ \A n \in DOMAIN satcat : Entry(n) = EntryOf(satcatBody, gcatBody, n)
<1>1. SatcatRead(Len(satcatBody)) /\ GcatRead(Len(gcatBody))
  BY DEF ParseInv
<1>2. ASSUME NEW n \in DOMAIN satcat
      PROVE  Entry(n) = EntryOf(satcatBody, gcatBody, n)
  <2>1. satcat[n] = SatcatRecord(LastRow(satcatBody, "NORAD_CAT_ID", n))
    BY <1>1, <1>2, LastRowIs DEF SatcatRead, ParseInv
  <2>2. Look(gcat, n, NoRecords)
          = IF n \in Known(gcatBody, "Satcat", Len(gcatBody))
            THEN GcatRecord(LastRow(gcatBody, "Satcat", n)) ELSE NoRecords
    BY <1>1, LastRowIs DEF GcatRead, ParseInv, Look
  <2> QED
    BY <2>1, <2>2 DEF Entry, EntryOf
<1> QED
  BY <1>1, <1>2 DEF SatcatRead

MergeInv ==
  /\ todo \subseteq DOMAIN satcat
  /\ ~ Merging => todo = {} /\ DOMAIN output = {} /\ counts = NoCounts
  /\ pc \in {"built", "failed"} => todo = {}
  /\ Merging => DOMAIN output = {n \in DOMAIN satcat \ todo : ~ Dropped(Merged(Entry(n)))}
  /\ \A n \in DOMAIN output : output[n] = Merged(Entry(n))

LEMMA MergeInit == Init => MergeInv
BY NothingRead DEF Init, MergeInv, Merging

LEMMA MergeOneOutput ==
  ASSUME ParseInv, MergeInv, NEW n \in todo, MergeOne(n)
  PROVE  /\ n \notin DOMAIN output /\ Merging /\ n \in DOMAIN satcat
         /\ UNCHANGED <<today, satcat, gcat, pc>> /\ todo' = todo \ {n}
         /\ ~ Dropped(Merged(Entry(n))) =>
              /\ DOMAIN output' = DOMAIN output \cup {n} /\ output'[n] = Merged(Entry(n))
              /\ \A m \in DOMAIN output : output'[m] = output[m]
              /\ counts' = Count(Merged(Entry(n)))
         /\ Dropped(Merged(Entry(n))) =>
              /\ output' = output
              /\ counts' = [counts EXCEPT !.droppedDecayed = @ + 1]
<1> DEFINE one == [k \in {n} |-> Merged(Entry(n))]
<1>1. /\ n \notin DOMAIN output /\ Merging /\ n \in DOMAIN satcat
      /\ UNCHANGED <<today, satcat, gcat, pc>> /\ todo' = todo \ {n}
  BY DEF MergeOne, MergeInv, Merging, inputs
<1>2. ASSUME ~ Dropped(Merged(Entry(n)))
      PROVE  counts' = Count(Merged(Entry(n))) /\ output' = Extend(one, output)
  BY <1>2 DEF MergeOne
<1>3. ASSUME Dropped(Merged(Entry(n)))
      PROVE  output' = output /\ counts' = [counts EXCEPT !.droppedDecayed = @ + 1]
  BY <1>3 DEF MergeOne
<1>4. DOMAIN one = {n} /\ one[n] = Merged(Entry(n))
  OBVIOUS
<1> HIDE DEF one
<1>5. /\ DOMAIN Extend(one, output) = DOMAIN output \cup {n}
      /\ Extend(one, output)[n] = Merged(Entry(n))
      /\ \A m \in DOMAIN output : Extend(one, output)[m] = output[m]
  BY <1>1, <1>4 DEF Extend
<1> QED
  BY <1>1, <1>2, <1>3, <1>5

LEMMA MergeStep == ParseInv /\ MergeInv /\ [Next]_vars => MergeInv'
<1> SUFFICES ASSUME ParseInv, MergeInv, [Next]_vars PROVE MergeInv'
  OBVIOUS
<1>1. CASE ParseSatcat \/ SatcatParsed \/ ParseGcat
  BY <1>1 DEF ParseSatcat, SatcatParsed, ParseGcat, MergeInv, Merging
<1>2. CASE GcatParsed
  BY <1>2 DEF GcatParsed, MergeInv, Merging, inputs
<1>3. ASSUME NEW n \in todo, MergeOne(n)
      PROVE  MergeInv'
  <2>1. \A m : Entry(m)' = Entry(m)
    BY <1>3, MergeOneOutput DEF Entry
  <2>2. \A m : Merged(Entry(m))' = Merged(Entry(m))
    BY <2>1
  <2>3. todo' \subseteq DOMAIN satcat' /\ pc = "merge" /\ pc' = "merge"
    BY <1>3 DEF MergeOne, MergeInv, inputs
  <2>4. DOMAIN output' = {m \in DOMAIN satcat \ todo' : ~ Dropped(Merged(Entry(m)))}
    <3>1. DOMAIN output = {m \in DOMAIN satcat \ todo : ~ Dropped(Merged(Entry(m)))}
      BY <2>3 DEF MergeInv, Merging
    <3> QED
      BY <1>3, <3>1, MergeOneOutput
  <2>5. \A m \in DOMAIN output' : output'[m] = Merged(Entry(m))
    BY <1>3, MergeOneOutput DEF MergeInv
  <2> QED
    BY <1>3, <2>2, <2>3, <2>4, <2>5, MergeOneOutput DEF MergeInv, Merging, Dropped
<1>4. CASE Build \/ UNCHANGED vars
  <2>1. /\ UNCHANGED <<today, satcat, gcat, todo, output, counts>>
        /\ \/ pc' = pc
           \/ pc = "merge" /\ pc' \in {"built", "failed"} /\ todo = {}
    BY <1>4 DEF Build, vars, inputs
  <2> QED
    BY <2>1 DEF MergeInv, Merging, Entry, Dropped
<1>5. CASE NextRun
  <2>1. /\ pc' = "satcat" /\ output' = NoRecords /\ counts' = NoCounts /\ todo' = {}
    BY <1>5 DEF NextRun, MergeInv
  <2> QED
    BY <2>1, NothingRead DEF MergeInv, Merging
<1> QED
  BY <1>1, <1>2, <1>3, <1>4, <1>5 DEF Next

-----------------------------------------------------------------------------
(* Counts.                                                                 *)

CountNames == {"records", "withGcat", "withMag", "withMagEst", "droppedDecayed"}

\* The numbers whose record has its magnitude from a source.
By(source) == {n \in DOMAIN output : Look(output[n], "magSource", None) = source}

CountInv ==
  /\ counts \in [CountNames -> Nat]
  /\ counts.records = Cardinality(DOMAIN output)
  /\ Merging => counts.records + counts.droppedDecayed = Cardinality(DOMAIN satcat \ todo)
  /\ counts.withGcat = Cardinality(DOMAIN output \cap DOMAIN gcat)
  /\ counts.withMag = Cardinality(By("mmccants"))
  /\ counts.withMagEst = Cardinality(By("estimate"))

LEMMA AddOne ==
  ASSUME NEW S, NEW x, IsFiniteSet(S), x \notin S
  PROVE  IsFiniteSet(S \cup {x}) /\ Cardinality(S \cup {x}) = Cardinality(S) + 1
BY FS_AddElement

LEMMA NothingCounted ==
  ASSUME DOMAIN output = {}, counts = NoCounts, Merging => DOMAIN satcat \ todo = {}
  PROVE  CountInv
<1>1. By("mmccants") = {} /\ By("estimate") = {} /\ DOMAIN output \cap DOMAIN gcat = {}
  BY DEF By
<1>2. /\ counts \in [CountNames -> Nat]
      /\ \A c \in CountNames : counts[c] = 0
  BY DEF NoCounts, CountNames
<1>3. Cardinality({}) = 0
  BY FS_EmptySet
<1>4. /\ counts.records = 0 /\ counts.droppedDecayed = 0 /\ counts.withGcat = 0
      /\ counts.withMag = 0 /\ counts.withMagEst = 0
  BY <1>2 DEF CountNames
<1>5. Merging => counts.records + counts.droppedDecayed = Cardinality(DOMAIN satcat \ todo)
  <2>1. 0 + 0 = 0
    OBVIOUS
  <2> QED
    BY <1>3, <1>4, <2>1
<1> QED
  BY <1>1, <1>2, <1>3, <1>4, <1>5 DEF CountInv

LEMMA FiniteParts ==
  ASSUME ParseInv, MergeInv
  PROVE  /\ DOMAIN output \subseteq DOMAIN satcat
         /\ IsFiniteSet(DOMAIN output) /\ IsFiniteSet(DOMAIN satcat \ todo)
         /\ IsFiniteSet(DOMAIN output \cap DOMAIN gcat)
         /\ \A source : IsFiniteSet(By(source))
<1>1. DOMAIN output \subseteq DOMAIN satcat
  BY DEF MergeInv
<1>2. \A source : By(source) \subseteq DOMAIN satcat
  BY <1>1 DEF By
<1>3. IsFiniteSet(DOMAIN satcat)
  BY DEF ParseInv
<1> QED
  BY <1>1, <1>2, <1>3, FS_Subset

LEMMA CountMerged ==
  ASSUME ParseInv, MergeInv, CountInv, NEW n \in todo, MergeOne(n)
  PROVE  CountInv'
<1> DEFINE m == Merged(Entry(n))
           from == Look(m, "magSource", None)
<1>1. /\ n \notin DOMAIN output /\ Merging /\ n \in DOMAIN satcat
      /\ UNCHANGED <<satcat, gcat, pc>> /\ todo' = todo \ {n}
  BY MergeOneOutput
<1>2. Cardinality(DOMAIN satcat' \ todo') = Cardinality(DOMAIN satcat \ todo) + 1
  <2>1. DOMAIN satcat' \ todo' = (DOMAIN satcat \ todo) \cup {n} /\ n \notin DOMAIN satcat \ todo
    BY <1>1
  <2> QED
    BY <2>1, FiniteParts, AddOne
<1>3. CASE Dropped(m)
  <2>1. output' = output /\ counts' = [counts EXCEPT !.droppedDecayed = @ + 1]
    BY <1>3, MergeOneOutput
  <2>2. /\ counts' \in [CountNames -> Nat]
        /\ counts'.droppedDecayed = counts.droppedDecayed + 1
        /\ \A c \in CountNames \ {"droppedDecayed"} : counts'[c] = counts[c]
    BY <2>1 DEF CountInv, CountNames
  <2>3. /\ counts'.records = counts.records /\ counts'.withGcat = counts.withGcat
        /\ counts'.withMag = counts.withMag /\ counts'.withMagEst = counts.withMagEst
        /\ counts.records \in Nat /\ counts.droppedDecayed \in Nat
    BY <2>2 DEF CountNames, CountInv
  <2>4. counts'.records + counts'.droppedDecayed = Cardinality(DOMAIN satcat' \ todo')
    BY <1>1, <1>2, <2>2, <2>3 DEF CountInv
  <2> QED
    BY <1>1, <2>1, <2>2, <2>3, <2>4 DEF CountInv, By
<1>4. CASE ~ Dropped(m)
  <2>1. /\ DOMAIN output' = DOMAIN output \cup {n} /\ output'[n] = m
        /\ \A k \in DOMAIN output : output'[k] = output[k]
        /\ counts' = Count(m)
    BY <1>4, MergeOneOutput
  <2>2. m.norad = n
    BY MergedShape DEF Shaped, Entry
  <2> HIDE DEF m
  <2> DEFINE withGcat == IF n \in DOMAIN gcat THEN counts.withGcat + 1 ELSE counts.withGcat
             withMag  == IF from = "mmccants" THEN counts.withMag + 1 ELSE counts.withMag
             withEst  == IF from = "estimate" THEN counts.withMagEst + 1 ELSE counts.withMagEst
  <2>3. counts \in [CountNames -> Nat]
    BY DEF CountInv
  <2>4. /\ counts.records + 1 \in Nat
        /\ counts.withGcat \in Nat /\ counts.withMag \in Nat /\ counts.withMagEst \in Nat
    BY <2>3 DEF CountNames
  <2>5. withGcat \in Nat /\ withMag \in Nat /\ withEst \in Nat
    BY <2>4
  <2>6. counts' = [counts EXCEPT !.records = counts.records + 1, !.withGcat = withGcat,
                                 !.withMag = withMag, !.withMagEst = withEst]
    BY <2>1, <2>2 DEF Count
  <2>7. /\ counts' \in [CountNames -> Nat]
        /\ counts'.records = counts.records + 1
        /\ counts'.droppedDecayed = counts.droppedDecayed
        /\ counts'.withGcat = IF n \in DOMAIN gcat THEN counts.withGcat + 1 ELSE counts.withGcat
        /\ counts'.withMag = IF from = "mmccants" THEN counts.withMag + 1 ELSE counts.withMag
        /\ counts'.withMagEst
             = IF from = "estimate" THEN counts.withMagEst + 1 ELSE counts.withMagEst
    <3> HIDE DEF withGcat, withMag, withEst
    <3>1. /\ counts' \in [CountNames -> Nat] /\ counts'.records = counts.records + 1
          /\ counts'.droppedDecayed = counts.droppedDecayed /\ counts'.withGcat = withGcat
          /\ counts'.withMag = withMag /\ counts'.withMagEst = withEst
      BY <2>3, <2>4, <2>5, <2>6 DEF CountNames
    <3> QED
      BY <3>1 DEF withGcat, withMag, withEst
  <2>8. Cardinality(DOMAIN output') = Cardinality(DOMAIN output) + 1
    BY <1>1, <2>1, FiniteParts, AddOne
  <2>9. Cardinality(DOMAIN output' \cap DOMAIN gcat')
          = IF n \in DOMAIN gcat THEN Cardinality(DOMAIN output \cap DOMAIN gcat) + 1
            ELSE Cardinality(DOMAIN output \cap DOMAIN gcat)
    <3>1. DOMAIN output' \cap DOMAIN gcat'
            = IF n \in DOMAIN gcat THEN (DOMAIN output \cap DOMAIN gcat) \cup {n}
              ELSE DOMAIN output \cap DOMAIN gcat
      BY <1>1, <2>1
    <3> QED
      BY <1>1, <3>1, FiniteParts, AddOne
  <2>10. ASSUME NEW source
        PROVE  Cardinality(By(source)') = IF from = source THEN Cardinality(By(source)) + 1
                                          ELSE Cardinality(By(source))
    <3>1. By(source)' = IF from = source THEN By(source) \cup {n} ELSE By(source)
      BY <1>1, <2>1 DEF By
    <3>2. n \notin By(source)
      BY <1>1 DEF By
    <3> QED
      BY <3>1, <3>2, FiniteParts, AddOne
  <2>11. /\ counts.records \in Nat /\ counts.droppedDecayed \in Nat
        /\ Cardinality(DOMAIN satcat \ todo) = counts.records + counts.droppedDecayed
    BY <1>1 DEF CountInv, CountNames
  <2>12. counts'.records + counts'.droppedDecayed = Cardinality(DOMAIN satcat' \ todo')
    BY <1>2, <2>7, <2>11
  <2> HIDE DEF from
  <2>13. /\ counts'.withMag = Cardinality(By("mmccants")')
        /\ counts'.withMagEst = Cardinality(By("estimate")')
        /\ counts'.withGcat = Cardinality(DOMAIN output' \cap DOMAIN gcat')
        /\ counts'.records = Cardinality(DOMAIN output')
    BY <2>7, <2>8, <2>9, <2>10 DEF CountInv
  <2> QED
    BY <1>1, <2>7, <2>12, <2>13 DEF CountInv
<1> QED
  BY <1>3, <1>4

LEMMA CountInit == Init => CountInv
BY NothingRead, NothingCounted DEF Init, Merging

LEMMA CountStep == ParseInv /\ MergeInv /\ CountInv /\ [Next]_vars => CountInv'
<1> SUFFICES ASSUME ParseInv, MergeInv, CountInv, [Next]_vars PROVE CountInv'
  OBVIOUS
<1>1. ASSUME NEW n \in todo, MergeOne(n) PROVE CountInv'
  BY <1>1, CountMerged
<1>2. CASE Build \/ UNCHANGED vars
  <2>1. UNCHANGED <<satcat, gcat, todo, output, counts>> /\ (Merging' => Merging)
    BY <1>2 DEF Build, vars, inputs, Merging
  <2> QED
    BY <2>1 DEF CountInv, By
<1>3. CASE ParseSatcat \/ SatcatParsed \/ ParseGcat \/ GcatParsed \/ NextRun
  <2>1. MergeInv'
    BY MergeStep
  <2>2. /\ DOMAIN output' = {} /\ counts' = NoCounts
        /\ Merging' => DOMAIN satcat' \ todo' = {}
    BY <1>3, NothingRead
    DEF ParseSatcat, SatcatParsed, ParseGcat, GcatParsed, NextRun, Merging, MergeInv
  <2>3. (DOMAIN output = {} /\ counts = NoCounts /\ (Merging => DOMAIN satcat \ todo = {})
           => CountInv)'
    BY NothingCounted, PTL
  <2> QED
    BY <2>2, <2>3
<1> QED
  BY <1>1, <1>2, <1>3 DEF Next

LEMMA Counted ==
  ASSUME ParseInv, MergeInv, CountInv
  PROVE  CountsAgree
<1> SUFFICES ASSUME pc = "built" PROVE CountsAgree
  BY DEF CountsAgree
<1>1. todo = {} /\ Merging
  BY DEF MergeInv, Merging
<1>2. counts.records + counts.droppedDecayed = Cardinality(DOMAIN satcat)
  <2>1. DOMAIN satcat \ todo = DOMAIN satcat
    BY <1>1
  <2> QED
    BY <1>1, <2>1 DEF CountInv
<1>3. By("mmccants") \cap By("estimate") = {}
  BY DEF By
<1>4. By("mmccants") \cup By("estimate") = {n \in DOMAIN output : "stdMag" \in DOMAIN output[n]}
  <2>1. ASSUME NEW n \in DOMAIN output
        PROVE  /\ Look(output[n], "magSource", None) \in {"mmccants", "estimate", None}
               /\ Look(output[n], "magSource", None) # None <=> "stdMag" \in DOMAIN output[n]
    BY <2>1, MergedShape DEF Shaped, MergeInv
  <2>2. None \notin {"mmccants", "estimate"}
    BY MergeAssumption
  <2> QED
    BY <2>1, <2>2 DEF By
<1>5. Cardinality(By("mmccants") \cup By("estimate"))
        = Cardinality(By("mmccants")) + Cardinality(By("estimate"))
  <2>1. Cardinality({}) = 0 /\ Cardinality(By("mmccants")) \in Nat /\ Cardinality(By("estimate")) \in Nat
    BY FiniteParts, FS_EmptySet, FS_CardinalityType
  <2>2. Cardinality(By("mmccants") \cup By("estimate"))
          = Cardinality(By("mmccants")) + Cardinality(By("estimate"))
              - Cardinality(By("mmccants") \cap By("estimate"))
    BY FiniteParts, FS_Union
  <2>3. Cardinality(By("mmccants") \cap By("estimate")) = 0
    BY <1>3, <2>1
  <2> QED
    BY <2>1, <2>2, <2>3
<1> QED
  BY <1>2, <1>4, <1>5 DEF CountInv, CountsAgree

-----------------------------------------------------------------------------
(* The state keeps its type.                                               *)

HistoryInv ==
  /\ release # None => DOMAIN release = {"documents", "counts"}
  /\ prior # None => DOMAIN prior = {"inputs", "output"}

LEMMA HistoryStep == HistoryInv /\ [Next]_vars => HistoryInv'
<1> SUFFICES ASSUME HistoryInv, [Next]_vars PROVE HistoryInv'
  OBVIOUS
<1>1. release' = release \/ release' = [documents |-> Documents, counts |-> counts]
  BY DEF Next, ParseSatcat, SatcatParsed, ParseGcat, GcatParsed, MergeOne, Build, NextRun, vars
<1>2. prior' = prior \/ prior' = [inputs |-> <<satcatBody, gcatBody>>, output |-> output]
  BY DEF Next, ParseSatcat, SatcatParsed, ParseGcat, GcatParsed, MergeOne, Build, NextRun, vars
<1> QED
  BY <1>1, <1>2 DEF HistoryInv

LEMMA LeftIsSuffix ==
  ASSUME NEW body, NEW k \in 0 .. Len(body), Len(body) \in Nat
  PROVE  Left(body, k) \in Suffixes(body)
<1>1. CASE k = Len(body)
  <2>1. Len(body) + 1 \in Int /\ Len(body) \in Int /\ Len(body) < Len(body) + 1
    OBVIOUS
  <2> QED
    BY <1>1, <2>1, SubSeqEmpty DEF Left, Suffixes
<1>2. CASE k # Len(body)
  <2>1. k + 1 \in 1 .. Len(body)
    BY <1>2
  <2> QED
    BY <2>1 DEF Left, Suffixes
<1> QED
  BY <1>1, <1>2

LEMMA Typed ==
  ASSUME ParseInv, MergeInv, CountInv, HistoryInv
  PROVE  TypeOK
<1>1. rows \in Suffixes(satcatBody) \cup Suffixes(gcatBody)
  <2>1. CASE pc = "satcat"
    BY <2>1, LeftIsSuffix, Bodies DEF ParseInv
  <2>2. CASE pc = "gcat"
    BY <2>2, LeftIsSuffix, Bodies DEF ParseInv
  <2>3. CASE Merging
    BY <2>3 DEF ParseInv, Suffixes
  <2> QED
    BY <2>1, <2>2, <2>3 DEF ParseInv, Merging
<1>2. DOMAIN satcat \subseteq Numbers /\ DOMAIN gcat \subseteq Numbers
  BY KnownNumbers DEF ParseInv, SatcatRead, GcatRead, Merging
<1>3. /\ DOMAIN output \subseteq DOMAIN satcat
      /\ \A source : By(source) \subseteq DOMAIN satcat
      /\ DOMAIN output \cap DOMAIN gcat \subseteq DOMAIN satcat
      /\ DOMAIN satcat \ todo \subseteq DOMAIN satcat
  BY FiniteParts DEF By
<1>4. ASSUME NEW S \in SUBSET DOMAIN satcat
      PROVE  Cardinality(S) \in 0 .. Cardinality(DOMAIN satcat)
  BY FS_Subset, FS_CardinalityType DEF ParseInv
<1>5. /\ counts.records \in 0 .. Cardinality(DOMAIN satcat)
      /\ counts.withGcat \in 0 .. Cardinality(DOMAIN satcat)
      /\ counts.withMag \in 0 .. Cardinality(DOMAIN satcat)
      /\ counts.withMagEst \in 0 .. Cardinality(DOMAIN satcat)
  BY <1>3, <1>4 DEF CountInv
<1>6. counts.droppedDecayed \in 0 .. Cardinality(DOMAIN satcat)
  <2>1. Cardinality(DOMAIN satcat \ todo) \in 0 .. Cardinality(DOMAIN satcat)
    BY <1>3, <1>4
  <2>2. counts.records \in Nat /\ counts.droppedDecayed \in Nat
    BY DEF CountInv, CountNames
  <2>3. Cardinality(DOMAIN satcat) \in Nat
    BY FS_CardinalityType DEF ParseInv
  <2>4. CASE Merging
    BY <2>1, <2>2, <2>3, <2>4 DEF CountInv
  <2>5. CASE ~ Merging
    BY <2>3, <2>5 DEF MergeInv, NoCounts
  <2> QED
    BY <2>4, <2>5
<1>7. counts \in [DOMAIN NoCounts -> 0 .. Cardinality(DOMAIN satcat)]
  <2>1. DOMAIN NoCounts = CountNames
    BY DEF NoCounts, CountNames
  <2>2. \A c \in CountNames : counts[c] \in 0 .. Cardinality(DOMAIN satcat)
    BY <1>5, <1>6 DEF CountNames
  <2> QED
    BY <2>1, <2>2 DEF CountInv
<1> QED
  BY <1>1, <1>2, <1>3, <1>7 DEF TypeOK, ParseInv, MergeInv, HistoryInv

MergedInv == ParseInv /\ MergeInv /\ CountInv /\ HistoryInv

LEMMA MergedInit == Init => MergedInv
BY ParseInit, MergeInit, CountInit DEF MergedInv, Init, HistoryInv

LEMMA MergedStep == MergedInv /\ [Next]_vars => MergedInv'
BY ParseStep, MergeStep, CountStep, HistoryStep DEF MergedInv

\* The type invariant, for any bodies and any number of runs: no table has a
\* number that no cell stands for, and no count exceeds the objects of SATCAT.
THEOREM TypeCorrect == Spec => []TypeOK
<1>1. MergedInv => TypeOK
  BY Typed DEF MergedInv
<1> QED
  BY <1>1, MergedInit, MergedStep, PTL DEF Spec

\* The counts of a finished run account for every object of SATCAT, kept or
\* dropped, for every object that GCAT knows and for every magnitude.
THEOREM CountsHold == Spec => []CountsAgree
<1>1. MergedInv => CountsAgree
  BY Counted DEF MergedInv
<1> QED
  BY <1>1, MergedInit, MergedStep, PTL DEF Spec

-----------------------------------------------------------------------------
(* The release: its documents say what its counts are.                     *)

Enriched(docs) == UNION {DOMAIN docs.enrichment[b] : b \in DOMAIN docs.enrichment}

RecordIn(docs, n) == docs.enrichment[n \div BucketSize][n]

EnrichedBy(docs, source) ==
  {n \in Enriched(docs) : Look(RecordIn(docs, n), "magSource", None) = source}

\* The index alone would not do for an induction: it has no magnitudes' sources.
ReleaseInv ==
  /\ release # None =>
       /\ release.counts.records = Cardinality(Enriched(release.documents))
       /\ release.counts.withMag = Cardinality(EnrichedBy(release.documents, "mmccants"))
       /\ release.counts.withMagEst = Cardinality(EnrichedBy(release.documents, "estimate"))
  /\ pc = "built" => release.documents = Documents
                     /\ \A c \in {"records", "withMag", "withMagEst"} : release.counts[c] = counts[c]

LEMMA Decoded ==
  /\ Enriched(Documents) = DOMAIN output
  /\ \A n \in DOMAIN output : RecordIn(Documents, n) = output[n]
<1>1. /\ DOMAIN Enrichment = {n \div BucketSize : n \in DOMAIN output}
      /\ \A b \in DOMAIN Enrichment :
           /\ DOMAIN Enrichment[b] = {n \in DOMAIN output : n \div BucketSize = b}
           /\ \A n \in DOMAIN Enrichment[b] : Enrichment[b][n] = output[n]
  BY DEF Enrichment
<1>2. Documents.enrichment = Enrichment
  BY DEF Documents
<1>3. ASSUME NEW n \in DOMAIN output
      PROVE  /\ n \div BucketSize \in DOMAIN Enrichment
             /\ n \in DOMAIN Enrichment[n \div BucketSize]
             /\ Enrichment[n \div BucketSize][n] = output[n]
  BY <1>1
<1>4. \A n : n \in Enriched(Documents) <=> \E b \in DOMAIN Enrichment : n \in DOMAIN Enrichment[b]
  BY <1>2 DEF Enriched
<1>5. \A b \in DOMAIN Enrichment : DOMAIN Enrichment[b] \subseteq DOMAIN output
  BY <1>1
<1>6. Enriched(Documents) = DOMAIN output
  BY <1>3, <1>4, <1>5
<1> QED
  BY <1>2, <1>3, <1>6 DEF RecordIn

LEMMA DocumentsCounted ==
  ASSUME CountInv
  PROVE  /\ counts.records = Cardinality(Enriched(Documents))
         /\ counts.withMag = Cardinality(EnrichedBy(Documents, "mmccants"))
         /\ counts.withMagEst = Cardinality(EnrichedBy(Documents, "estimate"))
<1>1. \A source : EnrichedBy(Documents, source) = By(source)
  BY Decoded DEF EnrichedBy, By
<1> QED
  BY <1>1, Decoded DEF CountInv

LEMMA ReleaseInit == Init => ReleaseInv
BY DEF Init, ReleaseInv

LEMMA ReleaseStep == MergedInv /\ ReleaseInv /\ [Next]_vars => ReleaseInv'
<1> SUFFICES ASSUME MergedInv, ReleaseInv, [Next]_vars PROVE ReleaseInv'
  OBVIOUS
<1>1. CASE Build
  <2>1. UNCHANGED <<output, counts>> /\ Documents' = Documents
    BY <1>1 DEF Build, Documents, Index, Enrichment
  <2>2. CASE Allowed /\ ~ SameContent(Documents)
    <3> DEFINE new == [documents |-> Documents, counts |-> counts]
    <3>1. release' = new
      BY <1>1, <2>2 DEF Build
    <3>2. new.documents = Documents /\ new.counts = counts
      OBVIOUS
    <3> HIDE DEF new
    <3> QED
      BY <2>1, <3>1, <3>2, DocumentsCounted DEF MergedInv, ReleaseInv
  <2>3. CASE Allowed /\ SameContent(Documents)
    <3>1. release' = release /\ release # None /\ release.documents = Documents
      BY <1>1, <2>3 DEF Build, SameContent
    <3>2. /\ release.counts.records = counts.records
          /\ release.counts.withMag = counts.withMag
          /\ release.counts.withMagEst = counts.withMagEst
      BY <3>1, DocumentsCounted DEF MergedInv, ReleaseInv
    <3> QED
      BY <2>1, <3>1, <3>2 DEF ReleaseInv
  <2>4. CASE ~ Allowed
    BY <1>1, <2>4 DEF Build, ReleaseInv
  <2> QED
    BY <2>2, <2>3, <2>4
<1>2. CASE UNCHANGED vars
  BY <1>2 DEF vars, ReleaseInv, Documents, Index, Enrichment
<1>3. CASE \/ ParseSatcat \/ SatcatParsed \/ ParseGcat \/ GcatParsed \/ NextRun
           \/ \E n \in todo : MergeOne(n)
  <2>1. release' = release /\ pc' # "built"
    BY <1>3 DEF ParseSatcat, SatcatParsed, ParseGcat, GcatParsed, NextRun, MergeOne
  <2> QED
    BY <2>1 DEF ReleaseInv
<1> QED
  BY <1>1, <1>2, <1>3 DEF Next

\* A run that finds its content unchanged keeps the manifest it has, and the
\* counts in it that health and the drop guard read are those of this run too.
THEOREM ManifestHolds == Spec => []ManifestCountsHold
<1>1. ReleaseInv => ManifestCountsHold
  BY DEF ReleaseInv, ManifestCountsHold
<1>2. MergedInv /\ ReleaseInv /\ [Next]_vars => MergedInv' /\ ReleaseInv'
  BY MergedStep, ReleaseStep
<1> QED
  BY <1>1, <1>2, MergedInit, ReleaseInit, PTL DEF Spec

-----------------------------------------------------------------------------
(* Ageing: what the run before gave, from the same bodies.                 *)

LEMMA Decay ==
  ASSUME NEW e, "decayDate" \in DOMAIN Merged(e)
  PROVE  Merged(e).decayDate = e.satcat.decayDate /\ Merged(e).decayDate # None
<1>1. "decayDate" \in BaseFields /\ "decayDate" \notin NullFields
  BY DEF BaseFields, SatcatFields, NullFields
<1>2. "decayDate" \in DOMAIN Plain(e)
  BY MergedShape DEF Shaped
<1>3. "decayDate" \in DOMAIN Sources(e)
  BY <1>1, <1>2, PlainDef
<1>4. Sources(e)["decayDate"] = "satcat" /\ Says(Sources(e)["decayDate"], e, "decayDate") # None
  BY <1>1, <1>3, SourceOf
<1>5. Says("satcat", e, "decayDate") = e.satcat["decayDate"]
  BY DEF Says
<1>6. Merged(e)["decayDate"] = Says(Sources(e)["decayDate"], e, "decayDate")
  <2>1. Merged(e)["decayDate"] = Plain(e)["decayDate"]
    BY <1>2, MergedShape DEF Shaped
  <2>2. Plain(e)["decayDate"] = Says(Sources(e)["decayDate"], e, "decayDate")
    BY <1>3, PlainDef
  <2> QED
    BY <2>1, <2>2
<1> QED
  BY <1>4, <1>5, <1>6

LEMMA DecayIsDay ==
  ASSUME NEW s, NEW g, NEW n, "decayDate" \in DOMAIN Merged(EntryOf(s, g, n))
  PROVE  Merged(EntryOf(s, g, n)).decayDate \in Int
<1> DEFINE row == LastRow(s, "NORAD_CAT_ID", n)
<1>1. EntryOf(s, g, n).satcat = SatcatRecord(row)
  BY DEF EntryOf
<1>2. SatcatRecord(row).decayDate = Look(DateOf, row.DECAY_DATE, None)
  BY DEF SatcatRecord
<1>3. /\ Merged(EntryOf(s, g, n)).decayDate = EntryOf(s, g, n).satcat.decayDate
      /\ Merged(EntryOf(s, g, n)).decayDate # None
  BY Decay
<1> HIDE DEF row
<1>4. Look(DateOf, row.DECAY_DATE, None) # None => Look(DateOf, row.DECAY_DATE, None) \in Int
  BY MergeAssumption DEF Look
<1> QED
  BY <1>1, <1>2, <1>3, <1>4

Gone(record, day) == "decayDate" \in DOMAIN record /\ record.decayDate < day - Window

\* A run merged its own bodies, and what it left out has decayed for longer than
\* the window on a later day, too.
MergedBefore(p, day) ==
  LET s == p.inputs[1]
      g == p.inputs[2]
      known == Known(s, "NORAD_CAT_ID", Len(s))
  IN  /\ \A n \in DOMAIN p.output : n \in known /\ p.output[n] = Merged(EntryOf(s, g, n))
      /\ \A n \in known \ DOMAIN p.output : Gone(Merged(EntryOf(s, g, n)), day)

PriorInv == prior # None => MergedBefore(prior, today)

LEMMA PriorInit == Init => PriorInv
BY DEF Init, PriorInv

LEMMA GoneLater ==
  ASSUME NEW s, NEW g, NEW n, NEW day \in Days, NEW later \in Days, day <= later,
         Gone(Merged(EntryOf(s, g, n)), day)
  PROVE  Gone(Merged(EntryOf(s, g, n)), later)
<1>1. day \in Int /\ later \in Int /\ Window \in Int
  BY MergeAssumption
<1>2. /\ "decayDate" \in DOMAIN Merged(EntryOf(s, g, n))
      /\ Merged(EntryOf(s, g, n)).decayDate < day - Window
  BY DEF Gone
<1>3. Merged(EntryOf(s, g, n)).decayDate \in Int
  BY <1>2, DecayIsDay
<1>4. Merged(EntryOf(s, g, n)).decayDate < later - Window
  BY <1>1, <1>2, <1>3
<1> QED
  BY <1>2, <1>4 DEF Gone

LEMMA PriorStep == MergedInv /\ PriorInv /\ [Next]_vars => PriorInv'
<1> SUFFICES ASSUME MergedInv, PriorInv, [Next]_vars PROVE PriorInv'
  OBVIOUS
<1>1. CASE NextRun
  <2> DEFINE last == [inputs |-> <<satcatBody, gcatBody>>, output |-> output]
             known == Known(satcatBody, "NORAD_CAT_ID", Len(satcatBody))
  <2>1. prior' = last /\ today \in Days /\ today' \in Days /\ Merging /\ todo = {}
    BY <1>1 DEF NextRun, MergedInv, MergeInv, ParseInv, Merging
  <2>2. today <= today'
    BY <1>1, <2>1, MergeAssumption DEF NextRun
  <2>3. last.inputs[1] = satcatBody /\ last.inputs[2] = gcatBody /\ last.output = output
    OBVIOUS
  <2>4. DOMAIN satcat = known /\ \A n \in DOMAIN satcat : Entry(n) = EntryOf(satcatBody, gcatBody, n)
    BY <2>1, EntriesRead DEF MergedInv
  <2>5. \A n \in DOMAIN output : n \in known /\ output[n] = Merged(EntryOf(satcatBody, gcatBody, n))
    BY <2>1, <2>4 DEF MergedInv, MergeInv
  <2>6. \A n \in known \ DOMAIN output : Gone(Merged(EntryOf(satcatBody, gcatBody, n)), today)
    BY <2>1, <2>4 DEF MergedInv, MergeInv, Dropped, Gone
  <2>7. \A n \in known \ DOMAIN output : Gone(Merged(EntryOf(satcatBody, gcatBody, n)), today')
    BY <2>1, <2>2, <2>6, GoneLater
  <2> HIDE DEF last
  <2>8. MergedBefore(last, today')
    BY <2>3, <2>5, <2>7 DEF MergedBefore
  <2> QED
    BY <2>1, <2>8 DEF PriorInv
<1>2. CASE \/ ParseSatcat \/ SatcatParsed \/ ParseGcat \/ GcatParsed \/ Build
           \/ \E n \in todo : MergeOne(n)
           \/ UNCHANGED vars
  <2>1. today' = today /\ prior' = prior
    BY <1>2 DEF ParseSatcat, SatcatParsed, ParseGcat, GcatParsed, MergeOne, Build, vars, inputs
  <2> QED
    BY <2>1 DEF PriorInv
<1> QED
  BY <1>1, <1>2 DEF Next

LEMMA OnlyDrops ==
  ASSUME MergedInv, PriorInv
  PROVE  AgeingOnlyDrops
<1> SUFFICES ASSUME pc \in {"built", "failed"}, prior # None,
                    prior.inputs = <<satcatBody, gcatBody>>
             PROVE  /\ \A n \in DOMAIN output :
                         n \in DOMAIN prior.output /\ output[n] = prior.output[n]
                    /\ \A n \in DOMAIN prior.output \ DOMAIN output :
                         "decayDate" \in DOMAIN prior.output[n]
                         /\ prior.output[n].decayDate < today - Window
  BY DEF AgeingOnlyDrops
<1> DEFINE known == Known(satcatBody, "NORAD_CAT_ID", Len(satcatBody))
           M(n)  == Merged(EntryOf(satcatBody, gcatBody, n))
<1>1. Merging /\ todo = {}
  BY DEF Merging, MergedInv, MergeInv
<1>2. DOMAIN satcat = known /\ \A n \in known : Entry(n) = EntryOf(satcatBody, gcatBody, n)
  BY <1>1, EntriesRead DEF MergedInv
<1>3. /\ DOMAIN output = {n \in known : ~ Gone(M(n), today)}
      /\ \A n \in DOMAIN output : output[n] = M(n)
  BY <1>1, <1>2 DEF MergedInv, MergeInv, Dropped, Gone
<1>4. prior.inputs[1] = satcatBody /\ prior.inputs[2] = gcatBody
  OBVIOUS
<1>5. /\ \A n \in DOMAIN prior.output : n \in known /\ prior.output[n] = M(n)
      /\ \A n \in known \ DOMAIN prior.output : Gone(M(n), today)
  BY <1>4 DEF PriorInv, MergedBefore
<1> HIDE DEF known, M
<1>6. \A n \in DOMAIN prior.output \ DOMAIN output : Gone(prior.output[n], today)
  BY <1>3, <1>5
<1> QED
  BY <1>3, <1>5, <1>6 DEF Gone

\* A later run from the same bodies brings nothing back and changes no record;
\* what it drops has left the window.
THEOREM AgeingHolds == Spec => []AgeingOnlyDrops
<1>1. MergedInv /\ PriorInv => AgeingOnlyDrops
  BY OnlyDrops
<1>2. MergedInv /\ PriorInv /\ [Next]_vars => MergedInv' /\ PriorInv'
  BY MergedStep, PriorStep
<1> QED
  BY <1>1, <1>2, MergedInit, PriorInit, PTL DEF Spec

-----------------------------------------------------------------------------
(* Estimates and provenance.                                               *)

LEMMA Fits ==
  ASSUME NEW e, NEW m, m = Merged(e), Look(m, "magSource", None) = "estimate"
  PROVE  /\ e.norad \notin DOMAIN Measured
         /\ m.stdMag = 45 <=>
              "launchDate" \in DOMAIN m /\ m.launchDate < Visor
              /\ ConstellationOf[m.name] = "Starlink"
<1> DEFINE name    == Look(Plain(e), "name", None)
           pattern == Look(ConstellationOf, name, None)
           early   == "launchDate" \in DOMAIN Plain(e) /\ Plain(e).launchDate < Visor
<1>1. /\ "stdMag" \notin DOMAIN Sources(e)
      /\ m.stdMag = Estimate(e, Plain(e)) /\ m.stdMag # None
      /\ \A f \in DOMAIN Plain(e) : f \in DOMAIN m /\ m[f] = Plain(e)[f]
      /\ "launchDate" \in DOMAIN m => "launchDate" \in DOMAIN Plain(e)
  BY MergedShape DEF Shaped
<1>2. m.stdMag = IF pattern = "Starlink" THEN IF early THEN 45 ELSE 55
                 ELSE Look(Estimates, pattern, None)
  BY <1>1 DEF Estimate
<1>3. pattern # None
  <2>1. None # "Starlink" /\ None \notin DOMAIN Estimates
    BY MergeAssumption
  <2>2. Look(Estimates, None, None) = None
    BY <2>1 DEF Look
  <2> QED
    BY <1>1, <1>2, <2>1, <2>2
<1>4. name \in DOMAIN ConstellationOf /\ pattern = ConstellationOf[name]
  BY <1>3 DEF Look
<1>5. "name" \in DOMAIN Plain(e) /\ name = Plain(e)["name"]
  <2>1. name # None
    BY <1>4, MergeAssumption
  <2> QED
    BY <2>1 DEF Look
<1>6. ConstellationOf[m.name] = pattern
  BY <1>1, <1>4, <1>5
<1>7. early <=> "launchDate" \in DOMAIN m /\ m.launchDate < Visor
  BY <1>1
<1> HIDE DEF pattern, early, name
<1>8. pattern # "Starlink" => m.stdMag # 45
  <2>1. Look(Estimates, pattern, None) # None => Look(Estimates, pattern, None) # 45
    BY MergeAssumption DEF Look
  <2> QED
    BY <1>1, <1>2, <2>1
<1>9. m.stdMag = 45 <=> pattern = "Starlink" /\ early
  <2>1. 45 # 55
    OBVIOUS
  <2> QED
    BY <1>2, <1>8, <2>1
<1>10. e.norad \notin DOMAIN Measured
  BY <1>1, SourceOf
<1> QED
  BY <1>6, <1>7, <1>9, <1>10

\* An estimate fits the record it is published with, for any constellations and
\* any day of the visors, and what is measured is never estimated.
THEOREM EstimatesFit == Spec => []EstimateFitsRecord
<1>1. ASSUME MergedInv PROVE EstimateFitsRecord
  <2>1. \A n \in DOMAIN output : output[n] = Merged(Entry(n)) /\ Entry(n).norad = n
    BY <1>1 DEF MergedInv, MergeInv, Entry
  <2> QED
    BY <2>1, Fits DEF EstimateFitsRecord
<1> QED
  BY <1>1, MergedInit, MergedStep, PTL DEF Spec

LEMMA StatesTruly ==
  ASSUME NEW s, NEW g, NEW n, NEW m, m = Merged(EntryOf(s, g, n))
  PROVE  LET base == SatcatRecord(LastRow(s, "NORAD_CAT_ID", n))
         IN  /\ \A f \in DOMAIN m._sources : m._sources[f] = "satcat" => m[f] = base[f]
             /\ \A f \in DOMAIN m._sources : m._sources[f] = "gcat" =>
                  m[f] = GcatRecord(LastRow(g, "Satcat", n))[f]
             /\ \A f \in DOMAIN base \ DOMAIN m._sources : base[f] = None
             /\ \A f \in NullFields : m[f] = base[f]
<1> DEFINE e    == EntryOf(s, g, n)
           base == SatcatRecord(LastRow(s, "NORAD_CAT_ID", n))
<1>1. /\ e.satcat = base
      /\ DOMAIN e.gcat # {} => e.gcat = GcatRecord(LastRow(g, "Satcat", n))
  BY NothingRead DEF EntryOf
<1>2. DOMAIN base \subseteq BaseFields \cup SharedFields \cup {"launchDate"}
  <2>1. DOMAIN base = {"cospar", "name", "objectType", "opsStatus", "country", "launchDate",
                       "launchSite", "decayDate", "rcsValue_m2", "rcsSize", "dataStatus",
                       "orbitCenter", "approximateOrbit"}
    BY DEF SatcatRecord
  <2> QED
    BY <2>1 DEF BaseFields, SatcatFields, NullFields, SharedFields
<1> HIDE DEF base, e
<1>3. Shaped(e, m)
  BY MergedShape DEF e
<1>4. ASSUME NEW f \in DOMAIN m._sources, m._sources[f] \in {"satcat", "gcat"}
      PROVE  /\ f \in DOMAIN Sources(e) /\ Sources(e)[f] = m._sources[f]
             /\ m[f] = Says(m._sources[f], e, f) /\ m[f] # None
  <2>1. f \in DOMAIN Sources(e) /\ Sources(e)[f] = m._sources[f]
    BY <1>3, <1>4 DEF Shaped
  <2>2. f \in DOMAIN Plain(e) /\ Plain(e)[f] = Says(Sources(e)[f], e, f)
    BY <2>1, PlainDef
  <2>3. m[f] = Plain(e)[f]
    BY <1>3, <2>2 DEF Shaped
  <2> QED
    BY <2>1, <2>2, <2>3, SourceOf
<1>5. ASSUME NEW f \in DOMAIN m._sources, m._sources[f] = "satcat"
      PROVE  m[f] = base[f]
  BY <1>1, <1>4, <1>5 DEF Says
<1>6. ASSUME NEW f \in DOMAIN m._sources, m._sources[f] = "gcat"
      PROVE  m[f] = GcatRecord(LastRow(g, "Satcat", n))[f]
  <2>1. m[f] = Look(e.gcat, f, None) /\ m[f] # None
    BY <1>4, <1>6 DEF Says
  <2>2. f \in DOMAIN e.gcat /\ m[f] = e.gcat[f]
    BY <2>1 DEF Look
  <2> QED
    BY <1>1, <2>2
<1>7. ASSUME NEW f \in DOMAIN base \ DOMAIN m._sources
      PROVE  base[f] = None
  <2>1. f \notin DOMAIN Sources(e)
    BY <1>3, <1>7 DEF Shaped
  <2> QED
    BY <1>1, <1>2, <1>7, <2>1, SourceOf
<1>8. ASSUME NEW f \in NullFields
      PROVE  m[f] = base[f]
  <2>1. f \in DOMAIN Plain(e) /\ m[f] = Plain(e)[f]
    BY <1>3, <1>8, PlainDef DEF Shaped
  <2>2. CASE f \in DOMAIN Sources(e)
    <3>1. Sources(e)[f] = "satcat"
      BY <1>8, <2>2, SourceOf DEF BaseFields
    <3>2. Plain(e)[f] = Says("satcat", e, f)
      BY <2>2, <3>1, PlainDef
    <3> QED
      BY <1>1, <2>1, <3>2 DEF Says
  <2>3. CASE f \notin DOMAIN Sources(e)
    <3>1. Plain(e)[f] = None
      BY <1>8, <2>3, PlainDef
    <3>2. e.satcat[f] = None
      BY <1>8, <2>3, SourceOf DEF BaseFields
    <3> QED
      BY <1>1, <2>1, <3>1, <3>2
  <2> QED
    BY <2>2, <2>3
<1> QED
  BY <1>5, <1>6, <1>7, <1>8 DEF base

\* What `_sources' says is true of the last rows about the number, however often
\* and however written it is in bodies of any length.
THEOREM SourcesAreTrue == Spec => []ProvenanceIsTrue
<1>1. ASSUME MergedInv PROVE ProvenanceIsTrue
  <2>1. ASSUME NEW n \in DOMAIN output
        PROVE  output[n] = Merged(EntryOf(satcatBody, gcatBody, n))
    <3>1. Merging
      BY <1>1, <2>1 DEF MergedInv, MergeInv
    <3>2. n \in DOMAIN satcat
      BY <1>1, FiniteParts DEF MergedInv
    <3> QED
      BY <1>1, <3>1, <3>2, EntriesRead DEF MergedInv, MergeInv
  <2> QED
    BY <2>1, StatesTruly DEF ProvenanceIsTrue
<1> QED
  BY <1>1, MergedInit, MergedStep, PTL DEF Spec

-----------------------------------------------------------------------------
(* The index: the numbers in their order.                                  *)

UpTo(S, n) == {m \in S : m <= n}

\* Some numbers have a first, a second, and so on to the last.
LEMMA NthExists ==
  ASSUME NEW S \in SUBSET Int, IsFiniteSet(S), NEW i \in 1 .. Cardinality(S)
  PROVE  \E n \in S : Cardinality(UpTo(S, n)) = i
<1> DEFINE P == {T \in SUBSET S : \A j \in 1 .. Cardinality(T) :
                                    \E n \in T : Cardinality(UpTo(T, n)) = j}
<1>1. {} \in P
  BY FS_EmptySet
<1>2. ASSUME NEW T \in SUBSET S, T # {}, \A x \in T : T \ {x} \in P
      PROVE  T \in P
  <2> DEFINE last == Max(T)
  <2>1. IsFiniteSet(T) /\ T \in SUBSET Int
    <3>1. IsFiniteSet(T)
      BY FS_Subset
    <3>2. T \in SUBSET Int
      OBVIOUS
    <3> QED
      BY <3>1, <3>2
  <2>2. last \in T /\ \A x \in T : x <= last
    BY <1>2, <2>1, MaxExists
  <2> HIDE DEF last
  <2>3. /\ Cardinality(T) \in Nat /\ Cardinality(T \ {last}) = Cardinality(T) - 1
    BY <2>1, <2>2, FS_CardinalityType, FS_RemoveElement
  <2>4. UpTo(T, last) = T
    BY <2>2 DEF UpTo
  <2>5. ASSUME NEW n \in T \ {last}
        PROVE  UpTo(T, n) = UpTo(T \ {last}, n)
    <3>1. n \in Int /\ last \in Int /\ n <= last /\ n # last
      BY <2>1, <2>2
    <3>2. ~ (last <= n)
      BY <3>1
    <3> QED
      BY <3>2 DEF UpTo
  <2>6. ASSUME NEW j \in 1 .. Cardinality(T)
        PROVE  \E n \in T : Cardinality(UpTo(T, n)) = j
    <3>1. CASE j = Cardinality(T)
      BY <2>2, <2>4, <3>1
    <3>2. CASE j # Cardinality(T)
      <4>1. j \in 1 .. Cardinality(T \ {last})
        BY <2>3, <3>2
      <4>2. T \ {last} \in P
        BY <1>2, <2>2
      <4>3. PICK n \in T \ {last} : Cardinality(UpTo(T \ {last}, n)) = j
        BY <4>1, <4>2
      <4> QED
        BY <2>5, <4>3
    <3> QED
      BY <3>1, <3>2
  <2> QED
    BY <2>6
<1>3. S \in P
  <2> HIDE DEF P
  <2> QED
    BY <1>1, <1>2, SubsetInduction
<1> QED
  BY <1>3

LEMMA NthIs ==
  ASSUME NEW S \in SUBSET Int, IsFiniteSet(S), NEW i \in 1 .. Cardinality(S)
  PROVE  Nth(S, i) \in S /\ Cardinality(UpTo(S, Nth(S, i))) = i
<1>1. \E n \in S : Cardinality({m \in S : m <= n}) = i
  BY NthExists DEF UpTo
<1> QED
  BY <1>1 DEF Nth, UpTo

LEMMA NthGrows ==
  ASSUME NEW S \in SUBSET Int, IsFiniteSet(S), NEW i \in 1 .. Cardinality(S), i > 1
  PROVE  Nth(S, i - 1) < Nth(S, i)
<1>1. Cardinality(S) \in Nat
  BY FS_CardinalityType
<1>2. i - 1 \in 1 .. Cardinality(S)
  BY <1>1
<1> DEFINE a == Nth(S, i - 1)
           b == Nth(S, i)
<1>3. /\ a \in S /\ Cardinality(UpTo(S, a)) = i - 1
      /\ b \in S /\ Cardinality(UpTo(S, b)) = i
  BY <1>2, NthIs
<1> HIDE DEF a, b
<1> SUFFICES ASSUME ~ (a < b) PROVE FALSE
  BY DEF a, b
<1>4. UpTo(S, b) \subseteq UpTo(S, a)
  <2>1. a \in Int /\ b \in Int /\ b <= a
    BY <1>3
  <2>2. ASSUME NEW m \in S, m <= b
        PROVE  m <= a
    <3>1. m \in Int
      OBVIOUS
    <3> QED
      BY <2>1, <2>2, <3>1
  <2> QED
    BY <2>2 DEF UpTo
<1>5. IsFiniteSet(UpTo(S, a))
  <2>1. UpTo(S, a) \subseteq S
    BY DEF UpTo
  <2> QED
    BY <2>1, FS_Subset
<1>6. Cardinality(UpTo(S, b)) <= Cardinality(UpTo(S, a))
  BY <1>4, <1>5, FS_Subset
<1> QED
  BY <1>3, <1>6

LEMMA RowOf ==
  ASSUME NEW record, "norad" \in DOMAIN record
  PROVE  IndexRow(record).norad = record.norad
<1> DEFINE estimated == [magEst |-> Look(record, "magSource", None) = "estimate"]
           fields    == [f \in IndexFields |-> Look(record, f, None)]
<1>1. "norad" \in DOMAIN fields /\ fields["norad"] = record["norad"]
  BY DEF IndexFields, Look
<1>2. "norad" \notin DOMAIN estimated
  OBVIOUS
<1>3. IndexRow(record) = Extend(estimated, fields)
  BY DEF IndexRow
<1> HIDE DEF estimated, fields
<1>4. "norad" \in DOMAIN fields \ DOMAIN estimated
  BY <1>1, <1>2
<1>5. Extend(estimated, fields)["norad"] = fields["norad"]
  <2>1. \A k \in DOMAIN fields \ DOMAIN estimated : Extend(estimated, fields)[k] = fields[k]
    BY ExtendDef
  <2> QED
    BY <1>4, <2>1
<1> QED
  BY <1>1, <1>3, <1>5

\* What a run that is content with its result leaves public, new or kept: an
\* index in the order of the numbers, each row of it leading to its record.
THEOREM RecordsFound == Spec => []ClientFindsRecord
<1>1. ASSUME MergedInv, ReleaseInv PROVE ClientFindsRecord
  <2> SUFFICES ASSUME pc = "built"
               PROVE  ClientFindsRecord
    BY DEF ClientFindsRecord
  <2> DEFINE S     == DOMAIN output
             index == release.documents.index
  <2>1. release.documents = Documents
    BY <1>1 DEF ReleaseInv
  <2>2. IsFiniteSet(S) /\ Cardinality(S) \in Nat
    BY <1>1, FiniteParts, FS_CardinalityType DEF MergedInv
  <2>3. S \in SUBSET Int
    BY <1>1, FiniteParts, EntriesRead, KnownNumbers DEF MergedInv, Merging
  <2>4. \A n \in S : "norad" \in DOMAIN output[n] /\ output[n].norad = n
    <3>1. \A n \in S : output[n] = Merged(Entry(n)) /\ Entry(n).norad = n
      BY <1>1 DEF MergedInv, MergeInv, Entry
    <3>2. \A e : "norad" \in DOMAIN Merged(e) /\ Merged(e).norad = e.norad
      BY MergedShape DEF Shaped
    <3> QED
      BY <3>1, <3>2
  <2>5. index = Index
    BY <2>1 DEF Documents
  <2>6. /\ DOMAIN index = 1 .. Cardinality(S)
        /\ \A i \in 1 .. Cardinality(S) : index[i] = IndexRow(output[Nth(S, i)])
    BY <2>5 DEF Index
  <2>7. Len(index) = Cardinality(S)
    <3>1. index \in Seq({IndexRow(output[Nth(S, i)]) : i \in 1 .. Cardinality(S)})
      BY <2>2, <2>5 DEF Index
    <3> QED
      BY <2>2, <2>6, <3>1, LenProperties
  <2> HIDE DEF S, index
  <2>8. ASSUME NEW i \in 1 .. Cardinality(S)
        PROVE  /\ index[i].norad = Nth(S, i) /\ Nth(S, i) \in S
               /\ index[i] = IndexRow(output[index[i].norad])
               /\ release.documents.enrichment[index[i].norad \div BucketSize][index[i].norad]
                    = output[index[i].norad]
               /\ i > 1 => index[i - 1].norad < index[i].norad
    <3>1. Nth(S, i) \in S
      BY <2>2, <2>3, NthIs
    <3>2. \A j \in 1 .. Cardinality(S) : index[j].norad = Nth(S, j)
      BY <2>2, <2>3, <2>4, <2>6, NthIs, RowOf
    <3>3. RecordIn(release.documents, Nth(S, i)) = output[Nth(S, i)]
      BY <2>1, <3>1, Decoded DEF S
    <3>4. i > 1 => i - 1 \in 1 .. Cardinality(S) /\ Nth(S, i - 1) < Nth(S, i)
      BY <2>2, <2>3, NthGrows
    <3> QED
      BY <2>6, <3>1, <3>2, <3>3, <3>4 DEF RecordIn
  <2> QED
    BY <2>6, <2>7, <2>8 DEF ClientFindsRecord, S, index
<1>2. MergedInv /\ ReleaseInv /\ [Next]_vars => MergedInv' /\ ReleaseInv'
  BY MergedStep, ReleaseStep
<1> QED
  BY <1>1, <1>2, MergedInit, ReleaseInit, PTL DEF Spec

=============================================================================
