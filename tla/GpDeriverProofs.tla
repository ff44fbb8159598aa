-------------------------- MODULE GpDeriverProofs --------------------------
(***************************************************************************)
(* What GpDeriver guarantees for every set of rules and bodies, any        *)
(* selection, and any number of publications and faults.                   *)
(***************************************************************************)
EXTENDS GpDeriver, FiniteSetTheorems, TLAPS

-----------------------------------------------------------------------------
(* The part of the typing that the ages rest on.                           *)

Stamped ==
  /\ instant \in Nat
  /\ source \in [file : [body : Bodies \cup {NoBody}, stamp : Int],
                 readable : BOOLEAN, success : Int]
  /\ state \in [Rules -> [success : Int, result : Results, body : Bodies \cup {NoBody},
                          request : BOOLEAN, format : BOOLEAN]]
  /\ status \in [Rules -> [success : Int, result : Results, body : Bodies \cup {NoBody},
                           request : BOOLEAN, format : BOOLEAN]]
  /\ file \in [Rules -> [body : Bodies \cup {NoBody}, stamp : Int]]
  /\ records \in [body : Bodies \cup {NoBody}, stamp : Int]
  /\ seen \in Int
  /\ pc \in Points
  /\ stale \subseteq Rules
  /\ todo \subseteq Rules

\* The source's file is the newest thing there is, and its state trails it.
SourceTrails ==
  /\ Never <= source.success
  /\ source.success <= source.file.stamp
  /\ source.file.stamp <= instant
  /\ pc = "filed" => source.file.stamp = instant

\* While a pass runs, its source's publication is one the file has reached, and
\* the records it derives from are those of the file.
PassReads ==
  /\ pc \in {"examine", "failing", "derive", "derived"} =>
       Never < seen /\ seen <= source.file.stamp
  /\ pc \in {"derive", "derived"} => records = source.file
  /\ pc = "derived" => cur \in Rules /\ file[cur] = records

\* A layer is never ahead of what its source has published, unless it was
\* fetched on its own before its source was.
LayerTrails ==
  \A r \in Rules :
    /\ Never <= file[r].stamp
    /\ file[r].stamp <= instant
    /\ source.file.stamp # Never => file[r].stamp <= source.file.stamp

AgeInv == Stamped /\ SourceTrails /\ PassReads /\ LayerTrails /\ HonestAge

LEMMA AgeInit == Init => AgeInv
<1> SUFFICES ASSUME Init PROVE AgeInv
  OBVIOUS
<1>1. PICK n \in {0} \cup ({source.success} \ {Never}) :
        /\ state = [r \in Rules |-> IF r \in Converted THEN InheritedState(n)
                                                       ELSE FreshState]
        /\ file = [r \in Rules |-> IF r \in Converted
                                   THEN [body |-> FirstBody, stamp |-> n]
                                   ELSE Nothing]
  BY DEF Init
<1>2. /\ source.success \in {Never, 1}
      /\ source.file.stamp = source.success
      /\ source \in [file : [body : Bodies \cup {NoBody}, stamp : Int],
                     readable : BOOLEAN, success : Int]
  <2>1. CASE source = [file |-> Nothing, readable |-> FALSE, success |-> Never]
    BY <2>1 DEF Nothing, Never
  <2>2. CASE source = [file |-> [body |-> FirstBody, stamp |-> 1], readable |-> TRUE,
                       success |-> 1]
    BY <2>2, RuleAssumption
  <2> QED
    BY <2>1, <2>2 DEF Init
<1>3. n \in {0, 1} /\ (source.file.stamp # Never => n <= source.file.stamp)
  BY <1>2 DEF Never
<1>4. state \in [Rules -> [success : Int, result : Results, body : Bodies \cup {NoBody},
                           request : BOOLEAN, format : BOOLEAN]]
  <2> DEFINE S == [success : Int, result : Results, body : Bodies \cup {NoBody},
                   request : BOOLEAN, format : BOOLEAN]
  <2>1. InheritedState(n) \in S /\ FreshState \in S
    BY <1>3, RuleAssumption DEF InheritedState, FreshState, Results, Never
  <2> HIDE DEF S
  <2>2. state \in [Rules -> S]
    BY <1>1, <2>1
  <2> QED
    BY <2>2 DEF S
<1>5. file \in [Rules -> [body : Bodies \cup {NoBody}, stamp : Int]]
  BY <1>1, <1>3, RuleAssumption DEF Nothing, Never
<1>6. Stamped
  BY <1>2, <1>4, <1>5 DEF Init, Stamped, Nothing, Never, Points
<1>7. SourceTrails /\ PassReads
  BY <1>2 DEF Init, SourceTrails, PassReads, Never
<1>8. LayerTrails
  BY <1>1, <1>2, <1>3 DEF Init, LayerTrails, Nothing, Never
<1>9. HonestAge
  <2> SUFFICES ASSUME NEW r \in Rules
               PROVE  state[r].success <= file[r].stamp
    BY DEF Init, HonestAge
  <2> QED
    BY <1>1, <1>3 DEF InheritedState, FreshState, Nothing, Never
<1> QED
  BY <1>6, <1>7, <1>8, <1>9 DEF AgeInv

-----------------------------------------------------------------------------
(* Steps that leave the volume alone.                                      *)

\* Nothing the ages rest on has changed, and the pass reads what it did.
SameVolume == UNCHANGED <<source, state, status, file, instant>>

LEMMA SameVolumeKeeps ==
  ASSUME AgeInv, SameVolume, Stamped', PassReads', pc' # "filed"
  PROVE  AgeInv'
BY DEF AgeInv, SameVolume, SourceTrails, LayerTrails, HonestAge

LEMMA PassControl ==
  ASSUME AgeInv,
         \/ StartRun \/ NoResponse \/ ReadSource \/ ReadRecords \/ Finish \/ Crash
         \/ \E r \in Rules : KeepCurrent(r) \/ MarkStale(r)
  PROVE  AgeInv'
<1>1. CASE StartRun \/ NoResponse
  BY <1>1, SameVolumeKeeps DEF StartRun, NoResponse, volumeVars, historyVars, SameVolume,
         AgeInv, Stamped, PassReads, Points
<1>2. CASE ReadSource
  <2>1. SameVolume /\ pc' \in {"done", "examine"} /\ PassReads'
    BY <1>2 DEF ReadSource, volumeVars, historyVars, SameVolume, PassReads, AgeInv, Stamped,
                SourceTrails, Never
  <2>2. Stamped'
    BY <1>2 DEF ReadSource, volumeVars, historyVars, AgeInv, Stamped, Points
  <2> QED
    BY <2>1, <2>2, SameVolumeKeeps
<1>3. CASE ReadRecords
  <2>1. SameVolume /\ pc' \in {"done", "derive", "failing"} /\ PassReads'
    BY <1>3 DEF ReadRecords, volumeVars, historyVars, SameVolume, PassReads, AgeInv
  <2>2. Stamped'
    BY <1>3 DEF ReadRecords, volumeVars, historyVars, AgeInv, Stamped, Points
  <2> QED
    BY <2>1, <2>2, SameVolumeKeeps
<1>4. CASE Finish \/ Crash
  <2>1. SameVolume /\ pc' = "idle" /\ PassReads'
    BY <1>4 DEF Finish, Crash, Forget, volumeVars, historyVars, SameVolume, PassReads
  <2>2. Stamped'
    BY <1>4 DEF Finish, Crash, Forget, volumeVars, historyVars, AgeInv, Stamped, Points,
                Nothing, Never
  <2> QED
    BY <2>1, <2>2, SameVolumeKeeps
<1>5. ASSUME NEW r \in Rules, KeepCurrent(r) \/ MarkStale(r) PROVE AgeInv'
  <2>1. SameVolume /\ UNCHANGED <<pc, seen, records, cur>> /\ pc = "examine"
    BY <1>5 DEF KeepCurrent, MarkStale, Examining, volumeVars, historyVars, SameVolume
  <2>2. PassReads'
    BY <2>1 DEF SameVolume, PassReads, AgeInv
  <2>3. Stamped'
    BY <1>5, <2>1 DEF KeepCurrent, MarkStale, SameVolume, AgeInv, Stamped
  <2> QED
    BY <2>1, <2>2, <2>3, SameVolumeKeeps
<1> QED
  BY <1>1, <1>2, <1>3, <1>4, <1>5

-----------------------------------------------------------------------------
(* Steps of the source, and damage.                                        *)

LEMMA SourceAge ==
  ASSUME AgeInv, (\E b \in Bodies : PublishSource(b)) \/ RecordSource
  PROVE  AgeInv'
<1>1. ASSUME NEW b \in Bodies, PublishSource(b) PROVE AgeInv'
  <2>1. /\ pc = "fetching" /\ pc' = "filed" /\ instant' = instant + 1
        /\ source'.file = [body |-> b, stamp |-> instant'] /\ source'.readable = TRUE
        /\ source'.success = source.success
        /\ UNCHANGED <<state, status, file, stale, todo, cur, dirty, seen, records>>
    BY <1>1 DEF PublishSource, AgeInv, Stamped
  <2>2. source' \in [file : [body : Bodies \cup {NoBody}, stamp : Int],
                     readable : BOOLEAN, success : Int]
    <3> DEFINE p == [body |-> b, stamp |-> instant']
    <3>1. p \in [body : Bodies \cup {NoBody}, stamp : Int]
      BY <2>1 DEF AgeInv, Stamped
    <3>2. source' = [source EXCEPT !.file = p, !.readable = TRUE]
      BY <1>1 DEF PublishSource
    <3> HIDE DEF p
    <3> QED
      BY <3>1, <3>2 DEF AgeInv, Stamped
  <2>3. Stamped'
    BY <2>1, <2>2 DEF AgeInv, Stamped, Points
  <2>4. SourceTrails' /\ PassReads' /\ HonestAge'
    BY <2>1 DEF AgeInv, Stamped, SourceTrails, PassReads, HonestAge, Never
  <2>5. LayerTrails'
    <3> SUFFICES ASSUME NEW r \in Rules
                 PROVE  Never <= file[r].stamp /\ file[r].stamp <= instant + 1
      BY <2>1 DEF LayerTrails
    <3> QED
      BY DEF AgeInv, Stamped, LayerTrails, SourceTrails, Never
  <2> QED
    BY <2>3, <2>4, <2>5 DEF AgeInv
<1>2. CASE RecordSource
  <2>1. /\ pc = "filed" /\ pc' = "sync" /\ source'.success = instant
        /\ source'.file = source.file
        /\ UNCHANGED <<state, status, file, stale, todo, cur, dirty, seen, records, instant>>
    BY <1>2 DEF RecordSource, AgeInv, Stamped, historyVars
  <2>2. source' \in [file : [body : Bodies \cup {NoBody}, stamp : Int],
                     readable : BOOLEAN, success : Int]
    BY <1>2 DEF RecordSource, AgeInv, Stamped
  <2>3. Stamped'
    BY <2>1, <2>2 DEF AgeInv, Stamped, Points
  <2> QED
    BY <2>1, <2>3 DEF AgeInv, Stamped, SourceTrails, PassReads, LayerTrails, HonestAge, Never
<1> QED
  BY <1>1, <1>2

LEMMA DamageAge ==
  ASSUME AgeInv, (\E r \in Rules : DamageRule(r)) \/ DamageSource \/ DamageFile
  PROVE  AgeInv'
<1>1. /\ UNCHANGED <<state, status, file, processVars, instant>>
      /\ source'.file = source.file /\ source'.success = source.success
      /\ source' \in [file : [body : Bodies \cup {NoBody}, stamp : Int],
                      readable : BOOLEAN, success : Int]
  BY DEF DamageRule, DamageSource, DamageFile, AgeInv, Stamped
<1> QED
  BY <1>1 DEF processVars, AgeInv, Stamped, SourceTrails, PassReads, LayerTrails, HonestAge

-----------------------------------------------------------------------------
(* Steps that save a state, write a status document, or publish a file.    *)

LEMMA LoadedType ==
  ASSUME AgeInv, NEW r \in Rules
  PROVE  /\ Loaded(r) \in [success : Int, result : Results, body : Bodies \cup {NoBody},
                           request : BOOLEAN, format : BOOLEAN]
         /\ Loaded(r).success <= file[r].stamp
<1>1. FreshState \in [success : Int, result : Results, body : Bodies \cup {NoBody},
                      request : BOOLEAN, format : BOOLEAN]
      /\ FreshState.success = Never
  BY DEF FreshState, Results, Never
<1> QED
  BY <1>1 DEF Loaded, AgeInv, Stamped, HonestAge, LayerTrails, Never

\* A save that claims no more than the file keeps the ages honest.
LEMMA SaveKeeps ==
  ASSUME AgeInv, NEW r \in Rules,
         NEW s \in [success : Int, result : Results, body : Bodies \cup {NoBody},
                    request : BOOLEAN, format : BOOLEAN],
         s.success <= file[r].stamp, Save(r, s),
         UNCHANGED <<source, status, file, instant, seen, records>>,
         pc' \in Points, pc' # "filed", stale' \subseteq Rules, todo' \subseteq Rules,
         PassReads'
  PROVE  AgeInv'
<1> DEFINE S == [success : Int, result : Results, body : Bodies \cup {NoBody},
                 request : BOOLEAN, format : BOOLEAN]
<1>1. Cleared(s) \in S /\ Cleared(s).success = s.success
  BY DEF Cleared
<1>2. state' = [state EXCEPT ![r] = Cleared(s)] /\ state \in [Rules -> S]
  BY DEF Save, AgeInv, Stamped
<1> HIDE DEF S
<1>3. state' \in [Rules -> S]
  BY <1>1, <1>2
<1>4. \A q \in Rules : state'[q].success <= file[q].stamp
  BY <1>1, <1>2 DEF AgeInv, HonestAge
<1>5. Stamped'
  BY <1>3 DEF S, AgeInv, Stamped
<1>6. SourceTrails' /\ LayerTrails'
  BY DEF AgeInv, SourceTrails, LayerTrails
<1>7. HonestAge'
  BY <1>4 DEF AgeInv, HonestAge
<1> QED
  BY <1>5, <1>6, <1>7 DEF AgeInv

LEMMA SavingAge ==
  ASSUME AgeInv,
         SaveDerived \/ \E r \in Rules : Repair(r) \/ FailUnreadable(r) \/ RejectDerived(r)
  PROVE  AgeInv'
<1>1. ASSUME NEW r \in Rules, Repair(r) PROVE AgeInv'
  <2>1. /\ pc = "examine" /\ Save(r, Loaded(r)) /\ todo' = todo \ {r}
        /\ UNCHANGED <<source, status, file, instant, pc, stale, seen, records>>
    BY <1>1 DEF Repair, Examining, historyVars
  <2>2. PassReads'
    BY <2>1 DEF AgeInv, PassReads
  <2> QED
    BY <2>1, <2>2, SaveKeeps, LoadedType DEF AgeInv, Stamped
<1>2. ASSUME NEW r \in Rules, FailUnreadable(r) \/ RejectDerived(r) PROVE AgeInv'
  <2>1. PICK result \in Results :
          /\ pc \in {"failing", "derive"}
          /\ Save(r, [Loaded(r) EXCEPT !.result = result]) /\ stale' = stale \ {r}
          /\ UNCHANGED <<source, status, file, instant, pc, todo, seen, records>>
    BY <1>2 DEF FailUnreadable, RejectDerived, Deriving, Fail, Results, historyVars
  <2>2. PassReads'
    BY <2>1 DEF AgeInv, PassReads
  <2>3. /\ [Loaded(r) EXCEPT !.result = result]
              \in [success : Int, result : Results, body : Bodies \cup {NoBody},
                   request : BOOLEAN, format : BOOLEAN]
        /\ [Loaded(r) EXCEPT !.result = result].success <= file[r].stamp
    BY LoadedType
  <2> QED
    BY <2>1, <2>2, <2>3, SaveKeeps DEF AgeInv, Stamped
<1>3. CASE SaveDerived
  <2> DEFINE s == [Loaded(cur) EXCEPT !.success = seen, !.result = "published",
                                      !.body = records.body]
  <2>1. /\ pc = "derived" /\ pc' = "derive" /\ Save(cur, s) /\ stale' = stale \ {cur}
        /\ UNCHANGED <<source, status, file, instant, todo, seen, records>>
    BY <1>3 DEF SaveDerived, historyVars
  <2>2. cur \in Rules /\ file[cur] = records /\ records = source.file /\ seen <= records.stamp
    BY <2>1 DEF AgeInv, PassReads
  <2>3. PassReads'
    BY <2>1 DEF AgeInv, PassReads
  <2>4. records.body \in Bodies \cup {NoBody} /\ seen \in Int /\ "published" \in Results
    BY DEF AgeInv, Stamped, Results
  <2>5. /\ s \in [success : Int, result : Results, body : Bodies \cup {NoBody},
                   request : BOOLEAN, format : BOOLEAN]
        /\ s.success = seen
    BY <2>2, <2>4, LoadedType
  <2> HIDE DEF s
  <2> QED
    BY <2>1, <2>2, <2>3, <2>5, SaveKeeps DEF AgeInv, Stamped, Points
<1> QED
  BY <1>1, <1>2, <1>3

LEMMA StatusAge ==
  ASSUME AgeInv, WriteStatus
  PROVE  AgeInv'
<1>1. /\ status' = [status EXCEPT ![cur] = state[cur]]
      /\ UNCHANGED <<source, state, file, pc, todo, stale, cur, seen, records, instant>>
  BY DEF WriteStatus, historyVars
<1>2. status' \in [Rules -> [success : Int, result : Results, body : Bodies \cup {NoBody},
                             request : BOOLEAN, format : BOOLEAN]]
  BY <1>1 DEF AgeInv, Stamped
<1>3. Stamped'
  BY <1>1, <1>2 DEF AgeInv, Stamped
<1>4. HonestAge'
  BY <1>1 DEF AgeInv, Stamped, HonestAge
<1> QED
  BY <1>1, <1>3, <1>4 DEF AgeInv, SourceTrails, PassReads, LayerTrails

\* A file is replaced by one at least as recent: the ages stay behind it.
LEMMA FileAge ==
  ASSUME AgeInv, NEW r \in Rules, WriteFile(r)
  PROVE  AgeInv'
<1>1. /\ pc = "derive" /\ pc' = "derived" /\ cur' = r
      /\ file' = [file EXCEPT ![r] = records]
      /\ UNCHANGED <<source, state, status, todo, stale, seen, records, instant>>
  BY DEF WriteFile, Deriving, historyVars
<1>2. /\ records = source.file
      /\ source.file.stamp # Never /\ Never <= source.file.stamp
      /\ file[r].stamp <= source.file.stamp
  BY <1>1 DEF AgeInv, Stamped, PassReads, SourceTrails, LayerTrails, Never
<1>3. Stamped'
  BY <1>1 DEF AgeInv, Stamped, Points
<1>4. \A q \in Rules : file'[q] = IF q = r THEN source.file ELSE file[q]
  BY <1>1, <1>2 DEF AgeInv, Stamped
<1>5. SourceTrails' /\ PassReads'
  BY <1>1, <1>2, <1>4 DEF AgeInv, SourceTrails, PassReads
<1>6. LayerTrails'
  BY <1>1, <1>2, <1>4 DEF AgeInv, Stamped, SourceTrails, LayerTrails
<1>7. HonestAge'
  BY <1>1, <1>2, <1>4 DEF AgeInv, Stamped, HonestAge
<1> QED
  BY <1>3, <1>5, <1>6, <1>7 DEF AgeInv

-----------------------------------------------------------------------------
LEMMA AgeStep == AgeInv /\ [Next]_vars => AgeInv'
<1> SUFFICES ASSUME AgeInv, [Next]_vars PROVE AgeInv'
  OBVIOUS
<1>1. CASE Fetch
  BY <1>1, PassControl, SourceAge DEF Fetch
<1>2. CASE Pass
  BY <1>2, PassControl, SavingAge, StatusAge, FileAge DEF Pass
<1>3. CASE Crash
  BY <1>3, PassControl
<1>4. CASE (\E r \in Rules : DamageRule(r)) \/ DamageSource \/ DamageFile
  BY <1>4, DamageAge
<1>5. CASE UNCHANGED vars
  BY <1>5 DEF vars, volumeVars, processVars, historyVars, AgeInv, Stamped, SourceTrails,
              PassReads, LayerTrails, HonestAge
<1> QED
  BY <1>1, <1>2, <1>3, <1>4, <1>5 DEF Next

\* No state and no status document of a derived dataset ever claims a
\* publication more recent than the one its file was filtered from (_publish_derived
\* writes the file before the state, and _sync_source takes the source's instant
\* from a state that trails the source's own file).
THEOREM AgesAreHonest == Spec => []HonestAge
<1>1. Spec => []AgeInv
  BY AgeInit, AgeStep, PTL DEF Spec
<1>2. AgeInv => HonestAge
  BY DEF AgeInv
<1> QED
  BY <1>1, <1>2, PTL

-----------------------------------------------------------------------------
(* The type invariant, and how many failures a pass can count.             *)

\* Every failure a pass has counted is of a rule that is no longer stale.
FailuresFit ==
  /\ pc \in {"idle", "fetching", "filed", "sync", "examine", "done"} => failed = 0
  /\ failed + Cardinality(stale) <= Cardinality(Rules)

TypeInv == TypeOK /\ FailuresFit

LEMMA RulesFinite ==
  /\ Cardinality(Rules) \in Nat
  /\ \A S \in SUBSET Rules : IsFiniteSet(S) /\ Cardinality(S) \in Nat
                             /\ Cardinality(S) <= Cardinality(Rules)
  /\ Cardinality({}) = 0
BY RuleAssumption, FS_CardinalityType, FS_Subset, FS_EmptySet

LEMMA TypeInit == Init => TypeInv
<1> SUFFICES ASSUME Init PROVE TypeInv
  OBVIOUS
<1>1. PICK n \in {0} \cup ({source.success} \ {Never}) :
        /\ state = [r \in Rules |-> IF r \in Converted THEN InheritedState(n)
                                                       ELSE FreshState]
        /\ file = [r \in Rules |-> IF r \in Converted
                                   THEN [body |-> FirstBody, stamp |-> n]
                                   ELSE Nothing]
  BY DEF Init
<1>2. 0 \in Instants /\ 1 \in Instants
  BY RuleAssumption DEF Instants
<1>3. Nothing \in Published /\ \A m \in {0, 1} : [body |-> FirstBody, stamp |-> m] \in Published
  BY <1>2, RuleAssumption DEF Nothing, Published
<1>4. source \in [file : Published, readable : BOOLEAN, success : Instants \cup {Never}]
      /\ source.success \in {Never, 1}
  <2>1. CASE source = [file |-> Nothing, readable |-> FALSE, success |-> Never]
    BY <2>1, <1>3
  <2>2. CASE source = [file |-> [body |-> FirstBody, stamp |-> 1], readable |-> TRUE,
                       success |-> 1]
    BY <2>2, <1>2, <1>3
  <2> QED
    BY <2>1, <2>2 DEF Init
<1>5. n \in {0, 1}
  BY <1>4 DEF Never
<1>6. InheritedState(n) \in RuleState /\ FreshState \in RuleState
  BY <1>2, <1>5, RuleAssumption DEF InheritedState, FreshState, RuleState, Results
<1>7. state \in [Rules -> RuleState] /\ file \in [Rules -> Published]
  BY <1>1, <1>3, <1>5, <1>6
<1>8. TypeOK
  <2>1. faults \in 0 .. MaxFaults /\ failed \in 0 .. Cardinality(Rules)
    BY RulesFinite, RuleAssumption DEF Init
  <2>2. damaged \subseteq Rules \cup {NoRule} /\ todo \subseteq Rules /\ stale \subseteq Rules
        /\ cur \in Rules \cup {NoRule} /\ dirty \in BOOLEAN /\ pc \in Points
        /\ seen \in Instants \cup {Never} /\ status = state /\ instant = 1 /\ records = Nothing
        /\ torn \subseteq Rules
    BY DEF Init, Points
  <2> QED
    BY <1>2, <1>3, <1>4, <1>7, <2>1, <2>2 DEF TypeOK
<1>9. FailuresFit
  BY RulesFinite DEF Init, FailuresFit
<1> QED
  BY <1>8, <1>9 DEF TypeInv

\* Nothing of the volume has changed, and what the process keeps is typed.
LEMMA TypeVolume ==
  ASSUME TypeInv, UNCHANGED volumeVars,
         pc' \in Points, todo' \subseteq Rules, stale' \subseteq Rules,
         cur' \in Rules \cup {NoRule}, dirty' \in BOOLEAN, seen' \in Instants \cup {Never},
         records' \in Published, instant' = instant, faults' \in 0 .. MaxFaults,
         torn' \subseteq Rules, failed' \in 0 .. Cardinality(Rules), FailuresFit'
  PROVE  TypeInv'
BY DEF TypeInv, TypeOK, volumeVars

LEMMA TypeControl ==
  ASSUME TypeInv, AgeInv,
         \/ StartRun \/ NoResponse \/ ReadSource \/ ReadRecords \/ Finish \/ Crash
         \/ \E r \in Rules : KeepCurrent(r) \/ MarkStale(r)
  PROVE  TypeInv'
<1> USE DEF TypeInv
<1>1. CASE StartRun \/ NoResponse
  <2>1. FailuresFit'
    BY <1>1 DEF StartRun, NoResponse, FailuresFit
  <2> QED
    BY <1>1, <2>1, TypeVolume DEF StartRun, NoResponse, historyVars, TypeOK, Points
<1>2. CASE ReadSource
  <2>1. FailuresFit'
    BY <1>2 DEF ReadSource, FailuresFit
  <2> QED
    BY <1>2, <2>1, TypeVolume DEF ReadSource, historyVars, TypeOK, Points
<1>3. CASE ReadRecords
  <2>1. FailuresFit'
    BY <1>3 DEF ReadRecords, FailuresFit
  <2>2. source.file \in Published
    BY DEF TypeOK
  <2> QED
    BY <1>3, <2>1, <2>2, TypeVolume DEF ReadRecords, historyVars, TypeOK, Points
<1>4. CASE Finish \/ Crash
  <2>1. Forget /\ UNCHANGED <<volumeVars, instant>> /\ faults' \in 0 .. MaxFaults
    BY <1>4, RuleAssumption DEF Finish, Crash, Fault, historyVars, TypeOK
  <2>4. torn' \subseteq Rules
    BY <1>4 DEF Finish, Crash, historyVars, TypeOK, AgeInv, PassReads
  <2>2. FailuresFit' /\ Nothing \in Published
    BY <2>1, RulesFinite DEF Forget, FailuresFit, Nothing, Published
  <2>3. 0 \in 0 .. Cardinality(Rules)
    BY RulesFinite
  <2> QED
    BY <2>1, <2>2, <2>3, <2>4, TypeVolume DEF Forget, TypeOK, Points
<1>5. ASSUME NEW r \in Rules, KeepCurrent(r) \/ MarkStale(r) PROVE TypeInv'
  <2>1. /\ pc = "examine" /\ stale' \subseteq Rules /\ todo' \subseteq Rules
        /\ UNCHANGED <<volumeVars, pc, cur, dirty, seen, records, failed, historyVars>>
    BY <1>5 DEF KeepCurrent, MarkStale, Examining, TypeOK
  <2>2. FailuresFit'
    BY <2>1, RulesFinite DEF FailuresFit, TypeOK
  <2> QED
    BY <2>1, <2>2, TypeVolume DEF historyVars, TypeOK
<1> QED
  BY <1>1, <1>2, <1>3, <1>4, <1>5

LEMMA TypeSource ==
  ASSUME TypeInv, (\E b \in Bodies : PublishSource(b)) \/ RecordSource
  PROVE  TypeInv'
<1> DEFINE S == [file : Published, readable : BOOLEAN, success : Instants \cup {Never}]
<1>1. ASSUME NEW b \in Bodies, PublishSource(b) PROVE TypeInv'
  <2> DEFINE p == [body |-> b, stamp |-> instant']
  <2>1. instant' \in Instants
    <3>1. instant \in 0 .. MaxInstant /\ instant < MaxInstant /\ instant' = instant + 1
      BY <1>1 DEF PublishSource, TypeInv, TypeOK, Instants
    <3> QED
      BY <3>1, RuleAssumption DEF Instants
  <2>2. p \in Published
    BY <2>1 DEF Published
  <2>3. source' = [source EXCEPT !.file = p, !.readable = TRUE] /\ source \in S
    BY <1>1 DEF PublishSource, TypeInv, TypeOK
  <2> HIDE DEF p
  <2>4. source' \in S
    BY <2>2, <2>3
  <2>5. FailuresFit'
    BY <1>1 DEF PublishSource, TypeInv, FailuresFit
  <2> QED
    BY <1>1, <2>1, <2>4, <2>5 DEF PublishSource, TypeInv, TypeOK, Points
<1>2. CASE RecordSource
  <2>1. source' \in S
    BY <1>2 DEF RecordSource, TypeInv, TypeOK
  <2>2. FailuresFit'
    BY <1>2 DEF RecordSource, TypeInv, FailuresFit
  <2> QED
    BY <1>2, <2>1, <2>2 DEF RecordSource, historyVars, TypeInv, TypeOK, Points
<1> QED
  BY <1>1, <1>2

LEMMA TypeDamage ==
  ASSUME TypeInv, (\E r \in Rules : DamageRule(r)) \/ DamageSource \/ DamageFile
  PROVE  TypeInv'
<1>1. /\ UNCHANGED <<state, status, file, processVars, instant>>
      /\ damaged' \subseteq Rules \cup {NoRule}
      /\ source' \in [file : Published, readable : BOOLEAN, success : Instants \cup {Never}]
  BY DEF DamageRule, DamageSource, DamageFile, TypeInv, TypeOK
<1>2. faults' \in 0 .. MaxFaults /\ torn' \subseteq Rules
  BY RuleAssumption DEF DamageRule, DamageSource, DamageFile, Fault, TypeInv, TypeOK
<1> QED
  BY <1>1, <1>2 DEF processVars, TypeInv, TypeOK, FailuresFit

LEMMA LoadedState ==
  ASSUME TypeInv, NEW r \in Rules
  PROVE  Loaded(r) \in RuleState
<1>1. FreshState \in RuleState
  BY DEF FreshState, RuleState, Results
<1> QED
  BY <1>1 DEF Loaded, TypeInv, TypeOK

\* The state of a rule is saved, and what else the process keeps is typed.
LEMMA TypeSave ==
  ASSUME TypeInv, NEW r \in Rules, NEW s \in RuleState, Save(r, s),
         UNCHANGED <<source, status, file, seen, records, instant, faults>>,
         torn' \subseteq Rules, pc' \in Points, todo' \subseteq Rules, stale' \subseteq Rules,
         failed' \in 0 .. Cardinality(Rules), FailuresFit'
  PROVE  TypeInv'
<1>1. Cleared(s) \in RuleState
  BY DEF Cleared, RuleState
<1>2. state' = [state EXCEPT ![r] = Cleared(s)] /\ state \in [Rules -> RuleState]
  BY DEF Save, TypeInv, TypeOK
<1>3. state' \in [Rules -> RuleState]
  BY <1>1, <1>2
<1> QED
  BY <1>3 DEF Save, TypeInv, TypeOK

LEMMA TypeSaving ==
  ASSUME TypeInv, AgeInv,
         SaveDerived \/ \E r \in Rules : Repair(r) \/ FailUnreadable(r) \/ RejectDerived(r)
  PROVE  TypeInv'
<1> USE RulesFinite DEF TypeInv
<1>1. ASSUME NEW r \in Rules, Repair(r) PROVE TypeInv'
  <2>1. FailuresFit'
    BY <1>1 DEF Repair, FailuresFit
  <2> QED
    BY <1>1, <2>1, LoadedState, TypeSave DEF Repair, historyVars, TypeOK
<1>2. ASSUME NEW r \in Rules, FailUnreadable(r) \/ RejectDerived(r) PROVE TypeInv'
  <2>1. PICK result \in Results :
          /\ pc \in {"failing", "derive"} /\ r \in stale
          /\ Save(r, [Loaded(r) EXCEPT !.result = result]) /\ stale' = stale \ {r}
          /\ failed' = failed + 1
          /\ UNCHANGED <<source, status, file, pc, todo, seen, records, historyVars>>
    BY <1>2 DEF FailUnreadable, RejectDerived, Deriving, First, Fail, Results
  <2>2. Cardinality(stale') = Cardinality(stale) - 1 /\ Cardinality(stale') \in Nat
    BY <2>1, FS_RemoveElement DEF TypeOK
  <2>3. FailuresFit' /\ failed' \in 0 .. Cardinality(Rules)
    BY <2>1, <2>2 DEF FailuresFit, TypeOK
  <2>4. [Loaded(r) EXCEPT !.result = result] \in RuleState
    BY LoadedState DEF RuleState
  <2> QED
    BY <2>1, <2>3, <2>4, TypeSave DEF historyVars, TypeOK
<1>3. CASE SaveDerived
  <2> DEFINE s == [Loaded(cur) EXCEPT !.success = seen, !.result = "published",
                                      !.body = records.body]
  <2>1. /\ pc = "derived" /\ pc' = "derive" /\ Save(cur, s) /\ stale' = stale \ {cur}
        /\ UNCHANGED <<source, status, file, todo, seen, records, failed, instant, faults>>
        /\ torn' = torn \ {cur}
    BY <1>3 DEF SaveDerived
  <2>2. cur \in Rules
    BY <2>1 DEF AgeInv, PassReads
  <2>3. records.body \in Bodies \cup {NoBody} /\ seen \in Instants \cup {Never}
        /\ "published" \in Results
    BY DEF TypeOK, Published, Results
  <2>4. s \in RuleState
    BY <2>2, <2>3, LoadedState DEF RuleState
  <2>5. Cardinality(stale') <= Cardinality(stale) /\ Cardinality(stale') \in Nat
    <3>1. stale \in SUBSET Rules /\ IsFiniteSet(stale)
      BY DEF TypeOK
    <3>2. stale \ {cur} \in SUBSET stale
      OBVIOUS
    <3>3. Cardinality(stale \ {cur}) <= Cardinality(stale)
      BY <3>1, <3>2, FS_Subset
    <3> QED
      BY <2>1, <3>1, <3>3
  <2>6. FailuresFit'
    BY <2>1, <2>5 DEF FailuresFit, TypeOK
  <2> HIDE DEF s
  <2> QED
    BY <2>1, <2>2, <2>4, <2>6, TypeSave DEF TypeOK, Points
<1> QED
  BY <1>1, <1>2, <1>3

LEMMA TypeWrites ==
  ASSUME TypeInv, WriteStatus \/ \E r \in Rules : WriteFile(r)
  PROVE  TypeInv'
<1>1. CASE WriteStatus
  <2>1. status' \in [Rules -> RuleState]
    BY <1>1 DEF WriteStatus, TypeInv, TypeOK
  <2> QED
    BY <1>1, <2>1 DEF WriteStatus, historyVars, TypeInv, TypeOK, FailuresFit
<1>2. ASSUME NEW r \in Rules, WriteFile(r) PROVE TypeInv'
  <2>1. file' \in [Rules -> Published] /\ FailuresFit'
    BY <1>2 DEF WriteFile, Deriving, TypeInv, TypeOK, FailuresFit
  <2> QED
    BY <1>2, <2>1 DEF WriteFile, historyVars, TypeInv, TypeOK, Points
<1> QED
  BY <1>1, <1>2

LEMMA TypeStep == AgeInv /\ TypeInv /\ [Next]_vars => TypeInv'
<1> SUFFICES ASSUME AgeInv, TypeInv, [Next]_vars PROVE TypeInv'
  OBVIOUS
<1>1. CASE Fetch
  BY <1>1, TypeControl, TypeSource DEF Fetch
<1>2. CASE Pass
  BY <1>2, TypeControl, TypeSaving, TypeWrites DEF Pass
<1>3. CASE Crash
  BY <1>3, TypeControl
<1>4. CASE (\E r \in Rules : DamageRule(r)) \/ DamageSource \/ DamageFile
  BY <1>4, TypeDamage
<1>5. CASE UNCHANGED vars
  BY <1>5 DEF vars, volumeVars, processVars, historyVars, TypeInv, TypeOK, FailuresFit
<1> QED
  BY <1>1, <1>2, <1>3, <1>4, <1>5 DEF Next

\* The type invariant of the derivation, for any finite set of rules: in
\* particular a pass never counts more failures than there are rules.
THEOREM TypeCorrect == Spec => []TypeOK
<1>1. AgeInv /\ TypeInv /\ [Next]_vars => AgeInv' /\ TypeInv'
  BY AgeStep, TypeStep
<1>2. TypeInv => TypeOK
  BY DEF TypeInv
<1> QED
  BY <1>1, <1>2, AgeInit, TypeInit, PTL DEF Spec

-----------------------------------------------------------------------------
(* A pass without failures leaves every rule current.                      *)

\* What a pass has settled for a rule.
Settled(r) == r \notin damaged /\ state[r].success = seen /\ state[r].result = "published"

\* A pass looks at a source that has published, and only there is work left.
PassSees ==
  /\ pc \in {"idle", "fetching", "filed", "sync"} => seen = Never /\ stale = {}
  /\ pc \in {"examine", "failing", "derive", "derived"} => seen # Never
  /\ seen # Never => seen = source.success
  /\ pc # "examine" => todo = {}

\* A rule is never ahead of its source's state, and is behind it after a failure:
\* so a rule that is current has nothing to report.
RuleTrails ==
  \A r \in Rules :
    /\ source.success # Never => state[r].success <= source.success
    /\ state[r].result # "published" =>
         \/ state[r].success = Never
         \/ source.success # Never /\ state[r].success < source.success

\* A stale rule is one that was not derived from what the pass sees, and what is
\* neither stale nor still to be examined is settled, unless a failure was counted.
StaleLags == \A r \in stale : Loaded(r).success # seen

QuietSoFar ==
  seen # Never /\ failed = 0 => \A r \in Rules \ (todo \cup stale) : Settled(r)

QuietInv == PassSees /\ RuleTrails /\ StaleLags /\ QuietSoFar

LEMMA QuietInit == Init => QuietInv
<1> SUFFICES ASSUME Init PROVE QuietInv
  OBVIOUS
<1>1. PICK n \in {0} \cup ({source.success} \ {Never}) :
        state = [r \in Rules |-> IF r \in Converted THEN InheritedState(n) ELSE FreshState]
  BY DEF Init
<1>2. source.success = Never \/ source.success = 1
  BY DEF Init
<1>3. RuleTrails
  BY <1>1, <1>2 DEF RuleTrails, InheritedState, FreshState, Never
<1> QED
  BY <1>3 DEF Init, QuietInv, PassSees, StaleLags, QuietSoFar

\* A rule that is found current is settled.
LEMMA CurrentSettled ==
  ASSUME TypeInv, QuietInv, NEW r \in Rules, IsCurrent(Loaded(r)), pc = "examine"
  PROVE  Settled(r)
<1>1. seen # Never /\ seen = source.success
  BY DEF QuietInv, PassSees
<1>2. r \notin damaged
  BY <1>1 DEF IsCurrent, Loaded, FreshState
<1>3. state[r].success = seen
  BY <1>2 DEF IsCurrent, Loaded
<1>4. seen \in Int
  BY DEF TypeInv, TypeOK, Instants, Never
<1>5. state[r].result = "published"
  BY <1>1, <1>3, <1>4 DEF QuietInv, RuleTrails
<1> QED
  BY <1>2, <1>3, <1>5 DEF Settled

LEMMA QuietControl ==
  ASSUME TypeInv, QuietInv,
         \/ StartRun \/ NoResponse \/ ReadSource \/ ReadRecords \/ Finish \/ Crash
         \/ \E r \in Rules : KeepCurrent(r) \/ MarkStale(r)
  PROVE  QuietInv'
<1>1. CASE StartRun \/ NoResponse
  BY <1>1 DEF StartRun, NoResponse, volumeVars, QuietInv, PassSees, RuleTrails, StaleLags,
              QuietSoFar, Settled, Loaded
<1>2. CASE ReadSource
  BY <1>2 DEF ReadSource, volumeVars, QuietInv, PassSees, RuleTrails, StaleLags,
              QuietSoFar, Settled, Loaded
<1>3. CASE ReadRecords
  BY <1>3 DEF ReadRecords, volumeVars, QuietInv, PassSees, RuleTrails, StaleLags,
              QuietSoFar, Settled, Loaded
<1>4. CASE Finish \/ Crash
  BY <1>4 DEF Finish, Crash, Forget, volumeVars, QuietInv, PassSees, RuleTrails, StaleLags,
              QuietSoFar
<1>5. ASSUME NEW r \in Rules, KeepCurrent(r) PROVE QuietInv'
  <2>1. /\ pc = "examine" /\ Settled(r) /\ todo' = todo \ {r}
        /\ UNCHANGED <<volumeVars, pc, stale, seen, failed>>
    BY <1>5, CurrentSettled DEF KeepCurrent, Examining
  <2> QED
    BY <2>1 DEF volumeVars, QuietInv, PassSees, RuleTrails, StaleLags, QuietSoFar, Settled,
                Loaded
<1>6. ASSUME NEW r \in Rules, MarkStale(r) PROVE QuietInv'
  <2>1. /\ pc = "examine" /\ Loaded(r).success # seen
        /\ todo' = todo \ {r} /\ stale' = stale \cup {r}
        /\ UNCHANGED <<volumeVars, pc, seen, failed>>
    BY <1>6 DEF MarkStale, Examining, IsCurrent
  <2> QED
    BY <2>1 DEF volumeVars, QuietInv, PassSees, RuleTrails, StaleLags, QuietSoFar, Settled,
                Loaded
<1> QED
  BY <1>1, <1>2, <1>3, <1>4, <1>5, <1>6

\* The source only moves on, and only between two passes.
LEMMA QuietSource ==
  ASSUME TypeInv, AgeInv, QuietInv, (\E b \in Bodies : PublishSource(b)) \/ RecordSource
  PROVE  QuietInv'
<1>1. ASSUME NEW b \in Bodies, PublishSource(b) PROVE QuietInv'
  <2>1. source'.success = source.success /\ pc' = "filed"
        /\ UNCHANGED <<state, damaged, todo, stale, seen, failed>> /\ pc = "fetching"
    BY <1>1 DEF PublishSource, TypeInv, TypeOK
  <2> QED
    BY <2>1 DEF QuietInv, PassSees, RuleTrails, StaleLags, QuietSoFar
<1>2. CASE RecordSource
  <2>1. /\ pc = "filed" /\ pc' = "sync" /\ source'.success = instant
        /\ UNCHANGED <<state, damaged, todo, stale, seen, failed>>
    BY <1>2 DEF RecordSource, TypeInv, TypeOK
  <2>2. source.success <= instant /\ source.success \in Int /\ instant \in Nat
    BY DEF AgeInv, Stamped, SourceTrails
  <2>3. RuleTrails'
    <3> SUFFICES ASSUME NEW r \in Rules
                 PROVE  /\ state[r].success <= instant
                        /\ state[r].result # "published" =>
                             \/ state[r].success = Never
                             \/ instant # Never /\ state[r].success < instant
      BY <2>1 DEF RuleTrails
    <3>1. state[r].success \in Int /\ file[r].stamp \in Int
          /\ state[r].success <= file[r].stamp /\ file[r].stamp <= instant
      BY DEF AgeInv, Stamped, HonestAge, LayerTrails
    <3> QED
      BY <2>2, <3>1 DEF QuietInv, RuleTrails, Never
  <2> QED
    BY <2>1, <2>3 DEF QuietInv, PassSees, StaleLags, QuietSoFar
<1> QED
  BY <1>1, <1>2

LEMMA QuietDamage ==
  ASSUME TypeInv, QuietInv, (\E r \in Rules : DamageRule(r)) \/ DamageSource \/ DamageFile
  PROVE  QuietInv'
<1>1. /\ pc = "idle" /\ source'.success = source.success
      /\ UNCHANGED <<state, pc, todo, stale, seen, failed>>
  BY DEF DamageRule, DamageSource, DamageFile, processVars, TypeInv, TypeOK
<1> QED
  BY <1>1 DEF QuietInv, PassSees, RuleTrails, StaleLags, QuietSoFar

\* A state is saved that tells the truth about the pass.
LEMMA QuietSave ==
  ASSUME TypeInv, QuietInv, NEW r \in Rules, NEW s \in RuleState, Save(r, s),
         UNCHANGED <<source, seen>>, seen # Never, s.success <= seen,
         s.result # "published" => s.success = Never \/ s.success < seen,
         pc \in {"examine", "failing", "derive", "derived"},
         pc' \in {"examine", "failing", "derive", "derived"},
         pc' # "examine" => todo' = {},
         stale' \subseteq stale, r \notin stale', failed \in Nat,
         \/ failed' = failed + 1
         \/ /\ failed' = failed
            /\ s.success = seen /\ s.result = "published"
            /\ todo \cup stale \subseteq todo' \cup stale' \cup {r}
  PROVE  QuietInv'
<1>1. /\ state'[r].success = s.success /\ state'[r].result = s.result
      /\ \A q \in Rules \ {r} : state'[q] = state[q]
      /\ damaged' = damaged \ {r}
  BY DEF Save, Cleared, TypeInv, TypeOK, RuleState
<1>2. PassSees'
  BY DEF QuietInv, PassSees
<1>3. RuleTrails'
  BY <1>1 DEF QuietInv, PassSees, RuleTrails
<1>4. StaleLags'
  <2> SUFFICES ASSUME NEW q \in stale' PROVE Loaded(q)'.success # seen
    BY DEF StaleLags
  <2>1. q \in stale /\ q # r /\ q \in Rules
    BY DEF TypeInv, TypeOK
  <2>2. Loaded(q)' = Loaded(q)
    BY <1>1, <2>1 DEF Loaded
  <2> QED
    BY <2>1, <2>2 DEF QuietInv, StaleLags
<1>5. QuietSoFar'
  <2> SUFFICES ASSUME failed' = 0, NEW q \in Rules \ (todo' \cup stale')
               PROVE  Settled(q)'
    BY DEF QuietSoFar
  <2>1. /\ failed = 0 /\ s.success = seen /\ s.result = "published"
        /\ todo \cup stale \subseteq todo' \cup stale' \cup {r}
    OBVIOUS
  <2>2. CASE q = r
    BY <1>1, <2>1, <2>2 DEF Settled
  <2>3. CASE q # r
    <3>1. Settled(q)
      BY <2>1, <2>3 DEF QuietInv, QuietSoFar
    <3> QED
      BY <1>1, <2>3, <3>1 DEF Settled
  <2> QED
    BY <2>2, <2>3
<1> QED
  BY <1>2, <1>3, <1>4, <1>5 DEF QuietInv

LEMMA QuietSaving ==
  ASSUME TypeInv, AgeInv, QuietInv,
         SaveDerived \/ \E r \in Rules : Repair(r) \/ FailUnreadable(r) \/ RejectDerived(r)
  PROVE  QuietInv'
<1>0. failed \in Nat /\ seen \in Int /\ stale \subseteq Rules /\ todo \subseteq Rules
  BY RulesFinite DEF TypeInv, TypeOK, Instants, Never
<1>1. ASSUME NEW r \in Rules, Repair(r) PROVE QuietInv'
  <2>1. /\ pc = "examine" /\ pc' = pc /\ Save(r, Loaded(r)) /\ todo' = todo \ {r}
        /\ IsCurrent(Loaded(r)) /\ UNCHANGED <<source, stale, seen, failed>>
    BY <1>1 DEF Repair, Examining
  <2>2. Settled(r) /\ Loaded(r) = state[r] /\ seen # Never
    BY <2>1, CurrentSettled DEF Settled, Loaded, QuietInv, PassSees
  <2>3. r \notin stale
    BY <2>1 DEF QuietInv, StaleLags, IsCurrent
  <2> QED
    BY <1>0, <2>1, <2>2, <2>3, LoadedState, QuietSave DEF Settled
<1>2. ASSUME NEW r \in Rules, FailUnreadable(r) \/ RejectDerived(r) PROVE QuietInv'
  <2>1. PICK result \in Results \ {"published"} :
          /\ pc \in {"failing", "derive"} /\ pc' = pc /\ r \in stale
          /\ Save(r, [Loaded(r) EXCEPT !.result = result]) /\ stale' = stale \ {r}
          /\ failed' = failed + 1
          /\ UNCHANGED <<source, todo, seen>>
    BY <1>2 DEF FailUnreadable, RejectDerived, Deriving, First, Fail, Results
  <2> DEFINE s == [Loaded(r) EXCEPT !.result = result]
  <2>2. s \in RuleState /\ s.success = Loaded(r).success /\ s.result = result
        /\ s.success \in Int
    BY LoadedState DEF RuleState, Instants, Never
  <2>3. seen # Never /\ seen = source.success /\ s.success # seen /\ todo = {}
    BY <2>1, <2>2 DEF QuietInv, PassSees, StaleLags
  <2>4. s.success <= seen
    <3>1. CASE r \in damaged
      BY <1>0, <2>2, <3>1 DEF Loaded, FreshState, TypeInv, TypeOK, Instants, Never
    <3>2. CASE r \notin damaged
      BY <2>2, <2>3, <3>2 DEF Loaded, QuietInv, RuleTrails
    <3> QED
      BY <3>1, <3>2
  <2>5. s.success < seen
    BY <1>0, <2>2, <2>3, <2>4
  <2> HIDE DEF s
  <2> QED
    BY <1>0, <2>1, <2>2, <2>3, <2>4, <2>5, QuietSave DEF s
<1>3. CASE SaveDerived
  <2> DEFINE s == [Loaded(cur) EXCEPT !.success = seen, !.result = "published",
                                      !.body = records.body]
  <2>1. /\ pc = "derived" /\ pc' = "derive" /\ Save(cur, s) /\ stale' = stale \ {cur}
        /\ UNCHANGED <<source, todo, seen, failed>>
    BY <1>3 DEF SaveDerived
  <2>2. cur \in Rules /\ seen # Never /\ todo = {}
    BY <2>1 DEF AgeInv, PassReads, QuietInv, PassSees
  <2>3. records.body \in Bodies \cup {NoBody} /\ seen \in Instants \cup {Never}
        /\ "published" \in Results
    BY DEF TypeInv, TypeOK, Published, Results
  <2>4. s \in RuleState /\ s.success = seen /\ s.result = "published"
    BY <2>2, <2>3, LoadedState DEF RuleState
  <2> HIDE DEF s
  <2> QED
    BY <1>0, <2>1, <2>2, <2>4, QuietSave
<1> QED
  BY <1>1, <1>2, <1>3

LEMMA QuietWrites ==
  ASSUME QuietInv, WriteStatus \/ \E r \in Rules : WriteFile(r)
  PROVE  QuietInv'
<1>1. UNCHANGED <<source, state, damaged, todo, stale, seen, failed>>
      /\ (pc' = pc \/ (pc = "derive" /\ pc' = "derived"))
  BY DEF WriteStatus, WriteFile, Deriving
<1> QED
  BY <1>1 DEF QuietInv, PassSees, RuleTrails, StaleLags, QuietSoFar, Settled, Loaded

LEMMA QuietStep == AgeInv /\ TypeInv /\ QuietInv /\ [Next]_vars => QuietInv'
<1> SUFFICES ASSUME AgeInv, TypeInv, QuietInv, [Next]_vars PROVE QuietInv'
  OBVIOUS
<1>1. CASE Fetch
  BY <1>1, QuietControl, QuietSource DEF Fetch
<1>2. CASE Pass
  BY <1>2, QuietControl, QuietSaving, QuietWrites DEF Pass
<1>3. CASE Crash
  BY <1>3, QuietControl
<1>4. CASE (\E r \in Rules : DamageRule(r)) \/ DamageSource \/ DamageFile
  BY <1>4, QuietDamage
<1>5. CASE UNCHANGED vars
  BY <1>5 DEF vars, volumeVars, processVars, historyVars, QuietInv, PassSees, RuleTrails,
              StaleLags, QuietSoFar, Settled, Loaded
<1> QED
  BY <1>1, <1>2, <1>3, <1>4, <1>5 DEF Next

\* A pass that reports no failure leaves every rule derived from the publication
\* it reconciled with, whatever was killed or damaged in the passes before, for
\* any finite set of rules.
THEOREM QuietHolds == Spec => []QuietPassIsCurrent
<1>1. AgeInv /\ TypeInv /\ QuietInv /\ [Next]_vars => AgeInv' /\ TypeInv' /\ QuietInv'
  BY AgeStep, TypeStep, QuietStep
<1>2. QuietInv => QuietPassIsCurrent
  BY DEF QuietInv, PassSees, QuietSoFar, Settled, QuietPassIsCurrent, Concluding
<1> QED
  BY <1>1, <1>2, AgeInit, TypeInit, QuietInit, PTL DEF Spec

-----------------------------------------------------------------------------
(* No layer is emptied.                                                    *)

\* The rule whose file is written and whose state is not yet.
HalfWritten(r) == pc = "derived" /\ cur = r

\* But for the torn rules, the state of a rule describes its file.
StateDescribesFile ==
  /\ torn \subseteq Rules
  /\ damaged \cap Rules \subseteq torn
  /\ \A r \in Rules \ torn : HalfWritten(r) \/ state[r].body = file[r].body

LEMMA DescribesInit == Init => StateDescribesFile
BY DEF Init, StateDescribesFile, InheritedState, FreshState, Nothing

LEMMA DescribesSave ==
  ASSUME TypeInv, StateDescribesFile, NEW r \in Rules, NEW s \in RuleState, Save(r, s),
         file' = file, torn' \in {torn, torn \ {r}}, pc' # "derived", pc # "derived" \/ cur = r,
         r \notin torn' => s.body = file[r].body
  PROVE  StateDescribesFile'
<1>1. /\ state'[r].body = s.body /\ \A q \in Rules \ {r} : state'[q] = state[q]
      /\ damaged' = damaged \ {r}
  BY DEF Save, Cleared, TypeInv, TypeOK, RuleState
<1> QED
  BY <1>1 DEF StateDescribesFile, HalfWritten

LEMMA DescribesSaving ==
  ASSUME TypeInv, AgeInv, StateDescribesFile,
         SaveDerived \/ \E r \in Rules : Repair(r) \/ FailUnreadable(r) \/ RejectDerived(r)
  PROVE  StateDescribesFile'
<1>1. ASSUME NEW r \in Rules, Repair(r) \/ FailUnreadable(r) \/ RejectDerived(r)
      PROVE  StateDescribesFile'
  <2>1. PICK result \in Results \cup {Loaded(r).result} :
          /\ pc \in {"examine", "failing", "derive"} /\ pc' = pc
          /\ Save(r, [Loaded(r) EXCEPT !.result = result])
          /\ file' = file /\ torn' = torn
    <3>1. CASE Repair(r)
      <4>1. Loaded(r) = [Loaded(r) EXCEPT !.result = Loaded(r).result]
        BY LoadedState DEF RuleState
      <4> QED
        BY <3>1, <4>1 DEF Repair, Examining, historyVars
    <3>2. CASE FailUnreadable(r) \/ RejectDerived(r)
      BY <3>2 DEF FailUnreadable, RejectDerived, Deriving, Fail, Results, historyVars
    <3> QED
      BY <1>1, <3>1, <3>2
  <2>2. /\ [Loaded(r) EXCEPT !.result = result] \in RuleState
        /\ [Loaded(r) EXCEPT !.result = result].body = Loaded(r).body
    BY LoadedState DEF RuleState
  <2>3. r \notin torn => Loaded(r).body = file[r].body
    BY <2>1 DEF StateDescribesFile, HalfWritten, Loaded
  <2> QED
    BY <2>1, <2>2, <2>3, DescribesSave
<1>2. CASE SaveDerived
  <2> DEFINE s == [Loaded(cur) EXCEPT !.success = seen, !.result = "published",
                                      !.body = records.body]
  <2>1. /\ pc = "derived" /\ pc' = "derive" /\ Save(cur, s)
        /\ file' = file /\ torn' = torn \ {cur}
    BY <1>2 DEF SaveDerived
  <2>2. cur \in Rules /\ file[cur] = records
    BY <2>1 DEF AgeInv, PassReads
  <2>3. records.body \in Bodies \cup {NoBody} /\ seen \in Instants \cup {Never}
        /\ "published" \in Results
    BY DEF TypeInv, TypeOK, Published, Results
  <2>4. s \in RuleState /\ s.body = records.body
    BY <2>2, <2>3, LoadedState DEF RuleState
  <2> HIDE DEF s
  <2> QED
    BY <2>1, <2>2, <2>4, DescribesSave
<1> QED
  BY <1>1, <1>2

LEMMA DescribesStep ==
  AgeInv /\ TypeInv /\ StateDescribesFile /\ [Next]_vars => StateDescribesFile'
<1> SUFFICES ASSUME AgeInv, TypeInv, StateDescribesFile, [Next]_vars
             PROVE  StateDescribesFile'
  OBVIOUS
<1>1. CASE \/ Fetch \/ ReadSource \/ ReadRecords \/ Finish \/ UNCHANGED vars
           \/ \E r \in Rules : KeepCurrent(r) \/ MarkStale(r)
  <2>1. \/ UNCHANGED <<state, file, damaged, torn>> /\ pc # "derived"
        \/ UNCHANGED vars
    BY <1>1 DEF Fetch, StartRun, PublishSource, RecordSource, NoResponse, ReadSource,
                ReadRecords, Finish, Concluding, KeepCurrent, MarkStale, Examining,
                volumeVars, historyVars
  <2> QED
    BY <2>1 DEF StateDescribesFile, HalfWritten, vars, volumeVars, processVars, historyVars
<1>2. CASE SaveDerived \/ \E r \in Rules : Repair(r) \/ FailUnreadable(r) \/ RejectDerived(r)
  BY <1>2, DescribesSaving
<1>3. CASE WriteStatus
  BY <1>3 DEF WriteStatus, historyVars, StateDescribesFile, HalfWritten
<1>4. ASSUME NEW r \in Rules, WriteFile(r) PROVE StateDescribesFile'
  BY <1>4 DEF WriteFile, Deriving, historyVars, StateDescribesFile, HalfWritten, TypeInv,
              TypeOK
<1>5. CASE Crash
  <2>1. UNCHANGED <<state, file, damaged>> /\ pc' = "idle"
        /\ torn' = IF pc = "derived" THEN torn \cup {cur} ELSE torn
    BY <1>5 DEF Crash, Forget, volumeVars
  <2>2. pc = "derived" => cur \in Rules
    BY DEF AgeInv, PassReads
  <2> QED
    BY <2>1, <2>2 DEF StateDescribesFile, HalfWritten
<1>6. CASE (\E r \in Rules : DamageRule(r)) \/ DamageSource \/ DamageFile
  <2>1. /\ UNCHANGED <<state, file, processVars>> /\ pc = "idle"
        /\ \E D \in SUBSET Rules : /\ torn' = torn \cup D
                                 /\ damaged' \cap Rules = (damaged \cap Rules) \cup D
    <3>1. CASE \E r \in Rules : DamageRule(r)
      <4>1. PICK r \in Rules : DamageRule(r)
        BY <3>1
      <4>2. torn' = torn \cup {r} /\ damaged' \cap Rules = (damaged \cap Rules) \cup {r}
            /\ UNCHANGED <<state, file, processVars>> /\ pc = "idle"
        BY <4>1 DEF DamageRule
      <4> QED
        BY <4>2
    <3>2. CASE DamageSource \/ DamageFile
      <4>1. torn' = torn \cup {} /\ damaged' \cap Rules = (damaged \cap Rules) \cup {}
            /\ UNCHANGED <<state, file, processVars>> /\ pc = "idle"
        BY <3>2, RuleAssumption DEF DamageSource, DamageFile
      <4> QED
        BY <4>1
    <3> QED
      BY <1>6, <3>1, <3>2
  <2> QED
    BY <2>1 DEF StateDescribesFile, HalfWritten, processVars
<1> QED
  BY <1>1, <1>2, <1>3, <1>4, <1>5, <1>6 DEF Next, Pass

\* The file that a rule gets has passed the gates, and they were measured against
\* the file it replaces.
LEMMA KeptStep ==
  ASSUME TypeInv, StateDescribesFile, [Next]_vars, NEW r \in Rules, file'[r] # file[r]
  PROVE  /\ Selected[r][file'[r].body] >= MinRecords[r]
         /\ r \notin torn /\ file[r].body # NoBody =>
              100 * Selected[r][file'[r].body]
                >= Selected[r][file[r].body] * (100 - DropPercent)
<1>1. PICK q \in Rules : WriteFile(q)
  BY DEF Next, Fetch, Pass, StartRun, PublishSource, RecordSource, NoResponse, ReadSource,
         ReadRecords, SaveDerived, WriteStatus, Finish, KeepCurrent, Repair, MarkStale,
         FailUnreadable, RejectDerived, Crash, DamageRule, DamageSource, DamageFile,
         vars, volumeVars
<1>2. q = r /\ file'[r] = records /\ Passes(r, Loaded(r), records.body) /\ pc = "derive"
  BY <1>1 DEF WriteFile, Deriving, TypeInv, TypeOK
<1>3. r \notin torn /\ file[r].body # NoBody =>
        RecordCount(r, Loaded(r)) = Selected[r][file[r].body]
  BY <1>2 DEF StateDescribesFile, HalfWritten, Loaded, RecordCount
<1> QED
  BY <1>2, <1>3 DEF Passes

\* A file is only replaced by one that passes the floor and, unless the rule was
\* killed between its file and its state or its state does not load, that is not
\* much smaller than the one it replaces: for any rules, bodies, floors and
\* tolerated drops, and any number of kills and damages of every kind.
THEOREM LayersHold == Spec => LayerIsKept
<1> DEFINE A == \A r \in Rules : file'[r] # file[r] =>
             /\ Selected[r][file'[r].body] >= MinRecords[r]
             /\ r \notin torn /\ file[r].body # NoBody =>
                  100 * Selected[r][file'[r].body]
                    >= Selected[r][file[r].body] * (100 - DropPercent)
<1>1. AgeInv /\ TypeInv /\ StateDescribesFile /\ [Next]_vars
        => AgeInv' /\ TypeInv' /\ StateDescribesFile'
  BY AgeStep, TypeStep, DescribesStep
<1>2. TypeInv /\ StateDescribesFile /\ [Next]_vars => [A]_vars
  BY KeptStep
<1> QED
  BY <1>1, <1>2, AgeInit, TypeInit, DescribesInit, PTL DEF Spec, LayerIsKept

=============================================================================
