----------------------------- MODULE GpDeriver -----------------------------
(***************************************************************************)
(* GpDeriver.sync of derive.py: after the fetch loop of a run, under the   *)
(* same gp.lock, every derived dataset is reconciled with the file its     *)
(* source has published.  The fetch loop is reduced here to what it does   *)
(* to the source: publish a body, then record it (GpUpdater has the rest). *)
(*                                                                         *)
(* Instants are numbered in the order the source was attempted at them.    *)
(***************************************************************************)
EXTENDS Integers, FiniteSets

CONSTANTS
  Rules,          \* the [[gp.derived]] rules of one source
  NoRule,
  Rank,           \* position of each rule in the configuration
  Bodies,         \* what the source may publish
  NoBody,
  FirstBody,      \* what is on the volume at the start
  Selected,       \* records of each body that each rule selects
  MinRecords,     \* minimum_records of each rule
  DropPercent,    \* maximum_count_drop_fraction, in percent
  Converted,      \* rules that were datasets fetched on their own before
  MaxInstant,     \* bound on the publications of the source
  MaxFaults,      \* bound on the number of faults
  Faults          \* which of "crash", "derived", "source", "file" may happen

Never == -1

ASSUME RuleAssumption ==
  /\ IsFiniteSet(Rules)
  /\ NoRule \notin Rules
  /\ Converted \subseteq Rules
  /\ NoBody \notin Bodies
  /\ FirstBody \in Bodies
  /\ Selected \in [Rules -> [Bodies -> Nat]]
  /\ MinRecords \in [Rules -> Nat]
  /\ DropPercent \in 0 .. 100
  /\ MaxInstant \in Nat \ {0}
  /\ MaxFaults \in Nat

VARIABLES
  \* the volume
  source,     \* the source's file, whether it reads, and last_success
  state, status, file,    \* of each rule
  damaged,    \* state files that do not load: rules, or NoRule for the source
  \* the memory of the process that holds gp.lock
  pc, todo, stale, cur, dirty, seen, records, failed,
  \* history
  instant,    \* the last instant the source was attempted at with a result
  torn,       \* rules whose state does not tell what their file holds
  faults      \* faults so far

volumeVars  == <<source, state, status, file, damaged>>
processVars == <<pc, todo, stale, cur, dirty, seen, records, failed>>
historyVars == <<instant, torn, faults>>
vars == <<volumeVars, processVars, historyVars>>

-----------------------------------------------------------------------------
(* The shapes of the state.                                                *)

Instants  == 0 .. MaxInstant
Published == [body : Bodies \cup {NoBody}, stamp : Instants \cup {Never}]
Nothing   == [body |-> NoBody, stamp |-> Never]

Results == {"never-attempted", "published", "source-unreadable", "validation-error"}

\* `body' is the source body that record_count, sha256 and the epochs were
\* computed from; `request' says that one of last_http_status, retry_after and
\* last_response_bytes is set, `format' that wire_format is.
RuleState == [success : Instants \cup {Never}, result : Results,
              body : Bodies \cup {NoBody}, request : BOOLEAN, format : BOOLEAN]

FreshState == [success |-> Never, result |-> "never-attempted", body |-> NoBody,
               request |-> FALSE, format |-> FALSE]

\* A dataset converted from fetched to derived still has the state of its last
\* request; an earlier release may already have derived it.
InheritedState(n) == [success |-> n, result |-> "published", body |-> FirstBody,
                      request |-> TRUE, format |-> TRUE]

Points == {"idle", "fetching", "filed", "sync", "examine", "failing", "derive",
           "derived", "done"}

Init ==
  /\ \/ source = [file |-> Nothing, readable |-> FALSE, success |-> Never]
     \/ source = [file |-> [body |-> FirstBody, stamp |-> 1], readable |-> TRUE,
                  success |-> 1]
  /\ instant = 1
  /\ \E n \in {0} \cup ({source.success} \ {Never}) :
       /\ state = [r \in Rules |-> IF r \in Converted THEN InheritedState(n)
                                                      ELSE FreshState]
       /\ file = [r \in Rules |-> IF r \in Converted
                                  THEN [body |-> FirstBody, stamp |-> n]
                                  ELSE Nothing]
  /\ status = state
  /\ damaged = {}
  /\ pc = "idle"
  /\ todo = {} /\ stale = {} /\ cur = NoRule /\ dirty = FALSE
  /\ seen = Never /\ records = Nothing /\ failed = 0
  /\ torn = {}
  /\ faults = 0

-----------------------------------------------------------------------------
(* The fetch loop, as far as the source is concerned.                      *)

StartRun ==
  /\ pc = "idle"
  /\ pc' = "fetching"
  /\ UNCHANGED <<volumeVars, todo, stale, cur, dirty, seen, records, failed, historyVars>>

\* The file first.  A source whose own state does not load is not requested.
PublishSource(b) ==
  /\ pc = "fetching"
  /\ NoRule \notin damaged
  /\ instant < MaxInstant
  /\ instant' = instant + 1
  /\ source' = [source EXCEPT !.file = [body |-> b, stamp |-> instant'],
                              !.readable = TRUE]
  /\ pc' = "filed"
  /\ UNCHANGED <<state, status, file, damaged, todo, stale, cur, dirty, seen, records,
                 failed, torn, faults>>

RecordSource ==
  /\ pc = "filed"
  /\ source' = [source EXCEPT !.success = instant]
  /\ pc' = "sync"
  /\ UNCHANGED <<state, status, file, damaged, todo, stale, cur, dirty, seen, records,
                 failed, historyVars>>

\* Within the floor, "not updated", refused, or stopped: no response to filter.
NoResponse ==
  /\ pc = "fetching"
  /\ pc' = "sync"
  /\ UNCHANGED <<volumeVars, todo, stale, cur, dirty, seen, records, failed, historyVars>>

-----------------------------------------------------------------------------
(* Saving the state of a rule: the state file, then the status document.   *)

Cleared(s) == [s EXCEPT !.request = FALSE]

Save(r, s) ==
  /\ cur' = r
  /\ state' = [state EXCEPT ![r] = Cleared(s)]
  /\ damaged' = damaged \ {r}
  /\ dirty' = TRUE

WriteStatus ==
  /\ dirty
  /\ status' = [status EXCEPT ![cur] = state[cur]]
  /\ dirty' = FALSE
  /\ UNCHANGED <<source, state, file, damaged, pc, todo, stale, cur, seen, records,
                 failed, historyVars>>

\* A state that does not load is discarded.
Loaded(r) == IF r \in damaged THEN FreshState ELSE state[r]

-----------------------------------------------------------------------------
(* One pass over the rules of the source.                                  *)

\* A source that never published, or whose state does not load, ends the pass.
ReadSource ==
  /\ pc = "sync"
  /\ IF NoRule \in damaged \/ source.success = Never
     THEN pc' = "done" /\ UNCHANGED <<todo, seen>>
     ELSE pc' = "examine" /\ todo' = Rules /\ seen' = source.success
  /\ UNCHANGED <<volumeVars, stale, cur, dirty, records, failed, historyVars>>

First(r, rules) == r \in rules /\ \A q \in rules : Rank[r] <= Rank[q]

Examining(r) == pc = "examine" /\ ~ dirty /\ First(r, todo)

\* Faulty variant: whatever was derived once is taken for current.
IsCurrent_EverPublished(s) == s.success # Never

\* A rule is current when it was derived from the source's last publication.
IsCurrent(s) == s.success = seen

KeepCurrent(r) ==
  /\ Examining(r)
  /\ IsCurrent(Loaded(r))
  /\ ~ Loaded(r).request
  /\ todo' = todo \ {r}
  /\ UNCHANGED <<volumeVars, pc, stale, cur, dirty, seen, records, failed, historyVars>>

Repair(r) ==
  /\ Examining(r)
  /\ IsCurrent(Loaded(r))
  /\ Loaded(r).request
  /\ Save(r, Loaded(r))
  /\ todo' = todo \ {r}
  /\ UNCHANGED <<source, status, file, pc, stale, seen, records, failed, historyVars>>

MarkStale(r) ==
  /\ Examining(r)
  /\ ~ IsCurrent(Loaded(r))
  /\ todo' = todo \ {r}
  /\ stale' = stale \cup {r}
  /\ UNCHANGED <<volumeVars, pc, cur, dirty, seen, records, failed, historyVars>>

\* The source's file is read once, and only if some rule needs it.
ReadRecords ==
  /\ pc = "examine"
  /\ ~ dirty
  /\ todo = {}
  /\ IF stale = {} THEN pc' = "done" /\ UNCHANGED records
     ELSE IF source.readable THEN pc' = "derive" /\ records' = source.file
     ELSE pc' = "failing" /\ UNCHANGED records
  /\ UNCHANGED <<volumeVars, todo, stale, cur, dirty, seen, failed, historyVars>>

\* Faulty variant: the failure is saved and not counted.
Fail_Uncounted(r, result) ==
  /\ Save(r, [Loaded(r) EXCEPT !.result = result])
  /\ stale' = stale \ {r}
  /\ UNCHANGED failed

\* Faulty variant: the rule is left for another try in the same pass.
Fail_Retry(r, result) ==
  /\ Save(r, [Loaded(r) EXCEPT !.result = result])
  /\ failed' = failed + 1
  /\ UNCHANGED stale

Fail(r, result) ==
  /\ Save(r, [Loaded(r) EXCEPT !.result = result])
  /\ stale' = stale \ {r}
  /\ failed' = failed + 1

FailUnreadable(r) ==
  /\ pc = "failing"
  /\ ~ dirty
  /\ First(r, stale)
  /\ Fail(r, "source-unreadable")
  /\ UNCHANGED <<source, status, file, pc, todo, seen, records, historyVars>>

RecordCount(r, s) == IF s.body = NoBody THEN 0 ELSE Selected[r][s.body]

\* Faulty variant: only the floor on the count is kept.
Passes_AnyDrop(r, s, b) == Selected[r][b] >= MinRecords[r]

\* validate_omm_json on the selected records, against the count of the state.
Passes(r, s, b) ==
  /\ Selected[r][b] >= MinRecords[r]
  /\ 100 * Selected[r][b] >= RecordCount(r, s) * (100 - DropPercent)

Deriving(r) == pc = "derive" /\ ~ dirty /\ First(r, stale)

RejectDerived(r) ==
  /\ Deriving(r)
  /\ ~ Passes(r, Loaded(r), records.body)
  /\ Fail(r, "validation-error")
  /\ UNCHANGED <<source, status, file, pc, todo, seen, records, historyVars>>

\* Faulty variant: an error of the write is swallowed.
WriteFile_Swallowed(r) ==
  /\ Deriving(r)
  /\ Passes(r, Loaded(r), records.body)
  /\ \E f \in {records, file[r]} : file' = [file EXCEPT ![r] = f]
  /\ cur' = r
  /\ pc' = "derived"
  /\ UNCHANGED <<source, state, status, damaged, todo, stale, dirty, seen, records,
                 failed, historyVars>>

WriteFile(r) ==
  /\ Deriving(r)
  /\ Passes(r, Loaded(r), records.body)
  /\ file' = [file EXCEPT ![r] = records]
  /\ cur' = r
  /\ pc' = "derived"
  /\ UNCHANGED <<source, state, status, damaged, todo, stale, dirty, seen, records,
                 failed, historyVars>>

\* The rule's last_success is the instant of the source's.
SaveDerived ==
  /\ pc = "derived"
  /\ Save(cur, [Loaded(cur) EXCEPT !.success = seen, !.result = "published",
                                   !.body = records.body])
  /\ stale' = stale \ {cur}
  /\ torn' = torn \ {cur}
  /\ pc' = "derive"
  /\ UNCHANGED <<source, status, file, todo, seen, records, failed, instant, faults>>

\* The pass is over: the counters go to the summary of the run.
Concluding ==
  /\ ~ dirty
  /\ stale = {}
  /\ pc \in {"failing", "derive", "done"}

Forget ==
  /\ pc' = "idle"
  /\ todo' = {} /\ stale' = {} /\ cur' = NoRule /\ dirty' = FALSE
  /\ seen' = Never /\ records' = Nothing /\ failed' = 0

Finish ==
  /\ Concluding
  /\ Forget
  /\ UNCHANGED <<volumeVars, historyVars>>

-----------------------------------------------------------------------------
(* Faults.                                                                 *)

Fault(kind) ==
  /\ kind \in Faults
  /\ faults < MaxFaults
  /\ faults' = faults + 1

\* Killed between the file of a rule and its state: the state is of an older file.
Crash ==
  /\ Fault("crash")
  /\ pc # "idle"
  /\ torn' = IF pc = "derived" THEN torn \cup {cur} ELSE torn
  /\ Forget
  /\ UNCHANGED <<volumeVars, instant>>

DamageRule(r) ==
  /\ Fault("derived")
  /\ pc = "idle"
  /\ damaged' = damaged \cup {r}
  /\ torn' = torn \cup {r}
  /\ UNCHANGED <<source, state, status, file, processVars, instant>>

DamageSource ==
  /\ Fault("source")
  /\ pc = "idle"
  /\ damaged' = damaged \cup {NoRule}
  /\ UNCHANGED <<source, state, status, file, processVars, instant, torn>>

\* The published file of the source is gone or is not a JSON array any more.
DamageFile ==
  /\ Fault("file")
  /\ pc = "idle"
  /\ source' = [source EXCEPT !.readable = FALSE]
  /\ UNCHANGED <<state, status, file, damaged, processVars, instant, torn>>

-----------------------------------------------------------------------------
Fetch == StartRun \/ (\E b \in Bodies : PublishSource(b)) \/ RecordSource \/ NoResponse

Pass ==
  \/ ReadSource \/ ReadRecords \/ SaveDerived \/ WriteStatus \/ Finish
  \/ \E r \in Rules : \/ KeepCurrent(r) \/ Repair(r) \/ MarkStale(r)
                      \/ FailUnreadable(r) \/ RejectDerived(r) \/ WriteFile(r)

Next ==
  \/ Fetch
  \/ Pass
  \/ Crash
  \/ \E r \in Rules : DamageRule(r)
  \/ DamageSource
  \/ DamageFile

Spec == Init /\ [][Next]_vars

\* The timer starts runs for ever, and a run keeps going.
FairSpec == Spec /\ WF_vars(Fetch \/ Pass)

-----------------------------------------------------------------------------
(* Properties.                                                             *)

\* The type invariant.
TypeOK ==
  /\ source \in [file : Published, readable : BOOLEAN, success : Instants \cup {Never}]
  /\ state \in [Rules -> RuleState]
  /\ status \in [Rules -> RuleState]
  /\ file \in [Rules -> Published]
  /\ damaged \subseteq Rules \cup {NoRule}
  /\ pc \in Points
  /\ todo \subseteq Rules /\ stale \subseteq Rules /\ cur \in Rules \cup {NoRule}
  /\ dirty \in BOOLEAN
  /\ seen \in Instants \cup {Never}
  /\ records \in Published
  /\ failed \in 0 .. Cardinality(Rules)
  /\ instant \in Instants
  /\ torn \subseteq Rules
  /\ faults \in 0 .. MaxFaults

\* "Its age is honest" (_sync_source): no document claims for a derived file a
\* publication more recent than the one the file was filtered from, wherever a
\* run was killed, whatever was restored from an older release.
HonestAge ==
  \A r \in Rules : /\ state[r].success <= file[r].stamp
                   /\ status[r].success <= file[r].stamp

\* A rule that stops matching never empties its layer (_publish_derived): a
\* file is only replaced by one that passes the floor and is not much smaller
\* than the file it replaces.  The count it is held against is read from the
\* state, so that a kill between the file and the state, or a state that does
\* not load, costs that rule the second gate, and no other rule, until its next
\* save of a derived file.
LayerIsKept ==
  [][\A r \in Rules : file'[r] # file[r] =>
       /\ Selected[r][file'[r].body] >= MinRecords[r]
       /\ r \notin torn /\ file[r].body # NoBody =>
            100 * Selected[r][file'[r].body]
              >= Selected[r][file[r].body] * (100 - DropPercent)]_vars

\* derived_failed is the only signal of a failure (README): a pass that reports
\* none leaves every rule derived from the publication it reconciled with.
QuietPassIsCurrent ==
  Concluding /\ seen # Never /\ failed = 0 =>
    \A r \in Rules : /\ r \notin damaged
                     /\ state[r].success = seen
                     /\ state[r].result = "published"

\* Reconciliation (sync): without any new response, whatever was killed, added
\* or damaged before, a rule always catches up with its source or says why not.
CatchesUp ==
  \A r \in Rules :
    []<>(\/ NoRule \in damaged
         \/ source.success = Never
         \/ /\ r \notin damaged
            /\ \/ state[r].success = source.success
               \/ state[r].result \in {"source-unreadable", "validation-error"})

\* derive.py, on the repair: no pass leaves the fields of a request in the
\* status document of a rule that is current.
RepairReachesStatus ==
  Concluding /\ seen # Never => \A r \in Rules : ~ status[r].request

=============================================================================
