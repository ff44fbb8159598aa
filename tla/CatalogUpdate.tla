---------------------------- MODULE CatalogUpdate ----------------------------
(***************************************************************************)
(* CatalogUpdater.run from its start to its status document: SATCAT and    *)
(* GCAT are asked for in turn through ConditionalSourceCache, which keeps  *)
(* the body of each and its validators in two files, then parsed, merged   *)
(* and published; and what check-health makes of the status document.      *)
(*                                                                         *)
(* The publication is CatalogPublic, which CatalogRelease implements.      *)
(* Runs are serialized by catalog.lock, so there is one process; it may be *)
(* killed between any two of its writes.                                   *)
(***************************************************************************)
EXTENDS Integers

CONSTANTS
  LastVersion,    \* of each source, which serves versions 0, 1, ... up to it
  Sound,          \* catalogues that parse, have their minimum counts and join
  CountOf,        \* records of each catalogue
  DropPercent,    \* maximum_record_drop_fraction, in percent
  None,           \* no catalogue
  Warning,        \* catalog_warning_age_seconds
  Critical,       \* catalog_critical_age_seconds
  MaxClock,       \* horizon of the model
  MaxFaults,      \* bound on the number of faults
  Faults          \* which of "crash", "disk", "down" and "lost" may happen

Sources  == {"satcat", "gcat"}
Times    == 0 .. MaxClock
Versions == UNION {0 .. LastVersion[s] : s \in Sources}
Contents == [Sources -> Versions]

Nothing == -1     \* no body, no validator, no instant

ASSUME UpdateAssumption ==
  /\ LastVersion \in [Sources -> Nat]
  /\ {Warning, Critical, MaxClock, MaxFaults} \subseteq Nat
  /\ Sound \subseteq Contents
  /\ CountOf \in [Contents -> Nat]
  /\ \A c \in Sound : CountOf[c] >= 1
  /\ DropPercent \in 0 .. 100
  /\ None \notin Contents

VARIABLES
  clock,
  upstream,   \* the version each source serves now
  \* the volume
  body,       \* state/catalog/sources/<source>.body
  meta,       \* state/catalog/sources/<source>.json
  status,     \* public/v1/status/catalog.json, whose result is `outcome'
  \* the process
  pc, cur, checked, arrived, payload,
  \* the publication
  public, job, switched, outcome,
  \* history
  asked,      \* the version a source served when this run asked for it
  received,   \* when each version was last received in full
  worked,     \* when a run last succeeded
  failing,    \* when the first of the runs failed that have failed since
  faults

cacheVars   == <<body, meta>>
processVars == <<pc, cur, checked, arrived, payload>>
publicVars  == <<public, job, switched, outcome>>
historyVars == <<asked, received, worked, failing, faults>>
vars == <<clock, upstream, cacheVars, status, processVars, publicVars, historyVars>>

Public == INSTANCE CatalogPublic

-----------------------------------------------------------------------------
Points == {"idle", "ask", "write", "stamp", "merge", "judge", "report"}

Meta    == [tag : Versions \cup {Nothing}, at : Times \cup {Nothing}]
Arrived == [version : Versions \cup {Nothing}, at : Times \cup {Nothing}]

NoMeta    == [tag |-> Nothing, at |-> Nothing]
NoArrival == [version |-> Nothing, at |-> Nothing]
NoPayload == [version |-> Nothing, at |-> Nothing, stale |-> TRUE]
Payload   == [version : Versions, at : Times, stale : BOOLEAN] \cup {NoPayload}
NoPayloads == [s \in Sources |-> NoPayload]

Init ==
  /\ clock = 0 /\ upstream = [s \in Sources |-> 0]
  /\ body = [s \in Sources |-> Nothing] /\ meta = [s \in Sources |-> NoMeta]
  /\ status = [checked |-> Nothing, sources |-> NoPayloads]
  /\ pc = "idle" /\ cur = "satcat" /\ checked = Nothing
  /\ arrived = NoArrival /\ payload = NoPayloads
  /\ Public!Init
  /\ asked = [s \in Sources |-> Nothing]
  /\ received = [s \in Sources |-> [v \in Versions |-> Nothing]]
  /\ worked = 0 /\ failing = Nothing /\ faults = 0

Fault(kind) ==
  /\ kind \in Faults
  /\ faults < MaxFaults
  /\ faults' = faults + 1

Tick ==
  /\ clock < MaxClock
  /\ clock' = clock + 1
  /\ UNCHANGED <<upstream, cacheVars, status, processVars, publicVars, historyVars>>

\* A source only moves forward: it never serves an older version again.
SourceMoves(s) ==
  /\ upstream[s] < LastVersion[s]
  /\ upstream' = [upstream EXCEPT ![s] = @ + 1]
  /\ UNCHANGED <<clock, cacheVars, status, processVars, publicVars, historyVars>>

-----------------------------------------------------------------------------
(* ConditionalSourceCache.get, once for each source.                       *)

Start ==
  /\ pc = "idle"
  /\ pc' = "ask" /\ cur' = "satcat" /\ checked' = clock
  /\ UNCHANGED <<clock, upstream, cacheVars, status, arrived, payload, publicVars,
                 historyVars>>

\* The payload of a source is in memory; the next one is asked for.
Got(s, p) ==
  /\ payload' = [payload EXCEPT ![s] = p]
  /\ IF s = "satcat" THEN pc' = "ask" /\ cur' = "gcat" ELSE pc' = "merge" /\ cur' = cur

Ask(s) == asked' = [asked EXCEPT ![s] = upstream[s]]

\* Faulty variant: the validators are saved with the headers of the response.
Receive_Stamped ==
  /\ pc = "ask"
  /\ meta[cur].tag # upstream[cur]
  /\ Ask(cur)
  /\ arrived' = [version |-> upstream[cur], at |-> Nothing]
  /\ meta' = [meta EXCEPT ![cur] = [tag |-> upstream[cur], at |-> clock]]
  /\ pc' = "write"
  /\ UNCHANGED <<clock, upstream, body, status, cur, checked, payload, publicVars,
                 received, worked, failing, faults>>

\* 200: there are no validators, or they are not those of what is served.
Receive ==
  /\ pc = "ask"
  /\ meta[cur].tag # upstream[cur]
  /\ Ask(cur)
  /\ arrived' = [version |-> upstream[cur], at |-> Nothing]
  /\ pc' = "write"
  /\ UNCHANGED <<clock, upstream, cacheVars, status, cur, checked, payload, publicVars,
                 received, worked, failing, faults>>

\* The instant of the fetch is read when the whole body is there, which is then
\* cached as it came, before anything looks into it.
WriteBody ==
  /\ pc = "write"
  /\ body' = [body EXCEPT ![cur] = arrived.version]
  /\ arrived' = [arrived EXCEPT !.at = clock]
  /\ received' = [received EXCEPT ![cur][arrived.version] = clock]
  /\ pc' = "stamp"
  /\ UNCHANGED <<clock, upstream, meta, status, cur, checked, payload, publicVars,
                 asked, worked, failing, faults>>

WriteMeta ==
  /\ pc = "stamp"
  /\ meta' = [meta EXCEPT ![cur] = [tag |-> arrived.version, at |-> arrived.at]]
  /\ Got(cur, [version |-> arrived.version, at |-> arrived.at, stale |-> FALSE])
  /\ arrived' = NoArrival
  /\ UNCHANGED <<clock, upstream, body, status, checked, publicVars, historyVars>>

\* Faulty variant: the instant of the fetch is not needed.
HasCached_Body(s) == body[s] # Nothing

HasCached(s) == body[s] # Nothing /\ meta[s].at # Nothing

\* Faulty variant: what is reused counts as fetched now.
Fallback_Restamped(s, stale) == [version |-> body[s], at |-> clock, stale |-> stale]

Fallback(s, stale) == [version |-> body[s], at |-> meta[s].at, stale |-> stale]

\* 304: the validators are those of what is served.
Confirm ==
  /\ pc = "ask"
  /\ meta[cur].tag = upstream[cur]
  /\ HasCached(cur)
  /\ Ask(cur)
  /\ Got(cur, Fallback(cur, FALSE))
  /\ UNCHANGED <<clock, upstream, cacheVars, status, checked, arrived, publicVars,
                 received, worked, failing, faults>>

\* A network failure, another status or a body over the limit.
Reuse ==
  /\ Fault("down")
  /\ pc = "ask"
  /\ HasCached(cur)
  /\ Ask(cur)
  /\ Got(cur, Fallback(cur, TRUE))
  /\ UNCHANGED <<clock, upstream, cacheVars, status, checked, arrived, publicVars,
                 received, worked, failing>>

-----------------------------------------------------------------------------
(* The end of a run: the status document says when it was started, how it  *)
(* ended and what it used, which after a failure is nothing.               *)

Forget ==
  /\ pc' = "idle" /\ cur' = "satcat" /\ checked' = Nothing
  /\ arrived' = NoArrival /\ payload' = NoPayloads
  /\ asked' = [s \in Sources |-> Nothing]

Report(sources) ==
  /\ Forget
  /\ status' = [checked |-> checked, sources |-> sources]
  /\ IF sources = NoPayloads
     THEN /\ failing' = IF failing = Nothing THEN clock ELSE failing
          /\ worked' = worked
     ELSE failing' = Nothing /\ worked' = clock
  /\ UNCHANGED <<clock, upstream, cacheVars, received>>

\* There is no body or no instant to fall back to, be it after a failure or
\* after a 304: SourceFetchError.
Unavailable ==
  /\ pc = "ask"
  /\ ~ HasCached(cur)
  /\ \/ Fault("down")
     \/ meta[cur].tag = upstream[cur] /\ UNCHANGED faults
  /\ Public!Abandoned
  /\ Report(NoPayloads)

Merged == [s \in Sources |-> payload[s].version]

\* A parser or a count gate refuses.
Reject ==
  /\ pc = "merge"
  /\ Merged \notin Sound
  /\ Public!Abandoned
  /\ Report(NoPayloads)
  /\ UNCHANGED faults

Merge ==
  /\ pc = "merge"
  /\ Merged \in Sound
  /\ Public!Begin(Merged)
  /\ pc' = "judge"
  /\ UNCHANGED <<clock, upstream, cacheVars, status, cur, checked, arrived, payload,
                 historyVars>>

RefuseDrop ==
  /\ pc = "judge"
  /\ Public!DropsTooMuch(public, job)
  /\ Public!EndFailed
  /\ Report(NoPayloads)
  /\ UNCHANGED faults

KeepUnchanged ==
  /\ pc = "judge"
  /\ Public!EndUnchanged
  /\ Report(payload)
  /\ UNCHANGED faults

Publish ==
  /\ pc = "judge"
  /\ Public!Publish
  /\ pc' = "report"
  /\ UNCHANGED <<clock, upstream, cacheVars, status, cur, checked, arrived, payload,
                 historyVars>>

ReportPublished ==
  /\ pc = "report"
  /\ Public!EndPublished
  /\ Report(payload)
  /\ UNCHANGED faults

\* An OSError of the cache or of the publication: the run says that it failed.
DiskFails ==
  /\ Fault("disk")
  /\ \/ pc \in {"write", "stamp"} /\ Public!Abandoned
     \/ pc \in {"judge", "report"} /\ Public!EndFailed
  /\ Report(NoPayloads)

\* A kill, or an error that leaves the run: no status is written.
Crash ==
  /\ Fault("crash")
  /\ pc # "idle"
  /\ IF job = None THEN UNCHANGED publicVars ELSE Public!Killed
  /\ Forget
  /\ UNCHANGED <<clock, upstream, cacheVars, status, received, worked, failing>>

\* A cached body that cannot be read any more; its validators still are.
LoseBody(s) ==
  /\ Fault("lost")
  /\ pc = "idle"
  /\ body[s] # Nothing
  /\ body' = [body EXCEPT ![s] = Nothing]
  /\ UNCHANGED <<clock, upstream, meta, status, processVars, publicVars, asked,
                 received, worked, failing>>

\* Validators that do not load are taken for none.
LoseMeta(s) ==
  /\ Fault("lost")
  /\ pc = "idle"
  /\ meta[s] # NoMeta
  /\ meta' = [meta EXCEPT ![s] = NoMeta]
  /\ UNCHANGED <<clock, upstream, body, status, processVars, publicVars, asked,
                 received, worked, failing>>

-----------------------------------------------------------------------------
Run ==
  \/ Start \/ Receive \/ WriteBody \/ WriteMeta \/ Confirm
  \/ Unavailable \/ Reject \/ Merge \/ RefuseDrop \/ KeepUnchanged \/ Publish \/ ReportPublished

Next ==
  \/ Tick
  \/ \E s \in Sources : SourceMoves(s)
  \/ Run
  \/ Reuse \/ DiskFails \/ Crash
  \/ \E s \in Sources : LoseBody(s) \/ LoseMeta(s)

Spec == Init /\ [][Next]_vars

\* The timer starts runs for ever, and a run keeps going: requests time out.
FairSpec == Spec /\ WF_vars(Run)

-----------------------------------------------------------------------------
(* health.py, on the status document.                                      *)

AgeSeverity(age) ==
  CASE age >= Critical -> "critical"
    [] age >= Warning /\ age < Critical -> "warning"
    [] OTHER -> "ok"

\* Faulty variant: a failed run is only looked at for its age.
CheckCatalog_AgeOnly ==
  IF status.checked = Nothing THEN "critical" ELSE AgeSeverity(clock - status.checked)

\* _check_catalog: the age of the last run, and at least a warning if it failed.
CheckCatalog ==
  CASE status.checked = Nothing -> "critical"
    [] status.checked # Nothing /\ outcome = "failed"
         /\ AgeSeverity(clock - status.checked) = "ok" -> "warning"
    [] OTHER -> AgeSeverity(clock - status.checked)

\* _check_public_tree: the manifest resolves and has records.
CheckPublicTree == IF public = None \/ CountOf[public] = 0 THEN "critical" ELSE "ok"

-----------------------------------------------------------------------------
(* Properties.                                                             *)

\* The type invariant.
TypeOK ==
  /\ clock \in Times
  /\ upstream \in [Sources -> Versions]
  /\ body \in [Sources -> Versions \cup {Nothing}]
  /\ meta \in [Sources -> Meta]
  /\ status \in [checked : Times \cup {Nothing}, sources : [Sources -> Payload]]
  /\ pc \in Points
  /\ cur \in Sources
  /\ checked \in Times \cup {Nothing}
  /\ arrived \in Arrived
  /\ payload \in [Sources -> Payload]
  /\ public \in Contents \cup {None}
  /\ job \in Contents \cup {None}
  /\ switched \in BOOLEAN
  /\ outcome \in {"none", "failed", "unchanged", "published"}
  /\ asked \in [Sources -> Versions \cup {Nothing}]
  /\ received \in [Sources -> [Versions -> Times \cup {Nothing}]]
  /\ worked \in Times
  /\ failing \in Times \cup {Nothing}
  /\ faults \in 0 .. MaxFaults

\* The cache answers for its validators (get, _fallback): a payload that is not
\* marked stale is what the source served when this run asked for it, although
\* a kill may part the body from its validators.
FreshIsCurrent ==
  \A s \in Sources :
    ~ payload[s].stale => payload[s].version = asked[s]

\* Provenance (_source_status): the catalogue that is public is at least as
\* recent, source by source, as the status document claims, whichever runs were
\* killed or fell back to the cache since.
ProvenanceIsHonest ==
  \A s \in Sources :
    status.sources[s] # NoPayload =>
      public # None /\ status.sources[s].at <= received[s][public[s]]

\* check-health is green only while runs succeed: a run that failed, was killed
\* or never came shows before the warning age is over, and what is served has
\* records (_check_catalog, _check_public_tree).
GreenMeansWorking ==
  CheckCatalog = "ok" => clock - worked < Warning /\ CheckPublicTree = "ok"

\* The public catalogue follows its sources: once they stop moving it is what
\* they serve, unless the gates refuse that.  No kill between a body and its
\* validators and no body that did not parse keeps the cache from catching up;
\* a body lost while its validators are still good does, until the source moves.
FollowsUpstream ==
  []<>(\/ public = upstream
       \/ \E s \in Sources : body[s] = Nothing /\ meta[s].tag = upstream[s]
       \/ upstream \notin Sound
       \/ Public!DropsTooMuch(public, upstream))

\* health.py, on a run that failed: `if it keeps failing the age gate above
\* escalates it on its own'.
FailingEscalates ==
  failing # Nothing /\ clock - failing >= Critical => CheckCatalog = "critical"

=============================================================================
