------------------------- MODULE CatalogUpdateProofs -------------------------
(***************************************************************************)
(* What the source cache guarantees for any number of versions, any length *)
(* of the history, and any kills, failures and losses.                     *)
(***************************************************************************)
EXTENDS CatalogUpdate, TLAPS

Fetching == pc \in {"ask", "write", "stamp"}

\* The volume: of two files that were not written together, the body is the
\* newer one, and neither is ahead of the source.
CacheTrails ==
  \A s \in Sources :
    /\ upstream[s] \in Nat
    /\ meta[s].tag \in Int /\ meta[s].tag <= upstream[s]
    /\ body[s] \in Int /\ Nothing <= body[s] /\ body[s] <= upstream[s]
    /\ body[s] # Nothing => meta[s].tag <= body[s]

\* The process: what has arrived is what it asked for.
Arriving ==
  /\ cur \in Sources
  /\ pc \in {"write", "stamp"} =>
       /\ arrived.version \in Nat /\ arrived.version = asked[cur]
       /\ meta[cur].tag <= arrived.version /\ arrived.version <= upstream[cur]
  /\ pc = "stamp" => body[cur] = arrived.version

\* A source that is still to be asked for has no payload yet.
Pending ==
  /\ Fetching => payload[cur].stale
  /\ Fetching /\ cur = "satcat" => payload["gcat"].stale
  /\ pc = "idle" => payload = NoPayloads /\ cur = "satcat"

Shapes ==
  /\ upstream = [s \in Sources |-> upstream[s]]
  /\ body = [s \in Sources |-> body[s]]
  /\ meta = [s \in Sources |-> meta[s]]
  /\ payload = [s \in Sources |-> payload[s]]
  /\ asked = [s \in Sources |-> asked[s]]

CacheInv == Shapes /\ CacheTrails /\ Arriving /\ Pending /\ FreshIsCurrent

LEMMA CacheInit == Init => CacheInv
BY DEF Init, CacheInv, Shapes, CacheTrails, Arriving, Pending, FreshIsCurrent, Fetching,
       NoMeta, NoPayloads, NoPayload, Nothing, Sources

\* Steps that concern neither the cache nor what is in flight.
LEMMA CacheIdle ==
  ASSUME CacheInv,
         UNCHANGED <<upstream, cacheVars, cur, arrived, payload, asked>>,
         \/ pc' = pc
         \/ pc' \in {"judge", "report"}
         \/ pc = "idle" /\ pc' = "ask"
  PROVE  CacheInv'
BY DEF CacheInv, Shapes, CacheTrails, Arriving, Pending, FreshIsCurrent, Fetching,
       cacheVars, NoPayloads, NoPayload, Sources

\* A run that ends, in whichever way, forgets what it has and leaves the cache.
LEMMA CacheForget ==
  ASSUME CacheInv, Forget, UNCHANGED <<upstream, cacheVars>>
  PROVE  CacheInv'
BY DEF CacheInv, Shapes, CacheTrails, Arriving, Pending, FreshIsCurrent, Fetching,
       Forget, cacheVars, NoPayloads, NoPayload, Sources

LEMMA CacheMoves ==
  ASSUME CacheInv, NEW s \in Sources, SourceMoves(s)
  PROVE  CacheInv'
BY DEF CacheInv, Shapes, CacheTrails, Arriving, Pending, FreshIsCurrent, Fetching,
       SourceMoves, cacheVars, processVars, historyVars

LEMMA CacheLoses ==
  ASSUME CacheInv, NEW s \in Sources, LoseBody(s)
  PROVE  CacheInv'
<1>1. body' = [body EXCEPT ![s] = Nothing] /\ pc = "idle" /\ pc' = pc
  BY DEF LoseBody, processVars
<1>2. UNCHANGED <<upstream, meta, cur, arrived, payload, asked>>
  BY DEF LoseBody, processVars
<1> QED
  BY <1>1, <1>2 DEF CacheInv, Shapes, CacheTrails, Arriving, Pending, FreshIsCurrent,
                    Fetching, Nothing

LEMMA CacheLosesMeta ==
  ASSUME CacheInv, NEW s \in Sources, LoseMeta(s)
  PROVE  CacheInv'
<1>1. meta' = [meta EXCEPT ![s] = NoMeta] /\ pc = "idle" /\ pc' = pc
  BY DEF LoseMeta, processVars
<1>2. UNCHANGED <<upstream, body, cur, arrived, payload, asked>>
  BY DEF LoseMeta, processVars
<1> QED
  BY <1>1, <1>2 DEF CacheInv, Shapes, CacheTrails, Arriving, Pending, FreshIsCurrent,
                    Fetching, Nothing, NoMeta

LEMMA CacheReceives ==
  ASSUME CacheInv, Receive \/ WriteBody \/ WriteMeta
  PROVE  CacheInv'
<1> USE DEF CacheInv, Shapes, CacheTrails, Arriving, Pending, FreshIsCurrent, Fetching
<1>1. CASE Receive
  <2>1. /\ pc = "ask" /\ pc' = "write" /\ arrived' = [version |-> upstream[cur], at |-> Nothing]
        /\ asked' = [asked EXCEPT ![cur] = upstream[cur]]
        /\ UNCHANGED <<upstream, body, meta, cur, payload>>
    BY <1>1 DEF Receive, Ask, cacheVars
  <2>2. cur \in Sources /\ payload[cur].stale
    BY <2>1
  <2>3. arrived'.version = upstream[cur] /\ asked'[cur] = upstream[cur]
    BY <2>1, <2>2
  <2>4. FreshIsCurrent'
    BY <2>1, <2>2
  <2>5. Shapes' /\ CacheTrails' /\ Pending'
    BY <2>1, <2>2
  <2>6. Arriving'
    BY <2>1, <2>2, <2>3
  <2> QED
    BY <2>4, <2>5, <2>6
<1>2. CASE WriteBody
  BY <1>2 DEF WriteBody, Nothing
<1>3. CASE WriteMeta
  <2> DEFINE p == [version |-> arrived.version, at |-> arrived.at, stale |-> FALSE]
             n == [tag |-> arrived.version, at |-> arrived.at]
  <2>1. /\ pc = "stamp" /\ meta' = [meta EXCEPT ![cur] = n]
        /\ payload' = [payload EXCEPT ![cur] = p]
        /\ UNCHANGED <<upstream, body, asked>>
        /\ pc' \in {"ask", "merge"} /\ (pc' = "ask" => cur = "satcat" /\ cur' = "gcat")
        /\ (pc' = "merge" => cur' = cur)
    BY <1>3 DEF WriteMeta, Got, historyVars
  <2>2. cur \in Sources /\ arrived.version = asked[cur] /\ arrived.version \in Int
        /\ arrived.version <= upstream[cur] /\ body[cur] = arrived.version
    BY <2>1
  <2>3. n.tag = arrived.version /\ p.version = arrived.version /\ ~ p.stale
    OBVIOUS
  <2>4. meta'[cur] = n /\ \A s \in Sources \ {cur} : meta'[s] = meta[s]
    BY <2>1, <2>2
  <2>5. payload'[cur] = p /\ \A s \in Sources \ {cur} : payload'[s] = payload[s]
    BY <2>1, <2>2
  <2> HIDE DEF n, p
  <2>6. CacheTrails'
    BY <2>1, <2>2, <2>3, <2>4
  <2>7. FreshIsCurrent'
    BY <2>1, <2>2, <2>3, <2>5
  <2>8. Shapes'
    BY <2>1
  <2>9. Pending'
    BY <2>1, <2>5 DEF Sources
  <2>10. Arriving'
    BY <2>1, <2>2 DEF Sources
  <2> QED
    BY <2>6, <2>7, <2>8, <2>9, <2>10
<1> QED
  BY <1>1, <1>2, <1>3

\* A 304 is for the validators of what is served: the body, between the two, is
\* just that.
LEMMA CacheConfirms ==
  ASSUME CacheInv, Confirm \/ Reuse
  PROVE  CacheInv'
<1>1. CASE Confirm
  <2>1. body[cur] = upstream[cur]
    BY <1>1 DEF Confirm, HasCached, CacheInv, CacheTrails, Arriving, Nothing
  <2> QED
    BY <1>1, <2>1 DEF Confirm, Ask, Got, Fallback, cacheVars, CacheInv, Shapes, CacheTrails,
                      Arriving, Pending, FreshIsCurrent, Fetching, Sources
<1>2. CASE Reuse
  BY <1>2 DEF Reuse, Ask, Got, Fallback, cacheVars, CacheInv, Shapes, CacheTrails,
              Arriving, Pending, FreshIsCurrent, Fetching, Sources
<1> QED
  BY <1>1, <1>2

LEMMA CacheStep == CacheInv /\ [Next]_vars => CacheInv'
<1> SUFFICES ASSUME CacheInv, [Next]_vars PROVE CacheInv'
  OBVIOUS
<1>1. CASE \/ Tick \/ Start \/ Merge \/ Publish \/ UNCHANGED vars
  <2>1. UNCHANGED <<upstream, cacheVars, cur, arrived, payload, asked>>
    BY <1>1 DEF Tick, Start, Merge, Publish, vars, processVars, historyVars, CacheInv,
                Pending
  <2>2. pc' = pc \/ pc' \in {"judge", "report"} \/ (pc = "idle" /\ pc' = "ask")
    BY <1>1 DEF Tick, Start, Merge, Publish, vars, processVars
  <2> QED
    BY <2>1, <2>2, CacheIdle
<1>2. ASSUME NEW s \in Sources, SourceMoves(s) PROVE CacheInv'
  BY <1>2, CacheMoves
<1>3. CASE Receive \/ WriteBody \/ WriteMeta
  BY <1>3, CacheReceives
<1>4. CASE Confirm \/ Reuse
  BY <1>4, CacheConfirms
<1>5. CASE \/ Unavailable \/ Reject \/ RefuseDrop \/ KeepUnchanged \/ ReportPublished
           \/ DiskFails \/ Crash
  <2>1. Forget /\ UNCHANGED <<upstream, cacheVars>>
    BY <1>5 DEF Unavailable, Reject, RefuseDrop, KeepUnchanged, ReportPublished, DiskFails,
                Crash, Report
  <2> QED
    BY <2>1, CacheForget
<1>6. ASSUME NEW s \in Sources, LoseBody(s) PROVE CacheInv'
  BY <1>6, CacheLoses
<1>7. ASSUME NEW s \in Sources, LoseMeta(s) PROVE CacheInv'
  BY <1>7, CacheLosesMeta
<1> QED
  BY <1>1, <1>2, <1>3, <1>4, <1>5, <1>6, <1>7 DEF Next, Run

\* What the cache hands on as fresh is what the source served when it was asked,
\* whatever was killed, lost or refused before.
THEOREM CacheAnswersForValidators == Spec => []FreshIsCurrent
<1>1. CacheInv => FreshIsCurrent
  BY DEF CacheInv
<1> QED
  BY <1>1, CacheInit, CacheStep, PTL DEF Spec

-----------------------------------------------------------------------------
(* The type invariant.                                                     *)

\* The body that is on its way is one the source serves; once it is written, the
\* instant of its arrival is known.
ArrivedInv ==
  /\ pc = "write" => arrived.version \in Versions
  /\ pc = "stamp" => arrived.version \in Versions /\ arrived.at \in Times

TypeInv == TypeOK /\ ArrivedInv

LEMMA Bounds ==
  /\ MaxClock \in Nat /\ MaxFaults \in Nat /\ Warning \in Nat /\ Critical \in Nat
  /\ Versions \subseteq Nat /\ \A s \in Sources : 0 .. LastVersion[s] \subseteq Versions
  /\ 0 \in Versions /\ 0 \in Times /\ Times \subseteq Nat
<1>1. {Warning, Critical, MaxClock, MaxFaults} \subseteq Nat
      /\ LastVersion \in [Sources -> Nat]
  BY UpdateAssumption
<1>2. \A s \in Sources : 0 .. LastVersion[s] \subseteq Versions /\ 0 .. LastVersion[s] \subseteq Nat
                         /\ 0 \in 0 .. LastVersion[s]
  BY <1>1 DEF Versions
<1>3. Versions \subseteq Nat /\ 0 \in Versions
  BY <1>2 DEF Versions, Sources
<1> QED
  BY <1>1, <1>2, <1>3 DEF Times

LEMMA NoneTyped ==
  /\ NoPayload \in Payload /\ NoPayloads \in [Sources -> Payload] /\ NoMeta \in Meta
  /\ NoArrival \in Arrived
BY DEF NoPayload, NoPayloads, Payload, NoMeta, Meta, NoArrival, Arrived

LEMMA TypeInit == Init => TypeInv
<1> SUFFICES ASSUME Init PROVE TypeInv
  OBVIOUS
<1>1. /\ clock \in Times /\ worked \in Times /\ faults \in 0 .. MaxFaults
      /\ upstream \in [Sources -> Versions] /\ body \in [Sources -> Versions \cup {Nothing}]
      /\ asked \in [Sources -> Versions \cup {Nothing}] /\ failing \in Times \cup {Nothing}
      /\ received \in [Sources -> [Versions -> Times \cup {Nothing}]]
  BY Bounds DEF Init
<1>2. /\ meta \in [Sources -> Meta] /\ payload \in [Sources -> Payload] /\ arrived \in Arrived
      /\ status \in [checked : Times \cup {Nothing}, sources : [Sources -> Payload]]
  BY NoneTyped DEF Init
<1>3. /\ pc = "idle" /\ cur \in Sources /\ checked \in Times \cup {Nothing}
  BY DEF Init, Sources
<1>4. /\ public \in Contents \cup {None} /\ job \in Contents \cup {None} /\ switched \in BOOLEAN
      /\ outcome \in {"none", "failed", "unchanged", "published"}
  BY DEF Init, Public!Init
<1> QED
  BY <1>1, <1>2, <1>3, <1>4 DEF TypeInv, TypeOK, ArrivedInv, Points

LEMMA FaultTyped ==
  ASSUME TypeInv, (\E kind \in Faults : Fault(kind)) \/ faults' = faults
  PROVE  faults' \in 0 .. MaxFaults
<1>1. faults \in 0 .. MaxFaults
  BY DEF TypeInv, TypeOK
<1> QED
  BY <1>1, Bounds DEF Fault

\* The payload that is handed on is typed, and where the run goes is one of the
\* points that await no body.
LEMMA TypeGot ==
  ASSUME TypeInv, NEW p \in Payload, Got(cur, p)
  PROVE  /\ payload' \in [Sources -> Payload] /\ pc' \in {"ask", "merge"}
         /\ pc' \in Points /\ cur' \in Sources
BY DEF Got, TypeInv, TypeOK, Points, Sources

LEMMA TypeForget ==
  Forget => /\ pc' \in Points /\ pc' = "idle" /\ cur' \in Sources
            /\ checked' \in Times \cup {Nothing} /\ arrived' \in Arrived
            /\ payload' \in [Sources -> Payload]
            /\ asked' \in [Sources -> Versions \cup {Nothing}]
BY NoneTyped DEF Forget, Points, Sources

\* A run that writes its status document.
LEMMA TypeReport ==
  ASSUME TypeInv, NEW sources \in [Sources -> Payload], Report(sources),
         public' \in Contents \cup {None}, job' \in Contents \cup {None},
         switched' \in BOOLEAN, outcome' \in {"none", "failed", "unchanged", "published"},
         faults' \in 0 .. MaxFaults
  PROVE  TypeInv'
<1>1. status' \in [checked : Times \cup {Nothing}, sources : [Sources -> Payload]]
  BY DEF Report, TypeInv, TypeOK
<1>2. worked' \in Times /\ failing' \in Times \cup {Nothing}
  BY DEF Report, TypeInv, TypeOK
<1>3. Forget /\ UNCHANGED <<clock, upstream, body, meta, received>>
  BY DEF Report, cacheVars
<1> QED
  BY <1>1, <1>2, <1>3, TypeForget DEF TypeInv, TypeOK, ArrivedInv

LEMMA TypeEnds ==
  ASSUME TypeInv,
         Unavailable \/ Reject \/ RefuseDrop \/ KeepUnchanged \/ ReportPublished \/ DiskFails
  PROVE  TypeInv'
<1>1. PICK sources \in [Sources -> Payload] : Report(sources)
  BY NoneTyped DEF Unavailable, Reject, RefuseDrop, KeepUnchanged, ReportPublished, DiskFails,
                   TypeInv, TypeOK
<1>2. public' = public /\ switched' \in BOOLEAN /\ job' \in Contents \cup {None}
      /\ outcome' \in {"none", "failed", "unchanged", "published"}
  BY DEF Unavailable, Reject, RefuseDrop, KeepUnchanged, ReportPublished, DiskFails,
         Public!Abandoned, Public!EndFailed, Public!EndUnchanged, Public!EndPublished,
         Public!End, Public!Leave, TypeInv, TypeOK
<1>3. faults' \in 0 .. MaxFaults
  BY Bounds DEF Unavailable, Reject, RefuseDrop, KeepUnchanged, ReportPublished, DiskFails,
                Fault, TypeInv, TypeOK
<1> QED
  BY <1>1, <1>2, <1>3, TypeReport DEF TypeInv, TypeOK

LEMMA TypeAsks ==
  ASSUME TypeInv, Receive \/ WriteBody \/ WriteMeta \/ Confirm \/ Reuse
  PROVE  TypeInv'
<1>0. cur \in Sources /\ clock \in Times
  BY DEF TypeInv, TypeOK
<1>1. CASE Receive
  <2>1. asked' \in [Sources -> Versions \cup {Nothing}]
    BY <1>0, <1>1 DEF Receive, Ask, TypeInv, TypeOK
  <2>2. arrived' \in Arrived /\ arrived'.version \in Versions
    BY <1>0, <1>1 DEF Receive, Arrived, TypeInv, TypeOK
  <2> QED
    BY <1>1, <2>1, <2>2 DEF Receive, cacheVars, publicVars, TypeInv, TypeOK, ArrivedInv, Points
<1>2. CASE WriteBody
  <2>1. arrived.version \in Versions /\ arrived \in Arrived
    BY <1>2 DEF WriteBody, TypeInv, TypeOK, ArrivedInv
  <2>2. arrived' \in Arrived /\ arrived'.version \in Versions /\ arrived'.at \in Times
    BY <1>0, <1>2, <2>1 DEF WriteBody, Arrived
  <2>3. body' \in [Sources -> Versions \cup {Nothing}]
    BY <1>0, <1>2, <2>1 DEF WriteBody, TypeInv, TypeOK
  <2>4. received' \in [Sources -> [Versions -> Times \cup {Nothing}]]
    BY <1>0, <1>2, <2>1 DEF WriteBody, TypeInv, TypeOK
  <2> QED
    BY <1>2, <2>2, <2>3, <2>4 DEF WriteBody, publicVars, TypeInv, TypeOK, ArrivedInv, Points
<1>3. CASE WriteMeta
  <2> DEFINE p == [version |-> arrived.version, at |-> arrived.at, stale |-> FALSE]
             m == [tag |-> arrived.version, at |-> arrived.at]
  <2>1. p \in Payload /\ m \in Meta
    BY <1>3 DEF WriteMeta, TypeInv, ArrivedInv, Payload, Meta
  <2>2. Got(cur, p) /\ meta' = [meta EXCEPT ![cur] = m] /\ arrived' = NoArrival
    BY <1>3 DEF WriteMeta
  <2> HIDE DEF p, m
  <2>3. meta' \in [Sources -> Meta]
    BY <2>1, <2>2 DEF TypeInv, TypeOK
  <2>4. /\ payload' \in [Sources -> Payload] /\ pc' \in {"ask", "merge"}
        /\ pc' \in Points /\ cur' \in Sources
    BY <2>1, <2>2, TypeGot
  <2> QED
    BY <1>3, <2>2, <2>3, <2>4, NoneTyped
    DEF WriteMeta, publicVars, historyVars, TypeInv, TypeOK, ArrivedInv
<1>4. CASE Confirm \/ Reuse
  <2>1. PICK stale \in BOOLEAN : Got(cur, Fallback(cur, stale))
    BY <1>4 DEF Confirm, Reuse
  <2>2. Fallback(cur, stale) \in Payload
    BY <1>0, <1>4 DEF Confirm, Reuse, HasCached, Fallback, Payload, Meta, TypeInv, TypeOK
  <2>3. /\ payload' \in [Sources -> Payload] /\ pc' \in {"ask", "merge"}
        /\ pc' \in Points /\ cur' \in Sources
    BY <2>1, <2>2, TypeGot
  <2>4. asked' \in [Sources -> Versions \cup {Nothing}]
    BY <1>0, <1>4 DEF Confirm, Reuse, Ask, TypeInv, TypeOK
  <2>5. faults' \in 0 .. MaxFaults
    BY <1>4, FaultTyped DEF Confirm, Reuse, Fault
  <2> QED
    BY <1>4, <2>3, <2>4, <2>5
    DEF Confirm, Reuse, cacheVars, publicVars, TypeInv, TypeOK, ArrivedInv
<1> QED
  BY <1>1, <1>2, <1>3, <1>4

LEMMA TypeStep == TypeInv /\ [Next]_vars => TypeInv'
<1> SUFFICES ASSUME TypeInv, [Next]_vars PROVE TypeInv'
  OBVIOUS
<1>1. CASE Tick
  <2>1. clock' \in Times
    BY <1>1, Bounds DEF Tick, Times, TypeInv, TypeOK
  <2> QED
    BY <1>1, <2>1 DEF Tick, cacheVars, processVars, publicVars, historyVars, TypeInv, TypeOK,
                      ArrivedInv
<1>2. ASSUME NEW s \in Sources, SourceMoves(s) PROVE TypeInv'
  <2>1. upstream[s] \in Nat /\ LastVersion[s] \in Nat /\ upstream[s] < LastVersion[s]
    BY <1>2, Bounds, UpdateAssumption DEF SourceMoves, TypeInv, TypeOK
  <2>2. upstream[s] + 1 \in 0 .. LastVersion[s]
    BY <2>1
  <2>3. upstream[s] + 1 \in Versions
    BY <2>2, Bounds
  <2>4. upstream' \in [Sources -> Versions]
    BY <1>2, <2>3 DEF SourceMoves, TypeInv, TypeOK
  <2> QED
    BY <1>2, <2>4 DEF SourceMoves, cacheVars, processVars, publicVars, historyVars, TypeInv,
                      TypeOK, ArrivedInv
<1>3. CASE Start
  BY <1>3 DEF Start, cacheVars, publicVars, historyVars, TypeInv, TypeOK, ArrivedInv, Points,
              Sources
<1>4. CASE Receive \/ WriteBody \/ WriteMeta \/ Confirm \/ Reuse
  BY <1>4, TypeAsks
<1>5. CASE Unavailable \/ Reject \/ RefuseDrop \/ KeepUnchanged \/ ReportPublished \/ DiskFails
  BY <1>5, TypeEnds
<1>6. CASE Merge
  BY <1>6, UpdateAssumption
  DEF Merge, Public!Begin, cacheVars, historyVars, TypeInv, TypeOK, ArrivedInv, Points
<1>7. CASE Publish
  BY <1>7 DEF Publish, Public!Publish, cacheVars, historyVars, TypeInv, TypeOK, ArrivedInv,
              Points
<1>8. CASE Crash
  <2>1. public' = public /\ job' \in Contents \cup {None} /\ switched' \in BOOLEAN
        /\ outcome' = outcome
    BY <1>8 DEF Crash, publicVars, Public!Killed, Public!Leave, TypeInv, TypeOK
  <2>2. faults' \in 0 .. MaxFaults
    BY <1>8, Bounds DEF Crash, Fault, TypeInv, TypeOK
  <2> QED
    BY <1>8, <2>1, <2>2, TypeForget DEF Crash, cacheVars, TypeInv, TypeOK, ArrivedInv
<1>9. ASSUME NEW s \in Sources, LoseBody(s) \/ LoseMeta(s) PROVE TypeInv'
  <2>1. body' \in [Sources -> Versions \cup {Nothing}] /\ meta' \in [Sources -> Meta]
    BY <1>9, NoneTyped DEF LoseBody, LoseMeta, TypeInv, TypeOK
  <2>2. faults' \in 0 .. MaxFaults
    BY <1>9, FaultTyped DEF LoseBody, LoseMeta, Fault
  <2> QED
    BY <1>9, <2>1, <2>2 DEF LoseBody, LoseMeta, processVars, publicVars, TypeInv, TypeOK, ArrivedInv
<1>10. CASE UNCHANGED vars
  BY <1>10 DEF vars, cacheVars, processVars, publicVars, historyVars, TypeInv, TypeOK,
               ArrivedInv
<1> QED
  BY <1>1, <1>2, <1>3, <1>4, <1>5, <1>6, <1>7, <1>8, <1>9, <1>10 DEF Next, Run

\* The type invariant of the catalogue run: in particular no payload without a
\* version or an instant ever reaches the merge.
THEOREM TypeCorrect == Spec => []TypeOK
<1>1. TypeInv => TypeOK
  BY DEF TypeInv
<1> QED
  BY <1>1, TypeInit, TypeStep, PTL DEF Spec

-----------------------------------------------------------------------------
(* Provenance.                                                             *)

\* Version `v' of a source is the newest that was ever received of it, and was
\* received at `t' or later.
Newest(s, v, t) ==
  /\ received[s][v] # Nothing /\ t <= received[s][v]
  /\ \A w \in Versions : received[s][w] # Nothing => w <= v

\* A later version is received later, and none before the source serves it.
ReceivedInOrder ==
  \A s \in Sources : \A v \in Versions :
    /\ received[s][v] <= clock
    /\ received[s][v] # Nothing => v <= upstream[s]
    /\ \A w \in Versions : received[s][v] # Nothing /\ received[s][w] # Nothing /\ v < w
                             => received[s][v] <= received[s][w]

\* A body that is kept is the newest ever received, and its instant is not after
\* that of its reception, wherever a run was killed between the two files.
KeptIsNewest ==
  \A s \in Sources :
    /\ meta[s].at <= clock
    /\ body[s] # Nothing => Newest(s, body[s], meta[s].at)

\* So is the body on its way, and every payload in memory; a source has none
\* until it has answered.
CarriedIsNewest ==
  /\ pc \in {"write", "stamp"} =>
       \A w \in Versions : received[cur][w] # Nothing => w <= arrived.version
  /\ pc = "stamp" => Newest(cur, arrived.version, arrived.at)
  /\ Fetching => payload[cur] = NoPayload
  /\ Fetching /\ cur = "satcat" => payload["gcat"] = NoPayload
  /\ \A s \in Sources : payload[s] # NoPayload =>
       Newest(s, payload[s].version, payload[s].at)

\* What is merged is what both payloads hold, and only that becomes public.
MergedIsJob ==
  /\ Fetching /\ cur = "gcat" => payload["satcat"] # NoPayload
  /\ pc \in {"merge", "judge", "report"} => \A s \in Sources : payload[s] # NoPayload
  /\ pc \in {"judge", "report"} => job = Merged
  /\ pc = "report" => public = job
  /\ pc \notin {"judge", "report"} => job = None

\* The versions that are public have been received.
PublicReceived ==
  public # None => \A s \in Sources : received[s][public[s]] # Nothing

OriginInv ==
  ReceivedInOrder /\ KeptIsNewest /\ CarriedIsNewest /\ MergedIsJob /\ PublicReceived
    /\ ProvenanceIsHonest

LEMMA OriginInit == Init => OriginInv
<1> SUFFICES ASSUME Init PROVE OriginInv
  OBVIOUS
<1>1. \A s \in Sources : \A v \in Versions : received[s][v] = Nothing
  BY DEF Init
<1>2. \A s \in Sources : /\ body[s] = Nothing /\ meta[s].at = Nothing
                         /\ payload[s] = NoPayload /\ status.sources[s] = NoPayload
  BY DEF Init, NoMeta, NoPayloads
<1>3. pc = "idle" /\ job = None /\ public = None /\ clock = 0
  BY DEF Init, Public!Init
<1>4. -1 <= 0 /\ Nothing = -1
  BY DEF Nothing
<1> QED
  BY <1>1, <1>2, <1>3, <1>4
  DEF OriginInv, ReceivedInOrder, KeptIsNewest, CarriedIsNewest, MergedIsJob, PublicReceived,
      ProvenanceIsHonest, Fetching

LEMMA Instants ==
  TypeInv => /\ \A s \in Sources : \A v \in Versions : received[s][v] \in Int
             /\ clock \in Int /\ \A s \in Sources : meta[s].at \in Int
             /\ \A v \in Versions : v \in Int
             /\ \A s \in Sources : payload[s].at \in Int /\ status.sources[s].at \in Int
             /\ \A s \in Sources : payload[s] # NoPayload => payload[s].version \in Versions
<1> SUFFICES ASSUME TypeInv
             PROVE  /\ \A s \in Sources : \A v \in Versions : received[s][v] \in Int
                    /\ clock \in Int /\ \A s \in Sources : meta[s].at \in Int
                    /\ \A v \in Versions : v \in Int
                    /\ \A s \in Sources : payload[s].at \in Int /\ status.sources[s].at \in Int
                    /\ \A s \in Sources : payload[s] # NoPayload =>
                         payload[s].version \in Versions
  OBVIOUS
<1>1. Times \cup {Nothing} \subseteq Int /\ Versions \subseteq Int
  BY Bounds DEF Nothing
<1>2. \A p \in Payload : p.at \in Int /\ (p # NoPayload => p.version \in Versions)
  BY <1>1 DEF Payload, NoPayload
<1>3. \A s \in Sources : payload[s] \in Payload /\ status.sources[s] \in Payload
  BY DEF TypeInv, TypeOK
<1>4. \A s \in Sources : meta[s].at \in Times \cup {Nothing}
  BY DEF TypeInv, TypeOK, Meta
<1>5. \A s \in Sources : \A v \in Versions : received[s][v] \in Times \cup {Nothing}
  BY DEF TypeInv, TypeOK
<1>6. clock \in Times
  BY DEF TypeInv, TypeOK
<1> QED
  BY <1>1, <1>2, <1>3, <1>4, <1>5, <1>6

\* Steps that receive nothing: what was the newest of a source still is.
LEMMA OriginSame ==
  ASSUME TypeInv, OriginInv, received' = received,
         clock' \in Int, clock <= clock', \A s \in Sources : upstream[s] <= upstream'[s],
         \A s \in Sources : upstream[s] \in Int /\ upstream'[s] \in Int
  PROVE  /\ ReceivedInOrder'
         /\ \A s \in Sources : \A v, t : Newest(s, v, t) => Newest(s, v, t)'
<1>1. ReceivedInOrder'
  BY Instants DEF OriginInv, ReceivedInOrder
<1>2. \A s \in Sources : \A v, t : Newest(s, v, t) => Newest(s, v, t)'
  BY DEF Newest
<1> QED
  BY <1>1, <1>2

\* Time, and a source that moves on.
LEMMA OriginWorld ==
  ASSUME TypeInv, CacheInv, OriginInv, Tick \/ \E s \in Sources : SourceMoves(s)
  PROVE  OriginInv'
<1>1. /\ UNCHANGED <<body, meta, status, pc, cur, arrived, payload, public, job, received>>
      /\ clock' \in Int /\ clock <= clock'
      /\ \A s \in Sources : /\ upstream[s] <= upstream'[s]
                            /\ upstream[s] \in Int /\ upstream'[s] \in Int
  <2>1. clock \in Int /\ \A s \in Sources : upstream[s] \in Int
    BY Instants DEF CacheInv, CacheTrails
  <2>2. CASE Tick
    BY <2>1, <2>2 DEF Tick, cacheVars, processVars, publicVars, historyVars
  <2>3. ASSUME NEW s \in Sources, SourceMoves(s)
        PROVE  /\ clock' = clock
               /\ \A q \in Sources : upstream[q] <= upstream'[q] /\ upstream'[q] \in Int
    BY <2>1, <2>3 DEF SourceMoves, CacheInv, Shapes
  <2>4. UNCHANGED <<body, meta, status, pc, cur, arrived, payload, public, job, received>>
    BY DEF Tick, SourceMoves, cacheVars, processVars, publicVars, historyVars
  <2> QED
    BY <2>1, <2>2, <2>3, <2>4
<1>2. ReceivedInOrder' /\ \A s \in Sources : \A v, t : Newest(s, v, t) => Newest(s, v, t)'
  BY <1>1, OriginSame
<1>3. KeptIsNewest'
  BY <1>1, <1>2, Instants DEF OriginInv, KeptIsNewest
<1>4. CarriedIsNewest'
  <2>1. cur \in Sources
    BY DEF TypeInv, TypeOK
  <2> QED
    BY <1>1, <1>2, <2>1 DEF OriginInv, CarriedIsNewest, Fetching, Newest
<1>5. MergedIsJob' /\ PublicReceived' /\ ProvenanceIsHonest'
  BY <1>1 DEF OriginInv, MergedIsJob, PublicReceived, ProvenanceIsHonest, Fetching, Merged
<1> QED
  BY <1>2, <1>3, <1>4, <1>5 DEF OriginInv

\* A run that ends forgets what it has, and what it says of its sources is either
\* nothing, or what the last one said, or what it has published.
LEMMA OriginForget ==
  ASSUME TypeInv, OriginInv, Forget,
         UNCHANGED <<clock, upstream, body, meta, public, received>>, job' = None,
         ProvenanceIsHonest'
  PROVE  OriginInv'
<1>1. /\ pc' = "idle" /\ \A s \in Sources : payload'[s] = NoPayload
  BY DEF Forget, NoPayloads
<1>2. ReceivedInOrder' /\ KeptIsNewest' /\ PublicReceived'
  BY DEF OriginInv, ReceivedInOrder, KeptIsNewest, PublicReceived, Newest
<1>3. CarriedIsNewest' /\ MergedIsJob'
  BY <1>1 DEF CarriedIsNewest, MergedIsJob, Fetching
<1> QED
  BY <1>2, <1>3 DEF OriginInv

LEMMA OriginFailed ==
  ASSUME TypeInv, OriginInv, Unavailable \/ Reject \/ RefuseDrop \/ DiskFails \/ Crash
  PROVE  OriginInv'
<1>1. Forget /\ UNCHANGED <<clock, upstream, body, meta, received>>
  BY DEF Unavailable, Reject, RefuseDrop, DiskFails, Crash, Report, cacheVars
<1>2. public' = public /\ job' = None
  BY DEF Unavailable, Reject, RefuseDrop, DiskFails, Crash, publicVars, Public!Abandoned,
         Public!EndFailed, Public!End, Public!Killed, Public!Leave
<1>3. status'.sources = NoPayloads \/ status' = status
  BY DEF Unavailable, Reject, RefuseDrop, DiskFails, Crash, Report
<1>4. ProvenanceIsHonest'
  BY <1>1, <1>2, <1>3 DEF OriginInv, ProvenanceIsHonest, NoPayloads
<1> QED
  BY <1>1, <1>2, <1>4, OriginForget

\* A run that succeeds says of the public catalogue what its payloads say.
LEMMA OriginSucceeds ==
  ASSUME TypeInv, OriginInv, KeepUnchanged \/ ReportPublished
  PROVE  OriginInv'
<1>1. Forget /\ UNCHANGED <<clock, upstream, body, meta, received>>
      /\ status'.sources = payload
  BY DEF KeepUnchanged, ReportPublished, Report, cacheVars
<1>2. public' = public /\ job' = None /\ public = job /\ job # None /\ job = Merged
  BY DEF KeepUnchanged, ReportPublished, Public!EndUnchanged, Public!EndPublished, Public!End,
         Public!Leave, OriginInv, MergedIsJob
<1>3. ProvenanceIsHonest'
  BY <1>1, <1>2 DEF OriginInv, CarriedIsNewest, Newest, Merged, ProvenanceIsHonest
<1> QED
  BY <1>1, <1>2, <1>3, OriginForget

\* Steps of the run that leave the cache and what is public alone.
LEMMA OriginGoesOn ==
  ASSUME TypeInv, CacheInv, OriginInv, Start \/ Receive \/ Merge
  PROVE  OriginInv'
<1>1. UNCHANGED <<clock, upstream, body, meta, status, payload, public, received>>
  BY DEF Start, Receive, Merge, cacheVars, publicVars, historyVars, Public!Begin
<1>2. ReceivedInOrder' /\ KeptIsNewest' /\ PublicReceived' /\ ProvenanceIsHonest'
  BY <1>1 DEF OriginInv, ReceivedInOrder, KeptIsNewest, PublicReceived, ProvenanceIsHonest,
              Newest
<1>3. \A s \in Sources : payload[s] # NoPayload =>
        Newest(s, payload[s].version, payload[s].at)'
  BY <1>1 DEF OriginInv, CarriedIsNewest, Newest
<1>4. CASE Start
  <2>1. \A s \in Sources : payload'[s] = NoPayload
    BY <1>1, <1>4 DEF Start, CacheInv, Pending, NoPayloads
  <2>2. pc' = "ask" /\ cur' = "satcat" /\ job' = job /\ pc = "idle"
    BY <1>4 DEF Start, publicVars
  <2>3. CarriedIsNewest' /\ MergedIsJob'
    BY <2>1, <2>2 DEF OriginInv, CarriedIsNewest, MergedIsJob, Fetching, Sources
  <2> QED
    BY <1>2, <2>3 DEF OriginInv
<1>5. CASE Receive
  <2>1. /\ pc = "ask" /\ pc' = "write" /\ cur' = cur /\ arrived'.version = upstream[cur]
        /\ job' = job
    BY <1>5 DEF Receive, publicVars
  <2>2. cur \in Sources /\ \A w \in Versions : received[cur][w] # Nothing => w <= upstream[cur]
    BY DEF OriginInv, ReceivedInOrder, TypeInv, TypeOK
  <2>3. CarriedIsNewest' /\ MergedIsJob'
    BY <1>1, <1>3, <2>1, <2>2 DEF OriginInv, CarriedIsNewest, MergedIsJob, Fetching
  <2> QED
    BY <1>2, <2>3 DEF OriginInv
<1>6. CASE Merge
  <2>1. pc = "merge" /\ pc' = "judge" /\ job' = Merged
    BY <1>6 DEF Merge, Public!Begin
  <2>2. Merged' = Merged
    BY <1>1 DEF Merged
  <2>3. CarriedIsNewest' /\ MergedIsJob'
    BY <1>1, <1>3, <2>1, <2>2 DEF OriginInv, CarriedIsNewest, MergedIsJob, Fetching
  <2> QED
    BY <1>2, <2>3 DEF OriginInv
<1> QED
  BY <1>4, <1>5, <1>6

\* What replaces the public catalogue was received no earlier.
LEMMA OriginPublish ==
  ASSUME TypeInv, OriginInv, Publish
  PROVE  OriginInv'
<1>1. /\ UNCHANGED <<clock, upstream, body, meta, status, cur, arrived, payload, received>>
      /\ pc = "judge" /\ pc' = "report" /\ public' = job /\ job' = job /\ job # None
  BY DEF Publish, Public!Publish, cacheVars, historyVars
<1>2. job = Merged /\ \A s \in Sources : payload[s] # NoPayload
  BY <1>1 DEF OriginInv, MergedIsJob
<1>3. \A s \in Sources : /\ job[s] = payload[s].version
                         /\ Newest(s, payload[s].version, payload[s].at)
  BY <1>2 DEF Merged, OriginInv, CarriedIsNewest
<1>4. ReceivedInOrder' /\ KeptIsNewest' /\ CarriedIsNewest'
  BY <1>1 DEF OriginInv, ReceivedInOrder, KeptIsNewest, CarriedIsNewest, Newest, Fetching
<1>5. MergedIsJob' /\ PublicReceived'
  BY <1>1, <1>2, <1>3 DEF MergedIsJob, PublicReceived, Merged, Fetching, Newest
<1>6. ProvenanceIsHonest'
  <2> SUFFICES ASSUME NEW s \in Sources, status.sources[s] # NoPayload
               PROVE  status.sources[s].at <= received[s][payload[s].version]
    BY <1>1, <1>3 DEF ProvenanceIsHonest
  <2>1. public # None /\ status.sources[s].at <= received[s][public[s]]
        /\ received[s][public[s]] # Nothing
    BY DEF OriginInv, ProvenanceIsHonest, PublicReceived
  <2>2. public[s] \in Versions /\ payload[s].version \in Versions
    BY <1>2, <2>1, Instants DEF TypeInv, TypeOK, Contents
  <2>3. received[s][payload[s].version] # Nothing /\ public[s] <= payload[s].version
    BY <1>3, <2>1, <2>2 DEF Newest
  <2>4. received[s][public[s]] <= received[s][payload[s].version]
    <3>1. CASE public[s] = payload[s].version
      BY <2>2, <3>1, Instants
    <3>2. CASE public[s] # payload[s].version
      <4>1. public[s] < payload[s].version
        BY <2>2, <2>3, <3>2, Instants
      <4> QED
        BY <2>1, <2>2, <2>3, <4>1 DEF OriginInv, ReceivedInOrder
    <3> QED
      BY <3>1, <3>2
  <2> QED
    BY <2>1, <2>2, <2>4, Instants
<1> QED
  BY <1>4, <1>5, <1>6 DEF OriginInv

\* A body that has come is the newest of its source, from now on.
LEMMA OriginWriteBody ==
  ASSUME TypeInv, CacheInv, OriginInv, WriteBody
  PROVE  OriginInv'
<1>1. /\ UNCHANGED <<clock, upstream, meta, status, cur, payload, public, job>>
      /\ pc = "write" /\ pc' = "stamp"
  BY DEF WriteBody, publicVars
<1>2. cur \in Sources /\ arrived.version \in Versions /\ arrived \in Arrived
  BY <1>1 DEF TypeInv, TypeOK, ArrivedInv
<1>3. /\ body'[cur] = arrived.version /\ \A s \in Sources \ {cur} : body'[s] = body[s]
      /\ arrived'.version = arrived.version /\ arrived'.at = clock
  BY <1>2 DEF WriteBody, TypeInv, TypeOK, Arrived
<1>4. /\ received'[cur][arrived.version] = clock
      /\ \A w \in Versions \ {arrived.version} : received'[cur][w] = received[cur][w]
      /\ \A s \in Sources \ {cur} : received'[s] = received[s]
  BY <1>2 DEF WriteBody, TypeInv, TypeOK
<1>5. /\ \A w \in Versions : received[cur][w] # Nothing => w <= arrived.version
      /\ arrived.version <= upstream[cur]
  BY <1>1 DEF OriginInv, CarriedIsNewest, CacheInv, Arriving
<1>6. clock \in Int /\ clock # Nothing /\ clock <= clock
  BY Bounds DEF TypeInv, TypeOK, Nothing
<1>7. ReceivedInOrder'
  <2> SUFFICES ASSUME NEW s \in Sources, NEW v \in Versions
               PROVE  /\ received'[s][v] <= clock
                      /\ received'[s][v] # Nothing => v <= upstream[s]
                      /\ \A w \in Versions :
                           received'[s][v] # Nothing /\ received'[s][w] # Nothing /\ v < w
                             => received'[s][v] <= received'[s][w]
    BY <1>1 DEF ReceivedInOrder
  <2>1. CASE s # cur
    BY <1>4, <2>1 DEF OriginInv, ReceivedInOrder
  <2>2. CASE s = cur /\ v = arrived.version
    BY <1>4, <1>5, <1>6, <2>2, Instants
  <2>3. CASE s = cur /\ v # arrived.version
    <3>1. received'[s][v] = received[s][v] /\ received[s][v] <= clock
      BY <1>4, <2>3 DEF OriginInv, ReceivedInOrder
    <3>2. ASSUME NEW w \in Versions, received[s][v] # Nothing, received'[s][w] # Nothing, v < w
          PROVE  received[s][v] <= received'[s][w]
      <4>1. CASE w = arrived.version
        BY <1>4, <2>3, <3>1, <4>1
      <4>2. CASE w # arrived.version
        BY <1>4, <2>3, <3>2, <4>2 DEF OriginInv, ReceivedInOrder
      <4> QED
        BY <4>1, <4>2
    <3> QED
      BY <2>3, <3>1, <3>2 DEF OriginInv, ReceivedInOrder
  <2> QED
    BY <2>1, <2>2, <2>3
<1>8. /\ received'[cur][arrived.version] # Nothing
      /\ \A w \in Versions : received'[cur][w] # Nothing => w <= arrived.version
  BY <1>2, <1>4, <1>5, <1>6, Instants
<1>9. KeptIsNewest'
  <2> SUFFICES ASSUME NEW s \in Sources
               PROVE  /\ meta[s].at <= clock
                      /\ body'[s] # Nothing =>
                           /\ received'[s][body'[s]] # Nothing
                           /\ meta[s].at <= received'[s][body'[s]]
                           /\ \A w \in Versions : received'[s][w] # Nothing => w <= body'[s]
    BY <1>1 DEF KeptIsNewest, Newest
  <2>1. meta[s].at <= clock /\ (body[s] # Nothing => Newest(s, body[s], meta[s].at))
    BY DEF OriginInv, KeptIsNewest
  <2>2. CASE s = cur
    BY <1>3, <1>4, <1>8, <2>1, <2>2
  <2>3. CASE s # cur
    BY <1>3, <1>4, <2>1, <2>3 DEF Newest
  <2> QED
    BY <2>2, <2>3
<1>10. CarriedIsNewest'
  <2>1. payload[cur] = NoPayload
    BY <1>1 DEF OriginInv, CarriedIsNewest, Fetching
  <2>2. \A s \in Sources : payload[s] # NoPayload =>
          /\ received'[s] = received[s] /\ Newest(s, payload[s].version, payload[s].at)
    BY <1>4, <2>1 DEF OriginInv, CarriedIsNewest
  <2>3. clock <= received'[cur][arrived.version]
    BY <1>4, <1>6
  <2>4. cur = "satcat" => payload["gcat"] = NoPayload
    BY <1>1 DEF OriginInv, CarriedIsNewest, Fetching
  <2> QED
    BY <1>1, <1>3, <1>8, <2>1, <2>2, <2>3, <2>4 DEF CarriedIsNewest, Newest, Fetching
<1>11. MergedIsJob'
  BY <1>1 DEF OriginInv, MergedIsJob, Fetching
<1>12. \A s \in Sources : \A v \in Versions : received[s][v] # Nothing =>
         received'[s][v] # Nothing /\ received[s][v] <= received'[s][v]
  BY <1>4, <1>6, Instants DEF OriginInv, ReceivedInOrder
<1>13. \A s \in Sources : public # None => public[s] \in Versions
  BY DEF TypeInv, TypeOK, Contents
<1>14. PublicReceived' /\ ProvenanceIsHonest'
  <2>1. PublicReceived'
    BY <1>1, <1>12, <1>13 DEF OriginInv, PublicReceived
  <2>2. ASSUME NEW s \in Sources, status.sources[s] # NoPayload
        PROVE  public # None /\ status.sources[s].at <= received'[s][public[s]]
    <3>1. /\ public # None /\ status.sources[s].at <= received[s][public[s]]
          /\ received[s][public[s]] # Nothing /\ public[s] \in Versions
      BY <1>13, <2>2 DEF OriginInv, PublicReceived, ProvenanceIsHonest
    <3>2. received[s][public[s]] <= received'[s][public[s]]
      BY <1>12, <3>1
    <3>3. received'[s][public[s]] \in Int
      BY <1>4, <1>6, <3>1, Instants
    <3> QED
      BY <3>1, <3>2, <3>3, Instants
  <2> QED
    BY <1>1, <2>1, <2>2 DEF ProvenanceIsHonest
<1> QED
  BY <1>7, <1>9, <1>10, <1>11, <1>14 DEF OriginInv

\* The validators join their body, or a source answers for what is kept.
LEMMA OriginAnswers ==
  ASSUME TypeInv, CacheInv, OriginInv, WriteMeta \/ Confirm \/ Reuse
  PROVE  OriginInv'
<1>1. PICK p \in Payload :
        /\ Got(cur, p) /\ p # NoPayload /\ Newest(cur, p.version, p.at)
        /\ Fetching /\ UNCHANGED <<clock, upstream, body, status, public, job, received>>
        /\ \/ UNCHANGED meta
           \/ p.version = body[cur] /\ meta' = [meta EXCEPT ![cur] = [tag |-> p.version,
                                                                      at |-> p.at]]
  <2>1. CASE WriteMeta
    <3> DEFINE p == [version |-> arrived.version, at |-> arrived.at, stale |-> FALSE]
    <3>1. pc = "stamp" /\ arrived.version \in Versions /\ arrived.at \in Times
      BY <2>1 DEF WriteMeta, TypeInv, ArrivedInv
    <3>2. p \in Payload /\ p # NoPayload /\ p.version = arrived.version /\ p.at = arrived.at
      BY <3>1 DEF Payload, NoPayload
    <3>3. Newest(cur, p.version, p.at) /\ p.version = body[cur]
      BY <3>1, <3>2 DEF OriginInv, CarriedIsNewest, CacheInv, Arriving
    <3>4. Got(cur, p) /\ meta' = [meta EXCEPT ![cur] = [tag |-> p.version, at |-> p.at]]
      BY <2>1 DEF WriteMeta
    <3> HIDE DEF p
    <3> QED
      BY <2>1, <3>1, <3>2, <3>3, <3>4 DEF WriteMeta, publicVars, historyVars, Fetching
  <2>2. CASE Confirm \/ Reuse
    <3>1. PICK stale \in BOOLEAN : Got(cur, Fallback(cur, stale))
      BY <2>2 DEF Confirm, Reuse
    <3>2. cur \in Sources /\ HasCached(cur) /\ pc = "ask"
      BY <2>2 DEF Confirm, Reuse, TypeInv, TypeOK
    <3>3. Fallback(cur, stale) \in Payload /\ Fallback(cur, stale) # NoPayload
      BY <3>2 DEF HasCached, Fallback, Payload, NoPayload, Meta, TypeInv, TypeOK
    <3>4. Newest(cur, body[cur], meta[cur].at)
      BY <3>2 DEF HasCached, OriginInv, KeptIsNewest
    <3> QED
      BY <2>2, <3>1, <3>2, <3>3, <3>4
      DEF Confirm, Reuse, Fallback, cacheVars, publicVars, Fetching
  <2> QED
    BY <2>1, <2>2
<1>2. cur \in Sources /\ p.at <= clock /\ p.version \in Versions /\ clock \in Int /\ p.at \in Int
  <2>1. cur \in Sources /\ p.version \in Versions /\ p.at \in Times
    BY <1>1 DEF TypeInv, TypeOK, Payload
  <2>2. p.at <= received[cur][p.version] /\ received[cur][p.version] <= clock
    BY <1>1, <2>1 DEF Newest, OriginInv, ReceivedInOrder
  <2>3. clock \in Int /\ p.at \in Int
    <3>1. p.at \in Nat
      BY <2>1, Bounds
    <3> QED
      BY <3>1, Instants
  <2>4. received[cur][p.version] \in Int
    BY <2>1, Instants
  <2> QED
    BY <2>1, <2>2, <2>3, <2>4
<1>3. /\ payload'[cur] = p /\ \A s \in Sources \ {cur} : payload'[s] = payload[s]
      /\ \/ cur = "satcat" /\ pc' = "ask" /\ cur' = "gcat"
         \/ cur = "gcat" /\ pc' = "merge" /\ cur' = "gcat"
  BY <1>1, <1>2 DEF Got, TypeInv, TypeOK, Sources
<1>4. \A s \in Sources : /\ meta'[s] = meta[s] \/ (s = cur /\ p.version = body[cur])
                         /\ s = cur /\ meta'[s] # meta[s] => meta'[s].at = p.at
  BY <1>1, <1>2 DEF TypeInv, TypeOK
<1>5. ReceivedInOrder' /\ PublicReceived' /\ ProvenanceIsHonest'
  BY <1>1 DEF OriginInv, ReceivedInOrder, PublicReceived, ProvenanceIsHonest
<1>6. KeptIsNewest'
  BY <1>1, <1>2, <1>4 DEF OriginInv, KeptIsNewest, Newest
<1>7. CarriedIsNewest' /\ MergedIsJob'
  <2>1. \A s \in Sources : payload'[s] # NoPayload =>
          Newest(s, payload'[s].version, payload'[s].at)
    BY <1>1, <1>3 DEF OriginInv, CarriedIsNewest
  <2>2. CASE cur = "satcat" /\ pc' = "ask" /\ cur' = "gcat"
    <3>1. payload["gcat"] = NoPayload
      BY <1>1, <2>2 DEF OriginInv, CarriedIsNewest
    <3> QED
      BY <1>1, <1>3, <2>1, <2>2, <3>1
      DEF OriginInv, CarriedIsNewest, MergedIsJob, Newest, Fetching, Sources
  <2>3. CASE cur = "gcat" /\ pc' = "merge" /\ cur' = "gcat"
    <3>1. payload["satcat"] # NoPayload
      BY <1>1, <2>3 DEF OriginInv, MergedIsJob
    <3> QED
      BY <1>1, <1>3, <2>1, <2>3, <3>1
      DEF OriginInv, CarriedIsNewest, MergedIsJob, Newest, Fetching, Sources
  <2> QED
    BY <1>3, <2>2, <2>3
<1> QED
  BY <1>5, <1>6, <1>7 DEF OriginInv

LEMMA OriginLoses ==
  ASSUME TypeInv, OriginInv, NEW s \in Sources, LoseBody(s) \/ LoseMeta(s)
  PROVE  OriginInv'
<1>1. /\ UNCHANGED <<clock, upstream, status, pc, cur, arrived, payload, public, job, received>>
      /\ pc = "idle"
  BY DEF LoseBody, LoseMeta, processVars, publicVars
<1>2. \A q \in Sources : /\ body'[q] = body[q] \/ body'[q] = Nothing
                         /\ meta'[q] = meta[q] \/ meta'[q] = NoMeta
  BY DEF LoseBody, LoseMeta, TypeInv, TypeOK
<1>3. NoMeta.at = -1 /\ Nothing = -1
  BY DEF NoMeta, Nothing
<1>4. \A q \in Sources : \A v \in Versions : received[q][v] \in Times \cup {Nothing}
  BY DEF TypeInv, TypeOK
<1>5. clock \in Times /\ \A t \in Times : -1 <= t
  BY Bounds DEF TypeInv, TypeOK
<1>6. KeptIsNewest'
  <2> SUFFICES ASSUME NEW q \in Sources
               PROVE  /\ meta'[q].at <= clock
                      /\ body'[q] # Nothing =>
                           /\ received[q][body[q]] # Nothing
                           /\ meta'[q].at <= received[q][body[q]]
                           /\ \A w \in Versions : received[q][w] # Nothing => w <= body[q]
    BY <1>1, <1>2 DEF KeptIsNewest, Newest
  <2>1. meta[q].at <= clock /\ (body[q] # Nothing => Newest(q, body[q], meta[q].at))
    BY DEF OriginInv, KeptIsNewest
  <2>2. body[q] # Nothing => body[q] \in Versions
    BY DEF TypeInv, TypeOK
  <2>3. body[q] # Nothing => received[q][body[q]] \in Times
    BY <1>4, <2>1, <2>2 DEF Newest
  <2> QED
    BY <1>2, <1>3, <1>5, <2>1, <2>3 DEF Newest
<1>7. ReceivedInOrder' /\ CarriedIsNewest' /\ MergedIsJob' /\ PublicReceived' /\ ProvenanceIsHonest'
  BY <1>1 DEF OriginInv, ReceivedInOrder, CarriedIsNewest, MergedIsJob, PublicReceived,
              ProvenanceIsHonest, Newest, Fetching, Merged
<1> QED
  BY <1>6, <1>7 DEF OriginInv

LEMMA OriginStep == TypeInv /\ CacheInv /\ OriginInv /\ [Next]_vars => OriginInv'
<1> SUFFICES ASSUME TypeInv, CacheInv, OriginInv, [Next]_vars PROVE OriginInv'
  OBVIOUS
<1>1. CASE UNCHANGED vars
  BY <1>1 DEF vars, cacheVars, processVars, publicVars, historyVars, OriginInv, ReceivedInOrder,
              KeptIsNewest, CarriedIsNewest, MergedIsJob, PublicReceived, ProvenanceIsHonest,
              Newest, Fetching, Merged
<1> QED
  BY <1>1, OriginWorld, OriginFailed, OriginSucceeds, OriginGoesOn, OriginPublish,
     OriginWriteBody, OriginAnswers, OriginLoses
  DEF Next, Run

\* The public catalogue is at least as recent, source by source, as the status
\* document claims, whichever runs were killed or fell back to the cache since.
THEOREM ProvenanceHolds == Spec => []ProvenanceIsHonest
<1>1. TypeInv /\ CacheInv /\ OriginInv /\ [Next]_vars => TypeInv' /\ CacheInv' /\ OriginInv'
  BY TypeStep, CacheStep, OriginStep
<1>2. OriginInv => ProvenanceIsHonest
  BY DEF OriginInv
<1> QED
  BY <1>1, <1>2, TypeInit, CacheInit, OriginInit, PTL DEF Spec

-----------------------------------------------------------------------------
(* Health.                                                                 *)

\* A run knows when it was started; a status document that tells of a success is
\* no younger than the success, and what is public passed the gates.
WorkedInv ==
  /\ pc # "idle" => checked \in Times /\ checked <= clock
  /\ status.checked # Nothing /\ outcome # "failed" =>
       status.checked <= worked /\ public # None
  /\ public # None => public \in Sound
  /\ job # None => job \in Sound

LEMMA WorkedInit == Init => WorkedInv
BY DEF Init, Public!Init, WorkedInv

LEMMA WorkedStep == TypeInv /\ OriginInv /\ WorkedInv /\ [Next]_vars => WorkedInv'
<1> SUFFICES ASSUME TypeInv, OriginInv, WorkedInv, [Next]_vars PROVE WorkedInv'
  OBVIOUS
<1>0. clock \in Int /\ clock \in Times /\ Times \subseteq Int
  BY Bounds DEF TypeInv, TypeOK
<1>1. CASE Tick
  <2>1. /\ clock' = clock + 1
        /\ UNCHANGED <<status, pc, checked, worked, public, job, outcome>>
    BY <1>1 DEF Tick, processVars, publicVars, historyVars
  <2>2. \A t \in Times : t <= clock => t <= clock + 1
    BY <1>0
  <2> QED
    BY <2>1, <2>2 DEF WorkedInv
<1>2. CASE \/ Start \/ Receive \/ WriteBody \/ WriteMeta \/ Confirm \/ Reuse \/ UNCHANGED vars
           \/ \E s \in Sources : SourceMoves(s) \/ LoseBody(s) \/ LoseMeta(s)
  <2>1. UNCHANGED <<clock, status, worked, public, job, outcome>>
    BY <1>2 DEF Start, Receive, WriteBody, WriteMeta, Confirm, Reuse, vars, SourceMoves,
                LoseBody, LoseMeta, publicVars, historyVars
  <2>2. \/ checked' = clock
        \/ checked' = checked /\ (pc' # "idle" => pc # "idle")
    BY <1>2 DEF Start, Receive, WriteBody, WriteMeta, Confirm, Reuse, vars, SourceMoves,
                LoseBody, LoseMeta, processVars
  <2> QED
    BY <1>0, <2>1, <2>2 DEF WorkedInv
<1>3. CASE Merge
  BY <1>3 DEF Merge, Public!Begin, historyVars, WorkedInv
<1>4. CASE Publish
  BY <1>4 DEF Publish, Public!Publish, historyVars, WorkedInv
<1>5. CASE Unavailable \/ Reject \/ RefuseDrop \/ DiskFails
  <2>1. outcome' = "failed" /\ public' = public /\ pc' = "idle"
        /\ (job' = job \/ job' = None)
    BY <1>5 DEF Unavailable, Reject, RefuseDrop, DiskFails, Report, Forget, Public!Abandoned,
                Public!EndFailed, Public!End, Public!Leave
  <2> QED
    BY <2>1 DEF WorkedInv
<1>6. CASE KeepUnchanged \/ ReportPublished
  <2>1. /\ public' = public /\ public = job /\ job # None /\ job' = None /\ pc' = "idle"
        /\ status'.checked = checked /\ pc # "idle"
    BY <1>6 DEF KeepUnchanged, ReportPublished, Report, Forget, Public!EndUnchanged,
                Public!EndPublished, Public!End, Public!Leave, OriginInv, MergedIsJob
  <2>2. payload # NoPayloads
    BY <1>6 DEF KeepUnchanged, ReportPublished, OriginInv, MergedIsJob, NoPayloads, Sources
  <2>3. worked' = clock
    BY <1>6, <2>2 DEF KeepUnchanged, ReportPublished, Report
  <2> QED
    BY <2>1, <2>3 DEF WorkedInv
<1>7. CASE Crash
  <2>1. /\ UNCHANGED <<clock, status, worked, public, outcome>> /\ pc' = "idle"
        /\ (job' = job \/ job' = None)
    BY <1>7 DEF Crash, Forget, publicVars, Public!Killed, Public!Leave
  <2> QED
    BY <2>1 DEF WorkedInv
<1> QED
  BY <1>1, <1>2, <1>3, <1>4, <1>5, <1>6, <1>7 DEF Next, Run

LEMMA GreenIsWorking == TypeInv /\ WorkedInv => GreenMeansWorking
<1> SUFFICES ASSUME TypeInv, WorkedInv, CheckCatalog = "ok"
             PROVE  clock - worked < Warning /\ CheckPublicTree = "ok"
  BY DEF GreenMeansWorking
<1>1. /\ clock \in Int /\ worked \in Int /\ status.checked \in Times \cup {Nothing}
      /\ Times \subseteq Int /\ Warning \in Int /\ Critical \in Int
  BY Bounds DEF TypeInv, TypeOK
<1>2. AgeSeverity(clock - status.checked) \in {"ok", "warning", "critical"}
  BY DEF AgeSeverity
<1>3. status.checked # Nothing
  BY DEF CheckCatalog
<1>4. status.checked \in Int
  <2>1. status.checked \in Times
    BY <1>1, <1>3
  <2> QED
    BY <1>1, <2>1
<1>5. AgeSeverity(clock - status.checked) = "ok" /\ outcome # "failed"
  BY <1>2, <1>3 DEF CheckCatalog
<1>6. clock - status.checked < Warning
  <2>1. status.checked \in Int /\ clock - status.checked \in Int
    BY <1>1, <1>4
  <2>2. ASSUME NEW age \in Int, AgeSeverity(age) = "ok" PROVE age < Warning
    BY <1>1, <2>2 DEF AgeSeverity
  <2> QED
    BY <1>5, <2>1, <2>2
<1>7. status.checked <= worked /\ public # None /\ public \in Sound
  BY <1>3, <1>5 DEF WorkedInv
<1>8. CountOf[public] >= 1 /\ CountOf[public] \in Nat
  BY <1>7, UpdateAssumption
<1>9. clock - worked < Warning
  BY <1>1, <1>4, <1>6, <1>7
<1> QED
  BY <1>7, <1>8, <1>9 DEF CheckPublicTree

\* check-health is green only while runs succeed and something with records is
\* public: a run that failed, was killed or never came shows before the warning
\* age is over, for any ages, faults and gates.
THEOREM GreenHolds == Spec => []GreenMeansWorking
<1>1. TypeInv /\ CacheInv /\ OriginInv /\ WorkedInv /\ [Next]_vars
        => TypeInv' /\ CacheInv' /\ OriginInv' /\ WorkedInv'
  BY TypeStep, CacheStep, OriginStep, WorkedStep
<1> QED
  BY <1>1, TypeInit, CacheInit, OriginInit, WorkedInit, GreenIsWorking, PTL DEF Spec

=============================================================================
