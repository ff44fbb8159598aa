----------------------------- MODULE GpUpdater -----------------------------
(***************************************************************************)
(* GpUpdater.run of gp.py: the job that asks CelesTrak for each configured *)
(* dataset in turn, started by a timer or by hand on any host that mounts  *)
(* the volume, and serialized by the gp.lock file.                         *)
(*                                                                         *)
(* Every durable write is a step of its own, so a run may be killed        *)
(* between the ledger and the state, between the published file and the    *)
(* state, or between the state and the public status document.             *)
(***************************************************************************)
EXTENDS GpState

CONSTANTS
  Hosts,          \* the processes that may run `sync-gp'
  NoHost,         \* nobody holds the lock
  SkewOf,         \* how far each host's clock is ahead of true time
  MaxSkew,        \* bound of the skew between two hosts
  Upstream,       \* CelesTrak's own limit between two downloads of a dataset
  MaxDelay,       \* bound between the reading of the clock and the request
  NoDataset,      \* a host that is at no dataset
  Rank,           \* position of each dataset in the configuration
  Legacy,         \* datasets whose state an older release wrote
  LegacyBody,     \* what that release published
  LegacySize,     \* the size it recorded, measured in another format
  Chunk,          \* bytes delivered at once by the HTTP client
  ErrorSizes,     \* bytes read of a response that is not a 200
  MaxClock,       \* horizon of the model
  MaxFaults,      \* bound on the number of faults
  Faults          \* which of "crash", "state" and "ledger" may happen

StopThreshold == 2      \* _NETWORK_FAILURE_STOP_THRESHOLD

ASSUME HostAssumption ==
  /\ NoHost \notin Hosts
  /\ NoDataset \notin Datasets
  /\ MaxSkew \in Nat
  /\ SkewOf \in [Hosts -> 0 .. MaxSkew]
  /\ MaxClock \in Nat
  /\ Stamps = 0 .. (MaxClock + MaxSkew)

\* The cushion of minimum_interval_seconds over CelesTrak's limit covers the
\* skew between two hosts and the delay of one request.
ASSUME CushionAssumption ==
  /\ Upstream \in Nat
  /\ MaxDelay \in Nat
  /\ Floor >= Upstream + MaxSkew + MaxDelay

ASSUME LegacyAssumption ==
  /\ Legacy \subseteq Datasets
  /\ LegacyBody \in Bodies
  /\ LegacySize \in Nat

ASSUME WireAssumption ==
  /\ Chunk \in Nat
  /\ ErrorSizes \subseteq Nat
  /\ IsFiniteSet(ErrorSizes)

ASSUME FaultAssumption == MaxFaults \in Nat

VARIABLES
  clock,     \* true time
  \* the volume
  lock,      \* holder of locks/gp.lock
  state,     \* state/gp/<dataset>.json
  status,    \* public/v1/status/gp/<dataset>.json
  file,      \* public/v1/gp/<dataset>.json, with the attempt it came from
  ledger,    \* state/gp-bandwidth.json
  summary,   \* public/v1/status/gp.json
  damaged,   \* datasets whose state file does not load
  \* the memory of each host's process
  pc, started, todo, cur, answer, dirty, tally,
  \* history
  served,    \* when CelesTrak last received a request for the dataset
  wire,      \* bytes that crossed the wire, by the time of the request
  silent,    \* requests in a row that brought no HTTP response
  uncharged, \* of the wire, what a fault kept or took from the ledger
  torn,      \* stamp of the last file that a killed run left without its state
  faults     \* faults so far

volumeVars  == <<lock, state, status, file, ledger, summary, damaged>>
processVars == <<pc, started, todo, cur, answer, dirty, tally>>
historyVars == <<served, wire, silent, uncharged, torn, faults>>
vars == <<clock, volumeVars, processVars, historyVars>>

-----------------------------------------------------------------------------
(* The shapes of the state.                                                *)

Times == 0 .. MaxClock

Published == [body : Bodies \cup {NoBody}, stamp : Int]

Kinds == {"none", "complete", "budget", "response", "dataset", "dropped",
          "unchanged", "forbidden", "error"}

Answer   == [kind : Kinds, bytes : Nat, body : Bodies \cup {NoBody}]
NoAnswer == [kind |-> "none", bytes |-> 0, body |-> NoBody]

Reasons == {"none", "unreachable", "forbidden", "other"}

\* The run's own outcome.  `stopped' is reason # "none", `blocked' is reason in
\* {"unreachable", "forbidden"}; attempted, published and skipped are
\* counters nothing depends on.
Tally    == [network : Nat, failed : BOOLEAN,
             exhausted : BOOLEAN, reason : Reasons]
NewTally == [network |-> 0, failed |-> FALSE, exhausted |-> FALSE,
             reason |-> "none"]

\* The document of the last run that went to its end; one of an older release
\* does not say when that was.
Summary == [written : BOOLEAN, outcome : Tally, checked : Int]

Points  == {"idle", "starting", "loop", "attempting", "streamed", "answered",
            "filed"}
Running(h) == pc[h] \notin {"idle", "starting"}

-----------------------------------------------------------------------------
(* Initially the volume is new, or an earlier release left the state of    *)
(* the Legacy datasets: an attempt at 0 that succeeded, no retry_after and *)
(* a size without its format.                                              *)

LegacyState ==
  [attempt |-> 0, success |-> 0, retry |-> Never, result |-> "published",
   size |-> LegacySize, format |-> "unrecorded", body |-> LegacyBody]

Init ==
  /\ clock = 0
  /\ lock = NoHost
  /\ state = [d \in Datasets |-> IF d \in Legacy THEN LegacyState ELSE FreshState]
  /\ status = state
  /\ file = [d \in Datasets |-> IF d \in Legacy
                                THEN [body |-> LegacyBody, stamp |-> 0]
                                ELSE [body |-> NoBody, stamp |-> Never]]
  /\ ledger = EmptyLedger
  /\ summary = [written |-> Legacy # {}, outcome |-> NewTally, checked |-> Never]
  /\ damaged = {}
  /\ pc = [h \in Hosts |-> "idle"]
  /\ started = [h \in Hosts |-> 0]
  /\ todo = [h \in Hosts |-> {}]
  /\ cur = [h \in Hosts |-> NoDataset]
  /\ answer = [h \in Hosts |-> NoAnswer]
  /\ dirty = [h \in Hosts |-> FALSE]
  /\ tally = [h \in Hosts |-> NewTally]
  /\ served = [d \in Datasets |-> IF d \in Legacy THEN 0 ELSE Never]
  /\ wire = [t \in Times |-> 0]
  /\ silent = [h \in Hosts |-> 0]
  /\ uncharged = [t \in Times |-> 0]
  /\ torn = [d \in Datasets |-> Never]
  /\ faults = 0

-----------------------------------------------------------------------------
(* The clock, and the start of a run.                                      *)

Now(h) == clock + SkewOf[h]

\* A request leaves within MaxDelay of the reading of the clock that stamps it.
Tick ==
  /\ clock < MaxClock
  /\ \A h \in Hosts :
       pc[h] = "attempting" => Now(h) < state[cur[h]].attempt + MaxDelay
  /\ clock' = clock + 1
  /\ UNCHANGED <<volumeVars, processVars, historyVars>>

\* `started' is read before the lock is asked for.
ReadClock(h) ==
  /\ pc[h] = "idle"
  /\ pc' = [pc EXCEPT ![h] = "starting"]
  /\ started' = [started EXCEPT ![h] = Now(h)]
  /\ UNCHANGED <<clock, volumeVars, todo, cur, answer, dirty, tally, historyVars>>

\* The lock is not waited for: the command exits with status 75.
RefuseLock(h) ==
  /\ pc[h] = "starting"
  /\ lock # NoHost
  /\ pc' = [pc EXCEPT ![h] = "idle"]
  /\ started' = [started EXCEPT ![h] = 0]
  /\ UNCHANGED <<clock, volumeVars, todo, cur, answer, dirty, tally, historyVars>>

\* Faulty variant: the lock file is opened and not locked.
Acquire_NoLock(h) ==
  /\ pc[h] = "starting"
  /\ lock' = h
  /\ pc' = [pc EXCEPT ![h] = "loop"]
  /\ todo' = [todo EXCEPT ![h] = Datasets]
  /\ tally' = [tally EXCEPT ![h] = NewTally]
  /\ silent' = [silent EXCEPT ![h] = 0]
  /\ UNCHANGED <<clock, state, status, file, ledger, summary, damaged, started,
                 cur, answer, dirty, served, wire, uncharged, torn, faults>>

Acquire(h) ==
  /\ pc[h] = "starting"
  /\ lock = NoHost
  /\ lock' = h
  /\ pc' = [pc EXCEPT ![h] = "loop"]
  /\ todo' = [todo EXCEPT ![h] = Datasets]
  /\ tally' = [tally EXCEPT ![h] = NewTally]
  /\ silent' = [silent EXCEPT ![h] = 0]
  /\ UNCHANGED <<clock, state, status, file, ledger, summary, damaged, started,
                 cur, answer, dirty, served, wire, uncharged, torn, faults>>

-----------------------------------------------------------------------------
(* Saving the state of a dataset: the state file first, then the public    *)
(* status document, which nothing else of the run may overtake.            *)

\* Faulty variant: the public document is replaced before the state.
Save_StatusFirst(h, d, s) ==
  /\ cur' = [cur EXCEPT ![h] = d]
  /\ status' = [status EXCEPT ![d] = s]
  /\ dirty' = [dirty EXCEPT ![h] = TRUE]
  /\ UNCHANGED state

Save(h, d, s) ==
  /\ cur' = [cur EXCEPT ![h] = d]
  /\ state' = [state EXCEPT ![d] = s]
  /\ dirty' = [dirty EXCEPT ![h] = TRUE]
  /\ UNCHANGED status

WriteStatus(h) ==
  /\ dirty[h]
  /\ status' = [status EXCEPT ![cur[h]] = state[cur[h]]]
  /\ dirty' = [dirty EXCEPT ![h] = FALSE]
  /\ UNCHANGED <<clock, lock, state, file, ledger, summary, damaged, pc, started,
                 todo, cur, answer, tally, historyVars>>

-----------------------------------------------------------------------------
(* The loop over the datasets, least recently attempted first.             *)

Key(d) == IF d \in damaged THEN Never ELSE state[d].attempt

\* Faulty variant: the order of the configuration.
Before_Configured(d, e) == Rank[d] < Rank[e]

Before(d, e) == Key(d) < Key(e) \/ (Key(d) = Key(e) /\ Rank[d] < Rank[e])

Turn(h, d) ==
  /\ pc[h] = "loop"
  /\ ~ dirty[h]
  /\ d \in todo[h]
  /\ \A e \in todo[h] : ~ Before(e, d)

\* What the ledger in memory leaves of the allowance.
Remaining(h) == Budget - Used(Pruned(ledger, started[h]))

Leave(h, d) == todo' = [todo EXCEPT ![h] = @ \ {d}]

SkipSpent(h, d) ==
  /\ Turn(h, d)
  /\ Remaining(h) <= 0
  /\ Leave(h, d)
  /\ tally' = [tally EXCEPT ![h].exhausted = TRUE]
  /\ UNCHANGED <<clock, volumeVars, pc, started, cur, answer, dirty, historyVars>>

SkipCorrupt(h, d) ==
  /\ Turn(h, d)
  /\ Remaining(h) > 0
  /\ d \in damaged
  /\ Leave(h, d)
  /\ tally' = [tally EXCEPT ![h].failed = TRUE]
  /\ UNCHANGED <<clock, volumeVars, pc, started, cur, answer, dirty, historyVars>>

\* Faulty variant: a dataset that is not due goes to the back of the queue.
SkipNotDue_Requeue(h, d) ==
  /\ Turn(h, d)
  /\ Remaining(h) > 0
  /\ d \notin damaged
  /\ Now(h) < NextAttemptAt(state[d])
  /\ UNCHANGED vars

SkipNotDue(h, d) ==
  /\ Turn(h, d)
  /\ Remaining(h) > 0
  /\ d \notin damaged
  /\ Now(h) < NextAttemptAt(state[d])
  /\ Leave(h, d)
  /\ UNCHANGED <<clock, volumeVars, pc, started, cur, answer, dirty, tally,
                 historyVars>>

Due(h, d) ==
  /\ Turn(h, d)
  /\ Remaining(h) > 0
  /\ d \notin damaged
  /\ NextAttemptAt(state[d]) <= Now(h)

DeclineOverCap(h, d) ==
  /\ Due(h, d)
  /\ OverCap(d, state[d])
  /\ Save(h, d, [state[d] EXCEPT !.result = "over-dataset-cap"])
  /\ Leave(h, d)
  /\ UNCHANGED <<clock, lock, file, ledger, summary, damaged, pc, started, answer,
                 tally, historyVars>>

\* Faulty variant: a declined dataset is not reported as an exhausted budget.
DeclineBudget_Silent(h, d) ==
  /\ Due(h, d)
  /\ ~ OverCap(d, state[d])
  /\ OverBudget(state[d], Remaining(h))
  /\ Save(h, d, [state[d] EXCEPT !.result = "budget-skipped"])
  /\ Leave(h, d)
  /\ UNCHANGED <<clock, lock, file, ledger, summary, damaged, pc, started, answer,
                 tally, historyVars>>

DeclineBudget(h, d) ==
  /\ Due(h, d)
  /\ ~ OverCap(d, state[d])
  /\ OverBudget(state[d], Remaining(h))
  /\ Save(h, d, [state[d] EXCEPT !.result = "budget-skipped"])
  /\ Leave(h, d)
  /\ tally' = [tally EXCEPT ![h].exhausted = TRUE]
  /\ UNCHANGED <<clock, lock, file, ledger, summary, damaged, pc, started, answer,
                 historyVars>>

\* The whole floor is charged before the network is touched.
Attempt(h, d) ==
  /\ Due(h, d)
  /\ ~ OverCap(d, state[d])
  /\ ~ OverBudget(state[d], Remaining(h))
  /\ Save(h, d, [state[d] EXCEPT !.attempt = Now(h), !.retry = Now(h) + Floor,
                                 !.result = "attempting"])
  /\ Leave(h, d)
  /\ pc' = [pc EXCEPT ![h] = "attempting"]
  /\ UNCHANGED <<clock, lock, file, ledger, summary, damaged, started, answer,
                 tally, historyVars>>

-----------------------------------------------------------------------------
(* The request.                                                            *)

\* Faulty variant: the streak of failures is not remembered between datasets.
CountNetworkFailure_Forgetful(h) ==
  /\ tally' = [tally EXCEPT ![h] = [tally[h] EXCEPT !.failed = TRUE, !.network = 1]]
  /\ UNCHANGED todo

\* A second network failure stops the run.
CountNetworkFailure(h) ==
  LET failures == tally[h].network + 1
  IN  IF failures >= StopThreshold
      THEN /\ tally' = [tally EXCEPT ![h] =
                [tally[h] EXCEPT !.failed = TRUE, !.network = failures,
                                 !.reason = "unreachable"]]
           /\ todo' = [todo EXCEPT ![h] = {}]
      ELSE /\ tally' = [tally EXCEPT ![h] =
                [tally[h] EXCEPT !.failed = TRUE, !.network = failures]]
           /\ UNCHANGED todo

\* The connection was refused or timed out: CelesTrak never saw the request,
\* and the floor is shortened, still counting from the reading of the clock
\* that stamped the attempt.
ConnectFails(h) ==
  /\ pc[h] = "attempting"
  /\ ~ dirty[h]
  /\ LET d == cur[h] IN
       Save(h, d, [state[d] EXCEPT !.retry = state[d].attempt + RetryInterval,
                                   !.result = "network-error"])
  /\ CountNetworkFailure(h)
  /\ pc' = [pc EXCEPT ![h] = "loop"]
  /\ silent' = [silent EXCEPT ![h] = @ + 1]
  /\ UNCHANGED <<clock, lock, file, ledger, summary, damaged, started, answer,
                 served, wire, uncharged, torn, faults>>

Prefixes == UNION {0 .. SizeOf[b] : b \in Bodies}

\* What one request may bring.  A body over the ceiling is cut after the chunk
\* that crosses it; other statuses are read up to _ERROR_BODY_BYTES, with no
\* regard to the ceiling; the connection may break at any byte before.
Answers(d, remaining) ==
  LET bound == StreamLimit(d, remaining)
      Past(n) == bound.limit < n /\ n <= bound.limit + Chunk
  IN  {[kind |-> "complete", bytes |-> SizeOf[b], body |-> b] :
           b \in {c \in Bodies : SizeOf[c] <= bound.limit}}
      \cup [kind : {bound.source}, bytes : {n \in Prefixes : Past(n)}, body : {NoBody}]
      \cup [kind : {"dropped"}, bytes : {n \in Prefixes : n <= bound.limit},
            body : {NoBody}]
      \cup [kind : {"unchanged", "forbidden", "error"}, bytes : ErrorSizes,
            body : {NoBody}]

\* The request reaches CelesTrak and its answer is consumed.
Exchange(h, a) ==
  /\ pc[h] = "attempting"
  /\ ~ dirty[h]
  /\ a \in Answers(cur[h], Remaining(h))
  /\ pc' = [pc EXCEPT ![h] = "streamed"]
  /\ answer' = [answer EXCEPT ![h] = a]
  /\ served' = [served EXCEPT ![cur[h]] = clock]
  /\ wire' = [wire EXCEPT ![state[cur[h]].attempt - SkewOf[h]] = @ + a.bytes]
  /\ UNCHANGED <<clock, volumeVars, started, todo, cur, dirty, tally, silent,
                 uncharged, torn, faults>>

\* Faulty variant: only the bytes of a complete response are recorded.
Account_CompleteOnly(h) ==
  /\ pc[h] = "streamed"
  /\ pc' = [pc EXCEPT ![h] = "answered"]
  /\ ledger' = IF answer[h].kind = "complete"
               THEN Recorded(ledger, state[cur[h]].attempt, answer[h].bytes)
               ELSE ledger
  /\ silent' = [silent EXCEPT ![h] = IF answer[h].kind = "dropped" THEN @ + 1 ELSE 0]
  /\ UNCHANGED <<clock, lock, state, status, file, summary, damaged, started, todo,
                 cur, answer, dirty, tally, served, wire, uncharged, torn, faults>>

\* The `finally' of _download: every byte is recorded and persisted, under the
\* reading of the clock that stamped the attempt.
Account(h) ==
  /\ pc[h] = "streamed"
  /\ pc' = [pc EXCEPT ![h] = "answered"]
  /\ ledger' = IF answer[h].bytes > 0
               THEN Recorded(ledger, state[cur[h]].attempt, answer[h].bytes)
               ELSE ledger
  /\ silent' = [silent EXCEPT ![h] = IF answer[h].kind = "dropped" THEN @ + 1 ELSE 0]
  /\ UNCHANGED <<clock, lock, state, status, file, summary, damaged, started, todo,
                 cur, answer, dirty, tally, served, wire, uncharged, torn, faults>>

-----------------------------------------------------------------------------
(* Handling the answer.                                                    *)

Answered(h, kind) == pc[h] = "answered" /\ answer[h].kind = kind

\* Save the state of the current dataset and return to the loop.
Settle(h, s) ==
  /\ Save(h, cur[h], s)
  /\ pc' = [pc EXCEPT ![h] = "loop"]
  /\ answer' = [answer EXCEPT ![h] = NoAnswer]
  /\ UNCHANGED <<clock, lock, file, ledger, summary, damaged, started, historyVars>>

Stop(h, reason) ==
  /\ tally' = [tally EXCEPT ![h] = [tally[h] EXCEPT !.failed = TRUE, !.reason = reason]]
  /\ todo' = [todo EXCEPT ![h] = {}]

Result(h, result) == [state[cur[h]] EXCEPT !.result = result]

\* Faulty variant: the size is labelled with the format of the last release.
Measured_Mislabelled(s, a) == [s EXCEPT !.size = a.bytes, !.format = "JSON"]

\* The size of a body, with the format that makes it a forecast.
Measured(s, a) == [s EXCEPT !.size = a.bytes, !.format = "CSV"]

HandleOverBudget(h) ==
  /\ Answered(h, "budget")
  /\ Settle(h, Result(h, "budget-exceeded"))
  /\ tally' = [tally EXCEPT ![h] = [tally[h] EXCEPT !.failed = TRUE, !.exhausted = TRUE]]
  /\ UNCHANGED todo

\* Faulty variant: the size seen at the cap is not remembered.
HandleOverCap_Unmeasured(h) ==
  /\ Answered(h, "dataset")
  /\ Settle(h, Result(h, "over-dataset-cap"))
  /\ tally' = [tally EXCEPT ![h].failed = TRUE]
  /\ UNCHANGED todo

HandleOverCap(h) ==
  /\ Answered(h, "dataset")
  /\ Settle(h, Measured(Result(h, "over-dataset-cap"), answer[h]))
  /\ tally' = [tally EXCEPT ![h].failed = TRUE]
  /\ UNCHANGED todo

HandleTooLarge(h) ==
  /\ Answered(h, "response")
  /\ Settle(h, Result(h, "response-too-large"))
  /\ Stop(h, "other")

\* Faulty variant: a failure after the request was sent shortens the floor too.
HandleDropped_Early(h) ==
  /\ Answered(h, "dropped")
  /\ Settle(h, [Result(h, "network-error") EXCEPT !.retry = @ - Floor + RetryInterval])
  /\ CountNetworkFailure(h)

HandleDropped(h) ==
  /\ Answered(h, "dropped")
  /\ Settle(h, Result(h, "network-error"))
  /\ CountNetworkFailure(h)

HandleUnchanged(h) ==
  /\ Answered(h, "unchanged")
  /\ Settle(h, Result(h, "not-updated"))
  /\ tally' = [tally EXCEPT ![h].network = 0]
  /\ UNCHANGED todo

HandleForbidden(h) ==
  /\ Answered(h, "forbidden")
  /\ Settle(h, Result(h, "forbidden"))
  /\ tally' = [tally EXCEPT ![h] = [tally[h] EXCEPT !.network = 0, !.failed = TRUE,
                                             !.reason = "forbidden"]]
  /\ todo' = [todo EXCEPT ![h] = {}]

HandleError(h) ==
  /\ Answered(h, "error")
  /\ Settle(h, Result(h, "http-error"))
  /\ Stop(h, "other")

HandleInvalid(h) ==
  /\ Answered(h, "complete")
  /\ ~ Acceptable(cur[h], state[cur[h]], answer[h].body)
  /\ Settle(h, Measured(Result(h, "validation-error"), answer[h]))
  /\ Stop(h, "other")

\* Faulty variant: the body is published before it is validated.
WriteFile_Unvalidated(h) ==
  /\ Answered(h, "complete")
  /\ LET d == cur[h] IN
       file' = [file EXCEPT ![d] = [body |-> answer[h].body, stamp |-> state[d].attempt]]
  /\ pc' = [pc EXCEPT ![h] = "filed"]
  /\ UNCHANGED <<clock, lock, state, status, ledger, summary, damaged, started, todo,
                 cur, answer, dirty, tally, historyVars>>

WriteFile(h) ==
  /\ Answered(h, "complete")
  /\ LET d == cur[h] IN
       /\ Acceptable(d, state[d], answer[h].body)
       /\ file' = [file EXCEPT ![d] = [body |-> answer[h].body,
                                       stamp |-> state[d].attempt]]
  /\ pc' = [pc EXCEPT ![h] = "filed"]
  /\ UNCHANGED <<clock, lock, state, status, ledger, summary, damaged, started, todo,
                 cur, answer, dirty, tally, historyVars>>

SaveSuccess(h) ==
  /\ pc[h] = "filed"
  /\ Settle(h, [Measured(Result(h, "published"), answer[h])
                  EXCEPT !.success = state[cur[h]].attempt, !.body = answer[h].body])
  /\ tally' = [tally EXCEPT ![h].network = 0]
  /\ UNCHANGED todo

-----------------------------------------------------------------------------
(* The end of a run, and faults.                                           *)

\* The summary carries the outcome; leaving the `with' releases the lock.
Finish(h) ==
  /\ pc[h] = "loop"
  /\ ~ dirty[h]
  /\ todo[h] = {}
  /\ summary' = [written |-> TRUE, outcome |-> tally[h], checked |-> started[h]]
  /\ lock' = NoHost
  /\ pc' = [pc EXCEPT ![h] = "idle"]
  /\ started' = [started EXCEPT ![h] = 0]
  /\ cur' = [cur EXCEPT ![h] = NoDataset]
  /\ tally' = [tally EXCEPT ![h] = NewTally]
  /\ silent' = [silent EXCEPT ![h] = 0]
  /\ UNCHANGED <<clock, state, status, file, ledger, damaged, todo, answer, dirty,
                 served, wire, uncharged, torn, faults>>

Fault(kind) ==
  /\ kind \in Faults
  /\ faults < MaxFaults
  /\ faults' = faults + 1

\* The process is killed (TimeoutStartSec, a reboot, a failover): its memory is
\* gone and the kernel drops its lock.  A write that fails leaves the run in the
\* same way, as the OSError is caught nowhere, and so does a number of the body
\* that int() does not take (Uncaught in OmmCsv): no summary is written.
Crash(h) ==
  /\ Fault("crash")
  /\ pc[h] # "idle"
  /\ lock' = IF lock = h THEN NoHost ELSE lock
  /\ pc' = [pc EXCEPT ![h] = "idle"]
  /\ started' = [started EXCEPT ![h] = 0]
  /\ todo' = [todo EXCEPT ![h] = {}]
  /\ cur' = [cur EXCEPT ![h] = NoDataset]
  /\ answer' = [answer EXCEPT ![h] = NoAnswer]
  /\ dirty' = [dirty EXCEPT ![h] = FALSE]
  /\ tally' = [tally EXCEPT ![h] = NewTally]
  /\ silent' = [silent EXCEPT ![h] = 0]
  /\ uncharged' = IF pc[h] = "streamed"
                  THEN [uncharged EXCEPT ![state[cur[h]].attempt - SkewOf[h]] =
                          @ + answer[h].bytes]
                  ELSE uncharged
  /\ torn' = IF pc[h] = "filed" THEN [torn EXCEPT ![cur[h]] = file[cur[h]].stamp]
             ELSE torn
  /\ UNCHANGED <<clock, state, status, file, ledger, summary, damaged, served, wire>>

\* A state file that no longer loads.
DamageState(d) ==
  /\ Fault("state")
  /\ lock = NoHost
  /\ d \notin damaged
  /\ damaged' = damaged \cup {d}
  /\ UNCHANGED <<clock, lock, state, status, file, ledger, summary, processVars,
                 served, wire, silent, uncharged, torn>>

\* A ledger that cannot be read is taken for an empty one.
LoseLedger ==
  /\ Fault("ledger")
  /\ lock = NoHost
  /\ ledger' = EmptyLedger
  /\ uncharged' = wire
  /\ UNCHANGED <<clock, lock, state, status, file, summary, damaged, processVars,
                 served, wire, silent, torn>>

-----------------------------------------------------------------------------
Consider(h) ==
  \E d \in Datasets :
    SkipSpent(h, d) \/ SkipCorrupt(h, d) \/ SkipNotDue(h, d)
      \/ DeclineOverCap(h, d) \/ DeclineBudget(h, d) \/ Attempt(h, d)

Request(h) ==
  \/ ConnectFails(h)
  \/ /\ pc[h] = "attempting"
     /\ \E a \in Answers(cur[h], Remaining(h)) : Exchange(h, a)
  \/ Account(h)

Handle(h) ==
  \/ HandleOverBudget(h) \/ HandleOverCap(h) \/ HandleTooLarge(h)
  \/ HandleDropped(h) \/ HandleUnchanged(h) \/ HandleForbidden(h)
  \/ HandleError(h) \/ HandleInvalid(h) \/ WriteFile(h) \/ SaveSuccess(h)

\* What a process that owns the lock does on its own.
Proceed(h) == WriteStatus(h) \/ Consider(h) \/ Request(h) \/ Handle(h) \/ Finish(h)

Next ==
  \/ Tick
  \/ \E h \in Hosts :
       ReadClock(h) \/ RefuseLock(h) \/ Acquire(h) \/ Proceed(h) \/ Crash(h)
  \/ \E d \in Datasets : DamageState(d)
  \/ LoseLedger

Spec == Init /\ [][Next]_vars

\* A run that has its lock keeps going: each read has a timeout.
FairSpec == Spec /\ \A h \in Hosts : WF_vars(Proceed(h))

-----------------------------------------------------------------------------
(* Properties.                                                             *)

\* The type invariant: what the volume and each process may hold.
TypeOK ==
  /\ clock \in Times
  /\ lock \in Hosts \cup {NoHost}
  /\ state \in [Datasets -> DatasetState]
  /\ status \in [Datasets -> DatasetState]
  /\ file \in [Datasets -> Published]
  /\ ledger \in [Stamps -> Nat]
  /\ summary \in Summary
  /\ damaged \subseteq Datasets
  /\ pc \in [Hosts -> Points]
  /\ started \in [Hosts -> Stamps]
  /\ todo \in [Hosts -> SUBSET Datasets]
  /\ cur \in [Hosts -> Datasets \cup {NoDataset}]
  /\ answer \in [Hosts -> Answer]
  /\ dirty \in [Hosts -> BOOLEAN]
  /\ tally \in [Hosts -> Tally]
  /\ served \in [Datasets -> Times \cup {Never}]
  /\ wire \in [Times -> Nat]
  /\ silent \in [Hosts -> Nat]
  /\ uncharged \in [Times -> Nat]
  /\ torn \in [Datasets -> Int]
  /\ faults \in 0 .. MaxFaults

\* Single writer (locking.py): two overlapping `sync-gp' commands are never
\* both past the lock, wherever one of them was killed.
MutualExclusion ==
  \A g, h \in Hosts : Running(g) /\ Running(h) => g = h

\* The published file, the state and the status document trail one another
\* (_publish, _save_state): neither document ever claims a publication that
\* has not reached the file, and a state as recent as the file is about it.
PublishedInOrder ==
  \A d \in Datasets :
    /\ status[d].attempt <= state[d].attempt
    /\ status[d].success <= state[d].success
    /\ state[d].success <= file[d].stamp
    /\ state[d].success = file[d].stamp => state[d].body = file[d].body

\* The floor (_next_attempt_at, retry_after): CelesTrak never receives two
\* requests for a dataset closer than its own limit, whichever hosts they come
\* from, whatever their clocks say, and wherever a run was killed.
PoliteFloor ==
  [][\A d \in Datasets :
       served'[d] # served[d] /\ served[d] # Never
         => served'[d] - served[d] >= Upstream]_vars

\* The firewall rule (_NETWORK_FAILURE_STOP_THRESHOLD): no run sends more than
\* two requests in a row into silence.
SilenceStops == \A h \in Hosts : silent[h] <= StopThreshold

\* What crossed the wire and was not lost to the ledger by a fault.
Charged == [t \in Times |-> wire[t] - uncharged[t]]

\* The backstop (BandwidthLedger, _stream_limit): the requests of any window
\* draw at most the allowance and one overshoot, wherever runs are killed, over
\* exactly the bytes whose record a fault prevented or destroyed: those of a run
\* killed between its last byte and the ledger, and those of a ledger that was
\* lost.  The ledger prunes by the clock of the host that runs, which shortens
\* the window by the skew.
WireBudget ==
  LET Overshoot == Max(ErrorSizes \cup {Chunk})
      Recent(t) == {u \in Times : u <= t /\ t - u < Window - MaxSkew}
  IN  \A t \in Times :
        MapThenSumSet(LAMBDA u : Charged[u], Recent(t)) <= Budget + Overshoot

\* Last known good (_handle_response): a published file is only replaced by a
\* body that passes the count gates measured against that very file, whatever
\* was killed before.  Only a file that a run left without its state, killed
\* between the two writes, is followed by one measured against the state.
LastKnownGood ==
  [][\A d \in Datasets :
       LET base == IF torn[d] = file[d].stamp THEN state[d].body ELSE file[d].body
       IN  file'[d] # file[d] =>
             /\ CountOf[file'[d].body] >= MinRecords[d]
             /\ base # NoBody =>
                  100 * CountOf[file'[d].body] >= CountOf[base] * (100 - DropPercent)]_vars

\* The per-dataset ration (maximum_bytes): a dataset found to be over its cap
\* costs CelesTrak nothing more, as no later run attempts it.  The comment there
\* lets a dataset back in when "upstream shrinks"; but the size is only learnt by
\* asking, so that is never noticed, and only a higher cap lets it back in.
CapIsFinal ==
  [][\A d \in Datasets :
       state[d].result = "over-dataset-cap" => state'[d].attempt = state[d].attempt]_vars

\* The upgrade (_expected_bytes): only a dataset measured in the format in use
\* is ever declined for its size.
OnlyMeasuredIsDeclined ==
  \A d \in Datasets :
    state[d].result \in {"budget-skipped", "over-dataset-cap"}
      => state[d].format = "CSV"

\* What check-health sees (run): as long as a dataset stands declined for want
\* of allowance, the summary of the last run that went to its end says so.
ExhaustionReported ==
  lock = NoHost /\ summary.outcome.reason = "none" /\ faults = 0
    => \A d \in Datasets :
         state[d].result = "budget-skipped" => summary.outcome.exhausted

\* The queue (_ordered_datasets): no dataset is requested before one that was
\* attempted longer ago, unless that one was not due when the run began, is
\* declined for its size, or cannot be read; a dataset that stops every run
\* cannot keep the others from their turn.
FairTurn ==
  [][\A h \in Hosts, d, e \in Datasets :
       Attempt(h, d) /\ Key(e) < Key(d)
         => \/ e \in damaged
            \/ NextAttemptAt(state[e]) > started[h]
            \/ state[e].result \in {"budget-skipped", "over-dataset-cap"}]_vars

\* A run ends and lets the next one in.
RunEnds == \A h \in Hosts : lock = h ~> lock # h

\* gp_state.py, on the ledger: a killed run still accounts for what it pulled.
KilledRunAccounts ==
  (\A h \in Hosts : pc[h] # "streamed")
    => \A t \in Times : clock - t < Window => wire[t] <= ledger[t]

=============================================================================
