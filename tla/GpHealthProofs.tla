--------------------------- MODULE GpHealthProofs ---------------------------
(***************************************************************************)
(* The published file, the state and the status document trail one another *)
(* through every history of runs, kills and damaged files; hence nothing   *)
(* that is stale passes check-health.                                      *)
(***************************************************************************)
EXTENDS GpHealth, GpUpdaterProofs

\* What a dataset may be like between any two steps, in this order: nothing is
\* claimed that was not attempted, nothing is due at the instant it was
\* attempted, nothing is claimed that is not in the file.
Ordered(d) ==
  /\ state[d].success <= state[d].attempt
  /\ file[d].stamp <= state[d].attempt
  /\ state[d].retry # Never => state[d].retry > state[d].attempt
  /\ state[d].success <= file[d].stamp
  /\ state[d].success = file[d].stamp => state[d].body = file[d].body
  /\ status[d].attempt <= state[d].attempt
  /\ status[d].success <= state[d].success

InFlight == {"attempting", "streamed", "answered"}

\* An attempt under way is newer than what is published, until it is that.
Ahead(h) ==
  /\ pc[h] \in InFlight =>
       /\ cur[h] \in Datasets
       /\ state[cur[h]].success < state[cur[h]].attempt
       /\ file[cur[h]].stamp < state[cur[h]].attempt
  /\ pc[h] = "filed" =>
       /\ cur[h] \in Datasets
       /\ file[cur[h]] = [body |-> answer[h].body, stamp |-> state[cur[h]].attempt]

OrderInv == (\A d \in Datasets : Ordered(d)) /\ (\A h \in Hosts : Ahead(h))

LEMMA OrderInit == Init => OrderInv
<1> SUFFICES ASSUME Init PROVE OrderInv
  OBVIOUS
<1>1. ASSUME NEW d \in Datasets PROVE Ordered(d)
  BY DEF Init, Ordered, LegacyState, FreshState, Never
<1>2. ASSUME NEW h \in Hosts PROVE Ahead(h)
  BY DEF Init, Ahead, InFlight
<1> QED
  BY <1>1, <1>2 DEF OrderInv

-----------------------------------------------------------------------------
(* Steps that keep what is claimed.                                        *)

\* t is s after a step that neither attempts nor publishes.
Keeps(s, t) ==
  /\ t.attempt = s.attempt /\ t.success = s.success /\ t.body = s.body
  /\ t.retry = s.retry \/ t.retry > t.attempt

Quiet ==
  /\ UNCHANGED <<file, status>>
  /\ \A d \in Datasets : Keeps(state[d], state'[d])
  /\ \A g \in Hosts : pc'[g] \in InFlight => pc[g] \in InFlight /\ cur'[g] = cur[g]
  /\ \A g \in Hosts : pc'[g] = "filed" =>
       pc[g] = "filed" /\ cur'[g] = cur[g] /\ answer'[g] = answer[g]

LEMMA QuietKeepsOrder == OrderInv /\ Quiet => OrderInv'
<1> SUFFICES ASSUME OrderInv, Quiet PROVE OrderInv'
  OBVIOUS
<1>1. ASSUME NEW d \in Datasets PROVE Ordered(d)'
  BY DEF OrderInv, Ordered, Quiet, Keeps
<1>2. ASSUME NEW h \in Hosts PROVE Ahead(h)'
  <2>1. Ahead(h) /\ file' = file
    BY DEF OrderInv, Quiet
  <2>2. cur[h] \in Datasets =>
          state'[cur[h]].success = state[cur[h]].success
            /\ state'[cur[h]].attempt = state[cur[h]].attempt
    BY DEF Quiet, Keeps
  <2>3. CASE pc'[h] \in InFlight
    <3>1. pc[h] \in InFlight /\ cur'[h] = cur[h] /\ pc'[h] # "filed"
      BY <2>3 DEF Quiet, InFlight
    <3> QED
      BY <2>1, <2>2, <3>1 DEF Ahead
  <2>4. CASE pc'[h] = "filed"
    <3>1. /\ pc[h] = "filed" /\ cur'[h] = cur[h] /\ answer'[h] = answer[h]
          /\ pc'[h] \notin InFlight
      BY <2>4 DEF Quiet, InFlight
    <3> QED
      BY <2>1, <2>2, <3>1 DEF Ahead
  <2> QED
    BY <2>3, <2>4 DEF Ahead
<1> QED
  BY <1>1, <1>2 DEF OrderInv

LEMMA ResultKeeps ==
  ASSUME NEW s \in DatasetState, NEW r \in Results, NEW a
  PROVE  /\ Keeps(s, [s EXCEPT !.result = r])
         /\ Keeps(s, Measured([s EXCEPT !.result = r], a))
BY DEF Measured, DatasetState, Keeps

\* A handler that records a failure: the record is kept, the run goes on.
LEMMA SettleQuiet ==
  ASSUME TypeOK, NEW h \in Hosts, NEW s, Settle(h, s),
         cur[h] \in Datasets => Keeps(state[cur[h]], s)
  PROVE  Quiet
<1>1. \A d \in Datasets : Keeps(state[d], state'[d])
  BY DEF Settle, Save, TypeOK, Keeps
<1>2. \A g \in Hosts : pc'[g] \in InFlight \cup {"filed"} =>
        g # h /\ pc'[g] = pc[g] /\ cur'[g] = cur[g] /\ answer'[g] = answer[g]
  BY DEF Settle, Save, TypeOK, InFlight
<1> QED
  BY <1>1, <1>2 DEF Quiet, Settle, Save

LEMMA HandleQuiet ==
  ASSUME TypeOK, NEW h \in Hosts,
         \/ HandleOverBudget(h) \/ HandleOverCap(h) \/ HandleTooLarge(h)
         \/ HandleDropped(h) \/ HandleUnchanged(h) \/ HandleForbidden(h)
         \/ HandleError(h) \/ HandleInvalid(h)
  PROVE  Quiet
<1>1. PICK r \in Results :
        Settle(h, Result(h, r)) \/ Settle(h, Measured(Result(h, r), answer[h]))
  <2>1. {"budget-exceeded", "over-dataset-cap", "response-too-large", "network-error",
         "not-updated", "forbidden", "http-error", "validation-error"} \subseteq Results
    BY DEF Results
  <2> QED
    BY <2>1 DEF HandleOverBudget, HandleOverCap, HandleTooLarge, HandleDropped,
                HandleUnchanged, HandleForbidden, HandleError, HandleInvalid
<1>2. cur[h] \in Datasets => state[cur[h]] \in DatasetState
  BY DEF TypeOK
<1>3. cur[h] \in Datasets =>
        /\ Keeps(state[cur[h]], Result(h, r))
        /\ Keeps(state[cur[h]], Measured(Result(h, r), answer[h]))
  BY <1>2, ResultKeeps DEF Result
<1> QED
  BY <1>1, <1>3, SettleQuiet

\* Steps that write no state.
LEMMA SilentQuiet ==
  ASSUME TypeOK, UNCHANGED <<file, status, state>>,
         \A g \in Hosts : pc'[g] \in InFlight => pc[g] \in InFlight /\ cur'[g] = cur[g],
         \A g \in Hosts : pc'[g] = "filed" =>
           pc[g] = "filed" /\ cur'[g] = cur[g] /\ answer'[g] = answer[g]
  PROVE  Quiet
BY DEF Quiet, Keeps

LEMMA DeclineQuiet ==
  ASSUME TypeOK, NEW h \in Hosts, NEW d \in Datasets,
         DeclineOverCap(h, d) \/ DeclineBudget(h, d)
  PROVE  Quiet
<1>1. PICK r \in Results : Save(h, d, [state[d] EXCEPT !.result = r])
  BY DEF DeclineOverCap, DeclineBudget, Results
<1>2. pc[h] = "loop" /\ UNCHANGED <<file, pc, answer>>
  BY DEF DeclineOverCap, DeclineBudget, Due, Turn
<1>3. state[d] \in DatasetState
  BY DEF TypeOK
<1>4. \A e \in Datasets : Keeps(state[e], state'[e])
  BY <1>1, <1>3, ResultKeeps DEF Save, TypeOK, Keeps
<1>5. \A g \in Hosts : g # h => cur'[g] = cur[g]
  BY <1>1 DEF Save, TypeOK
<1> QED
  BY <1>1, <1>2, <1>4, <1>5 DEF Quiet, Save, InFlight

LEMMA ConnectQuiet ==
  ASSUME TypeOK, NEW h \in Hosts, ConnectFails(h)
  PROVE  Quiet
<1> DEFINE d == cur[h]
           t == [state[d] EXCEPT !.retry = state[d].attempt + RetryInterval,
                                 !.result = "network-error"]
<1>1. Save(h, d, t) /\ pc' = [pc EXCEPT ![h] = "loop"] /\ UNCHANGED <<file, answer>>
  BY DEF ConnectFails
<1>2. ASSUME d \in Datasets PROVE Keeps(state[d], t)
  <2>1. state[d] \in DatasetState
    BY <1>2 DEF TypeOK
  <2> QED
    BY <2>1, TimeAssumption DEF DatasetState, Keeps
<1> HIDE DEF t
<1>3. \A e \in Datasets : Keeps(state[e], state'[e])
  BY <1>1, <1>2 DEF Save, TypeOK, Keeps
<1>4. \A g \in Hosts : pc'[g] \in InFlight \cup {"filed"} =>
        g # h /\ pc'[g] = pc[g] /\ cur'[g] = cur[g]
  BY <1>1 DEF Save, TypeOK, InFlight
<1> QED
  BY <1>1, <1>3, <1>4 DEF Quiet, Save

LEMMA OtherQuiet ==
  ASSUME TypeOK,
         \/ Tick \/ (\E d \in Datasets : DamageState(d)) \/ LoseLedger \/ UNCHANGED vars
         \/ \E h \in Hosts :
              \/ ReadClock(h) \/ RefuseLock(h) \/ Acquire(h) \/ Account(h)
              \/ Finish(h) \/ Crash(h) \/ (\E a : Exchange(h, a))
              \/ \E d \in Datasets :
                   SkipSpent(h, d) \/ SkipCorrupt(h, d) \/ SkipNotDue(h, d)
  PROVE  Quiet
<1> USE DEF volumeVars, processVars, historyVars
<1>1. UNCHANGED <<file, status, state>>
  BY DEF Tick, DamageState, LoseLedger, vars, ReadClock, RefuseLock, Acquire, Account,
         Finish, Crash, Exchange, SkipSpent, SkipCorrupt, SkipNotDue
<1>2. CASE \/ Tick \/ (\E d \in Datasets : DamageState(d)) \/ LoseLedger \/ UNCHANGED vars
           \/ \E h \in Hosts, d \in Datasets :
                SkipSpent(h, d) \/ SkipCorrupt(h, d) \/ SkipNotDue(h, d)
  <2>1. UNCHANGED <<pc, cur, answer>>
    BY <1>2 DEF Tick, DamageState, LoseLedger, vars, SkipSpent, SkipCorrupt, SkipNotDue
  <2> QED
    BY <1>1, <2>1, SilentQuiet
<1>3. ASSUME NEW h \in Hosts, ReadClock(h) \/ RefuseLock(h) \/ Acquire(h) \/ Finish(h)
                              \/ Crash(h)
      PROVE  Quiet
  <2>1. pc'[h] \notin InFlight \cup {"filed"}
    BY <1>3 DEF ReadClock, RefuseLock, Acquire, Finish, Crash, TypeOK, InFlight
  <2>2. \A g \in Hosts \ {h} : pc'[g] = pc[g] /\ cur'[g] = cur[g] /\ answer'[g] = answer[g]
    BY <1>3 DEF ReadClock, RefuseLock, Acquire, Finish, Crash, TypeOK
  <2> QED
    BY <1>1, <2>1, <2>2, SilentQuiet
<1>4. ASSUME NEW h \in Hosts, Account(h) \/ (\E a : Exchange(h, a))
      PROVE  Quiet
  <2>1. pc[h] \in InFlight /\ pc'[h] \in InFlight /\ cur' = cur
    BY <1>4 DEF Account, Exchange, TypeOK, InFlight
  <2>2. \A g \in Hosts \ {h} : pc'[g] = pc[g] /\ answer'[g] = answer[g]
    BY <1>4 DEF Account, Exchange, TypeOK
  <2> QED
    BY <1>1, <2>1, <2>2, SilentQuiet DEF InFlight
<1> QED
  BY <1>2, <1>3, <1>4

-----------------------------------------------------------------------------
(* The steps that attempt, publish and report.                             *)

\* A due dataset has not been attempted at this instant or later.
LEMMA DueIsLater ==
  ASSUME TypeOK, OrderInv, NEW h \in Hosts, NEW d \in Datasets, Due(h, d)
  PROVE  state[d].attempt < Now(h)
<1>1. state[d].attempt \in Int /\ state[d].retry \in Int /\ Now(h) \in Nat
  BY ClockReading DEF TypeOK, DatasetState
<1>2. NextAttemptAt(state[d]) <= Now(h)
  BY DEF Due
<1>3. state[d].retry # Never => state[d].retry > state[d].attempt
  BY DEF OrderInv, Ordered
<1>4. Floor \in Nat /\ 1 <= Floor
  BY TimeAssumption
<1> QED
  BY <1>1, <1>2, <1>3, <1>4 DEF NextAttemptAt, Never

\* While h is past the lock, nobody else is.
LEMMA Alone ==
  ASSUME LockHeld, NEW h \in Hosts, Running(h), NEW g \in Hosts, g # h
  PROVE  pc[g] \notin InFlight \cup {"filed"}
BY DEF LockHeld, Running, InFlight

LEMMA AttemptOrder ==
  ASSUME TypeOK, LockHeld, OrderInv, NEW h \in Hosts, NEW d \in Datasets, Attempt(h, d)
  PROVE  OrderInv'
<1> DEFINE s == state[d]
           t == [s EXCEPT !.attempt = Now(h), !.retry = Now(h) + Floor,
                          !.result = "attempting"]
<1>1. s \in DatasetState /\ Now(h) \in Nat /\ Floor \in Nat /\ 1 <= Floor
  BY ClockReading, TimeAssumption DEF TypeOK
<1>2. /\ t.attempt = Now(h) /\ t.retry = Now(h) + Floor
      /\ t.success = s.success /\ t.body = s.body
  BY <1>1 DEF DatasetState
<1>3. s.attempt < Now(h) /\ s.attempt \in Int /\ s.success \in Int
  BY <1>1, DueIsLater DEF Attempt, DatasetState
<1>4. state' = [state EXCEPT ![d] = t] /\ cur' = [cur EXCEPT ![h] = d]
      /\ pc' = [pc EXCEPT ![h] = "attempting"] /\ UNCHANGED <<file, status, answer>>
  BY DEF Attempt, Save
<1>5. file[d].stamp \in Int /\ status[d].attempt \in Int /\ status[d].success \in Int
  BY DEF TypeOK, Published, DatasetState
<1> HIDE DEF t
<1>6. state'[d] = t /\ \A e \in Datasets : e # d => state'[e] = state[e]
  BY <1>4 DEF TypeOK
<1>7. ASSUME NEW e \in Datasets PROVE Ordered(e)'
  <2>1. CASE e # d
    BY <1>4, <1>6, <2>1 DEF OrderInv, Ordered
  <2>2. CASE e = d
    BY <1>1, <1>2, <1>3, <1>4, <1>5, <1>6, <2>2 DEF OrderInv, Ordered
  <2> QED
    BY <2>1, <2>2
<1>8. ASSUME NEW g \in Hosts PROVE Ahead(g)'
  <2>1. CASE g # h
    <3>1. Running(h)
      BY DEF Attempt, Due, Turn, Running
    <3>2. pc'[g] \notin InFlight \cup {"filed"}
      BY <1>4, <2>1, <3>1, Alone DEF TypeOK
    <3> QED
      BY <3>2 DEF Ahead
  <2>2. CASE g = h
    <3>1. cur'[h] = d /\ pc'[h] = "attempting"
      BY <1>4 DEF TypeOK
    <3>2. s.success < Now(h) /\ file[d].stamp < Now(h)
      BY <1>1, <1>3, <1>5 DEF OrderInv, Ordered
    <3> QED
      BY <1>2, <1>4, <1>6, <2>2, <3>1, <3>2 DEF Ahead
  <2> QED
    BY <2>1, <2>2
<1> QED
  BY <1>7, <1>8 DEF OrderInv

LEMMA WriteFileOrder ==
  ASSUME TypeOK, LockHeld, OrderInv, NEW h \in Hosts, WriteFile(h)
  PROVE  OrderInv'
<1> DEFINE d == cur[h]
           f == [body |-> answer[h].body, stamp |-> state[d].attempt]
<1>1. /\ pc[h] = "answered" /\ pc' = [pc EXCEPT ![h] = "filed"]
      /\ file' = [file EXCEPT ![d] = f]
      /\ UNCHANGED <<state, status, cur, answer>>
  BY DEF WriteFile, Answered
<1>2. d \in Datasets /\ state[d].success < state[d].attempt
  BY <1>1 DEF OrderInv, Ahead, InFlight
<1>3. f.stamp = state[d].attempt /\ state[d].attempt \in Int /\ state[d].success \in Int
  BY <1>2 DEF TypeOK, DatasetState
<1> HIDE DEF f
<1>4. file'[d] = f /\ \A e \in Datasets : e # d => file'[e] = file[e]
  BY <1>1, <1>2 DEF TypeOK
<1>5. ASSUME NEW e \in Datasets PROVE Ordered(e)'
  <2>1. CASE e # d
    BY <1>1, <1>4, <2>1 DEF OrderInv, Ordered
  <2>2. CASE e = d
    BY <1>1, <1>2, <1>3, <1>4, <2>2 DEF OrderInv, Ordered
  <2> QED
    BY <2>1, <2>2
<1>6. ASSUME NEW g \in Hosts PROVE Ahead(g)'
  <2>1. CASE g # h
    <3>1. pc'[g] \notin InFlight \cup {"filed"}
      BY <1>1, <2>1, Alone DEF TypeOK, Running
    <3> QED
      BY <3>1 DEF Ahead
  <2>2. CASE g = h
    BY <1>1, <1>2, <1>4, <2>2 DEF Ahead, InFlight, TypeOK, f
  <2> QED
    BY <2>1, <2>2
<1> QED
  BY <1>5, <1>6 DEF OrderInv

LEMMA SuccessOrder ==
  ASSUME TypeOK, LockHeld, OrderInv, NEW h \in Hosts, SaveSuccess(h)
  PROVE  OrderInv'
<1> DEFINE d == cur[h]
           m == Measured(Result(h, "published"), answer[h])
           t == [m EXCEPT !.success = state[d].attempt, !.body = answer[h].body]
<1>1. /\ pc[h] = "filed" /\ pc' = [pc EXCEPT ![h] = "loop"]
      /\ state' = [state EXCEPT ![d] = t]
      /\ UNCHANGED <<file, status>>
  BY DEF SaveSuccess, Settle, Save
<1>2. d \in Datasets /\ file[d] = [body |-> answer[h].body, stamp |-> state[d].attempt]
  BY <1>1 DEF OrderInv, Ahead
<1>3. state[d] \in DatasetState /\ "published" \in Results
  BY <1>2 DEF TypeOK, Results
<1>4. /\ m \in [attempt : Int, success : Int, retry : Int, result : Results, size : {m.size},
                format : {"CSV"}, body : Bodies \cup {NoBody}]
      /\ Keeps(state[d], m) /\ m.retry = state[d].retry
  BY <1>3, ResultKeeps DEF Result, Measured, DatasetState
<1> HIDE DEF m
<1>5. /\ t.attempt = state[d].attempt /\ t.success = state[d].attempt
      /\ t.body = answer[h].body /\ t.retry = state[d].retry
  BY <1>4 DEF Keeps
<1> HIDE DEF t
<1>6. state'[d] = t /\ \A e \in Datasets : e # d => state'[e] = state[e]
  BY <1>1, <1>2 DEF TypeOK
<1>7. state[d].attempt \in Int /\ state[d].success \in Int /\ status[d].success \in Int
  BY <1>2, <1>3 DEF TypeOK, DatasetState
<1>8. ASSUME NEW e \in Datasets PROVE Ordered(e)'
  <2>1. CASE e # d
    BY <1>1, <1>6, <2>1 DEF OrderInv, Ordered
  <2>2. CASE e = d
    BY <1>1, <1>2, <1>5, <1>6, <1>7, <2>2 DEF OrderInv, Ordered
  <2> QED
    BY <2>1, <2>2
<1>9. ASSUME NEW g \in Hosts PROVE Ahead(g)'
  <2>1. pc'[g] \notin InFlight \cup {"filed"}
    BY <1>1, Alone DEF TypeOK, Running, InFlight
  <2> QED
    BY <2>1 DEF Ahead
<1> QED
  BY <1>8, <1>9 DEF OrderInv

LEMMA StatusOrder ==
  ASSUME TypeOK, OrderInv, NEW h \in Hosts, WriteStatus(h)
  PROVE  OrderInv'
<1>1. status' = [status EXCEPT ![cur[h]] = state[cur[h]]]
      /\ UNCHANGED <<state, file, pc, cur, answer>>
  BY DEF WriteStatus
<1>2. ASSUME NEW d \in Datasets PROVE Ordered(d)'
  <2>1. status'[d] = status[d] \/ status'[d] = state[d]
    BY <1>1 DEF TypeOK
  <2>2. state[d].attempt \in Int /\ state[d].success \in Int
    BY DEF TypeOK, DatasetState
  <2> QED
    BY <1>1, <2>1, <2>2 DEF OrderInv, Ordered
<1>3. ASSUME NEW g \in Hosts PROVE Ahead(g)'
  BY <1>1 DEF OrderInv, Ahead
<1> QED
  BY <1>2, <1>3 DEF OrderInv

LEMMA OrderStep == TypeOK /\ LockHeld /\ OrderInv /\ [Next]_vars => OrderInv'
<1> SUFFICES ASSUME TypeOK, LockHeld, OrderInv, [Next]_vars PROVE OrderInv'
  OBVIOUS
<1>1. CASE Quiet
  BY <1>1, QuietKeepsOrder
<1>2. ASSUME NEW h \in Hosts, NEW d \in Datasets, Attempt(h, d) PROVE OrderInv'
  BY <1>2, AttemptOrder
<1>3. ASSUME NEW h \in Hosts, NEW d \in Datasets, DeclineOverCap(h, d) \/ DeclineBudget(h, d)
      PROVE  OrderInv'
  BY <1>1, <1>3, DeclineQuiet
<1>4. ASSUME NEW h \in Hosts, ConnectFails(h) PROVE OrderInv'
  BY <1>1, <1>4, ConnectQuiet
<1>5. ASSUME NEW h \in Hosts, Handle(h) PROVE OrderInv'
  BY <1>1, <1>5, HandleQuiet, WriteFileOrder, SuccessOrder DEF Handle
<1>6. ASSUME NEW h \in Hosts, WriteStatus(h) PROVE OrderInv'
  BY <1>6, StatusOrder
<1>7. CASE \/ Tick \/ (\E d \in Datasets : DamageState(d)) \/ LoseLedger \/ UNCHANGED vars
           \/ \E h \in Hosts :
                \/ ReadClock(h) \/ RefuseLock(h) \/ Acquire(h) \/ Account(h)
                \/ Finish(h) \/ Crash(h) \/ (\E a : Exchange(h, a))
                \/ \E d \in Datasets :
                     SkipSpent(h, d) \/ SkipCorrupt(h, d) \/ SkipNotDue(h, d)
  BY <1>1, <1>7, OtherQuiet
<1> QED
  BY <1>2, <1>3, <1>4, <1>5, <1>6, <1>7 DEF Next, Proceed, Consider, Request

-----------------------------------------------------------------------------
LEMMA OrderAlways == Spec => []OrderInv
<1>1. Init => LockHeld
  BY DEF Init, LockHeld, Running
<1> QED
  BY <1>1, OrderInit, OrderStep, LockStep, TypeCorrect, PTL DEF Spec

\* No document ever claims a publication that has not reached the file, and a
\* state as recent as the file is about it, wherever runs were killed.
THEOREM DocumentsTrailFile == Spec => []PublishedInOrder
<1>1. OrderInv => PublishedInOrder
  BY DEF OrderInv, Ordered, PublishedInOrder
<1> QED
  BY <1>1, OrderAlways, PTL

\* A public file past the critical age always pages, and one past the warning
\* age never passes as healthy, for all thresholds, clocks and histories.
THEOREM StaleNeverPasses == Spec => []StaleIsReported
<1>1. TypeOK /\ OrderInv => StaleIsReported
  <2> SUFFICES ASSUME TypeOK, OrderInv, NEW h \in Hosts, NEW failed \in BOOLEAN
               PROVE  LET severity == Severity(Now(h), failed)
                          Age(d)   == Now(h) - file[d].stamp
                      IN  /\ (\E d \in Datasets : Age(d) >= Critical) => severity = "critical"
                          /\ severity = "ok" => \A d \in Datasets : Age(d) < Warning
    BY DEF StaleIsReported
  <2> DEFINE severity == Severity(Now(h), failed)
  <2>1. ASSUME NEW d \in Datasets
        PROVE  /\ Now(h) - file[d].stamp >= Critical => CheckGp(d, Now(h)) = "critical"
               /\ Now(h) - file[d].stamp >= Warning =>
                    CheckGp(d, Now(h)) \in {"warning", "critical"}
    <3>1. status[d].success <= file[d].stamp
      BY DEF OrderInv, Ordered, TypeOK, DatasetState, Published
    <3>2. status[d].success \in Int /\ file[d].stamp \in Int /\ Now(h) \in Nat
      BY ClockReading DEF TypeOK, DatasetState, Published
    <3>3. Warning \in Nat /\ Critical \in Nat /\ Warning < Critical
      BY HealthAssumption
    <3> QED
      BY <3>1, <3>2, <3>3 DEF CheckGp, AgeSeverity
  <2>2. \A d \in Datasets :
          /\ CheckGp(d, Now(h)) = "critical" => severity = "critical"
          /\ CheckGp(d, Now(h)) \in {"warning", "critical"} => severity # "ok"
    BY DEF Severity, Worst
  <2>3. ASSUME NEW d \in Datasets, severity = "ok" PROVE Now(h) - file[d].stamp < Warning
    <3>1. ~ (Now(h) - file[d].stamp >= Warning)
      BY <2>1, <2>2, <2>3
    <3>2. file[d].stamp \in Int /\ Now(h) \in Nat /\ Warning \in Nat
      BY ClockReading, HealthAssumption DEF TypeOK, Published
    <3> QED
      BY <3>1, <3>2
  <2> QED
    BY <2>1, <2>2, <2>3
<1> QED
  BY <1>1, OrderAlways, TypeCorrect, PTL

-----------------------------------------------------------------------------
(* Last known good.  The body a run measures a new one against is the one  *)
(* that is published, except in the instant between the replacement of the *)
(* file and the state; only a process that is killed there leaves it so,   *)
(* and `torn' names the file it left.                                      *)

BodyInv ==
  \A d \in Datasets :
    state[d].body # file[d].body =>
      \/ \E h \in Hosts : pc[h] = "filed" /\ cur[h] = d
      \/ torn[d] = file[d].stamp

\* Only a kill says that a file is torn, and it says so of the file that is there.
LEMMA TornStays ==
  ASSUME TypeOK, [Next]_vars, NEW d \in Datasets, file'[d] = file[d],
         torn[d] = file[d].stamp
  PROVE  torn'[d] = file'[d].stamp
<1>1. ASSUME NEW h \in Hosts, Crash(h)
      PROVE  torn'[d] = file'[d].stamp
  BY <1>1 DEF Crash, TypeOK
<1>2. ASSUME NEW h \in Hosts, Handle(h)
      PROVE  torn' = torn
  BY <1>2
  DEF Handle, HandleOverBudget, HandleOverCap, HandleTooLarge, HandleDropped,
      HandleUnchanged, HandleForbidden, HandleError, HandleInvalid, WriteFile,
      SaveSuccess, Settle, historyVars
<1>3. ASSUME NEW h \in Hosts, Consider(h) \/ Request(h)
      PROVE  torn' = torn
  BY <1>3
  DEF Consider, SkipSpent, SkipCorrupt, SkipNotDue, DeclineOverCap, DeclineBudget, Attempt,
      Request, ConnectFails, Exchange, Account, historyVars
<1>4. ASSUME NEW h \in Hosts,
             ReadClock(h) \/ RefuseLock(h) \/ Acquire(h) \/ WriteStatus(h) \/ Finish(h)
      PROVE  torn' = torn
  BY <1>4 DEF ReadClock, RefuseLock, Acquire, WriteStatus, Finish, historyVars
<1>5. CASE Tick \/ (\E e \in Datasets : DamageState(e)) \/ LoseLedger \/ UNCHANGED vars
  BY <1>5 DEF Tick, DamageState, LoseLedger, vars, historyVars
<1> QED
  BY <1>1, <1>2, <1>3, <1>4, <1>5 DEF Next, Proceed

\* A process that has replaced a file goes on to save its state, or is killed.
LEMMA FiledStays ==
  ASSUME TypeOK, LockHeld, [Next]_vars,
         NEW g \in Hosts, pc[g] = "filed", ~ SaveSuccess(g), ~ Crash(g)
  PROVE  pc'[g] = "filed" /\ cur'[g] = cur[g]
<1>1. \A h \in Hosts : Running(h) => h = g
  BY DEF LockHeld, Running
<1>2. lock # NoHost
  BY HostAssumption DEF LockHeld, Running
<1>3. ASSUME NEW h \in Hosts, Handle(h)
      PROVE  FALSE
  <2>1. h = g
    BY <1>1, <1>3
    DEF Handle, HandleOverBudget, HandleOverCap, HandleTooLarge, HandleDropped,
        HandleUnchanged, HandleForbidden, HandleError, HandleInvalid, WriteFile,
        SaveSuccess, Answered, Running
  <2> QED
    BY <1>3, <2>1
    DEF Handle, HandleOverBudget, HandleOverCap, HandleTooLarge, HandleDropped,
        HandleUnchanged, HandleForbidden, HandleError, HandleInvalid, WriteFile, Answered
<1>4. ASSUME NEW h \in Hosts, Consider(h) \/ Request(h) \/ Finish(h)
      PROVE  FALSE
  BY <1>1, <1>4
  DEF Consider, SkipSpent, SkipCorrupt, SkipNotDue, DeclineOverCap, DeclineBudget, Attempt, Due,
      Turn, Request, ConnectFails, Exchange, Account, Finish, Running
<1>5. ASSUME NEW h \in Hosts, ReadClock(h) \/ RefuseLock(h) \/ WriteStatus(h)
      PROVE  pc'[g] = "filed" /\ cur'[g] = cur[g]
  BY <1>5 DEF ReadClock, RefuseLock, WriteStatus, TypeOK
<1>6. (\A h \in Hosts : ~ Acquire(h)) /\ ~ LoseLedger
        /\ \A d \in Datasets : ~ DamageState(d)
  BY <1>2 DEF Acquire, LoseLedger, DamageState
<1>8. ASSUME NEW h \in Hosts, Crash(h)
      PROVE  pc'[g] = "filed" /\ cur'[g] = cur[g]
  <2>1. h # g
    BY <1>8
  <2> QED
    BY <1>8, <2>1 DEF Crash, TypeOK
<1>7. CASE Tick \/ UNCHANGED vars
  BY <1>7 DEF Tick, vars, processVars
<1> QED
  BY <1>3, <1>4, <1>5, <1>6, <1>7, <1>8 DEF Next, Proceed

\* Only the two steps of a publication touch what is published.
LEMMA BodyStays ==
  ASSUME TypeOK, [Next]_vars, ~ \E h \in Hosts : WriteFile(h) \/ SaveSuccess(h)
  PROVE  UNCHANGED file /\ \A d \in Datasets : state'[d].body = state[d].body
<1>1. CASE Quiet
  BY <1>1 DEF Quiet, Keeps
<1>2. ASSUME NEW h \in Hosts, NEW e \in Datasets, Attempt(h, e)
      PROVE  UNCHANGED file /\ \A d \in Datasets : state'[d].body = state[d].body
  <2>1. /\ state' = [state EXCEPT ![e] = [state[e] EXCEPT
                       !.attempt = Now(h), !.retry = Now(h) + Floor, !.result = "attempting"]]
        /\ UNCHANGED file
    BY <1>2 DEF Attempt, Save
  <2>2. state[e] \in DatasetState
    BY DEF TypeOK
  <2>3. \A i, j, r : [state[e] EXCEPT !.attempt = i, !.retry = j, !.result = r].body
                       = state[e].body
    BY <2>2 DEF DatasetState
  <2> QED
    BY <2>1, <2>3 DEF TypeOK
<1>3. ASSUME NEW h \in Hosts, WriteStatus(h)
      PROVE  UNCHANGED <<file, state>>
  BY <1>3 DEF WriteStatus
<1>4. ASSUME NEW h \in Hosts, Handle(h)
      PROVE  Quiet
  BY <1>4, HandleQuiet DEF Handle
<1>5. ASSUME NEW h \in Hosts, NEW d \in Datasets, DeclineOverCap(h, d) \/ DeclineBudget(h, d)
      PROVE  Quiet
  BY <1>5, DeclineQuiet
<1>6. ASSUME NEW h \in Hosts, ConnectFails(h)
      PROVE  Quiet
  BY <1>6, ConnectQuiet
<1> QED
  BY <1>1, <1>2, <1>3, <1>4, <1>5, <1>6, OtherQuiet DEF Next, Proceed, Consider, Request

LEMMA BodyStep ==
  ASSUME TypeOK, LockHeld, OrderInv, BodyInv, [Next]_vars
  PROVE  BodyInv'
<1>1. SUFFICES ASSUME NEW d \in Datasets, state'[d].body # file'[d].body
               PROVE  \/ \E h \in Hosts : pc'[h] = "filed" /\ cur'[h] = d
                      \/ torn'[d] = file'[d].stamp
  BY DEF BodyInv
<1>2. ASSUME NEW h \in Hosts, WriteFile(h)
      PROVE  \/ \E g \in Hosts : pc'[g] = "filed" /\ cur'[g] = d
             \/ torn'[d] = file'[d].stamp
  <2>1. /\ pc[h] = "answered" /\ pc'[h] = "filed" /\ UNCHANGED <<state, cur>>
        /\ \E f : file' = [file EXCEPT ![cur[h]] = f]
    BY <1>2 DEF WriteFile, Answered, TypeOK
  <2>2. CASE d = cur[h]
    BY <2>1, <2>2
  <2>3. CASE d # cur[h]
    <3>1. file'[d] = file[d]
      BY <2>1, <2>3 DEF TypeOK
    <3>2. \A g \in Hosts : pc[g] # "filed"
      BY <2>1 DEF LockHeld, Running
    <3>3. torn[d] = file[d].stamp
      BY <1>1, <2>1, <3>1, <3>2 DEF BodyInv
    <3> QED
      BY <3>1, <3>3, TornStays
  <2> QED
    BY <2>2, <2>3
<1>3. ASSUME NEW h \in Hosts, SaveSuccess(h)
      PROVE  torn'[d] = file'[d].stamp
  <2> DEFINE m == Measured(Result(h, "published"), answer[h])
             t == [m EXCEPT !.success = state[cur[h]].attempt, !.body = answer[h].body]
  <2>1. /\ pc[h] = "filed" /\ UNCHANGED file
        /\ state' = [state EXCEPT ![cur[h]] = t]
    BY <1>3 DEF SaveSuccess, Settle, Save
  <2>2. cur[h] \in Datasets /\ file[cur[h]].body = answer[h].body
    <3>1. Ahead(h) /\ pc[h] = "filed"
      BY <2>1 DEF OrderInv
    <3>2. /\ cur[h] \in Datasets
          /\ file[cur[h]] = [body |-> answer[h].body, stamp |-> state[cur[h]].attempt]
      BY <3>1 DEF Ahead
    <3> QED
      BY <3>2
  <2>3. m \in DatasetState
    <3>1. Result(h, "published") \in DatasetState
      BY <2>2, ResultTyped DEF TypeOK, Result, Results
    <3> QED
      BY <3>1, MeasuredTyped DEF TypeOK
  <2> HIDE DEF m
  <2>4. t.body = answer[h].body
    BY <2>3 DEF DatasetState
  <2> HIDE DEF t
  <2>5. CASE d = cur[h]
    BY <1>1, <2>1, <2>2, <2>4, <2>5 DEF TypeOK
  <2>6. CASE d # cur[h]
    <3>1. state'[d] = state[d]
      BY <2>1, <2>6 DEF TypeOK
    <3>2. ASSUME NEW g \in Hosts, pc[g] = "filed", cur[g] = d
          PROVE  FALSE
      BY <2>1, <2>6, <3>2 DEF LockHeld, Running
    <3>3. torn[d] = file[d].stamp
      BY <1>1, <2>1, <3>1, <3>2 DEF BodyInv
    <3> QED
      BY <2>1, <3>3, TornStays
  <2> QED
    BY <2>5, <2>6
<1>4. CASE ~ \E h \in Hosts : WriteFile(h) \/ SaveSuccess(h)
  <2>1. file' = file /\ state'[d].body = state[d].body
    BY <1>4, BodyStays
  <2>2. CASE torn[d] = file[d].stamp
    BY <2>1, <2>2, TornStays
  <2>3. ASSUME NEW g \in Hosts, pc[g] = "filed", cur[g] = d
        PROVE  \/ \E h \in Hosts : pc'[h] = "filed" /\ cur'[h] = d
               \/ torn'[d] = file'[d].stamp
    <3>1. CASE Crash(g)
      BY <2>1, <2>3, <3>1 DEF Crash, TypeOK
    <3>2. CASE ~ Crash(g)
      BY <1>4, <2>3, <3>2, FiledStays
    <3> QED
      BY <3>1, <3>2
  <2>4. state[d].body # file[d].body
    BY <1>1, <2>1
  <2> QED
    BY <2>2, <2>3, <2>4 DEF BodyInv
<1> QED
  BY <1>2, <1>3, <1>4

\* A published file is only replaced by a body that passes the count gates
\* measured against that very file, for all sizes, minima and tolerated drops, and
\* for every fault anywhere; the one file that is followed by a body measured
\* against the state is the one whose run was killed before it saved that state.
THEOREM KnownGoodHolds == Spec => LastKnownGood
<1>1. Spec => []BodyInv
  <2>1. Init => LockHeld /\ BodyInv
    BY DEF Init, LockHeld, Running, BodyInv, LegacyState, FreshState
  <2>2. TypeOK /\ LockHeld /\ OrderInv /\ BodyInv /\ [Next]_vars => BodyInv'
    BY BodyStep
  <2> QED
    BY <2>1, <2>2, OrderAlways, LockStep, TypeCorrect, PTL DEF Spec
<1>2. TypeOK /\ LockHeld /\ BodyInv /\ [Next]_vars =>
        [\A d \in Datasets :
           LET base == IF torn[d] = file[d].stamp THEN state[d].body ELSE file[d].body
           IN  file'[d] # file[d] =>
                 /\ CountOf[file'[d].body] >= MinRecords[d]
                 /\ base # NoBody =>
                      100 * CountOf[file'[d].body] >= CountOf[base] * (100 - DropPercent)]_vars
  <2> DEFINE Base(d) == IF torn[d] = file[d].stamp THEN state[d].body ELSE file[d].body
  <2>1. SUFFICES ASSUME TypeOK, LockHeld, BodyInv, [Next]_vars, NEW d \in Datasets,
                        file'[d] # file[d]
                 PROVE  /\ CountOf[file'[d].body] >= MinRecords[d]
                        /\ Base(d) # NoBody =>
                             100 * CountOf[file'[d].body]
                               >= CountOf[Base(d)] * (100 - DropPercent)
    OBVIOUS
  <2>2. PICK h \in Hosts : WriteFile(h)
    <3>1. \A h \in Hosts : SaveSuccess(h) => UNCHANGED file
      BY DEF SaveSuccess, Settle
    <3>2. CASE \E h \in Hosts : SaveSuccess(h)
      BY <2>1, <3>1, <3>2
    <3> QED
      BY <2>1, <3>2, BodyStays
  <2> DEFINE b == answer[h].body
  <2>3. /\ pc[h] = "answered" /\ Acceptable(cur[h], state[cur[h]], b)
        /\ file' = [file EXCEPT ![cur[h]] = [body |-> b, stamp |-> state[cur[h]].attempt]]
    BY <2>2 DEF WriteFile, Answered
  <2>4. d = cur[h] /\ file'[d].body = b
    BY <2>1, <2>3 DEF TypeOK
  <2>5. state[d].body = Base(d)
    <3>1. \A g \in Hosts : pc[g] # "filed"
      BY <2>1, <2>3 DEF LockHeld, Running
    <3> QED
      BY <2>1, <3>1 DEF BodyInv
  <2>6. Base(d) # NoBody => RecordCount(state[d]) = CountOf[Base(d)]
    BY <2>5 DEF RecordCount
  <2> HIDE DEF b, Base
  <2> QED
    BY <2>3, <2>4, <2>6 DEF Acceptable
<1>3. Spec => []LockHeld
  <2>1. Init => LockHeld
    BY DEF Init, LockHeld, Running
  <2> QED
    BY <2>1, LockStep, TypeCorrect, PTL DEF Spec
<1> QED
  BY <1>1, <1>2, <1>3, TypeCorrect, PTL DEF Spec, LastKnownGood

=============================================================================
