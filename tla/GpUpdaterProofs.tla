-------------------------- MODULE GpUpdaterProofs --------------------------
(***************************************************************************)
(* What GpUpdater guarantees for every set of datasets and hosts, every    *)
(* clock skew within the cushion, every size, ceiling and horizon, and any *)
(* number of faults: first what guards a request, then the daily allowance *)
(* (what the requests of any window draw from CelesTrak, which datasets    *)
(* are declined for their size and for how long, and in which order and    *)
(* how often a run turns to the network).                                  *)
(***************************************************************************)
EXTENDS GpUpdater, FiniteSums, TLAPS

-----------------------------------------------------------------------------
(* Typing.                                                                 *)

LEMMA ClockReading ==
  ASSUME TypeOK, NEW h \in Hosts
  PROVE  Now(h) \in Stamps /\ Now(h) \in Nat /\ clock <= Now(h) /\ Now(h) <= clock + MaxSkew
<1>1. clock \in 0 .. MaxClock
  BY DEF TypeOK, Times
<1>2. SkewOf[h] \in 0 .. MaxSkew
  BY HostAssumption
<1>3. MaxSkew \in Nat /\ MaxClock \in Nat /\ Stamps = 0 .. (MaxClock + MaxSkew)
  BY HostAssumption
<1> QED
  BY <1>1, <1>2, <1>3 DEF Now

LEMMA FreshTyped == FreshState \in DatasetState /\ LegacyState \in DatasetState
BY LegacyAssumption
DEF FreshState, LegacyState, DatasetState, Results, Never, Unknown

LEMMA InitTyped == Init => TypeOK
<1> SUFFICES ASSUME Init PROVE TypeOK
  OBVIOUS
<1>1. state \in [Datasets -> DatasetState] /\ status \in [Datasets -> DatasetState]
  BY FreshTyped DEF Init
<1>2. file \in [Datasets -> Published]
  BY LegacyAssumption DEF Init, Published, Never
<1>3. /\ ledger \in [Stamps -> Nat] /\ wire \in [Times -> Nat]
      /\ uncharged \in [Times -> Nat] /\ torn \in [Datasets -> Int]
  BY DEF Init, EmptyLedger, Never
<1>4. clock \in Times /\ lock \in Hosts \cup {NoHost} /\ faults \in 0 .. MaxFaults
  BY HostAssumption, FaultAssumption DEF Init, Times
<1>5. summary \in Summary /\ tally \in [Hosts -> Tally]
  BY DEF Init, Summary, Tally, NewTally, Reasons, Never
<1>6. answer \in [Hosts -> Answer]
  BY DEF Init, Answer, NoAnswer, Kinds
<1>7. served \in [Datasets -> Times \cup {Never}]
  BY HostAssumption DEF Init, Times, Never
<1>8. started \in [Hosts -> Stamps]
  BY HostAssumption DEF Init
<1>9. /\ damaged \subseteq Datasets /\ pc \in [Hosts -> Points]
      /\ todo \in [Hosts -> SUBSET Datasets]
      /\ cur \in [Hosts -> Datasets \cup {NoDataset}]
      /\ dirty \in [Hosts -> BOOLEAN] /\ silent \in [Hosts -> Nat]
  BY DEF Init, Points
<1> QED
  BY <1>1, <1>2, <1>3, <1>4, <1>5, <1>6, <1>7, <1>8, <1>9 DEF TypeOK

\* Changing fields of a record keeps its type.
LEMMA ResultTyped ==
  ASSUME NEW s \in DatasetState, NEW r \in Results
  PROVE  [s EXCEPT !.result = r] \in DatasetState
BY DEF DatasetState

LEMMA AttemptTyped ==
  ASSUME NEW s \in DatasetState, NEW i \in Int, NEW j \in Int
  PROVE  [s EXCEPT !.attempt = i, !.retry = j, !.result = "attempting"] \in DatasetState
BY DEF DatasetState, Results

LEMMA RetriedTyped ==
  ASSUME NEW s \in DatasetState, NEW i \in Int
  PROVE  [s EXCEPT !.retry = i, !.result = "network-error"] \in DatasetState
BY DEF DatasetState, Results

LEMMA MeasuredTyped ==
  ASSUME NEW s \in DatasetState, NEW a \in Answer
  PROVE  Measured(s, a) \in DatasetState
<1>1. a.bytes \in Int
  BY DEF Answer
<1>2. \A n \in Int : [s EXCEPT !.size = n, !.format = "CSV"] \in DatasetState
  BY DEF DatasetState
<1> QED
  BY <1>1, <1>2 DEF Measured

LEMMA SuccessTyped ==
  ASSUME NEW s \in DatasetState, NEW i \in Int, NEW b \in Bodies \cup {NoBody}
  PROVE  [s EXCEPT !.success = i, !.body = b] \in DatasetState
BY DEF DatasetState

\* A save of a well-typed record, on which every handler rests.
LEMMA SaveTyped ==
  ASSUME TypeOK, NEW h \in Hosts, NEW d \in Datasets \cup {NoDataset}, NEW s,
         d \in Datasets => s \in DatasetState, Save(h, d, s)
  PROVE  /\ cur' \in [Hosts -> Datasets \cup {NoDataset}]
         /\ state' \in [Datasets -> DatasetState]
         /\ status' \in [Datasets -> DatasetState]
         /\ dirty' \in [Hosts -> BOOLEAN]
BY HostAssumption DEF TypeOK, Save

LEMMA TickTyped == TypeOK /\ Tick => TypeOK'
<1> SUFFICES ASSUME TypeOK, Tick PROVE TypeOK'
  OBVIOUS
<1>1. clock' \in Times
  BY HostAssumption DEF Tick, Times, TypeOK
<1> QED
  BY <1>1 DEF Tick, TypeOK, volumeVars, processVars, historyVars

LEMMA StartTyped ==
  ASSUME TypeOK, NEW h \in Hosts, ReadClock(h) \/ RefuseLock(h) \/ Acquire(h)
  PROVE  TypeOK'
<1> USE DEF TypeOK, volumeVars, processVars, historyVars
<1>2. CASE ReadClock(h)
  BY <1>2, ClockReading DEF ReadClock, Points
<1>3. CASE RefuseLock(h)
  <2>1. 0 \in Stamps
    BY HostAssumption
  <2> QED
    BY <1>3, <2>1 DEF RefuseLock, Points
<1>4. CASE Acquire(h)
  BY <1>4 DEF Acquire, Points, Tally, NewTally, Reasons
<1> QED
  BY <1>2, <1>3, <1>4

LEMMA ConsiderTyped ==
  ASSUME TypeOK, NEW h \in Hosts, NEW d \in Datasets,
         \/ SkipSpent(h, d) \/ SkipCorrupt(h, d) \/ SkipNotDue(h, d)
         \/ DeclineOverCap(h, d) \/ DeclineBudget(h, d) \/ Attempt(h, d)
  PROVE  TypeOK'
<1>1. /\ [tally EXCEPT ![h].exhausted = TRUE] \in [Hosts -> Tally]
      /\ [tally EXCEPT ![h].failed = TRUE] \in [Hosts -> Tally]
  BY Zenon DEF TypeOK, Tally
<1>2. [todo EXCEPT ![h] = @ \ {d}] \in [Hosts -> SUBSET Datasets]
  BY DEF TypeOK
<1>3. \A r \in Results : [state[d] EXCEPT !.result = r] \in DatasetState
  BY ResultTyped DEF TypeOK
<1>4. CASE SkipSpent(h, d) \/ SkipCorrupt(h, d) \/ SkipNotDue(h, d)
  BY <1>1, <1>2, <1>4
  DEF SkipSpent, SkipCorrupt, SkipNotDue, Leave, TypeOK, volumeVars, historyVars
<1>5. CASE DeclineOverCap(h, d) \/ DeclineBudget(h, d)
  <2>1. PICK r \in Results : Save(h, d, [state[d] EXCEPT !.result = r])
    BY <1>5 DEF DeclineOverCap, DeclineBudget, Results
  <2>2. tally' \in [Hosts -> Tally]
    BY <1>1, <1>5 DEF DeclineOverCap, DeclineBudget, TypeOK
  <2> QED
    BY <1>2, <1>3, <1>5, <2>1, <2>2, SaveTyped
    DEF DeclineOverCap, DeclineBudget, Leave, TypeOK, historyVars
<1>6. CASE Attempt(h, d)
  <2>1. [state[d] EXCEPT !.attempt = Now(h), !.retry = Now(h) + Floor,
                         !.result = "attempting"] \in DatasetState
    <3>1. Now(h) \in Int /\ Now(h) + Floor \in Int
      BY ClockReading, TimeAssumption
    <3> QED
      BY <3>1, AttemptTyped DEF TypeOK
  <2>2. [pc EXCEPT ![h] = "attempting"] \in [Hosts -> Points]
    BY DEF TypeOK, Points
  <2> QED
    BY <1>2, <1>6, <2>1, <2>2, SaveTyped DEF Attempt, Leave, TypeOK, historyVars
<1> QED
  BY <1>4, <1>5, <1>6

LEMMA AddTyped ==
  ASSUME NEW S, NEW f \in [S -> Nat], NEW i, NEW n \in Nat
  PROVE  [f EXCEPT ![i] = @ + n] \in [S -> Nat]
<1>1. CASE i \in S
  BY <1>1
<1>2. CASE i \notin S
  BY <1>2
<1> QED
  BY <1>1, <1>2

LEMMA CountTyped ==
  ASSUME TypeOK, NEW h \in Hosts, CountNetworkFailure(h)
  PROVE  tally' \in [Hosts -> Tally] /\ todo' \in [Hosts -> SUBSET Datasets]
<1>1. \A t \in Tally, n \in Nat :
        /\ [t EXCEPT !.failed = TRUE, !.network = n] \in Tally
        /\ [t EXCEPT !.failed = TRUE, !.network = n, !.reason = "unreachable"] \in Tally
  BY DEF Tally, Reasons
<1>2. tally[h] \in Tally
  BY DEF TypeOK
<1>3. tally[h].network + 1 \in Nat
  BY <1>2 DEF Tally
<1>4. CASE tally[h].network + 1 >= StopThreshold
  <2> DEFINE t == [tally[h] EXCEPT !.failed = TRUE, !.network = tally[h].network + 1,
                                   !.reason = "unreachable"]
  <2>1. t \in Tally
    BY <1>1, <1>2, <1>3
  <2>2. tally' = [tally EXCEPT ![h] = t] /\ todo' = [todo EXCEPT ![h] = {}]
    BY <1>4, Zenon DEF CountNetworkFailure
  <2> HIDE DEF t
  <2> QED
    BY <2>1, <2>2, SMTT(30) DEF TypeOK
<1>5. CASE ~ (tally[h].network + 1 >= StopThreshold)
  <2> DEFINE t == [tally[h] EXCEPT !.failed = TRUE, !.network = tally[h].network + 1]
  <2>1. t \in Tally
    BY <1>1, <1>2, <1>3
  <2>2. tally' = [tally EXCEPT ![h] = t] /\ todo' = todo
    BY <1>5, Zenon DEF CountNetworkFailure
  <2> HIDE DEF t
  <2> QED
    BY <2>1, <2>2, SMTT(30) DEF TypeOK
<1> QED
  BY <1>4, <1>5

LEMMA AnswersTyped ==
  ASSUME NEW d, NEW remaining
  PROVE  Answers(d, remaining) \subseteq Answer
<1> DEFINE bound == StreamLimit(d, remaining)
<1>1. Prefixes \subseteq Nat
  BY SizeAssumption DEF Prefixes
<1>2. bound.source \in {"budget", "response", "dataset"}
  BY DEF StreamLimit
<1>3. \A b \in Bodies : [kind |-> "complete", bytes |-> SizeOf[b], body |-> b] \in Answer
  BY SizeAssumption DEF Answer, Kinds
<1>4. \A B \in SUBSET Nat, k \in Kinds :
        [kind : {k}, bytes : B, body : {NoBody}] \subseteq Answer
  BY DEF Answer
<1>5. [kind : {"unchanged", "forbidden", "error"}, bytes : ErrorSizes, body : {NoBody}]
        \subseteq Answer
  BY WireAssumption DEF Answer, Kinds
<1>6. bound.source \in Kinds /\ "dropped" \in Kinds
  BY <1>2 DEF Kinds
<1> HIDE DEF bound
<1>7. {[kind |-> "complete", bytes |-> SizeOf[b], body |-> b] :
          b \in {c \in Bodies : SizeOf[c] <= bound.limit}} \subseteq Answer
  BY <1>3
<1>8. [kind : {bound.source},
       bytes : {n \in Prefixes : bound.limit < n /\ n <= bound.limit + Chunk},
       body : {NoBody}] \subseteq Answer
  BY <1>1, <1>4, <1>6
<1>9. [kind : {"dropped"}, bytes : {n \in Prefixes : n <= bound.limit},
       body : {NoBody}] \subseteq Answer
  BY <1>1, <1>4, <1>6
<1> QED
  BY <1>5, <1>7, <1>8, <1>9 DEF Answers, bound

LEMMA RequestTyped ==
  ASSUME TypeOK, NEW h \in Hosts, Request(h)
  PROVE  TypeOK'
<1>1. CASE ConnectFails(h)
  <2>1. cur[h] \in Datasets =>
          [state[cur[h]] EXCEPT !.retry = state[cur[h]].attempt + RetryInterval,
                                !.result = "network-error"] \in DatasetState
    <3> SUFFICES ASSUME cur[h] \in Datasets
                 PROVE  [state[cur[h]] EXCEPT
                           !.retry = state[cur[h]].attempt + RetryInterval,
                           !.result = "network-error"] \in DatasetState
      OBVIOUS
    <3>1. state[cur[h]] \in DatasetState
      BY DEF TypeOK
    <3>2. state[cur[h]].attempt + RetryInterval \in Int
      BY <3>1, TimeAssumption DEF DatasetState
    <3> QED
      BY <3>1, <3>2, RetriedTyped
  <2>2. cur[h] \in Datasets \cup {NoDataset}
    BY DEF TypeOK
  <2>3. tally' \in [Hosts -> Tally] /\ todo' \in [Hosts -> SUBSET Datasets]
    BY <1>1, CountTyped DEF ConnectFails
  <2>4. silent' \in [Hosts -> Nat] /\ pc' \in [Hosts -> Points]
    BY <1>1 DEF ConnectFails, TypeOK, Points
  <2> QED
    BY <1>1, <2>1, <2>2, <2>3, <2>4, SaveTyped DEF ConnectFails, TypeOK
<1>2. ASSUME NEW a \in Answers(cur[h], Remaining(h)), Exchange(h, a)
      PROVE  TypeOK'
  <2>1. a \in Answer
    BY <1>2, AnswersTyped
  <2>2. answer' \in [Hosts -> Answer] /\ pc' \in [Hosts -> Points]
    BY <1>2, <2>1 DEF Exchange, TypeOK, Points
  <2>3. served' \in [Datasets -> Times \cup {Never}]
    BY <1>2 DEF Exchange, TypeOK
  <2>4. a.bytes \in Nat
    BY <2>1 DEF Answer
  <2>5. wire' \in [Times -> Nat]
    BY <1>2, <2>4, AddTyped DEF Exchange, TypeOK
  <2> QED
    BY <1>2, <2>2, <2>3, <2>5 DEF Exchange, TypeOK, volumeVars
<1>3. CASE Account(h)
  <2>1. answer[h].bytes \in Nat
    BY DEF TypeOK, Answer
  <2>2. \A now : Recorded(ledger, now, answer[h].bytes) \in [Stamps -> Nat]
    <3>1. \A now : Pruned(ledger, now) \in [Stamps -> Nat]
      BY DEF Pruned, TypeOK
    <3> QED
      BY <2>1, <3>1, AddTyped DEF Recorded
  <2>3. silent' \in [Hosts -> Nat] /\ pc' \in [Hosts -> Points]
    BY <1>3 DEF Account, TypeOK, Points
  <2> QED
    BY <1>3, <2>2, <2>3 DEF Account, TypeOK
<1> QED
  BY <1>1, <1>2, <1>3 DEF Request

LEMMA SettleTyped ==
  ASSUME TypeOK, NEW h \in Hosts, NEW s, Settle(h, s),
         cur[h] \in Datasets => s \in DatasetState,
         tally' \in [Hosts -> Tally], todo' \in [Hosts -> SUBSET Datasets]
  PROVE  TypeOK'
<1>1. cur[h] \in Datasets \cup {NoDataset}
  BY DEF TypeOK
<1>2. pc' \in [Hosts -> Points]
  BY DEF Settle, TypeOK, Points
<1>3. NoAnswer \in Answer
  BY DEF NoAnswer, Answer, Kinds
<1>4. answer' \in [Hosts -> Answer]
  BY <1>3 DEF Settle, TypeOK
<1> QED
  BY <1>1, <1>2, <1>4, SaveTyped DEF Settle, TypeOK, historyVars

LEMMA TallyTyped ==
  ASSUME TypeOK, NEW h \in Hosts, NEW r \in Reasons
  PROVE  /\ [tally EXCEPT ![h] = [tally[h] EXCEPT !.failed = TRUE, !.exhausted = TRUE]]
              \in [Hosts -> Tally]
         /\ [tally EXCEPT ![h].failed = TRUE] \in [Hosts -> Tally]
         /\ [tally EXCEPT ![h].network = 0] \in [Hosts -> Tally]
         /\ [tally EXCEPT ![h] = [tally[h] EXCEPT !.failed = TRUE, !.reason = r]]
              \in [Hosts -> Tally]
         /\ [tally EXCEPT ![h] = [tally[h] EXCEPT !.network = 0, !.failed = TRUE, !.reason = r]]
              \in [Hosts -> Tally]
<1>1. \A t \in Tally :
        /\ [t EXCEPT !.failed = TRUE, !.exhausted = TRUE] \in Tally
        /\ [t EXCEPT !.failed = TRUE] \in Tally
        /\ [t EXCEPT !.network = 0] \in Tally
        /\ [t EXCEPT !.failed = TRUE, !.reason = r] \in Tally
        /\ [t EXCEPT !.network = 0, !.failed = TRUE, !.reason = r] \in Tally
  BY DEF Tally
<1> QED
  BY <1>1, Zenon DEF TypeOK

LEMMA HandleTyped ==
  ASSUME TypeOK, NEW h \in Hosts, Handle(h)
  PROVE  TypeOK'
<1>1. \A r \in Results : cur[h] \in Datasets => Result(h, r) \in DatasetState
  BY ResultTyped DEF TypeOK, Result
<1>2. answer[h] \in Answer
  BY DEF TypeOK
<1>3. \A r \in Results :
        cur[h] \in Datasets => Measured(Result(h, r), answer[h]) \in DatasetState
  BY <1>1, <1>2, MeasuredTyped
<1>4. /\ {"budget-exceeded", "over-dataset-cap", "response-too-large", "network-error",
         "not-updated", "forbidden", "http-error", "validation-error", "published"}
            \subseteq Results
      /\ {"forbidden", "other"} \subseteq Reasons
  BY DEF Results, Reasons
<1>5. [todo EXCEPT ![h] = {}] \in [Hosts -> SUBSET Datasets] /\ todo \in [Hosts -> SUBSET Datasets]
  BY Zenon DEF TypeOK
<1>6. CASE HandleOverBudget(h)
  BY <1>1, <1>4, <1>5, <1>6, TallyTyped, SettleTyped, Zenon DEF HandleOverBudget
<1>7. CASE HandleOverCap(h)
  BY <1>3, <1>4, <1>5, <1>7, TallyTyped, SettleTyped, Zenon DEF HandleOverCap
<1>8. CASE HandleTooLarge(h)
  BY <1>1, <1>4, <1>5, <1>8, TallyTyped, SettleTyped, Zenon DEF HandleTooLarge, Stop
<1>9. CASE HandleDropped(h)
  BY <1>1, <1>4, <1>9, CountTyped, SettleTyped, Zenon DEF HandleDropped
<1>10. CASE HandleUnchanged(h)
  BY <1>1, <1>4, <1>5, <1>10, TallyTyped, SettleTyped, Zenon DEF HandleUnchanged
<1>11. CASE HandleForbidden(h)
  BY <1>1, <1>4, <1>5, <1>11, TallyTyped, SettleTyped, Zenon DEF HandleForbidden
<1>12. CASE HandleError(h)
  BY <1>1, <1>4, <1>5, <1>12, TallyTyped, SettleTyped, Zenon DEF HandleError, Stop
<1>13. CASE HandleInvalid(h)
  BY <1>3, <1>4, <1>5, <1>13, TallyTyped, SettleTyped, Zenon DEF HandleInvalid, Stop
<1>14. CASE WriteFile(h)
  <2>1. cur[h] \in Datasets => state[cur[h]].attempt \in Int
    BY DEF TypeOK, DatasetState
  <2>2. answer[h].body \in Bodies \cup {NoBody}
    BY <1>2 DEF Answer
  <2>3. cur[h] \in Datasets =>
          [body |-> answer[h].body, stamp |-> state[cur[h]].attempt] \in Published
    BY <2>1, <2>2 DEF Published
  <2>4. file' \in [Datasets -> Published]
    BY <1>14, <2>3, Zenon DEF WriteFile, TypeOK
  <2>5. pc' \in [Hosts -> Points]
    BY <1>14 DEF WriteFile, TypeOK, Points
  <2> QED
    BY <1>14, <2>4, <2>5 DEF WriteFile, TypeOK, historyVars
<1>15. CASE SaveSuccess(h)
  <2>1. cur[h] \in Datasets => state[cur[h]].attempt \in Int
    BY DEF TypeOK, DatasetState
  <2>2. answer[h].body \in Bodies \cup {NoBody}
    BY <1>2 DEF Answer
  <2>3. cur[h] \in Datasets =>
          [Measured(Result(h, "published"), answer[h])
             EXCEPT !.success = state[cur[h]].attempt, !.body = answer[h].body]
               \in DatasetState
    BY <1>3, <1>4, <2>1, <2>2, SuccessTyped
  <2> QED
    BY <1>4, <1>5, <1>15, <2>3, TallyTyped, SettleTyped, Zenon DEF SaveSuccess
<1> QED
  BY <1>6, <1>7, <1>8, <1>9, <1>10, <1>11, <1>12, <1>13, <1>14, <1>15 DEF Handle

LEMMA EndTyped ==
  ASSUME TypeOK, NEW h \in Hosts, WriteStatus(h) \/ Finish(h) \/ Crash(h)
  PROVE  TypeOK'
<1>1. NewTally \in Tally /\ NoAnswer \in Answer /\ 0 \in Stamps /\ "idle" \in Points
  BY HostAssumption DEF NewTally, Tally, Reasons, NoAnswer, Answer, Kinds, Points
<1>2. CASE WriteStatus(h)
  <2>1. status' \in [Datasets -> DatasetState]
    BY <1>2 DEF WriteStatus, TypeOK
  <2> QED
    BY <1>2, <2>1 DEF WriteStatus, TypeOK, historyVars
<1>3. CASE Finish(h)
  <2>1. tally[h] \in Tally /\ started[h] \in Int
    BY HostAssumption DEF TypeOK
  <2>2. summary' \in Summary
    BY <1>3, <2>1 DEF Finish, Summary
  <2> QED
    BY <1>1, <1>3, <2>2 DEF Finish, TypeOK
<1>4. CASE Crash(h)
  <2>1. faults' \in 0 .. MaxFaults
    BY <1>4, FaultAssumption DEF Crash, Fault, TypeOK
  <2>2. uncharged' \in [Times -> Nat]
    <3>1. answer[h].bytes \in Nat
      BY DEF TypeOK, Answer
    <3> QED
      BY <1>4, <3>1, AddTyped DEF Crash, TypeOK
  <2>3. torn' \in [Datasets -> Int]
    <3>1. cur[h] \in Datasets => file[cur[h]].stamp \in Int
      BY DEF TypeOK, Published
    <3> QED
      BY <1>4, <3>1, ZenonT(40) DEF Crash, TypeOK
  <2> QED
    BY <1>1, <1>4, <2>1, <2>2, <2>3 DEF Crash, TypeOK
<1> QED
  BY <1>2, <1>3, <1>4

LEMMA FaultTyped ==
  ASSUME TypeOK, (\E d \in Datasets : DamageState(d)) \/ LoseLedger
  PROVE  TypeOK'
<1>1. faults' \in 0 .. MaxFaults
  BY FaultAssumption DEF DamageState, LoseLedger, Fault, TypeOK
<1>2. EmptyLedger \in [Stamps -> Nat]
  BY DEF EmptyLedger
<1>3. CASE LoseLedger
  BY <1>1, <1>2, <1>3 DEF LoseLedger, TypeOK, processVars
<1>4. CASE \E d \in Datasets : DamageState(d)
  BY <1>1, <1>4 DEF DamageState, TypeOK, processVars
<1> QED
  BY <1>3, <1>4

LEMMA NextTyped == TypeOK /\ [Next]_vars => TypeOK'
<1> SUFFICES ASSUME TypeOK, [Next]_vars PROVE TypeOK'
  OBVIOUS
<1>1. CASE UNCHANGED vars
  BY <1>1 DEF vars, volumeVars, processVars, historyVars, TypeOK
<1>2. CASE Tick
  BY <1>2, TickTyped
<1>3. ASSUME NEW h \in Hosts, ReadClock(h) \/ RefuseLock(h) \/ Acquire(h)
      PROVE  TypeOK'
  BY <1>3, StartTyped
<1>4. ASSUME NEW h \in Hosts, WriteStatus(h) \/ Finish(h) \/ Crash(h)
      PROVE  TypeOK'
  BY <1>4, EndTyped
<1>5. ASSUME NEW h \in Hosts, Consider(h)
      PROVE  TypeOK'
  BY <1>5, ConsiderTyped DEF Consider
<1>6. ASSUME NEW h \in Hosts, Request(h) \/ Handle(h)
      PROVE  TypeOK'
  BY <1>6, RequestTyped, HandleTyped
<1>7. CASE (\E d \in Datasets : DamageState(d)) \/ LoseLedger
  BY <1>7, FaultTyped
<1> QED
  BY <1>1, <1>2, <1>3, <1>4, <1>5, <1>6, <1>7 DEF Next, Proceed

\* Nothing a run does, whatever it meets, takes the volume or a process out of
\* the values their types allow.
THEOREM TypeCorrect == Spec => []TypeOK
BY InitTyped, NextTyped, PTL DEF Spec

-----------------------------------------------------------------------------
(* Mutual exclusion: a process past the lock is the one that holds it.     *)

LockHeld == \A h \in Hosts : Running(h) => lock = h

LEMMA LockStep == TypeOK /\ LockHeld /\ [Next]_vars => LockHeld'
<1> SUFFICES ASSUME TypeOK, LockHeld, [Next]_vars PROVE LockHeld'
  OBVIOUS
<1> USE DEF LockHeld, Running, TypeOK
<1>1. CASE UNCHANGED <<pc, lock>>
  BY <1>1
<1>2. ASSUME NEW h \in Hosts,
             \/ ReadClock(h) \/ RefuseLock(h) \/ Acquire(h)
             \/ Finish(h) \/ Crash(h)
      PROVE  LockHeld'
  <2>1. CASE ReadClock(h) \/ RefuseLock(h)
    BY <2>1 DEF ReadClock, RefuseLock, volumeVars
  <2>2. CASE Acquire(h)
    BY <2>2, HostAssumption DEF Acquire
  <2>3. CASE Finish(h)
    BY <2>3 DEF Finish
  <2>4. CASE Crash(h)
    BY <2>4 DEF Crash
  <2> QED
    BY <1>2, <2>1, <2>2, <2>3, <2>4
\* Every other step leaves the lock alone and is one of a running process.
<1>3. ASSUME NEW h \in Hosts, Running(h), UNCHANGED lock,
             \E p \in Points : pc' = [pc EXCEPT ![h] = p]
      PROVE  LockHeld'
  BY <1>3
<1>4. ASSUME NEW h \in Hosts, NEW d \in Datasets, Attempt(h, d)
      PROVE  LockHeld'
  BY <1>3, <1>4 DEF Attempt, Due, Turn, Points
<1>5. ASSUME NEW h \in Hosts, Request(h)
      PROVE  LockHeld'
  BY <1>3, <1>5 DEF Request, ConnectFails, Exchange, Account, Points, volumeVars
<1>6. ASSUME NEW h \in Hosts, Handle(h)
      PROVE  LockHeld'
  <2>1. Running(h) /\ UNCHANGED lock /\ \E p \in {"loop", "filed"} : pc' = [pc EXCEPT ![h] = p]
    BY <1>6
    DEF Handle, HandleOverBudget, HandleOverCap, HandleTooLarge, HandleDropped,
        HandleUnchanged, HandleForbidden, HandleError, HandleInvalid, WriteFile,
        SaveSuccess, Answered, Settle
  <2> QED
    BY <1>3, <2>1 DEF Points
<1>7. ASSUME NEW h \in Hosts, NEW d \in Datasets,
             \/ SkipSpent(h, d) \/ SkipCorrupt(h, d) \/ SkipNotDue(h, d)
             \/ DeclineOverCap(h, d) \/ DeclineBudget(h, d)
      PROVE  UNCHANGED <<pc, lock>>
  BY <1>7 DEF SkipSpent, SkipCorrupt, SkipNotDue, DeclineOverCap, DeclineBudget, volumeVars
<1>8. ASSUME NEW h \in Hosts, WriteStatus(h)
      PROVE  UNCHANGED <<pc, lock>>
  BY <1>8 DEF WriteStatus
<1>9. CASE Tick \/ (\E d \in Datasets : DamageState(d)) \/ LoseLedger \/ UNCHANGED vars
  BY <1>1, <1>9
  DEF Tick, DamageState, LoseLedger, vars, volumeVars, processVars
<1> HIDE DEF LockHeld, Running, TypeOK
<1> QED
  BY <1>1, <1>2, <1>4, <1>5, <1>6, <1>7, <1>8, <1>9 DEF Next, Proceed, Consider

\* Two overlapping sync-gp commands are never both past the lock.
THEOREM SingleWriter == Spec => []MutualExclusion
<1>1. Init => LockHeld
  BY DEF Init, LockHeld, Running
<1>2. LockHeld => MutualExclusion
  BY DEF LockHeld, MutualExclusion
<1> QED
  BY <1>1, <1>2, LockStep, TypeCorrect, PTL DEF Spec

-----------------------------------------------------------------------------
(* The floor.  A dataset CelesTrak has served is not due, on any host's    *)
(* clock, before its limit has passed; and the attempt that is about to    *)
(* reach CelesTrak was stamped when it was due, no more than MaxDelay ago. *)

FloorKept ==
  \A d \in Datasets :
    served[d] # Never => NextAttemptAt(state[d]) >= served[d] + Upstream + MaxSkew

AttemptStamped ==
  \A h \in Hosts : pc[h] = "attempting" =>
    /\ cur[h] \in Datasets
    /\ 0 <= state[cur[h]].attempt
    /\ state[cur[h]].attempt <= Now(h)
    /\ Now(h) <= state[cur[h]].attempt + MaxDelay
    /\ state[cur[h]].retry = state[cur[h]].attempt + Floor
    /\ served[cur[h]] # Never
         => state[cur[h]].attempt >= served[cur[h]] + Upstream + MaxSkew

FloorInv == FloorKept /\ AttemptStamped

\* A step that moves no schedule and brings nobody to a request.
SameSchedule ==
  /\ UNCHANGED <<clock, served>>
  /\ \A d \in Datasets :
       state'[d].retry = state[d].retry /\ state'[d].attempt = state[d].attempt
  /\ \A h \in Hosts :
       pc'[h] = "attempting" => pc[h] = "attempting" /\ cur'[h] = cur[h]

LEMMA SameScheduleKeeps == FloorInv /\ SameSchedule => FloorInv'
<1> SUFFICES ASSUME FloorInv, SameSchedule PROVE FloorInv'
  OBVIOUS
<1>1. \A d \in Datasets : NextAttemptAt(state[d])' = NextAttemptAt(state[d])
  BY DEF NextAttemptAt, SameSchedule
<1>2. FloorKept'
  BY <1>1 DEF FloorInv, FloorKept, SameSchedule
<1>3. AttemptStamped'
  BY DEF FloorInv, AttemptStamped, SameSchedule, Now
<1> QED
  BY <1>2, <1>3 DEF FloorInv

LEMMA QuietSame ==
  ASSUME TypeOK, UNCHANGED <<clock, served, state>>,
         \A h \in Hosts : pc'[h] = "attempting" => pc[h] = "attempting" /\ cur'[h] = cur[h]
  PROVE  SameSchedule
BY DEF SameSchedule

\* Saving a record with the schedule of the one it replaces.
LEMMA SaveSame ==
  ASSUME TypeOK, NEW h \in Hosts, NEW d, NEW s, Save(h, d, s),
         s.retry = state[d].retry, s.attempt = state[d].attempt,
         UNCHANGED <<clock, served>>, pc' \in {pc, [pc EXCEPT ![h] = "loop"]},
         pc'[h] # "attempting"
  PROVE  SameSchedule
<1>1. \A e \in Datasets :
        state'[e].retry = state[e].retry /\ state'[e].attempt = state[e].attempt
  BY DEF Save, TypeOK
<1>2. \A g \in Hosts : pc'[g] = "attempting" => pc[g] = "attempting" /\ cur'[g] = cur[g]
  BY DEF Save, TypeOK
<1> QED
  BY <1>1, <1>2 DEF SameSchedule

LEMMA ScheduleKept ==
  ASSUME NEW s \in DatasetState, NEW r, NEW a
  PROVE  /\ [s EXCEPT !.result = r].retry = s.retry
         /\ [s EXCEPT !.result = r].attempt = s.attempt
         /\ Measured(s, a).retry = s.retry
         /\ Measured(s, a).attempt = s.attempt
BY DEF Measured, DatasetState

LEMMA SettleSame ==
  ASSUME TypeOK, NEW h \in Hosts, pc[h] # "attempting", NEW s, Settle(h, s),
         s.retry = state[cur[h]].retry, s.attempt = state[cur[h]].attempt
  PROVE  SameSchedule
<1>1. pc'[h] # "attempting" /\ UNCHANGED <<clock, served>>
  BY DEF Settle, historyVars, TypeOK
<1> QED
  BY <1>1, SaveSame DEF Settle

LEMMA HandleSame ==
  ASSUME TypeOK, NEW h \in Hosts, Handle(h)
  PROVE  SameSchedule
<1>1. pc[h] # "attempting"
  BY DEF Handle, HandleOverBudget, HandleOverCap, HandleTooLarge, HandleDropped,
         HandleUnchanged, HandleForbidden, HandleError, HandleInvalid, WriteFile,
         SaveSuccess, Answered
<1>2. CASE cur[h] \notin Datasets
  <2>1. PICK s : Settle(h, s) \/ WriteFile(h)
    BY DEF Handle, HandleOverBudget, HandleOverCap, HandleTooLarge, HandleDropped,
           HandleUnchanged, HandleForbidden, HandleError, HandleInvalid, SaveSuccess
  <2>2. UNCHANGED <<clock, served>>
    BY <2>1 DEF Settle, WriteFile, historyVars
  <2>3. \A d \in Datasets : state'[d] = state[d]
    BY <1>2, <2>1 DEF Settle, Save, WriteFile, TypeOK
  <2>4. \A g \in Hosts : pc'[g] = "attempting" => pc[g] = "attempting" /\ cur'[g] = cur[g]
    BY <1>1, <2>1 DEF Settle, Save, WriteFile, TypeOK
  <2> QED
    BY <2>2, <2>3, <2>4 DEF SameSchedule
<1>3. CASE cur[h] \in Datasets
  <2> DEFINE s == state[cur[h]]
  <2>1. s \in DatasetState
    BY <1>3 DEF TypeOK
  <2>2. \A r : Result(h, r).retry = s.retry /\ Result(h, r).attempt = s.attempt
    BY <2>1, ScheduleKept DEF Result
  <2>3. \A r \in Results : Result(h, r) \in DatasetState
    BY <2>1, ResultTyped DEF Result
  <2>4. \A r \in Results :
          /\ Measured(Result(h, r), answer[h]).retry = s.retry
          /\ Measured(Result(h, r), answer[h]).attempt = s.attempt
    BY <2>2, <2>3, ScheduleKept
  <2>5. {"over-dataset-cap", "validation-error", "published"} \subseteq Results
    BY DEF Results
  <2>6. ASSUME NEW t, Settle(h, t), t.retry = s.retry, t.attempt = s.attempt
        PROVE  SameSchedule
    BY <1>1, <2>6, SettleSame
  <2> HIDE DEF s
  <2>7. CASE HandleOverBudget(h) \/ HandleTooLarge(h) \/ HandleDropped(h)
               \/ HandleUnchanged(h) \/ HandleForbidden(h) \/ HandleError(h)
    <3>1. PICK r : Settle(h, Result(h, r))
      BY <2>7 DEF HandleOverBudget, HandleTooLarge, HandleDropped, HandleUnchanged,
                  HandleForbidden, HandleError
    <3> QED
      BY <2>2, <2>6, <3>1
  <2>8. CASE HandleOverCap(h) \/ HandleInvalid(h)
    <3>1. PICK r \in Results : Settle(h, Measured(Result(h, r), answer[h]))
      BY <2>5, <2>8 DEF HandleOverCap, HandleInvalid
    <3> QED
      BY <2>4, <2>6, <3>1
  <2>9. CASE WriteFile(h)
    <3>1. \A g \in Hosts : pc'[g] = "attempting" => pc[g] = "attempting" /\ cur'[g] = cur[g]
      BY <2>9 DEF WriteFile, TypeOK
    <3> QED
      BY <2>9, <3>1, QuietSame DEF WriteFile, historyVars
  <2>10. CASE SaveSuccess(h)
    <3> DEFINE m == Measured(Result(h, "published"), answer[h])
               t == [m EXCEPT !.success = state[cur[h]].attempt, !.body = answer[h].body]
    <3>1. m \in DatasetState
      BY <2>3, <2>5, MeasuredTyped DEF TypeOK
    <3>2. m.retry = s.retry /\ m.attempt = s.attempt
      BY <2>4, <2>5
    <3>3. Settle(h, t)
      BY <2>10 DEF SaveSuccess
    <3> HIDE DEF m
    <3>4. t.retry = m.retry /\ t.attempt = m.attempt
      BY <3>1 DEF DatasetState
    <3> QED
      BY <2>6, <3>2, <3>3, <3>4
  <2> QED
    BY <2>7, <2>8, <2>9, <2>10 DEF Handle
<1> QED
  BY <1>2, <1>3

LEMMA OtherSame ==
  ASSUME TypeOK,
         \/ \E h \in Hosts :
              \/ ReadClock(h) \/ RefuseLock(h) \/ Acquire(h) \/ WriteStatus(h)
              \/ Account(h) \/ Finish(h) \/ Crash(h)
              \/ \E d \in Datasets :
                   \/ SkipSpent(h, d) \/ SkipCorrupt(h, d) \/ SkipNotDue(h, d)
                   \/ DeclineOverCap(h, d) \/ DeclineBudget(h, d)
         \/ (\E d \in Datasets : DamageState(d)) \/ LoseLedger \/ UNCHANGED vars
  PROVE  SameSchedule
<1>1. ASSUME NEW h \in Hosts,
             \/ ReadClock(h) \/ RefuseLock(h) \/ Acquire(h) \/ Account(h)
             \/ Finish(h) \/ Crash(h)
      PROVE  SameSchedule
  <2>1. UNCHANGED <<clock, served, state>>
    BY <1>1 DEF ReadClock, RefuseLock, Acquire, Account, Finish, Crash, volumeVars, historyVars
  <2>2. \A g \in Hosts : pc'[g] = "attempting" => pc[g] = "attempting" /\ cur'[g] = cur[g]
    BY <1>1 DEF ReadClock, RefuseLock, Acquire, Account, Finish, Crash, TypeOK
  <2> QED
    BY <2>1, <2>2, QuietSame
<1>2. ASSUME NEW h \in Hosts, WriteStatus(h)
      PROVE  SameSchedule
  BY <1>2, QuietSame DEF WriteStatus, historyVars
<1>3. ASSUME NEW h \in Hosts, NEW d \in Datasets,
             SkipSpent(h, d) \/ SkipCorrupt(h, d) \/ SkipNotDue(h, d)
      PROVE  SameSchedule
  BY <1>3, QuietSame DEF SkipSpent, SkipCorrupt, SkipNotDue, volumeVars, historyVars
<1>4. ASSUME NEW h \in Hosts, NEW d \in Datasets,
             DeclineOverCap(h, d) \/ DeclineBudget(h, d)
      PROVE  SameSchedule
  <2>1. PICK r : Save(h, d, [state[d] EXCEPT !.result = r])
    BY <1>4 DEF DeclineOverCap, DeclineBudget
  <2>2. UNCHANGED <<clock, served, pc>> /\ pc[h] = "loop"
    BY <1>4 DEF DeclineOverCap, DeclineBudget, Due, Turn, historyVars
  <2>3. state[d] \in DatasetState
    BY DEF TypeOK
  <2> QED
    BY <2>1, <2>2, <2>3, ScheduleKept, SaveSame
<1>5. CASE (\E d \in Datasets : DamageState(d)) \/ LoseLedger
  BY <1>5, QuietSame DEF DamageState, LoseLedger, processVars
<1>6. CASE UNCHANGED vars
  BY <1>6, QuietSame DEF vars, volumeVars, processVars, historyVars
<1> QED
  BY <1>1, <1>2, <1>3, <1>4, <1>5, <1>6

LEMMA TickFloor == TypeOK /\ FloorInv /\ Tick => FloorInv'
<1> SUFFICES ASSUME TypeOK, FloorInv, Tick PROVE FloorInv'
  OBVIOUS
<1>1. UNCHANGED <<state, served, pc, cur>> /\ clock' = clock + 1
  BY DEF Tick, volumeVars, processVars, historyVars
<1>2. FloorKept'
  <2>1. \A d \in Datasets : NextAttemptAt(state[d])' = NextAttemptAt(state[d])
    BY <1>1 DEF NextAttemptAt
  <2> QED
    BY <1>1, <2>1 DEF FloorInv, FloorKept
<1>3. ASSUME NEW h \in Hosts, pc[h] = "attempting"
      PROVE  /\ state[cur[h]].attempt <= Now(h)'
             /\ Now(h)' <= state[cur[h]].attempt + MaxDelay
  <2>1. /\ state[cur[h]].attempt <= Now(h)
        /\ Now(h) < state[cur[h]].attempt + MaxDelay
    BY <1>3 DEF FloorInv, AttemptStamped, Tick
  <2>2. state[cur[h]].attempt \in Int
    BY <1>3 DEF FloorInv, AttemptStamped, TypeOK, DatasetState
  <2>3. Now(h) \in Int
    BY ClockReading
  <2>4. Now(h)' = Now(h) + 1
    <3>1. clock \in Int /\ SkewOf[h] \in Int
      BY HostAssumption DEF TypeOK, Times
    <3> QED
      BY <1>1, <3>1 DEF Now
  <2>5. MaxDelay \in Int
    BY CushionAssumption
  <2>6. /\ state[cur[h]].attempt <= Now(h) + 1
        /\ Now(h) + 1 <= state[cur[h]].attempt + MaxDelay
    BY <2>1, <2>2, <2>3, <2>5
  <2> QED
    BY <2>4, <2>6
<1>4. AttemptStamped'
  BY <1>1, <1>3 DEF FloorInv, AttemptStamped
<1> QED
  BY <1>2, <1>4 DEF FloorInv

\* An attempt is made when the dataset is due on the host's own clock, which is
\* ahead of true time by the skew at most.
LEMMA AttemptFloor ==
  ASSUME TypeOK, LockHeld, FloorInv, NEW h \in Hosts, NEW d \in Datasets, Attempt(h, d)
  PROVE  FloorInv'
<1> DEFINE s == [state[d] EXCEPT !.attempt = Now(h), !.retry = Now(h) + Floor,
                                 !.result = "attempting"]
<1>1. /\ Save(h, d, s) /\ UNCHANGED <<clock, served>>
      /\ pc' = [pc EXCEPT ![h] = "attempting"] /\ Running(h)
      /\ NextAttemptAt(state[d]) <= Now(h)
  BY DEF Attempt, Due, Turn, historyVars, Running
<1>2. state[d] \in DatasetState /\ Now(h) \in Nat
  BY ClockReading DEF TypeOK
<1>3. s.attempt = Now(h) /\ s.retry = Now(h) + Floor
  BY <1>2 DEF DatasetState
<1> HIDE DEF s
<1>4. state' = [state EXCEPT ![d] = s] /\ cur' = [cur EXCEPT ![h] = d]
  BY <1>1 DEF Save
<1>5. served[d] # Never => Now(h) >= served[d] + Upstream + MaxSkew
  <2>1. SUFFICES ASSUME served[d] # Never
                 PROVE  Now(h) >= served[d] + Upstream + MaxSkew
    OBVIOUS
  <2>2. NextAttemptAt(state[d]) >= served[d] + Upstream + MaxSkew
    BY <2>1 DEF FloorInv, FloorKept
  <2>3. NextAttemptAt(state[d]) \in Int
    BY <1>2, TimeAssumption DEF NextAttemptAt, DatasetState, Never
  <2>4. served[d] + Upstream + MaxSkew \in Int
    BY <2>1, CushionAssumption, HostAssumption, SMTT(30) DEF TypeOK, Times
  <2> QED
    BY <1>1, <1>2, <2>2, <2>3, <2>4
<1>6. NextAttemptAt(s) = Now(h) + Floor
  BY <1>2, <1>3, TimeAssumption DEF NextAttemptAt, Never
<1>7. FloorKept'
  <2>1. ASSUME NEW e \in Datasets, served'[e] # Never
        PROVE  NextAttemptAt(state'[e]) >= served'[e] + Upstream + MaxSkew
    <3>1. CASE e = d
      <4>1. state'[e] = s /\ served'[e] = served[d]
        BY <1>1, <1>4, <3>1 DEF TypeOK
      <4>2. served[d] + Upstream + MaxSkew \in Int
        BY <1>1, <2>1, <3>1, CushionAssumption, HostAssumption, SMTT(30) DEF TypeOK, Times
      <4> QED
        BY <1>2, <1>5, <1>6, <2>1, <4>1, <4>2, TimeAssumption
    <3>2. CASE e # d
      BY <1>1, <1>4, <2>1, <3>2 DEF FloorInv, FloorKept, TypeOK
    <3> QED
      BY <3>1, <3>2
  <2> QED
    BY <2>1 DEF FloorKept, NextAttemptAt
<1>8. AttemptStamped'
  <2>1. ASSUME NEW g \in Hosts, pc'[g] = "attempting"
        PROVE  g = h
    BY <1>1, <2>1 DEF LockHeld, Running, TypeOK
  <2>2. cur'[h] = d /\ state'[d] = s /\ Now(h)' = Now(h)
    BY <1>1, <1>4 DEF TypeOK, Now
  <2>3. Now(h) <= Now(h) + MaxDelay /\ 0 <= Now(h)
    BY <1>2, CushionAssumption
  <2> QED
    BY <1>1, <1>2, <1>3, <1>5, <2>1, <2>2, <2>3 DEF AttemptStamped
<1> QED
  BY <1>7, <1>8 DEF FloorInv

\* A connection that failed shortens the floor of a request CelesTrak never
\* saw, still counting from an instant at which the dataset was due.
LEMMA ConnectFloor ==
  ASSUME TypeOK, LockHeld, FloorInv, NEW h \in Hosts, ConnectFails(h)
  PROVE  FloorInv'
<1> DEFINE d == cur[h]
           s == [state[d] EXCEPT !.retry = state[d].attempt + RetryInterval,
                                 !.result = "network-error"]
<1>1. /\ pc[h] = "attempting" /\ Save(h, d, s) /\ UNCHANGED <<clock, served>>
      /\ pc' = [pc EXCEPT ![h] = "loop"]
  BY DEF ConnectFails
<1>2. /\ d \in Datasets /\ 0 <= state[d].attempt
      /\ served[d] # Never => state[d].attempt >= served[d] + Upstream + MaxSkew
  BY <1>1 DEF FloorInv, AttemptStamped
<1>3. state[d] \in DatasetState /\ state[d].attempt \in Nat
  BY <1>2 DEF TypeOK, DatasetState
<1>4. s.retry = state[d].attempt + RetryInterval
  BY <1>3 DEF DatasetState
<1>5. NextAttemptAt(s) = state[d].attempt + RetryInterval
  BY <1>3, <1>4, TimeAssumption DEF NextAttemptAt, Never
<1> HIDE DEF s
<1>6. state' = [state EXCEPT ![d] = s]
  BY <1>1 DEF Save
<1> HIDE DEF d
<1>7. FloorKept'
  <2>1. ASSUME NEW e \in Datasets, served'[e] # Never
        PROVE  NextAttemptAt(state'[e]) >= served'[e] + Upstream + MaxSkew
    <3>1. CASE e = d
      <4>1. state'[e] = s /\ served'[e] = served[d]
        BY <1>1, <1>6, <3>1 DEF TypeOK
      <4>2. served[d] + Upstream + MaxSkew \in Int
        BY <1>1, <2>1, <3>1, CushionAssumption, HostAssumption, SMTT(30) DEF TypeOK, Times
      <4> QED
        BY <1>2, <1>3, <1>5, <2>1, <4>1, <4>2, TimeAssumption
    <3>2. CASE e # d
      BY <1>1, <1>6, <2>1, <3>2 DEF FloorInv, FloorKept, TypeOK
    <3> QED
      BY <3>1, <3>2
  <2> QED
    BY <2>1 DEF FloorKept, NextAttemptAt
<1>8. \A g \in Hosts : pc'[g] # "attempting"
  BY <1>1 DEF LockHeld, Running, TypeOK
<1>9. AttemptStamped'
  BY <1>8 DEF AttemptStamped
<1> QED
  BY <1>7, <1>9 DEF FloorInv

LEMMA ExchangeFloor ==
  ASSUME TypeOK, LockHeld, FloorInv, NEW h \in Hosts, NEW a, Exchange(h, a)
  PROVE  FloorInv'
<1> DEFINE d == cur[h]
<1>1. /\ pc[h] = "attempting" /\ UNCHANGED <<clock, state, cur>>
      /\ pc' = [pc EXCEPT ![h] = "streamed"]
      /\ served' = [served EXCEPT ![d] = clock]
  BY DEF Exchange, volumeVars
<1>2. /\ d \in Datasets /\ 0 <= state[d].attempt
      /\ Now(h) <= state[d].attempt + MaxDelay
      /\ state[d].retry = state[d].attempt + Floor
  BY <1>1 DEF FloorInv, AttemptStamped
<1>3. state[d].attempt \in Nat /\ clock \in Nat /\ clock <= Now(h) /\ Now(h) \in Nat
  <2>1. state[d] \in DatasetState
    BY <1>2 DEF TypeOK
  <2>2. state[d].attempt \in Int
    BY <2>1 DEF DatasetState
  <2>3. clock \in Nat
    BY HostAssumption DEF TypeOK, Times
  <2> QED
    BY <1>2, <2>2, <2>3, ClockReading
<1>4. NextAttemptAt(state[d]) = state[d].attempt + Floor
  BY <1>2, <1>3, TimeAssumption DEF NextAttemptAt, Never
<1>5. NextAttemptAt(state[d]) >= clock + Upstream + MaxSkew
  BY <1>2, <1>3, <1>4, CushionAssumption, TimeAssumption, HostAssumption, SMTT(30)
<1> HIDE DEF d
<1>6. FloorKept'
  <2>1. ASSUME NEW e \in Datasets, served'[e] # Never
        PROVE  NextAttemptAt(state[e]) >= served'[e] + Upstream + MaxSkew
    <3>1. CASE e = d
      BY <1>1, <1>5, <3>1 DEF TypeOK
    <3>2. CASE e # d
      BY <1>1, <2>1, <3>2 DEF FloorInv, FloorKept, TypeOK
    <3> QED
      BY <3>1, <3>2
  <2>2. \A e \in Datasets : NextAttemptAt(state[e])' = NextAttemptAt(state[e])
    BY <1>1 DEF NextAttemptAt
  <2> QED
    BY <2>1, <2>2 DEF FloorKept
<1>7. \A g \in Hosts : pc'[g] # "attempting"
  BY <1>1 DEF LockHeld, Running, TypeOK
<1>8. AttemptStamped'
  BY <1>7 DEF AttemptStamped
<1> QED
  BY <1>6, <1>8 DEF FloorInv

LEMMA FloorStep == TypeOK /\ LockHeld /\ FloorInv /\ [Next]_vars => FloorInv'
<1> SUFFICES ASSUME TypeOK, LockHeld, FloorInv, [Next]_vars PROVE FloorInv'
  OBVIOUS
<1>1. CASE Tick
  BY <1>1, TickFloor
<1>2. ASSUME NEW h \in Hosts, NEW d \in Datasets, Attempt(h, d)
      PROVE  FloorInv'
  BY <1>2, AttemptFloor
<1>3. ASSUME NEW h \in Hosts, ConnectFails(h)
      PROVE  FloorInv'
  BY <1>3, ConnectFloor
<1>4. ASSUME NEW h \in Hosts, NEW a, Exchange(h, a)
      PROVE  FloorInv'
  BY <1>4, ExchangeFloor
<1>5. ASSUME NEW h \in Hosts, Handle(h)
      PROVE  FloorInv'
  BY <1>5, HandleSame, SameScheduleKeeps
<1>6. CASE \/ \E h \in Hosts :
              \/ ReadClock(h) \/ RefuseLock(h) \/ Acquire(h) \/ WriteStatus(h)
              \/ Account(h) \/ Finish(h) \/ Crash(h)
              \/ \E d \in Datasets :
                   \/ SkipSpent(h, d) \/ SkipCorrupt(h, d) \/ SkipNotDue(h, d)
                   \/ DeclineOverCap(h, d) \/ DeclineBudget(h, d)
           \/ (\E d \in Datasets : DamageState(d)) \/ LoseLedger \/ UNCHANGED vars
  BY <1>6, OtherSame, SameScheduleKeeps
<1> QED
  BY <1>1, <1>2, <1>3, <1>4, <1>5, <1>6 DEF Next, Proceed, Consider, Request

LEMMA FloorInit == Init => FloorInv
<1> SUFFICES ASSUME Init PROVE FloorInv
  OBVIOUS
<1>1. AttemptStamped
  BY DEF Init, AttemptStamped
<1>2. ASSUME NEW d \in Datasets, served[d] # Never
      PROVE  NextAttemptAt(state[d]) >= served[d] + Upstream + MaxSkew
  <2>1. served[d] = 0 /\ state[d] = LegacyState
    BY <1>2 DEF Init
  <2>2. NextAttemptAt(state[d]) = 0 + Floor
    BY <2>1 DEF NextAttemptAt, LegacyState, Never
  <2> QED
    BY <2>1, <2>2, CushionAssumption, TimeAssumption, HostAssumption
<1> QED
  BY <1>1, <1>2 DEF FloorInv, FloorKept

\* Whoever receives a request, it is Upstream after the last one.
LEMMA FloorAction ==
  TypeOK /\ FloorInv /\ [Next]_vars =>
    \A d \in Datasets : served'[d] # served[d] /\ served[d] # Never
                         => served'[d] - served[d] >= Upstream
<1> SUFFICES ASSUME TypeOK, FloorInv, [Next]_vars, NEW d \in Datasets,
                    served'[d] # served[d], served[d] # Never
             PROVE  served'[d] - served[d] >= Upstream
  OBVIOUS
<1>1. PICK h \in Hosts : \E a : Exchange(h, a)
  <2>1. ASSUME NEW h \in Hosts, Handle(h)
        PROVE  UNCHANGED served
    BY <2>1, HandleSame DEF SameSchedule
  <2>2. ASSUME NEW h \in Hosts, NEW e \in Datasets, Attempt(h, e)
        PROVE  UNCHANGED served
    BY <2>2 DEF Attempt, historyVars
  <2>3. ASSUME NEW h \in Hosts, ConnectFails(h)
        PROVE  UNCHANGED served
    BY <2>3 DEF ConnectFails
  <2>4. CASE Tick
    BY <2>4 DEF Tick, historyVars
  <2>5. CASE \/ \E h \in Hosts :
                \/ ReadClock(h) \/ RefuseLock(h) \/ Acquire(h) \/ WriteStatus(h)
                \/ Account(h) \/ Finish(h) \/ Crash(h)
                \/ \E e \in Datasets :
                     \/ SkipSpent(h, e) \/ SkipCorrupt(h, e) \/ SkipNotDue(h, e)
                     \/ DeclineOverCap(h, e) \/ DeclineBudget(h, e)
             \/ (\E e \in Datasets : DamageState(e)) \/ LoseLedger \/ UNCHANGED vars
    BY <2>5, OtherSame DEF SameSchedule
  <2> QED
    BY <2>1, <2>2, <2>3, <2>4, <2>5 DEF Next, Proceed, Consider, Request
<1>2. pc[h] = "attempting" /\ served' = [served EXCEPT ![cur[h]] = clock]
  BY <1>1 DEF Exchange
<1>3. d = cur[h] /\ served'[d] = clock
  BY <1>2 DEF TypeOK
<1>4. /\ state[d].attempt <= Now(h)
      /\ state[d].attempt >= served[d] + Upstream + MaxSkew
  BY <1>2, <1>3 DEF FloorInv, AttemptStamped
<1>5. Now(h) <= clock + MaxSkew /\ Now(h) \in Nat
  BY ClockReading
<1>6. state[d].attempt \in Int /\ served[d] \in Nat /\ clock \in Nat
  BY HostAssumption DEF TypeOK, DatasetState, Times
<1>7. Upstream \in Nat /\ MaxSkew \in Nat
  BY CushionAssumption, HostAssumption
<1>8. clock - served[d] >= Upstream
  BY <1>4, <1>5, <1>6, <1>7
<1> QED
  BY <1>3, <1>8

\* CelesTrak never receives two requests for a dataset closer than its own
\* limit, for every number of hosts, skew within the cushion and crash.
THEOREM FloorHolds == Spec => PoliteFloor
<1>1. Spec => []FloorInv
  <2>1. Init => LockHeld
    BY DEF Init, LockHeld, Running
  <2> QED
    BY <2>1, FloorInit, FloorStep, LockStep, TypeCorrect, PTL DEF Spec
<1>2. TypeOK /\ FloorInv /\ [Next]_vars =>
        [\A d \in Datasets : served'[d] # served[d] /\ served[d] # Never
                             => served'[d] - served[d] >= Upstream]_vars
  BY FloorAction
<1> QED
  BY <1>1, <1>2, TypeCorrect, PTL DEF Spec, PoliteFloor

-----------------------------------------------------------------------------
(* Sums of the ledger.                                                     *)

LEMMA TimesFinite == IsFiniteSet(Times) /\ IsFiniteSet(Stamps) /\ Times \subseteq Stamps
<1>1. MaxClock \in Nat /\ MaxSkew \in Nat /\ Stamps = 0 .. (MaxClock + MaxSkew)
  BY HostAssumption
<1>2. Times \subseteq Stamps
  BY <1>1 DEF Times
<1> QED
  BY <1>1, <1>2, FS_Interval DEF Times

LEMMA UsedSum == \A l : Used(l) = SumOver(l, Stamps)
BY DEF Used, SumOver, MapThenSumSet, MapThenFoldSet

LEMMA PrunedNat ==
  ASSUME TypeOK, NEW now
  PROVE  /\ Pruned(ledger, now) \in [Stamps -> Nat]
         /\ Used(Pruned(ledger, now)) \in Nat
<1>1. Pruned(ledger, now) \in [Stamps -> Nat]
  BY DEF Pruned, TypeOK
<1>2. SumOver(Pruned(ledger, now), Stamps) \in Nat
  BY <1>1, TimesFinite, SumNat
<1> QED
  BY <1>1, <1>2, UsedSum

LEMMA RemainingInt ==
  ASSUME TypeOK, NEW h \in Hosts
  PROVE  Remaining(h) \in Int /\ Used(Pruned(ledger, started[h])) = Budget - Remaining(h)
<1>1. Used(Pruned(ledger, started[h])) \in Nat
  BY PrunedNat
<1>2. Budget \in Nat
  BY LimitAssumption
<1>3. \A u \in Nat, b \in Nat : b - u \in Int /\ u = b - (b - u)
  OBVIOUS
<1> QED
  BY <1>1, <1>2, <1>3 DEF Remaining

Recent(t) == {u \in Times : u <= t /\ t - u < Window - MaxSkew}

Overshoot == Max(ErrorSizes \cup {Chunk})

LEMMA OvershootBounds ==
  Overshoot \in Nat /\ Chunk <= Overshoot /\ \A n \in ErrorSizes : n <= Overshoot
<1>1. Chunk \in Nat /\ ErrorSizes \subseteq Nat /\ IsFiniteSet(ErrorSizes)
  BY WireAssumption
<1>2. IsFiniteSet(ErrorSizes \cup {Chunk})
  BY <1>1, FS_AddElement
<1>3. ErrorSizes \cup {Chunk} \in SUBSET Int /\ ErrorSizes \cup {Chunk} # {}
  BY <1>1
<1>4. /\ Overshoot \in ErrorSizes \cup {Chunk}
      /\ \A x \in ErrorSizes \cup {Chunk} : x <= Overshoot
  BY <1>2, <1>3, MaxExists DEF Overshoot
<1> QED
  BY <1>1, <1>4

WindowsHold == \A t \in Times : SumOver(Charged, Recent(t)) <= Budget + Overshoot

LEMMA WindowsAreBudget == WindowsHold => WireBudget
BY DEF WindowsHold, WireBudget, SumOver, MapThenSumSet, MapThenFoldSet, Recent, Overshoot

-----------------------------------------------------------------------------
(* The ledger against the wire.  From every instant that the allowance may *)
(* still be asked about, the ledger holds at least the bytes that crossed  *)
(* the wire since and were not lost to it by a fault; a request under way  *)
(* has not changed that yet, or is ahead of the ledger by its own bytes.   *)
(* Stamps run ahead of true time by the skew at most, so pruning takes     *)
(* nothing from those instants.                                            *)

\* A request that the ledger does not account for yet.
Pending == {"attempting", "streamed"}

Stamp(h)  == state[cur[h]].attempt
Moment(h) == Stamp(h) - SkewOf[h]

ChargedFrom(t)   == SumOver(Charged, {u \in Times : t <= u})
LedgerFrom(t) == SumOver(ledger, {u \in Stamps : t <= u})

\* What is recorded at t or later still counts now.
Covered(now, t) == now - t < Window - MaxSkew

LEMMA CoveredBefore ==
  ASSUME NEW m \in Int, NEW n \in Int, m <= n, NEW t \in Int, Covered(n, t)
  PROVE  Covered(m, t)
<1>1. Window - MaxSkew \in Int
  BY HostAssumption, LimitAssumption
<1>2. \A w \in Int : n - t < w => m - t < w
  OBVIOUS
<1> QED
  BY <1>1, <1>2 DEF Covered

PendingStamped ==
  /\ \A h \in Hosts : started[h] <= Now(h)
  /\ \A h \in Hosts : pc[h] \in Pending =>
       /\ cur[h] \in Datasets
       /\ Moment(h) \in 0 .. clock
       /\ started[h] <= Stamp(h)
       /\ Remaining(h) > 0

SettledLedger ==
  (\A h \in Hosts : pc[h] \notin Pending) =>
    \A t \in Int : Covered(clock, t) => ChargedFrom(t) <= LedgerFrom(t)

PendingLedger ==
  \A h \in Hosts : \A t \in Int : Covered(Moment(h), t) =>
    /\ pc[h] = "attempting" => ChargedFrom(t) <= LedgerFrom(t)
    /\ pc[h] = "streamed" =>
         ChargedFrom(t) <= LedgerFrom(t) + (IF t <= Moment(h) THEN answer[h].bytes ELSE 0)

\* Only what crossed the wire is lost, and nothing yet of a request under way.
ChargedInv ==
  /\ \A u \in Times : uncharged[u] <= wire[u]
  /\ \A h \in Hosts : pc[h] = "streamed" => answer[h].bytes <= Charged[Moment(h)]

LedgerInv == PendingStamped /\ ChargedInv /\ SettledLedger /\ PendingLedger

LEMMA ChargedNat ==
  ASSUME TypeOK, ChargedInv
  PROVE  \A u \in Times : Charged[u] \in Nat /\ Charged[u] = wire[u] - uncharged[u]
BY DEF TypeOK, ChargedInv, Charged

\* A step after which no request is pending, and before which none was on
\* the wire.
Calm ==
  /\ UNCHANGED <<wire, uncharged, ledger>>
  /\ clock' \in Nat /\ clock <= clock'
  /\ \A g \in Hosts : pc[g] # "streamed" /\ pc'[g] \notin Pending
  /\ \A g \in Hosts : started'[g] <= Now(g)'

LEMMA CalmKeepsLedger ==
  ASSUME TypeOK, LedgerInv, Calm
  PROVE  LedgerInv'
<1>1. PendingStamped' /\ PendingLedger' /\ ChargedInv'
  BY DEF Calm, LedgerInv, PendingStamped, PendingLedger, ChargedInv, Pending
<1>2. ASSUME NEW t \in Int, Covered(clock', t)
      PROVE  ChargedFrom(t)' <= LedgerFrom(t)'
  <2>1. ChargedFrom(t)' = ChargedFrom(t) /\ LedgerFrom(t)' = LedgerFrom(t)
    BY DEF Calm, ChargedFrom, LedgerFrom, Charged
  <2>2. clock \in Nat /\ clock' \in Nat /\ clock <= clock'
    BY HostAssumption DEF TypeOK, Times, Calm
  <2>4. Covered(clock, t)
    BY <1>2, <2>2, CoveredBefore
  <2>5. CASE \A h \in Hosts : pc[h] \notin Pending
    BY <2>1, <2>4, <2>5 DEF LedgerInv, SettledLedger
  <2>6. ASSUME NEW h \in Hosts, pc[h] \in Pending
        PROVE  ChargedFrom(t) <= LedgerFrom(t)
    <3>1. pc[h] = "attempting"
      BY <2>6 DEF Pending, Calm
    <3>2. Moment(h) \in 0 .. clock
      BY <2>6 DEF LedgerInv, PendingStamped
    <3>3. Covered(Moment(h), t)
      BY <2>2, <2>4, <3>2, CoveredBefore
    <3> QED
      BY <3>1, <3>3 DEF LedgerInv, PendingLedger
  <2> QED
    BY <2>1, <2>5, <2>6
<1>3. SettledLedger'
  BY <1>2 DEF SettledLedger, Covered
<1> QED
  BY <1>1, <1>3 DEF LedgerInv

\* A step that concerns no pending request.
Aside ==
  /\ UNCHANGED <<wire, uncharged, ledger>>
  /\ clock' \in Nat /\ clock <= clock'
  /\ \A g \in Hosts :
       /\ pc'[g] = pc[g] \/ {pc[g], pc'[g]} \cap Pending = {}
       /\ started'[g] <= Now(g)'
       /\ pc[g] \in Pending =>
            /\ cur'[g] = cur[g] /\ started'[g] = started[g] /\ answer'[g] = answer[g]
            /\ state'[cur[g]] = state[cur[g]]

LEMMA AsideKeepsLedger ==
  ASSUME TypeOK, LedgerInv, Aside
  PROVE  LedgerInv'
<1>1. clock \in Nat /\ clock' \in Nat /\ clock <= clock'
  BY HostAssumption DEF TypeOK, Times, Aside
<1>2. \A g \in Hosts : pc'[g] \in Pending => pc'[g] = pc[g] /\ pc[g] \in Pending
  BY DEF Aside
<1>3. \A g \in Hosts : pc[g] \in Pending =>
        /\ Stamp(g)' = Stamp(g) /\ Moment(g)' = Moment(g) /\ Remaining(g)' = Remaining(g)
        /\ cur'[g] = cur[g] /\ started'[g] = started[g] /\ answer'[g] = answer[g]
  BY DEF Aside, Stamp, Moment, Remaining
<1>4. PendingStamped'
  <2>1. ASSUME NEW g \in Hosts, pc'[g] \in Pending
        PROVE  /\ cur'[g] \in Datasets /\ Moment(g)' \in 0 .. clock'
               /\ started'[g] <= Stamp(g)' /\ Remaining(g)' > 0
    <3>1. /\ cur[g] \in Datasets /\ Moment(g) \in 0 .. clock
          /\ started[g] <= Stamp(g) /\ Remaining(g) > 0
      BY <1>2, <2>1 DEF LedgerInv, PendingStamped
    <3> QED
      BY <1>1, <1>2, <1>3, <2>1, <3>1
  <2> QED
    BY <2>1 DEF PendingStamped, Aside
<1>5. \A t : ChargedFrom(t)' = ChargedFrom(t) /\ LedgerFrom(t)' = LedgerFrom(t)
  BY DEF Aside, ChargedFrom, LedgerFrom, Charged
<1>6. SettledLedger'
  <2>1. SUFFICES ASSUME \A g \in Hosts : pc'[g] \notin Pending,
                        NEW t \in Int, Covered(clock', t)
                 PROVE  ChargedFrom(t) <= LedgerFrom(t)
    BY <1>5 DEF SettledLedger, Covered
  <2>2. \A g \in Hosts : pc[g] \notin Pending
    BY <2>1 DEF Aside
  <2>3. Covered(clock, t)
    BY <1>1, <2>1, CoveredBefore
  <2> QED
    BY <2>2, <2>3 DEF LedgerInv, SettledLedger
<1>7. PendingLedger'
  <2>1. SUFFICES ASSUME NEW g \in Hosts, NEW t \in Int, Covered(Moment(g), t)',
                        pc'[g] \in Pending
                 PROVE  /\ pc'[g] = "attempting" => ChargedFrom(t)' <= LedgerFrom(t)'
                        /\ pc'[g] = "streamed" =>
                             ChargedFrom(t)' <= LedgerFrom(t)'
                               + (IF t <= Moment(g)' THEN answer'[g].bytes ELSE 0)
    BY DEF PendingLedger, Pending
  <2>2. pc'[g] = pc[g] /\ Covered(Moment(g), t)
    BY <1>2, <1>3, <2>1 DEF Covered
  <2> QED
    BY <1>2, <1>3, <1>5, <2>1, <2>2 DEF LedgerInv, PendingLedger
<1>8. ChargedInv'
  <2>1. ASSUME NEW g \in Hosts, pc'[g] = "streamed"
        PROVE  answer'[g].bytes <= Charged'[Moment(g)']
    <3>1. answer[g].bytes <= Charged[Moment(g)]
      BY <1>2, <2>1 DEF LedgerInv, ChargedInv, Pending
    <3>2. Charged' = Charged
      BY DEF Aside, Charged
    <3> QED
      BY <1>2, <1>3, <2>1, <3>1, <3>2 DEF Pending
  <2>2. \A u \in Times : uncharged'[u] <= wire'[u]
    BY DEF Aside, LedgerInv, ChargedInv
  <2> QED
    BY <2>1, <2>2 DEF ChargedInv
<1> QED
  BY <1>4, <1>6, <1>7, <1>8 DEF LedgerInv

-----------------------------------------------------------------------------
(* The three steps of a request.                                           *)

LEMMA OthersIdle ==
  ASSUME LockHeld, NEW h \in Hosts, Running(h)
  PROVE  \A g \in Hosts \ {h} : pc[g] \notin Pending \cup {"answered", "filed", "loop"}
BY DEF LockHeld, Running, Pending

LEMMA PendingTimes ==
  ASSUME TypeOK, PendingStamped, NEW h \in Hosts, pc[h] \in Pending
  PROVE  /\ Moment(h) \in Times /\ Stamp(h) \in Stamps /\ Moment(h) \in Nat
         /\ Moment(h) <= Stamp(h) /\ Stamp(h) <= Moment(h) + MaxSkew
<1>1. Moment(h) \in 0 .. clock /\ cur[h] \in Datasets
  BY DEF PendingStamped
<1>2. clock \in 0 .. MaxClock /\ MaxClock \in Nat /\ MaxSkew \in Nat
  BY HostAssumption DEF TypeOK, Times
<1>3. Stamp(h) \in Int
  BY <1>1 DEF TypeOK, DatasetState, Stamp
<1>4. SkewOf[h] \in 0 .. MaxSkew
  BY HostAssumption
<1>5. Stamp(h) = Moment(h) + SkewOf[h]
  BY <1>3, <1>4 DEF Moment
<1>6. Stamps = 0 .. (MaxClock + MaxSkew)
  BY HostAssumption
<1> QED
  BY <1>1, <1>2, <1>4, <1>5, <1>6 DEF Times

LEMMA FromNat ==
  ASSUME TypeOK, ChargedInv
  PROVE  \A t : ChargedFrom(t) \in Nat /\ LedgerFrom(t) \in Nat
<1>1. SUFFICES ASSUME NEW t
               PROVE  ChargedFrom(t) \in Nat /\ LedgerFrom(t) \in Nat
  OBVIOUS
<1>2. /\ {u \in Times : t <= u} \in SUBSET Times
      /\ {u \in Stamps : t <= u} \in SUBSET Stamps
  OBVIOUS
<1>3. (\A u \in Times : Charged[u] \in Nat) /\ (\A u \in Stamps : ledger[u] \in Nat)
  BY ChargedNat DEF TypeOK
<1> QED
  BY <1>2, <1>3, TimesFinite, SumNat DEF ChargedFrom, LedgerFrom

\* The instant of the attempt is the present: what was settled now covers it.
LEMMA AttemptLedger ==
  ASSUME TypeOK, LockHeld, LedgerInv, NEW h \in Hosts, NEW d \in Datasets, Attempt(h, d)
  PROVE  LedgerInv'
<1> DEFINE s == [state[d] EXCEPT !.attempt = Now(h), !.retry = Now(h) + Floor,
                                 !.result = "attempting"]
<1>1. /\ Running(h) /\ pc[h] = "loop" /\ Remaining(h) > 0
      /\ state' = [state EXCEPT ![d] = s] /\ cur' = [cur EXCEPT ![h] = d]
      /\ pc' = [pc EXCEPT ![h] = "attempting"]
      /\ UNCHANGED <<clock, wire, uncharged, ledger, started>>
  BY DEF Attempt, Due, Turn, Save, historyVars, Running
<1>2. s.attempt = Now(h)
  <2>1. state[d] \in DatasetState
    BY DEF TypeOK
  <2> QED
    BY <2>1 DEF DatasetState
<1> HIDE DEF s
<1>3. state'[d] = s /\ cur'[h] = d /\ pc'[h] = "attempting"
  BY <1>1 DEF TypeOK
<1>4. \A g \in Hosts \ {h} : pc[g] \notin Pending /\ pc'[g] \notin Pending
  BY <1>1, OthersIdle DEF TypeOK
<1>5. Stamp(h)' = Now(h) /\ Moment(h)' = clock
  <2>1. Stamp(h)' = Now(h)
    BY <1>2, <1>3 DEF Stamp
  <2>2. clock \in Int /\ SkewOf[h] \in Int
    BY HostAssumption DEF TypeOK, Times
  <2>3. Moment(h)' = (clock + SkewOf[h]) - SkewOf[h]
    BY <2>1 DEF Moment, Now
  <2> QED
    BY <2>1, <2>2, <2>3
<1>6. PendingStamped'
  <2>1. clock \in 0 .. clock
    BY HostAssumption DEF TypeOK, Times
  <2>2. Remaining(h)' = Remaining(h)
    BY <1>1 DEF Remaining
  <2>3. \A g \in Hosts : started'[g] <= Now(g)'
    BY <1>1 DEF LedgerInv, PendingStamped, Now
  <2>4. started'[h] <= Stamp(h)'
    BY <1>1, <1>5 DEF LedgerInv, PendingStamped
  <2> QED
    BY <1>1, <1>3, <1>4, <1>5, <2>1, <2>2, <2>3, <2>4 DEF PendingStamped
<1>7. \A t \in Int : Covered(clock, t) => ChargedFrom(t)' <= LedgerFrom(t)'
  <2>1. \A g \in Hosts : pc[g] \notin Pending
    BY <1>1, <1>4 DEF Pending
  <2>2. \A t : ChargedFrom(t)' = ChargedFrom(t) /\ LedgerFrom(t)' = LedgerFrom(t)
    BY <1>1 DEF ChargedFrom, LedgerFrom, Charged
  <2> QED
    BY <2>1, <2>2 DEF LedgerInv, SettledLedger
<1>8. PendingLedger'
  <2>1. SUFFICES ASSUME NEW g \in Hosts, NEW t \in Int, Covered(Moment(g)', t),
                        pc'[g] \in Pending
                 PROVE  pc'[g] = "attempting" /\ ChargedFrom(t)' <= LedgerFrom(t)'
    BY DEF PendingLedger, Covered, Pending
  <2>2. g = h
    BY <1>4, <2>1
  <2> QED
    BY <1>3, <1>5, <1>7, <2>1, <2>2
<1>9. SettledLedger'
  BY <1>3 DEF SettledLedger, Pending
<1>10. ChargedInv'
  BY <1>1, <1>3, <1>4 DEF LedgerInv, ChargedInv, Pending
<1> QED
  BY <1>6, <1>8, <1>9, <1>10 DEF LedgerInv

\* What one instant gains or loses, summed over any set of instants.
LEMMA SumMoved ==
  ASSUME NEW f, NEW g, NEW m, NEW n \in Nat, NEW T \in SUBSET Times,
         \A u \in Times : f[u] \in Nat,
         g[m] = f[m] + n, \A u \in Times : u # m => g[u] = f[u]
  PROVE  /\ SumOver(f, T) \in Nat
         /\ m \in T => SumOver(g, T) = SumOver(f, T) + n
         /\ m \notin T => SumOver(g, T) = SumOver(f, T)
<1>1. IsFiniteSet(T)
  BY TimesFinite, FS_Subset
<1>2. SumOver(f, T) \in Nat
  BY TimesFinite, SumNat
<1>3. ASSUME m \in T
      PROVE  SumOver(g, T) = SumOver(f, T) + n
  <2>1. \A u \in T : f[u] \in Nat /\ (u # m => g[u] = f[u])
    OBVIOUS
  <2> QED
    BY <1>1, <1>3, <2>1, SumAdded
<1>4. ASSUME m \notin T
      PROVE  SumOver(g, T) = SumOver(f, T)
  <2>1. \A u \in T : g[u] = f[u]
    BY <1>4
  <2> QED
    BY <1>1, <2>1, SumSame
<1> QED
  BY <1>2, <1>3, <1>4

\* What one request adds to the wire, and from when on that counts.
LEMMA ExchangeWire ==
  ASSUME TypeOK, PendingStamped, ChargedInv,
         NEW h \in Hosts, NEW a \in Answer, Exchange(h, a)
  PROVE  /\ \A u \in Times : Charged[u] \in Nat
         /\ a.bytes \in Nat /\ Moment(h) \in Times
         /\ Charged'[Moment(h)] = Charged[Moment(h)] + a.bytes
         /\ \A u \in Times : u # Moment(h) => Charged'[u] = Charged[u]
         /\ \A u \in Times : uncharged'[u] <= wire'[u]
<1>1. /\ wire' = [wire EXCEPT ![Moment(h)] = @ + a.bytes] /\ pc[h] \in Pending
      /\ uncharged' = uncharged
  BY DEF Exchange, Moment, Stamp, Pending
<1>2. Moment(h) \in Times
  BY <1>1, PendingTimes
<1>3. /\ wire \in [Times -> Nat] /\ uncharged \in [Times -> Nat] /\ a.bytes \in Nat
      /\ \A u \in Times : uncharged[u] <= wire[u]
  BY DEF TypeOK, Answer, ChargedInv
<1>4. /\ wire'[Moment(h)] = wire[Moment(h)] + a.bytes
      /\ \A u \in Times : u # Moment(h) => wire'[u] = wire[u]
  BY <1>1, <1>2, <1>3
<1>5. \A u \in Times : uncharged'[u] <= wire'[u]
  <2>1. SUFFICES ASSUME NEW u \in Times PROVE uncharged[u] <= wire'[u]
    BY <1>1
  <2> HIDE DEF Moment
  <2> QED
    BY <1>3, <1>4
<1>6. \A u \in Times : /\ Charged[u] = wire[u] - uncharged[u]
                       /\ Charged'[u] = wire'[u] - uncharged[u]
  BY <1>1 DEF Charged
<1>7. Charged'[Moment(h)] = Charged[Moment(h)] + a.bytes
  <2>1. /\ Charged[Moment(h)] = wire[Moment(h)] - uncharged[Moment(h)]
        /\ Charged'[Moment(h)] = (wire[Moment(h)] + a.bytes) - uncharged[Moment(h)]
    BY <1>2, <1>4, <1>6
  <2>2. wire[Moment(h)] \in Nat /\ uncharged[Moment(h)] \in Nat
    BY <1>2, <1>3
  <2> QED
    BY <1>3, <2>1, <2>2
<1> QED
  BY <1>2, <1>3, <1>4, <1>5, <1>6, <1>7, ChargedNat

\* Summed over any set of instants.
LEMMA ExchangeSum ==
  ASSUME TypeOK, PendingStamped, ChargedInv,
         NEW h \in Hosts, NEW a \in Answer, Exchange(h, a), NEW T \in SUBSET Times
  PROVE  /\ SumOver(Charged, T) \in Nat
         /\ Moment(h) \in T => SumOver(Charged', T) = SumOver(Charged, T) + a.bytes
         /\ Moment(h) \notin T => SumOver(Charged', T) = SumOver(Charged, T)
<1> DEFINE f == Charged
           g == Charged'
           m == Moment(h)
           n == a.bytes
<1>1. /\ n \in Nat /\ \A u \in Times : f[u] \in Nat
      /\ g[m] = f[m] + n /\ \A u \in Times : u # m => g[u] = f[u]
  BY ExchangeWire
<1>2. /\ SumOver(f, T) \in Nat
      /\ m \in T => SumOver(g, T) = SumOver(f, T) + n
      /\ m \notin T => SumOver(g, T) = SumOver(f, T)
  <2> HIDE DEF f, g, m, n
  <2>1. SumOver(f, T) \in Nat
    BY <1>1, SumMoved, Z3
  <2>2. m \in T => SumOver(g, T) = SumOver(f, T) + n
    BY <1>1, SumMoved, Z3
  <2>3. ASSUME m \notin T
        PROVE  SumOver(g, T) = SumOver(f, T)
    <3>1. IsFiniteSet(T) /\ \A u \in T : g[u] = f[u]
      BY <1>1, <2>3, TimesFinite, FS_Subset
    <3> QED
      BY <3>1, SumSame
  <2> QED
    BY <2>1, <2>2, <2>3
<1> QED
  BY <1>2

LEMMA ExchangeLedger ==
  ASSUME TypeOK, LockHeld, LedgerInv, NEW h \in Hosts, NEW a \in Answer, Exchange(h, a)
  PROVE  LedgerInv'
<1>1. /\ Running(h) /\ pc[h] = "attempting" /\ pc' = [pc EXCEPT ![h] = "streamed"]
      /\ answer' = [answer EXCEPT ![h] = a]
      /\ UNCHANGED <<clock, state, cur, started, ledger>>
  BY DEF Exchange, volumeVars, Running
<1>2. /\ pc[h] \in Pending /\ pc'[h] = "streamed" /\ answer'[h] = a
      /\ \A g \in Hosts \ {h} : pc[g] \notin Pending /\ pc'[g] \notin Pending
  BY <1>1, OthersIdle DEF TypeOK, Pending
<1>3. Stamp(h)' = Stamp(h) /\ Moment(h)' = Moment(h) /\ Remaining(h)' = Remaining(h)
  BY <1>1 DEF Stamp, Moment, Remaining
<1>4. PendingStamped'
  BY <1>1, <1>2, <1>3 DEF LedgerInv, PendingStamped, Now
<1>5. SettledLedger'
  BY <1>2 DEF SettledLedger, Pending
<1>6. ASSUME NEW t \in Int, Covered(Moment(h), t)
      PROVE  ChargedFrom(t)' <= LedgerFrom(t)' + (IF t <= Moment(h) THEN a.bytes ELSE 0)
  <2>1. ChargedFrom(t) <= LedgerFrom(t) /\ PendingStamped /\ ChargedInv
    BY <1>1, <1>6 DEF LedgerInv, PendingLedger
  <2>2. LedgerFrom(t)' = LedgerFrom(t)
    BY <1>1 DEF LedgerFrom
  <2>3. ChargedFrom(t) \in Nat /\ LedgerFrom(t) \in Nat /\ a.bytes \in Nat
    BY <2>1, FromNat DEF Answer
  <2>4. /\ Moment(h) \in Times /\ Moment(h) \in Nat /\ Stamp(h) \in Nat
        /\ Moment(h) <= Stamp(h)
    BY <1>2, <2>1, PendingTimes, TimeAssumption
  <2> DEFINE T == {u \in Times : t <= u}
  <2>5. T \in SUBSET Times
    OBVIOUS
  <2>6. /\ Moment(h) \in T => SumOver(Charged', T) = SumOver(Charged, T) + a.bytes
        /\ Moment(h) \notin T => SumOver(Charged', T) = SumOver(Charged, T)
    <3> HIDE DEF T
    <3> QED
      BY <2>1, <2>5, ExchangeSum
  <2>7. ChargedFrom(t) = SumOver(Charged, T) /\ ChargedFrom(t)' = SumOver(Charged', T)
    BY DEF ChargedFrom
  <2>8. CASE t <= Moment(h)
    <3>1. Moment(h) \in T
      BY <2>4, <2>8
    <3> HIDE DEF T
    <3> QED
      BY <2>1, <2>2, <2>3, <2>6, <2>7, <2>8, <3>1
  <2>9. CASE ~ (t <= Moment(h))
    <3>1. Moment(h) \notin T
      BY <2>9
    <3> HIDE DEF T
    <3> QED
      BY <2>1, <2>2, <2>3, <2>6, <2>7, <2>9, <3>1
  <2> QED
    BY <2>8, <2>9
<1>7. PendingLedger'
  <2>1. SUFFICES ASSUME NEW g \in Hosts, NEW t \in Int, Covered(Moment(g)', t),
                        pc'[g] \in Pending
                 PROVE  /\ pc'[g] = "streamed"
                        /\ ChargedFrom(t)' <= LedgerFrom(t)'
                             + (IF t <= Moment(g)' THEN answer'[g].bytes ELSE 0)
    BY DEF PendingLedger, Covered, Pending
  <2>2. g = h
    BY <1>2, <2>1
  <2> QED
    BY <1>2, <1>3, <1>6, <2>1, <2>2
<1>8. ChargedInv'
  <2>1. /\ Charged[Moment(h)] \in Nat /\ a.bytes \in Nat
        /\ Charged'[Moment(h)] = Charged[Moment(h)] + a.bytes
        /\ \A u \in Times : uncharged'[u] <= wire'[u]
    BY ExchangeWire DEF LedgerInv
  <2>2. a.bytes <= Charged'[Moment(h)]
    BY <2>1
  <2>3. \A g \in Hosts : pc'[g] = "streamed" => g = h
    BY <1>2 DEF Pending
  <2> QED
    BY <1>2, <1>3, <2>1, <2>2, <2>3 DEF ChargedInv
<1> QED
  BY <1>4, <1>5, <1>7, <1>8 DEF LedgerInv

\* Recording prunes nothing that is still covered, and adds the bytes at the
\* stamp of the attempt.
LEMMA RecordedFrom ==
  ASSUME TypeOK, NEW stamp \in Stamps, NEW n \in Nat, NEW t \in Int, stamp - t < Window
  PROVE  SumOver(Recorded(ledger, stamp, n), {u \in Stamps : t <= u})
           = LedgerFrom(t) + (IF t <= stamp THEN n ELSE 0)
<1> DEFINE T == {u \in Stamps : t <= u}
           p == Pruned(ledger, stamp)
           r == Recorded(ledger, stamp, n)
<1>1. IsFiniteSet(T) /\ T \subseteq Stamps
  BY TimesFinite, FS_Subset
<1>2. \A u \in T : p[u] = ledger[u] /\ ledger[u] \in Nat
  <2>1. SUFFICES ASSUME NEW u \in T PROVE stamp - u < Window
    BY <1>1 DEF Pruned, TypeOK
  <2>2. u \in Int /\ stamp \in Int /\ Window \in Int /\ t <= u
    BY TimeAssumption, LimitAssumption
  <2> QED
    BY <2>2
<1>3. p \in [Stamps -> Nat] /\ r = [p EXCEPT ![stamp] = @ + n]
  BY PrunedNat DEF Recorded
<1> HIDE DEF p
<1>4. r[stamp] = p[stamp] + n /\ \A u \in Stamps : u # stamp => r[u] = p[u]
  BY <1>3
<1> HIDE DEF r
<1>5. SumOver(p, T) = LedgerFrom(t)
  <2>1. SumOver(p, T) = SumOver(ledger, T)
    <3> HIDE DEF T
    <3> QED
      BY <1>1, <1>2, SumSame
  <2> QED
    BY <2>1 DEF LedgerFrom
<1>6. SumOver(p, T) \in Nat
  <2> HIDE DEF T
  <2> QED
    BY <1>1, <1>3, SumNat
<1>7. CASE t <= stamp
  <2>1. stamp \in T
    BY <1>7
  <2> HIDE DEF T
  <2>2. (\A u \in T : p[u] \in Nat) /\ (\A u \in T : u # stamp => r[u] = p[u])
    BY <1>1, <1>3, <1>4
  <2>3. SumOver(r, T) = SumOver(p, T) + n
    BY <1>1, <1>4, <2>1, <2>2, SumAdded
  <2> QED
    BY <1>5, <1>7, <2>3 DEF T, r
<1>8. CASE ~ (t <= stamp)
  <2>1. stamp \notin T
    BY <1>8
  <2> HIDE DEF T
  <2>2. SumOver(r, T) = SumOver(p, T)
    BY <1>1, <1>4, <2>1, SumSame
  <2>3. SumOver(r, T) = LedgerFrom(t) + 0
    BY <1>5, <1>6, <2>2
  <2> QED
    BY <1>8, <2>3 DEF T, r
<1> QED
  BY <1>7, <1>8

LEMMA AccountLedger ==
  ASSUME TypeOK, LockHeld, LedgerInv, NEW h \in Hosts, Account(h)
  PROVE  LedgerInv'
<1>1. /\ Running(h) /\ pc[h] = "streamed" /\ pc[h] \in Pending
      /\ pc' = [pc EXCEPT ![h] = "answered"]
      /\ ledger' = IF answer[h].bytes > 0 THEN Recorded(ledger, Stamp(h), answer[h].bytes)
                   ELSE ledger
      /\ UNCHANGED <<clock, wire, uncharged, started>>
  BY DEF Account, Running, Pending, Stamp
<1>2. \A g \in Hosts : pc'[g] \notin Pending
  BY <1>1, OthersIdle DEF TypeOK, Pending
<1>3. /\ Moment(h) \in Nat /\ Moment(h) <= clock /\ clock \in Nat /\ Stamp(h) \in Stamps
      /\ Stamp(h) <= Moment(h) + MaxSkew
  <2>1. Moment(h) \in 0 .. clock
    BY <1>1 DEF LedgerInv, PendingStamped
  <2>2. clock \in Nat
    BY HostAssumption DEF TypeOK, Times
  <2> QED
    BY <1>1, <2>1, <2>2, PendingTimes DEF LedgerInv
<1>4. ASSUME NEW t \in Int, Covered(clock, t)
      PROVE  ChargedFrom(t)' <= LedgerFrom(t)'
  <2> DEFINE T == {u \in Stamps : t <= u}
             n == answer[h].bytes
  <2>1. Covered(Moment(h), t)
    BY <1>3, <1>4, CoveredBefore
  <2>2. ChargedFrom(t) <= LedgerFrom(t) + (IF t <= Stamp(h) THEN n ELSE 0)
    <3>1. ChargedFrom(t) <= LedgerFrom(t) + (IF t <= Moment(h) THEN n ELSE 0)
      BY <1>1, <2>1 DEF LedgerInv, PendingLedger
    <3>2. Moment(h) <= Stamp(h) /\ Moment(h) \in Int /\ Stamp(h) \in Int
      <4>1. PendingStamped
        BY DEF LedgerInv
      <4>2. Moment(h) <= Stamp(h) /\ Moment(h) \in Nat /\ Stamp(h) \in Stamps
        BY <1>1, <4>1, PendingTimes
      <4>3. Moment(h) \in Int
        BY <4>2
      <4>4. Stamp(h) \in Int
        BY <1>3, TimeAssumption, HostAssumption
      <4> QED
        BY <4>2, <4>3, <4>4
    <3>3. n \in Nat /\ ChargedFrom(t) \in Nat /\ LedgerFrom(t) \in Nat
      BY FromNat DEF TypeOK, Answer, LedgerInv
    <3>4. t <= Moment(h) => t <= Stamp(h)
      BY <3>2
    <3> HIDE DEF n
    <3> QED
      BY <3>1, <3>3, <3>4
  <2>3. ChargedFrom(t)' = ChargedFrom(t)
    BY <1>1 DEF ChargedFrom, Charged
  <2>4. LedgerFrom(t)' = SumOver(ledger', T)
    BY DEF LedgerFrom
  <2>5. n \in Nat /\ ChargedFrom(t) \in Nat /\ LedgerFrom(t) \in Nat
    BY FromNat DEF TypeOK, Answer, LedgerInv
  <2>6. CASE n > 0
    <3>1. Stamp(h) - t < Window
      <4>1. Stamp(h) \in Int /\ MaxSkew \in Int /\ Window \in Int
        BY <1>3, TimeAssumption, HostAssumption, LimitAssumption
      <4>2. Moment(h) - t < Window - MaxSkew
        BY <2>1 DEF Covered
      <4> HIDE DEF Stamp, Moment
      <4> QED
        BY <1>3, <4>1, <4>2
    <3>2. ledger' = Recorded(ledger, Stamp(h), n)
      BY <1>1, <2>6
    <3>3. SumOver(ledger', T) = LedgerFrom(t) + (IF t <= Stamp(h) THEN n ELSE 0)
      BY <1>3, <2>5, <3>1, <3>2, RecordedFrom
    <3> QED
      BY <2>2, <2>3, <2>4, <3>3
  <2>7. CASE ~ (n > 0)
    <3>1. ledger' = ledger /\ n = 0
      BY <1>1, <2>5, <2>7
    <3>2. LedgerFrom(t)' = LedgerFrom(t)
      BY <3>1 DEF LedgerFrom
    <3> HIDE DEF n
    <3> QED
      BY <2>2, <2>3, <2>5, <3>1, <3>2
  <2> QED
    BY <2>6, <2>7
<1>5. SettledLedger'
  BY <1>1, <1>4 DEF SettledLedger, Covered
<1>6. PendingStamped' /\ PendingLedger' /\ ChargedInv'
  BY <1>1, <1>2 DEF LedgerInv, PendingStamped, PendingLedger, ChargedInv, Pending, Now
<1> QED
  BY <1>5, <1>6 DEF LedgerInv

-----------------------------------------------------------------------------
(* What a request may draw.                                                *)

LEMMA LimitIsRemaining ==
  ASSUME NEW d \in Datasets, NEW remaining \in Nat
  PROVE  LET limit == StreamLimit(d, remaining).limit
         IN  limit \in Nat /\ limit <= remaining
<1>1. /\ Ceilings(d, remaining) \in SUBSET Nat
      /\ remaining \in Ceilings(d, remaining)
  <2>1. Cap[d] \in Nat \cup {Unknown} /\ ResponseLimit \in Nat
    BY SizeAssumption, LimitAssumption
  <2> QED
    BY <2>1 DEF Ceilings
<1>2. /\ Min(Ceilings(d, remaining)) \in Nat
      /\ Min(Ceilings(d, remaining)) <= remaining
  <2> HIDE DEF Ceilings
  <2> QED
    BY <1>1, MinExists
<1> QED
  BY <1>2 DEF StreamLimit

LEMMA AnswerFits ==
  ASSUME NEW d \in Datasets, NEW remaining \in Nat, remaining > 0,
         NEW a \in Answers(d, remaining)
  PROVE  a.bytes <= remaining + Overshoot
<1> DEFINE limit == StreamLimit(d, remaining).limit
<1>1. limit \in Nat /\ limit <= remaining
  BY LimitIsRemaining
<1>2. Overshoot \in Nat /\ Chunk <= Overshoot /\ Chunk \in Nat /\ ErrorSizes \subseteq Nat
      /\ \A n \in ErrorSizes : n <= Overshoot
  BY OvershootBounds, WireAssumption
<1> HIDE DEF limit
<1>3. Prefixes \subseteq Nat /\ SizeOf \in [Bodies -> Nat]
  BY SizeAssumption DEF Prefixes
<1>4. \/ \E b \in Bodies : SizeOf[b] <= limit /\ a.bytes = SizeOf[b]
      \/ a.bytes \in Prefixes /\ a.bytes <= limit + Chunk
      \/ a.bytes \in Prefixes /\ a.bytes <= limit
      \/ a.bytes \in ErrorSizes
  BY DEF Answers, limit
<1>5. a.bytes \in Nat
  BY <1>2, <1>3, <1>4
<1>6. CASE a.bytes \in ErrorSizes
  <2>1. a.bytes <= Overshoot
    BY <1>2, <1>6
  <2> HIDE DEF Overshoot
  <2> QED
    BY <1>2, <1>5, <2>1
<1>7. CASE a.bytes <= limit + Chunk
  <2> HIDE DEF Overshoot
  <2> QED
    BY <1>1, <1>2, <1>5, <1>7
<1>8. a.bytes <= limit => a.bytes <= limit + Chunk
  BY <1>1, <1>2, <1>5
<1> QED
  BY <1>4, <1>6, <1>7, <1>8

\* The window of any instant, after a request: what was on the wire of it is in
\* the ledger as this run sees it, so the request was bounded by the rest.
LEMMA ExchangeWindows ==
  ASSUME TypeOK, LedgerInv, WindowsHold, NEW h \in Hosts,
         NEW a \in Answers(cur[h], Remaining(h)), Exchange(h, a)
  PROVE  WindowsHold'
<1>1. /\ pc[h] = "attempting" /\ pc[h] \in Pending /\ PendingStamped /\ ChargedInv
      /\ cur[h] \in Datasets /\ Remaining(h) > 0 /\ started[h] <= Stamp(h)
  BY DEF Exchange, Pending, LedgerInv, PendingStamped
<1>2. /\ Moment(h) \in Times /\ Moment(h) \in Nat /\ Stamp(h) \in Nat
      /\ Stamp(h) <= Moment(h) + MaxSkew
  BY <1>1, PendingTimes, TimeAssumption
<1>3. Remaining(h) \in Nat /\ Used(Pruned(ledger, started[h])) = Budget - Remaining(h)
  BY <1>1, RemainingInt
<1>4. a \in Answer /\ a.bytes \in Nat /\ a.bytes <= Remaining(h) + Overshoot
  BY <1>1, <1>3, AnswersTyped, AnswerFits DEF Answer
<1>5. Budget \in Nat /\ Overshoot \in Nat /\ Window \in Nat /\ MaxSkew \in Nat
  BY LimitAssumption, OvershootBounds, HostAssumption
<1>6. ASSUME NEW t \in Times
      PROVE  SumOver(Charged', Recent(t)) <= Budget + Overshoot
  <2>1. Recent(t) \in SUBSET Times
    BY DEF Recent
  <2>2. SumOver(Charged, Recent(t)) <= Budget + Overshoot /\ SumOver(Charged, Recent(t)) \in Nat
    BY <1>1, <1>4, <2>1, ExchangeSum DEF WindowsHold
  <2>3. CASE Moment(h) \notin Recent(t)
    BY <1>1, <1>4, <2>1, <2>2, <2>3, ExchangeSum
  <2>4. CASE Moment(h) \in Recent(t)
    <3> DEFINE from == t - (Window - MaxSkew) + 1
               T == {u \in Stamps : from <= u}
    <3>1. t \in Nat /\ Moment(h) <= t /\ t - Moment(h) < Window - MaxSkew
      BY <2>4, HostAssumption DEF Recent, Times
    <3>2. from \in Int
      BY <1>5, <3>1
    <3>3. Covered(Moment(h), from)
      BY <1>2, <1>5, <3>1 DEF Covered
    <3>4. SumOver(Charged, Recent(t)) <= ChargedFrom(from)
      <4> DEFINE W == {u \in Times : from <= u}
      <4>1. Recent(t) \in SUBSET W
        <5>1. SUFFICES ASSUME NEW u \in Recent(t) PROVE u \in Times /\ from <= u
          OBVIOUS
        <5>2. u \in Times /\ u \in Int /\ t - u < Window - MaxSkew
          BY HostAssumption DEF Recent, Times
        <5> QED
          BY <1>5, <3>1, <5>2
      <4>2. IsFiniteSet(W) /\ \A u \in W : Charged[u] \in Nat
        BY <1>1, TimesFinite, FS_Subset, ChargedNat
      <4> HIDE DEF W
      <4>3. SumOver(Charged, Recent(t)) <= SumOver(Charged, W)
        BY <4>1, <4>2, SumSubset
      <4> QED
        BY <4>3 DEF W, ChargedFrom
    <3>5. ChargedFrom(from) <= LedgerFrom(from)
      BY <1>1, <3>2, <3>3 DEF LedgerInv, PendingLedger
    <3>6. LedgerFrom(from) <= Used(Pruned(ledger, started[h]))
      <4> DEFINE p == Pruned(ledger, started[h])
      <4>1. \A u \in T : p[u] = ledger[u]
        <5>1. SUFFICES ASSUME NEW u \in T PROVE started[h] - u < Window
          BY DEF Pruned
        <5>2. u \in Int /\ from <= u /\ started[h] \in Int
          <6>1. u \in Stamps /\ from <= u
            OBVIOUS
          <6>2. started[h] \in Stamps
            BY DEF TypeOK
          <6>3. Stamps \subseteq Int
            BY TimeAssumption
          <6> QED
            BY <6>1, <6>2, <6>3
        <5> HIDE DEF Stamp, Moment
        <5> QED
          BY <1>1, <1>2, <1>5, <3>1, <5>2
      <4>2. T \in SUBSET Stamps /\ IsFiniteSet(T)
        BY TimesFinite, FS_Subset
      <4>3. p \in [Stamps -> Nat]
        BY PrunedNat
      <4> HIDE DEF p
      <4>4. SumOver(p, T) <= SumOver(p, Stamps)
        <5> HIDE DEF T
        <5> QED
          BY <4>2, <4>3, TimesFinite, SumSubset
      <4>5. SumOver(p, T) = SumOver(ledger, T)
        <5> HIDE DEF T
        <5> QED
          BY <4>1, <4>2, SumSame
      <4>6. LedgerFrom(from) = SumOver(ledger, T) /\ SumOver(p, Stamps) = Used(p)
        BY UsedSum DEF LedgerFrom
      <4> HIDE DEF T, from
      <4> QED
        BY <4>4, <4>5, <4>6 DEF p
    <3>7. SumOver(Charged', Recent(t)) = SumOver(Charged, Recent(t)) + a.bytes
      BY <1>1, <1>4, <2>1, <2>4, ExchangeSum
    <3>8. ChargedFrom(from) \in Nat /\ LedgerFrom(from) \in Nat
      BY <1>1, FromNat
    <3> HIDE DEF from
    <3>9. SumOver(Charged, Recent(t)) <= Budget - Remaining(h)
      BY <1>3, <1>5, <2>2, <3>4, <3>5, <3>6, <3>8
    <3> QED
      BY <1>3, <1>4, <1>5, <2>2, <3>7, <3>9
  <2> QED
    BY <2>3, <2>4
<1> QED
  BY <1>6 DEF WindowsHold, Recent

-----------------------------------------------------------------------------
(* Every other step.                                                       *)

\* What the lock holder does between two requests.
LEMMA RunnerAside ==
  ASSUME TypeOK, LockHeld, LedgerInv, NEW h \in Hosts, Running(h), pc[h] \notin Pending,
         UNCHANGED <<clock, wire, uncharged, ledger>>, \A g \in Hosts \ {h} : pc'[g] = pc[g],
         pc'[h] \notin Pending, started' \in {started, [started EXCEPT ![h] = 0]}
  PROVE  Aside
<1>1. clock \in Nat
  BY HostAssumption DEF TypeOK, Times
<1>2. \A g \in Hosts : pc[g] \notin Pending
  BY OthersIdle
<1>3. \A g \in Hosts : started'[g] <= Now(g)'
  <2>1. SUFFICES ASSUME NEW g \in Hosts PROVE started'[g] <= Now(g)
    BY DEF Now
  <2>2. started[g] <= Now(g) /\ 0 <= Now(g)
    BY ClockReading DEF LedgerInv, PendingStamped
  <2>3. started'[g] \in {started[g], 0}
    BY DEF TypeOK
  <2> QED
    BY <2>2, <2>3
<1> QED
  BY <1>1, <1>2, <1>3 DEF Aside

\* A connection that failed leaves nothing to account for.
LEMMA ConnectCalm ==
  ASSUME TypeOK, LockHeld, LedgerInv, NEW h \in Hosts, ConnectFails(h)
  PROVE  Calm
<1>1. /\ Running(h) /\ pc[h] = "attempting" /\ pc' = [pc EXCEPT ![h] = "loop"]
      /\ UNCHANGED <<clock, wire, uncharged, ledger, started>>
  BY DEF ConnectFails, Running
<1>2. \A g \in Hosts : pc[g] # "streamed" /\ pc'[g] \notin Pending
  BY <1>1, OthersIdle DEF TypeOK, Pending
<1>3. clock \in Nat
  BY HostAssumption DEF TypeOK, Times
<1>4. \A g \in Hosts : started'[g] <= Now(g)'
  BY <1>1 DEF LedgerInv, PendingStamped, Now
<1> QED
  BY <1>1, <1>2, <1>3, <1>4 DEF Calm

LEMMA RunAside ==
  ASSUME TypeOK, LockHeld, LedgerInv, NEW h \in Hosts,
         \/ Handle(h) \/ Finish(h)
         \/ \E d \in Datasets :
              \/ SkipSpent(h, d) \/ SkipCorrupt(h, d) \/ SkipNotDue(h, d)
              \/ DeclineOverCap(h, d) \/ DeclineBudget(h, d)
  PROVE  Aside
<1>1. CASE Handle(h)
  <2>1. /\ pc[h] \in {"answered", "filed"}
        /\ UNCHANGED <<clock, wire, uncharged, ledger, started>>
        /\ \E p \in {"loop", "filed"} : pc' = [pc EXCEPT ![h] = p]
    BY <1>1
    DEF Handle, HandleOverBudget, HandleOverCap, HandleTooLarge, HandleDropped,
        HandleUnchanged, HandleForbidden, HandleError, HandleInvalid, WriteFile,
        SaveSuccess, Answered, Settle, historyVars
  <2> QED
    BY <2>1, RunnerAside DEF Running, Pending, TypeOK
<1>2. CASE Finish(h)
  <2>1. /\ pc[h] = "loop" /\ UNCHANGED <<clock, wire, uncharged, ledger>>
        /\ pc' = [pc EXCEPT ![h] = "idle"] /\ started' = [started EXCEPT ![h] = 0]
    BY <1>2 DEF Finish
  <2> QED
    BY <2>1, RunnerAside DEF Running, Pending, TypeOK
<1>3. ASSUME NEW d \in Datasets,
             \/ SkipSpent(h, d) \/ SkipCorrupt(h, d) \/ SkipNotDue(h, d)
             \/ DeclineOverCap(h, d) \/ DeclineBudget(h, d)
      PROVE  Aside
  <2>1. pc[h] = "loop" /\ UNCHANGED <<clock, wire, uncharged, ledger, pc, started>>
    BY <1>3 DEF SkipSpent, SkipCorrupt, SkipNotDue, DeclineOverCap, DeclineBudget, Due, Turn,
                volumeVars, historyVars
  <2> QED
    BY <2>1, RunnerAside DEF Running, Pending
<1> QED
  BY <1>1, <1>2, <1>3

LEMMA TickAside ==
  ASSUME TypeOK, LedgerInv, Tick
  PROVE  Aside
<1>1. /\ clock' = clock + 1
      /\ UNCHANGED <<wire, uncharged, ledger, pc, started, cur, answer, state>>
  BY DEF Tick, volumeVars, processVars, historyVars
<1>2. clock \in Nat /\ \A g \in Hosts : SkewOf[g] \in Nat /\ started[g] \in Nat
  BY HostAssumption DEF TypeOK, Times
<1>3. \A g \in Hosts : started'[g] <= Now(g)'
  BY <1>1, <1>2 DEF LedgerInv, PendingStamped, Now
<1> QED
  BY <1>1, <1>2, <1>3 DEF Aside

\* Steps that touch neither the dataset of a pending request nor its process.
LEMMA OtherAside ==
  ASSUME TypeOK, LedgerInv,
         \/ \E h \in Hosts :
              ReadClock(h) \/ RefuseLock(h) \/ Acquire(h) \/ WriteStatus(h)
         \/ (\E d \in Datasets : DamageState(d)) \/ UNCHANGED vars
  PROVE  Aside
<1>1. clock \in Nat /\ \A g \in Hosts : started[g] <= Now(g) /\ 0 <= Now(g)
  <2>1. clock \in Nat
    BY HostAssumption DEF TypeOK, Times
  <2>2. \A g \in Hosts : started[g] <= Now(g)
    BY DEF LedgerInv, PendingStamped
  <2>3. \A g \in Hosts : 0 <= Now(g)
    BY ClockReading
  <2> QED
    BY <2>1, <2>2, <2>3
<1>2. ASSUME NEW h \in Hosts, ReadClock(h) \/ RefuseLock(h)
      PROVE  Aside
  <2>1. /\ UNCHANGED <<clock, wire, uncharged, ledger, cur, answer, state>>
        /\ \A g \in Hosts \ {h} : pc'[g] = pc[g] /\ started'[g] = started[g]
        /\ {pc[h], pc'[h]} \cap Pending = {}
        /\ started'[h] \in {0, Now(h)}
    BY <1>2 DEF ReadClock, RefuseLock, TypeOK, volumeVars, historyVars, Pending
  <2>2. \A g \in Hosts : started'[g] <= Now(g)'
    <3>1. \A g \in Hosts : Now(g)' = Now(g) /\ Now(g) <= Now(g)
      BY <2>1, ClockReading DEF Now
    <3> QED
      BY <1>1, <2>1, <3>1
  <2> QED
    BY <1>1, <2>1, <2>2 DEF Aside
<1>3. ASSUME NEW h \in Hosts, Acquire(h)
      PROVE  Aside
  <2>1. /\ UNCHANGED <<clock, wire, uncharged, ledger, started, cur, answer, state>>
        /\ \A g \in Hosts \ {h} : pc'[g] = pc[g]
        /\ {pc[h], pc'[h]} \cap Pending = {}
    BY <1>3 DEF Acquire, TypeOK, Pending
  <2> QED
    BY <1>1, <2>1 DEF Aside, Now
<1>4. ASSUME NEW h \in Hosts, WriteStatus(h)
      PROVE  Aside
  BY <1>1, <1>4 DEF WriteStatus, historyVars, Aside, Now
<1>5. CASE (\E d \in Datasets : DamageState(d)) \/ UNCHANGED vars
  BY <1>1, <1>5
  DEF DamageState, vars, volumeVars, processVars, historyVars, Aside, Now
<1> QED
  BY <1>2, <1>3, <1>4, <1>5

-----------------------------------------------------------------------------
(* Faults.                                                                 *)

\* Nobody is left running by the kill of the one who runs; one who waits for the
\* lock does not matter.
LEMMA CrashAside ==
  ASSUME TypeOK, LockHeld, LedgerInv, NEW h \in Hosts, Crash(h), pc[h] # "streamed"
  PROVE  Calm \/ Aside
<1>1. /\ UNCHANGED <<clock, wire, uncharged, ledger, state>>
      /\ pc' = [pc EXCEPT ![h] = "idle"] /\ started' = [started EXCEPT ![h] = 0]
      /\ cur' = [cur EXCEPT ![h] = NoDataset] /\ answer' = [answer EXCEPT ![h] = NoAnswer]
      /\ pc[h] # "idle"
  BY DEF Crash
<1>2. clock \in Nat /\ \A g \in Hosts : started'[g] <= Now(g)'
  <2>1. clock \in Nat
    BY HostAssumption DEF TypeOK, Times
  <2>2. SUFFICES ASSUME NEW g \in Hosts PROVE started'[g] <= Now(g)
    BY <1>1, <2>1 DEF Now
  <2>3. started[g] <= Now(g) /\ 0 <= Now(g)
    BY ClockReading DEF LedgerInv, PendingStamped
  <2>4. started'[g] \in {started[g], 0}
    BY <1>1 DEF TypeOK
  <2> QED
    BY <2>3, <2>4
<1>3. CASE Running(h)
  <2>1. \A g \in Hosts : pc[g] # "streamed" /\ pc'[g] \notin Pending
    BY <1>1, <1>3, OthersIdle DEF TypeOK, Pending
  <2>2. Calm
    BY <1>1, <1>2, <2>1 DEF Calm
  <2> QED
    BY <2>2
<1>4. CASE ~ Running(h)
  <2>1. pc[h] = "starting"
    BY <1>1, <1>4 DEF Running
  <2>2. \A g \in Hosts :
          /\ pc'[g] = pc[g] \/ {pc[g], pc'[g]} \cap Pending = {}
          /\ pc[g] \in Pending => /\ cur'[g] = cur[g] /\ started'[g] = started[g]
                                  /\ answer'[g] = answer[g]
    BY <1>1, <2>1 DEF TypeOK, Pending
  <2>3. Aside
    BY <1>1, <1>2, <2>2 DEF Aside
  <2> QED
    BY <2>3
<1> QED
  BY <1>3, <1>4

\* What a kill between the last byte and the ledger takes from the charged.
LEMMA CrashWire ==
  ASSUME TypeOK, LedgerInv, NEW h \in Hosts, Crash(h), pc[h] = "streamed"
  PROVE  /\ \A u \in Times : Charged'[u] \in Nat
         /\ answer[h].bytes \in Nat /\ Moment(h) \in Times
         /\ Charged[Moment(h)] = Charged'[Moment(h)] + answer[h].bytes
         /\ \A u \in Times : u # Moment(h) => Charged[u] = Charged'[u]
         /\ \A u \in Times : uncharged'[u] <= wire'[u]
<1> DEFINE m == Moment(h)
           n == answer[h].bytes
<1>1. uncharged' = [uncharged EXCEPT ![m] = @ + n] /\ wire' = wire /\ pc[h] \in Pending
  BY DEF Crash, Moment, Stamp, Pending
<1>2. m \in Times
  BY <1>1, PendingTimes DEF LedgerInv
<1>3. /\ wire \in [Times -> Nat] /\ uncharged \in [Times -> Nat] /\ n \in Nat
      /\ n <= Charged[m] /\ \A u \in Times : uncharged[u] <= wire[u]
  BY DEF TypeOK, Answer, LedgerInv, ChargedInv
<1>4. /\ uncharged'[m] = uncharged[m] + n
      /\ \A u \in Times : u # m => uncharged'[u] = uncharged[u]
  <2> HIDE DEF m, n
  <2> QED
    BY <1>1, <1>2, <1>3
<1>5. \A u \in Times : /\ Charged[u] = wire[u] - uncharged[u]
                       /\ Charged'[u] = wire[u] - uncharged'[u]
  BY <1>1 DEF Charged
<1> HIDE DEF m, n
<1>6. /\ Charged[m] = Charged'[m] + n /\ Charged'[m] \in Nat
      /\ uncharged'[m] <= wire[m]
  <2>1. wire[m] \in Nat /\ uncharged[m] \in Nat
    BY <1>2, <1>3
  <2>2. /\ Charged[m] = wire[m] - uncharged[m]
        /\ Charged'[m] = wire[m] - (uncharged[m] + n)
    BY <1>2, <1>4, <1>5
  <2> QED
    BY <1>3, <1>4, <2>1, <2>2
<1>7. ASSUME NEW u \in Times, u # m
      PROVE  Charged'[u] \in Nat /\ Charged[u] = Charged'[u] /\ uncharged'[u] <= wire[u]
  <2>1. wire[u] \in Nat /\ uncharged[u] \in Nat /\ uncharged[u] <= wire[u]
    BY <1>3
  <2>2. Charged'[u] = wire[u] - uncharged[u] /\ Charged[u] = wire[u] - uncharged[u]
    BY <1>4, <1>5, <1>7
  <2> QED
    BY <1>4, <1>7, <2>1, <2>2
<1>8. \A u \in Times : Charged'[u] \in Nat /\ uncharged'[u] <= wire'[u]
  BY <1>1, <1>6, <1>7
<1> QED
  BY <1>2, <1>3, <1>6, <1>7, <1>8 DEF m, n

LEMMA CrashSum ==
  ASSUME TypeOK, LedgerInv, NEW h \in Hosts, Crash(h), pc[h] = "streamed",
         NEW T \in SUBSET Times
  PROVE  /\ SumOver(Charged', T) \in Nat /\ answer[h].bytes \in Nat
         /\ Moment(h) \in T => SumOver(Charged, T) = SumOver(Charged', T) + answer[h].bytes
         /\ Moment(h) \notin T => SumOver(Charged, T) = SumOver(Charged', T)
<1> DEFINE f == Charged'
           g == Charged
           m == Moment(h)
           n == answer[h].bytes
<1>1. /\ n \in Nat /\ \A u \in Times : f[u] \in Nat
      /\ g[m] = f[m] + n /\ \A u \in Times : u # m => g[u] = f[u]
  BY CrashWire
<1>2. /\ SumOver(f, T) \in Nat
      /\ m \in T => SumOver(g, T) = SumOver(f, T) + n
      /\ m \notin T => SumOver(g, T) = SumOver(f, T)
  <2> HIDE DEF f, g, m, n
  <2> QED
    BY <1>1, SumMoved, Z3
<1> QED
  BY <1>1, <1>2

\* The bytes of the request that was killed are those it was ahead of the ledger.
LEMMA CrashLedger ==
  ASSUME TypeOK, LockHeld, LedgerInv, NEW h \in Hosts, Crash(h), pc[h] = "streamed"
  PROVE  LedgerInv'
<1>1. /\ Running(h) /\ pc[h] \in Pending
      /\ pc' = [pc EXCEPT ![h] = "idle"] /\ started' = [started EXCEPT ![h] = 0]
      /\ UNCHANGED <<clock, ledger>>
  BY DEF Crash, Running, Pending
<1>2. \A g \in Hosts : pc'[g] \notin Pending
  BY <1>1, OthersIdle DEF TypeOK, Pending
<1>3. \A g \in Hosts : started'[g] <= Now(g)'
  <2>1. SUFFICES ASSUME NEW g \in Hosts PROVE started'[g] <= Now(g)
    BY <1>1 DEF Now
  <2>2. started[g] <= Now(g) /\ 0 <= Now(g) /\ started'[g] \in {started[g], 0}
    BY <1>1, ClockReading DEF LedgerInv, PendingStamped, TypeOK
  <2> QED
    BY <2>2
<1>4. ASSUME NEW t \in Int, Covered(clock, t)
      PROVE  ChargedFrom(t)' <= LedgerFrom(t)'
  <2> DEFINE T == {u \in Times : t <= u}
             n == answer[h].bytes
  <2>1. Covered(Moment(h), t)
    <3>1. Moment(h) \in 0 .. clock /\ clock \in Nat
      BY <1>1, HostAssumption DEF LedgerInv, PendingStamped, TypeOK, Times
    <3> QED
      BY <1>4, <3>1, CoveredBefore
  <2>2. ChargedFrom(t) <= LedgerFrom(t) + (IF t <= Moment(h) THEN n ELSE 0)
    BY <2>1 DEF LedgerInv, PendingLedger
  <2>3. LedgerFrom(t)' = LedgerFrom(t)
    BY <1>1 DEF LedgerFrom
  <2>4. ChargedFrom(t) = SumOver(Charged, T) /\ ChargedFrom(t)' = SumOver(Charged', T)
    BY DEF ChargedFrom
  <2>5. n \in Nat /\ LedgerFrom(t) \in Nat
    BY FromNat DEF TypeOK, Answer, LedgerInv
  <2>6. Moment(h) \in T <=> t <= Moment(h)
    BY CrashWire
  <2>7. T \in SUBSET Times
    OBVIOUS
  <2> HIDE DEF T
  <2>8. /\ SumOver(Charged', T) \in Nat
        /\ Moment(h) \in T => SumOver(Charged, T) = SumOver(Charged', T) + n
        /\ Moment(h) \notin T => SumOver(Charged, T) = SumOver(Charged', T)
    BY <2>7, CrashSum
  <2> HIDE DEF n
  <2> QED
    BY <2>2, <2>3, <2>4, <2>5, <2>6, <2>8
<1>5. SettledLedger'
  BY <1>1, <1>4 DEF SettledLedger, Covered
<1>6. PendingStamped' /\ PendingLedger'
  BY <1>2, <1>3 DEF PendingStamped, PendingLedger, Pending
<1>7. ChargedInv'
  BY <1>2, CrashWire DEF ChargedInv, Pending
<1> QED
  BY <1>5, <1>6, <1>7 DEF LedgerInv

\* With the ledger everything that was charged is lost, and nobody runs.
LEMMA LoseLedgerLedger ==
  ASSUME TypeOK, LockHeld, LedgerInv, LoseLedger
  PROVE  LedgerInv' /\ \A T \in SUBSET Times : SumOver(Charged', T) = 0
<1>1. /\ lock = NoHost /\ uncharged' = wire /\ wire' = wire /\ ledger' = EmptyLedger
      /\ UNCHANGED <<clock, pc, started>>
  BY DEF LoseLedger, processVars
<1>2. \A g \in Hosts : pc'[g] \notin Pending
  BY <1>1, HostAssumption DEF LockHeld, Running, Pending
<1>3. wire \in [Times -> Nat]
  BY DEF TypeOK
<1>4. \A u \in Times : Charged'[u] = 0 /\ uncharged'[u] <= wire'[u]
  BY <1>1, <1>3 DEF Charged
<1>5. \A T \in SUBSET Times : SumOver(Charged', T) = 0
  <2>1. SUFFICES ASSUME NEW T \in SUBSET Times PROVE SumOver(Charged', T) = 0
    OBVIOUS
  <2>2. IsFiniteSet(T) /\ \A u \in T : Charged'[u] = 0
    BY <1>4, TimesFinite, FS_Subset
  <2> QED
    BY <2>2, SumZero
<1>6. SettledLedger'
  <2>1. SUFFICES ASSUME NEW t \in Int PROVE ChargedFrom(t)' <= LedgerFrom(t)'
    BY DEF SettledLedger
  <2>2. ChargedFrom(t)' = 0
    BY <1>5 DEF ChargedFrom
  <2>3. LedgerFrom(t)' = 0
    <3> DEFINE S == {u \in Stamps : t <= u}
    <3>1. IsFiniteSet(S) /\ \A u \in S : ledger'[u] = 0
      BY <1>1, TimesFinite, FS_Subset DEF EmptyLedger
    <3>2. LedgerFrom(t)' = SumOver(ledger', S)
      BY DEF LedgerFrom
    <3> HIDE DEF S
    <3> QED
      BY <3>1, <3>2, SumZero
  <2> QED
    BY <2>2, <2>3
<1>7. PendingStamped' /\ PendingLedger'
  BY <1>1, <1>2 DEF LedgerInv, PendingStamped, PendingLedger, Pending, Now
<1>8. ChargedInv'
  BY <1>2, <1>4 DEF ChargedInv, Pending
<1> QED
  BY <1>5, <1>6, <1>7, <1>8 DEF LedgerInv

-----------------------------------------------------------------------------

\* The job meets no other step.
LEMMA AllowanceSteps ==
  ASSUME TypeOK, LockHeld, LedgerInv, [Next]_vars
  PROVE  \/ Calm \/ Aside \/ LoseLedger
         \/ \E h \in Hosts :
              \/ \E d \in Datasets : Attempt(h, d)
              \/ \E a \in Answers(cur[h], Remaining(h)) : Exchange(h, a)
              \/ Account(h)
              \/ Crash(h) /\ pc[h] = "streamed"
<1>1. \A h \in Hosts : Crash(h) => Calm \/ Aside \/ pc[h] = "streamed"
  BY CrashAside
<1>2. \A h \in Hosts : ConnectFails(h) => Calm
  BY ConnectCalm
<1>3. Tick => Aside
  BY TickAside
<1> QED
  BY <1>1, <1>2, <1>3, RunAside, OtherAside DEF Next, Proceed, Consider, Request

LEMMA LedgerStep ==
  ASSUME TypeOK, LockHeld, LedgerInv, [Next]_vars
  PROVE  LedgerInv'
<1>1. ASSUME NEW h \in Hosts, NEW a \in Answers(cur[h], Remaining(h)), Exchange(h, a)
      PROVE  LedgerInv'
  BY <1>1, AnswersTyped, ExchangeLedger
<1> QED
  BY <1>1, AllowanceSteps, CalmKeepsLedger, AsideKeepsLedger, AttemptLedger, AccountLedger,
     CrashLedger, LoseLedgerLedger

LEMMA WindowsStep ==
  ASSUME TypeOK, LockHeld, LedgerInv, WindowsHold, [Next]_vars
  PROVE  WindowsHold'
<1>1. ASSUME UNCHANGED <<wire, uncharged>>
      PROVE  WindowsHold'
  BY <1>1 DEF WindowsHold, Recent, Charged
<1>2. \A h \in Hosts : Account(h) => UNCHANGED <<wire, uncharged>>
  BY DEF Account
<1>3. \A h \in Hosts, d \in Datasets : Attempt(h, d) => UNCHANGED <<wire, uncharged>>
  BY DEF Attempt, historyVars
<1>4. Calm \/ Aside => UNCHANGED <<wire, uncharged>>
  BY DEF Calm, Aside
<1>5. Budget \in Nat /\ Overshoot \in Nat
  BY LimitAssumption, OvershootBounds
<1>6. ASSUME NEW h \in Hosts, Crash(h), pc[h] = "streamed"
      PROVE  WindowsHold'
  <2>1. ASSUME NEW t \in Times
        PROVE  SumOver(Charged', Recent(t)) <= Budget + Overshoot
    <3> DEFINE T == Recent(t)
    <3>1. T \in SUBSET Times /\ SumOver(Charged, T) <= Budget + Overshoot
      BY DEF WindowsHold, Recent
    <3> HIDE DEF T
    <3>2. /\ SumOver(Charged', T) \in Nat /\ answer[h].bytes \in Nat
          /\ \/ SumOver(Charged, T) = SumOver(Charged', T) + answer[h].bytes
             \/ SumOver(Charged, T) = SumOver(Charged', T)
      BY <1>6, <3>1, CrashSum
    <3> HIDE DEF Overshoot
    <3>3. SumOver(Charged', T) <= Budget + Overshoot
      BY <1>5, <3>1, <3>2
    <3> QED
      BY <3>3 DEF T
  <2> QED
    BY <2>1 DEF WindowsHold, Recent
<1>7. ASSUME LoseLedger
      PROVE  WindowsHold'
  <2>1. \A t \in Times : SumOver(Charged', Recent(t)) = 0
    BY <1>7, LoseLedgerLedger DEF Recent
  <2>2. 0 <= Budget + Overshoot
    <3> HIDE DEF Overshoot
    <3> QED
      BY <1>5
  <2> QED
    BY <2>1, <2>2 DEF WindowsHold, Recent
<1> QED
  BY <1>1, <1>2, <1>3, <1>4, <1>6, <1>7, AllowanceSteps, ExchangeWindows

LEMMA AllowanceInit ==
  ASSUME Init
  PROVE  LedgerInv /\ WindowsHold
<1>1. TypeOK
  BY InitTyped
<1>2. \A h \in Hosts : pc[h] \notin Pending /\ started[h] = 0
  BY DEF Init, Pending
<1>3. PendingStamped
  BY <1>1, <1>2, ClockReading DEF PendingStamped
<1>4. PendingLedger
  BY <1>2 DEF PendingLedger, Pending
<1>5. \A T \in SUBSET Times : SumOver(Charged, T) = 0
  <2>1. SUFFICES ASSUME NEW T \in SUBSET Times PROVE SumOver(Charged, T) = 0
    OBVIOUS
  <2>2. IsFiniteSet(T) /\ \A u \in T : Charged[u] = 0
    BY TimesFinite, FS_Subset DEF Init, Charged
  <2> QED
    BY <2>2, SumZero
<1>8. ChargedInv
  BY <1>2 DEF ChargedInv, Pending, Init
<1>6. SettledLedger
  <2>1. \A t : LedgerFrom(t) \in Nat
    BY <1>1, <1>8, FromNat
  <2>2. \A t : ChargedFrom(t) = 0
    BY <1>5 DEF ChargedFrom
  <2> QED
    BY <2>1, <2>2 DEF SettledLedger
<1>7. WindowsHold
  <2>1. Budget \in Nat /\ Overshoot \in Nat
    BY LimitAssumption, OvershootBounds
  <2>2. \A t \in Times : SumOver(Charged, Recent(t)) = 0
    BY <1>5 DEF Recent
  <2>3. 0 <= Budget + Overshoot
    <3> HIDE DEF Overshoot
    <3> QED
      BY <2>1
  <2> QED
    BY <2>2, <2>3 DEF WindowsHold
<1> QED
  BY <1>3, <1>4, <1>6, <1>7, <1>8 DEF LedgerInv

\* The requests of any window draw at most the allowance and one overshoot, for
\* every number of hosts and skew, every size, ceiling and horizon, and for every
\* fault anywhere: all that a fault adds are the bytes whose record it prevented
\* (a run killed between its last byte and the ledger) or destroyed (a ledger that
\* cannot be read), which Charged leaves out one by one.
THEOREM AllowanceHolds == Spec => []WireBudget
<1>1. Init => LockHeld /\ LedgerInv /\ WindowsHold
  BY AllowanceInit DEF Init, LockHeld, Running
<1>2. TypeOK /\ LockHeld /\ LedgerInv /\ WindowsHold /\ [Next]_vars
        => LockHeld' /\ LedgerInv' /\ WindowsHold'
  BY LockStep, LedgerStep, WindowsStep
<1> QED
  BY <1>1, <1>2, WindowsAreBudget, TypeCorrect, PTL DEF Spec


-----------------------------------------------------------------------------
(* The verdicts on a dataset's size.                                       *)

Declined == {"budget-skipped", "over-dataset-cap"}

\* The three ways a dataset is declined for its size.
DeclinedForCap(h, d) ==
  /\ DeclineOverCap(h, d)
  /\ state'[d] = [state[d] EXCEPT !.result = "over-dataset-cap"]

DeclinedForBudget(h, d) ==
  /\ DeclineBudget(h, d)
  /\ state'[d] = [state[d] EXCEPT !.result = "budget-skipped"]

CutAtCap(h, d) ==
  /\ HandleOverCap(h) /\ d = cur[h]
  /\ state'[d] = Measured([state[d] EXCEPT !.result = "over-dataset-cap"], answer[h])

\* Whatever else a step does to a dataset does not leave it declined.
LEMMA SettledVerdict ==
  ASSUME TypeOK, NEW h \in Hosts, NEW d \in Datasets, NEW s, Save(h, cur[h], s),
         cur[h] \in Datasets => s.result \notin Declined
  PROVE  state'[d] = state[d] \/ state'[d].result \notin Declined
BY DEF Save, TypeOK

LEMMA HandleVerdict ==
  ASSUME TypeOK, NEW h \in Hosts, NEW d \in Datasets, Handle(h)
  PROVE  state'[d] = state[d] \/ state'[d].result \notin Declined \/ CutAtCap(h, d)
<1>1. cur[h] \in Datasets => state[cur[h]] \in DatasetState
  BY DEF TypeOK
<1>2. ASSUME cur[h] \in Datasets, NEW r
      PROVE  /\ Result(h, r).result = r
             /\ Measured(Result(h, r), answer[h]).result = r
             /\ \A i, b : [Measured(Result(h, r), answer[h])
                             EXCEPT !.success = i, !.body = b].result = r
  BY <1>1, <1>2 DEF Result, Measured, DatasetState
<1>3. CASE HandleOverCap(h)
  <2>1. state' = [state EXCEPT ![cur[h]] =
                    Measured(Result(h, "over-dataset-cap"), answer[h])]
    BY <1>3 DEF HandleOverCap, Settle, Save
  <2>2. CASE d = cur[h]
    BY <1>3, <2>1, <2>2 DEF CutAtCap, Result, TypeOK
  <2>3. CASE d # cur[h]
    BY <2>1, <2>3 DEF TypeOK
  <2> QED
    BY <2>2, <2>3
<1>4. CASE WriteFile(h)
  BY <1>4 DEF WriteFile
<1>5. CASE \/ HandleOverBudget(h) \/ HandleTooLarge(h) \/ HandleDropped(h)
           \/ HandleUnchanged(h) \/ HandleForbidden(h) \/ HandleError(h)
  <2>1. PICK r : r \notin Declined /\ Save(h, cur[h], Result(h, r))
    BY <1>5 DEF HandleOverBudget, HandleTooLarge, HandleDropped, HandleUnchanged,
                HandleForbidden, HandleError, Settle, Declined
  <2> QED
    BY <1>2, <2>1, SettledVerdict
<1>6. CASE HandleInvalid(h)
  <2>1. Save(h, cur[h], Measured(Result(h, "validation-error"), answer[h]))
    BY <1>6 DEF HandleInvalid, Settle
  <2> QED
    BY <1>2, <2>1, SettledVerdict DEF Declined
<1>7. CASE SaveSuccess(h)
  <2> DEFINE s == [Measured(Result(h, "published"), answer[h])
                     EXCEPT !.success = state[cur[h]].attempt, !.body = answer[h].body]
  <2>1. Save(h, cur[h], s)
    BY <1>7 DEF SaveSuccess, Settle
  <2>2. cur[h] \in Datasets => s.result = "published"
    BY <1>2
  <2> HIDE DEF s
  <2> QED
    BY <2>1, <2>2, SettledVerdict DEF Declined
<1> QED
  BY <1>3, <1>4, <1>5, <1>6, <1>7 DEF Handle

LEMMA Verdicts ==
  ASSUME TypeOK, [Next]_vars, NEW d \in Datasets
  PROVE  \/ state'[d] = state[d] \/ state'[d].result \notin Declined
         \/ \E h \in Hosts : DeclinedForCap(h, d) \/ DeclinedForBudget(h, d) \/ CutAtCap(h, d)
<1>1. ASSUME NEW h \in Hosts, NEW e \in Datasets, DeclineOverCap(h, e) \/ DeclineBudget(h, e)
      PROVE  state'[d] = state[d] \/ DeclinedForCap(h, d) \/ DeclinedForBudget(h, d)
  <2>1. CASE d # e
    BY <1>1, <2>1 DEF DeclineOverCap, DeclineBudget, Save, TypeOK
  <2>2. CASE d = e
    BY <1>1, <2>2
    DEF DeclineOverCap, DeclineBudget, Save, TypeOK, DeclinedForCap, DeclinedForBudget
  <2> QED
    BY <2>1, <2>2
<1>2. ASSUME NEW h \in Hosts, NEW e \in Datasets, Attempt(h, e)
      PROVE  state'[d] = state[d] \/ state'[d].result \notin Declined
  <2>1. state[e] \in DatasetState
    BY DEF TypeOK
  <2>2. [state[e] EXCEPT !.attempt = Now(h), !.retry = Now(h) + Floor,
                         !.result = "attempting"].result = "attempting"
    BY <2>1 DEF DatasetState
  <2> QED
    BY <1>2, <2>2 DEF Attempt, Save, TypeOK, Declined
<1>3. ASSUME NEW h \in Hosts, ConnectFails(h)
      PROVE  state'[d] = state[d] \/ state'[d].result \notin Declined
  <2>1. cur[h] \in Datasets =>
          [state[cur[h]] EXCEPT !.retry = state[cur[h]].attempt + RetryInterval,
                                !.result = "network-error"].result = "network-error"
    BY DEF TypeOK, DatasetState
  <2> QED
    BY <1>3, <2>1, SettledVerdict DEF ConnectFails, Declined
<1>4. CASE \/ Tick \/ (\E e \in Datasets : DamageState(e)) \/ LoseLedger \/ UNCHANGED vars
           \/ \E h \in Hosts :
                \/ ReadClock(h) \/ RefuseLock(h) \/ Acquire(h) \/ Account(h)
                \/ WriteStatus(h) \/ Finish(h) \/ Crash(h) \/ (\E a : Exchange(h, a))
                \/ \E e \in Datasets :
                     SkipSpent(h, e) \/ SkipCorrupt(h, e) \/ SkipNotDue(h, e)
  BY <1>4 DEF Tick, DamageState, LoseLedger, vars, ReadClock, RefuseLock, Acquire, Account,
         WriteStatus, Finish, Crash, Exchange, SkipSpent, SkipCorrupt, SkipNotDue,
         volumeVars, processVars, historyVars
<1> QED
  BY <1>1, <1>2, <1>3, <1>4, HandleVerdict DEF Next, Proceed, Consider, Request

LEMMA DueAllowance ==
  ASSUME TypeOK, NEW h \in Hosts, NEW d \in Datasets, Due(h, d), OverBudget(state[d], Remaining(h))
  PROVE  state[d].format = "CSV" /\ state[d].size # Unknown
<1>1. Remaining(h) \in Int /\ Remaining(h) > 0
  BY RemainingInt DEF Due
<1> QED
  BY <1>1 DEF OverBudget, ExpectedBytes, Unknown

\* An over-cap forecast is one of a size that was measured in this format.
LEMMA CapForecast ==
  ASSUME NEW d \in Datasets, NEW s, OverCap(d, s)
  PROVE  s.format = "CSV" /\ s.size # Unknown
<1>1. Cap[d] \in Nat
  BY SizeAssumption DEF OverCap
<1> QED
  BY <1>1 DEF OverCap, ExpectedBytes, Unknown

LEMMA MeasuredStep ==
  ASSUME TypeOK, OnlyMeasuredIsDeclined, [Next]_vars
  PROVE  OnlyMeasuredIsDeclined'
<1>1. SUFFICES ASSUME NEW d \in Datasets, state'[d].result \in Declined
               PROVE  state'[d].format = "CSV"
  BY DEF OnlyMeasuredIsDeclined, Declined
<1>2. state[d] \in DatasetState
  BY DEF TypeOK
<1>3. CASE state'[d] = state[d]
  BY <1>1, <1>3 DEF OnlyMeasuredIsDeclined, Declined
<1>4. ASSUME NEW h \in Hosts, DeclinedForCap(h, d) \/ DeclinedForBudget(h, d)
      PROVE  state'[d].format = "CSV"
  <2>1. state[d].format = "CSV"
    BY <1>4, DueAllowance, CapForecast
    DEF DeclinedForCap, DeclinedForBudget, DeclineOverCap, DeclineBudget
  <2> QED
    BY <1>2, <1>4, <2>1 DEF DeclinedForCap, DeclinedForBudget, DatasetState
<1>5. ASSUME NEW h \in Hosts, CutAtCap(h, d)
      PROVE  state'[d].format = "CSV"
  BY <1>2, <1>5 DEF CutAtCap, Measured, DatasetState
<1> QED
  BY <1>1, <1>3, <1>4, <1>5, Verdicts

\* Only a dataset whose size was measured in the format in use is ever declined,
\* whatever an older release left and wherever a run is killed.
THEOREM MeasuredHolds == Spec => []OnlyMeasuredIsDeclined
<1>1. Init => OnlyMeasuredIsDeclined
  BY DEF Init, OnlyMeasuredIsDeclined, LegacyState, FreshState
<1> QED
  BY <1>1, MeasuredStep, TypeCorrect, PTL DEF Spec

-----------------------------------------------------------------------------
(* A dataset over its cap.  The forecast that declines it is no less than  *)
(* the size seen, and the size seen when the stream was cut is over the    *)
(* cap.                                                                    *)

OverCapHeld == \A d \in Datasets : state[d].result = "over-dataset-cap" => OverCap(d, state[d])

CutOverCap ==
  \A h \in Hosts : pc[h] \in {"streamed", "answered"} /\ answer[h].kind = "dataset" =>
    Cap[cur[h]] # Unknown /\ answer[h].bytes > Cap[cur[h]]

CapInv == OverCapHeld /\ CutOverCap

\* The margin only adds.
LEMMA ForecastGrows ==
  ASSUME NEW n \in Nat
  PROVE  n + (n * MarginPercent) \div 100 \in Nat /\ n <= n + (n * MarginPercent) \div 100
<1>1. MarginPercent \in Nat
  BY LimitAssumption
<1>2. n * MarginPercent \in Nat
  BY <1>1
<1>3. \A m \in Nat : m \div 100 \in Nat
  OBVIOUS
<1>4. (n * MarginPercent) \div 100 \in Nat
  BY <1>2, <1>3
<1>5. \A m \in Nat : n + m \in Nat /\ n <= n + m
  OBVIOUS
<1> QED
  BY <1>4, <1>5

\* A stream that was cut for its dataset's own ceiling is longer than that.
LEMMA CutIsOver ==
  ASSUME NEW d \in Datasets, NEW remaining, NEW a \in Answers(d, remaining),
         a.kind = "dataset", remaining \in Int
  PROVE  Cap[d] # Unknown /\ a.bytes > Cap[d]
<1> DEFINE bound == StreamLimit(d, remaining)
<1>1. bound.source = "dataset" /\ bound.limit < a.bytes
  BY DEF Answers, bound
<1>2. bound.limit = Min(Ceilings(d, remaining))
  BY DEF StreamLimit
<1>3. bound.limit # remaining /\ bound.limit # ResponseLimit
  BY <1>1 DEF StreamLimit
<1>4. Min(Ceilings(d, remaining)) \in Ceilings(d, remaining)
  <2>1. Cap[d] \in Nat \cup {Unknown} /\ ResponseLimit \in Nat
    BY SizeAssumption, LimitAssumption
  <2>2. \E x \in Ceilings(d, remaining) : \A y \in Ceilings(d, remaining) : x <= y
    <3>1. Cap[d] \in Int /\ ResponseLimit \in Int
      BY <2>1 DEF Unknown
    <3> QED
      BY <3>1 DEF Ceilings
  <2> QED
    BY <2>2 DEF Min
<1>5. Cap[d] # Unknown /\ bound.limit = Cap[d]
  BY <1>2, <1>3, <1>4 DEF Ceilings
<1> HIDE DEF bound
<1>6. Cap[d] \in Int /\ a.bytes \in Int
  BY <1>5, SizeAssumption, AnswersTyped DEF Answer
<1> QED
  BY <1>1, <1>5, <1>6

LEMMA OverCapStep ==
  ASSUME TypeOK, CapInv, [Next]_vars
  PROVE  OverCapHeld'
<1>1. SUFFICES ASSUME NEW d \in Datasets, state'[d].result = "over-dataset-cap"
               PROVE  OverCap(d, state'[d])
  BY DEF OverCapHeld, OverCap, ExpectedBytes
<1>2. state[d] \in DatasetState
  BY DEF TypeOK
<1>3. CASE state'[d] = state[d]
  BY <1>1, <1>3 DEF CapInv, OverCapHeld
<1>4. ASSUME NEW h \in Hosts, DeclinedForCap(h, d)
      PROVE  OverCap(d, state'[d])
  <2>1. OverCap(d, state[d])
    BY <1>4 DEF DeclinedForCap, DeclineOverCap
  <2>2. state'[d].size = state[d].size /\ state'[d].format = state[d].format
    BY <1>2, <1>4 DEF DeclinedForCap, DatasetState
  <2> QED
    BY <2>1, <2>2 DEF OverCap, ExpectedBytes
<1>5. ASSUME NEW h \in Hosts, DeclinedForBudget(h, d)
      PROVE  FALSE
  BY <1>1, <1>2, <1>5 DEF DeclinedForBudget, DatasetState
<1>6. ASSUME NEW h \in Hosts, CutAtCap(h, d)
      PROVE  OverCap(d, state'[d])
  <2> DEFINE n == answer[h].bytes
  <2>1. Cap[d] # Unknown /\ n > Cap[d]
    BY <1>6 DEF CutAtCap, HandleOverCap, Answered, CapInv, CutOverCap
  <2>2. state'[d].size = n /\ state'[d].format = "CSV"
    BY <1>2, <1>6 DEF CutAtCap, Measured, DatasetState
  <2>3. n \in Nat /\ Cap[d] \in Nat
    BY <2>1, SizeAssumption DEF TypeOK, Answer
  <2> DEFINE e == n + (n * MarginPercent) \div 100
  <2>4. e \in Nat /\ n <= e
    BY <2>3, ForecastGrows
  <2>5. ExpectedBytes(state'[d]) = e
    BY <2>2, <2>3 DEF ExpectedBytes, Unknown
  <2> HIDE DEF n, e
  <2>6. ExpectedBytes(state'[d]) > Cap[d]
    BY <2>1, <2>3, <2>4, <2>5
  <2> QED
    BY <2>1, <2>6 DEF OverCap
<1> QED
  BY <1>1, <1>3, <1>4, <1>5, <1>6, Verdicts DEF Declined

\* Steps after which an answer that was cut is the one of the same dataset.
SameAnswers ==
  \A g \in Hosts : pc'[g] \in {"streamed", "answered"} =>
    pc[g] \in {"streamed", "answered"} /\ cur'[g] = cur[g] /\ answer'[g] = answer[g]

LEMMA SameAnswersKeeps == CutOverCap /\ SameAnswers => CutOverCap'
BY DEF CutOverCap, SameAnswers

LEMMA NextSameAnswers ==
  ASSUME TypeOK, [Next]_vars, ~ \E h \in Hosts : \E a : Exchange(h, a)
  PROVE  SameAnswers
<1>1. ASSUME NEW h \in Hosts, Handle(h)
      PROVE  SameAnswers
  <2>1. \E p \in {"loop", "filed"} : pc' = [pc EXCEPT ![h] = p]
    BY <1>1
    DEF Handle, HandleOverBudget, HandleOverCap, HandleTooLarge, HandleDropped,
        HandleUnchanged, HandleForbidden, HandleError, HandleInvalid, WriteFile,
        SaveSuccess, Settle
  <2>2. \A g \in Hosts \ {h} : cur'[g] = cur[g] /\ answer'[g] = answer[g]
    BY <1>1
    DEF Handle, HandleOverBudget, HandleOverCap, HandleTooLarge, HandleDropped,
        HandleUnchanged, HandleForbidden, HandleError, HandleInvalid, WriteFile,
        SaveSuccess, Settle, Save, TypeOK
  <2> QED
    BY <2>1, <2>2 DEF SameAnswers, TypeOK
<1>2. ASSUME NEW h \in Hosts, ConnectFails(h) \/ Finish(h) \/ Crash(h)
                              \/ ReadClock(h) \/ RefuseLock(h) \/ Acquire(h)
      PROVE  SameAnswers
  <2>1. pc'[h] \notin {"streamed", "answered"}
    BY <1>2 DEF ConnectFails, Finish, Crash, ReadClock, RefuseLock, Acquire, TypeOK
  <2>2. \A g \in Hosts \ {h} :
          pc'[g] = pc[g] /\ cur'[g] = cur[g] /\ answer'[g] = answer[g]
    BY <1>2 DEF ConnectFails, Save, Finish, Crash, ReadClock, RefuseLock, Acquire, TypeOK
  <2> QED
    BY <2>1, <2>2 DEF SameAnswers
<1>3. ASSUME NEW h \in Hosts, Account(h)
      PROVE  SameAnswers
  BY <1>3 DEF Account, TypeOK, SameAnswers
<1>4. ASSUME NEW h \in Hosts, NEW d \in Datasets,
             DeclineOverCap(h, d) \/ DeclineBudget(h, d) \/ Attempt(h, d)
      PROVE  SameAnswers
  <2>1. pc[h] = "loop" /\ cur' = [cur EXCEPT ![h] = d] /\ UNCHANGED answer
        /\ pc' \in {pc, [pc EXCEPT ![h] = "attempting"]}
    BY <1>4 DEF DeclineOverCap, DeclineBudget, Attempt, Due, Turn, Save
  <2> QED
    BY <2>1 DEF TypeOK, SameAnswers
<1>5. CASE \/ Tick \/ (\E d \in Datasets : DamageState(d)) \/ LoseLedger \/ UNCHANGED vars
           \/ \E h \in Hosts :
                \/ WriteStatus(h)
                \/ \E d \in Datasets :
                     SkipSpent(h, d) \/ SkipCorrupt(h, d) \/ SkipNotDue(h, d)
  BY <1>5 DEF Tick, DamageState, LoseLedger, vars, WriteStatus, SkipSpent, SkipCorrupt,
         SkipNotDue, volumeVars, processVars, historyVars, SameAnswers
<1> QED
  BY <1>1, <1>2, <1>3, <1>4, <1>5 DEF Next, Proceed, Consider, Request

LEMMA CutStep ==
  ASSUME TypeOK, FloorInv, CapInv, [Next]_vars
  PROVE  CutOverCap'
<1>1. CASE ~ \E h \in Hosts : \E a : Exchange(h, a)
  BY <1>1, NextSameAnswers, SameAnswersKeeps DEF CapInv
<1>2. ASSUME NEW h \in Hosts, NEW a, Exchange(h, a)
      PROVE  CutOverCap'
  <2>1. /\ pc[h] = "attempting" /\ a \in Answers(cur[h], Remaining(h))
        /\ answer' = [answer EXCEPT ![h] = a] /\ UNCHANGED cur
        /\ pc' = [pc EXCEPT ![h] = "streamed"]
    BY <1>2 DEF Exchange
  <2>2. cur[h] \in Datasets /\ Remaining(h) \in Int
    BY <2>1, RemainingInt DEF FloorInv, AttemptStamped
  <2>3. a.kind = "dataset" => Cap[cur[h]] # Unknown /\ a.bytes > Cap[cur[h]]
    BY <2>1, <2>2, CutIsOver
  <2>4. answer'[h] = a /\ \A g \in Hosts \ {h} : answer'[g] = answer[g] /\ pc'[g] = pc[g]
    BY <2>1 DEF TypeOK
  <2> QED
    BY <2>1, <2>3, <2>4 DEF CapInv, CutOverCap
<1> QED
  BY <1>1, <1>2

\* Nothing but an attempt moves the instant of the last attempt.
LEMMA AttemptMoves ==
  ASSUME TypeOK, [Next]_vars, NEW d \in Datasets, ~ \E h \in Hosts : Attempt(h, d)
  PROVE  state'[d].attempt = state[d].attempt
<1>1. ASSUME NEW h \in Hosts, NEW e \in Datasets, Attempt(h, e)
      PROVE  state'[d] = state[d]
  BY <1>1 DEF Attempt, Save, TypeOK
<1>2. ASSUME NEW h \in Hosts, ConnectFails(h)
      PROVE  state'[d].attempt = state[d].attempt
  BY <1>2 DEF ConnectFails, Save, TypeOK, DatasetState
<1>3. ASSUME NEW h \in Hosts, NEW a, Exchange(h, a)
      PROVE  state'[d] = state[d]
  BY <1>3 DEF Exchange, volumeVars
<1>4. Tick => state' = state
  BY DEF Tick, volumeVars
<1>5. SameSchedule => state'[d].attempt = state[d].attempt
  BY DEF SameSchedule
<1> QED
  BY <1>1, <1>2, <1>3, <1>4, <1>5, HandleSame, OtherSame DEF Next, Proceed, Consider, Request

\* A dataset that was found to be over its cap is never requested again, for
\* every ceiling and margin, and wherever the runs are killed.
THEOREM CapHolds == Spec => CapIsFinal
<1>1. Spec => []CapInv
  <2>1. Init => LockHeld /\ CapInv
    BY DEF Init, LockHeld, Running, CapInv, OverCapHeld, CutOverCap, LegacyState, FreshState
  <2>2. TypeOK /\ FloorInv /\ CapInv /\ [Next]_vars => CapInv'
    BY OverCapStep, CutStep DEF CapInv
  <2> QED
    BY <2>1, <2>2, FloorInit, FloorStep, LockStep, TypeCorrect, PTL DEF Spec
<1>2. TypeOK /\ CapInv /\ [Next]_vars =>
        [\A d \in Datasets :
           state[d].result = "over-dataset-cap" => state'[d].attempt = state[d].attempt]_vars
  <2>1. SUFFICES ASSUME TypeOK, CapInv, [Next]_vars, NEW d \in Datasets,
                        state[d].result = "over-dataset-cap"
                 PROVE  state'[d].attempt = state[d].attempt
    OBVIOUS
  <2>2. OverCap(d, state[d])
    BY <2>1 DEF CapInv, OverCapHeld
  <2>3. ~ \E h \in Hosts : Attempt(h, d)
    BY <2>2 DEF Attempt
  <2> QED
    BY <2>1, <2>3, AttemptMoves
<1> QED
  BY <1>1, <1>2, TypeCorrect, PTL DEF Spec, CapIsFinal

-----------------------------------------------------------------------------
(* Requests into silence.  A run goes on only while it has counted fewer   *)
(* than StopThreshold failures, and it counts at least as many as were in  *)
(* a row.                                                                  *)

\* Between the requests, during one, and with its answer in hand.
SilenceBefore(h) ==
  /\ pc[h] \in {"idle", "starting"} => silent[h] = 0
  /\ pc[h] = "loop" =>
       /\ silent[h] <= tally[h].network /\ tally[h].network <= StopThreshold
       /\ tally[h].network = StopThreshold => todo[h] = {}

SilenceDuring(h) ==
  /\ pc[h] \in Pending => silent[h] <= tally[h].network
  /\ pc[h] = "answered" =>
       IF answer[h].kind = "dropped" THEN silent[h] <= tally[h].network + 1 ELSE silent[h] = 0
  /\ pc[h] = "filed" => silent[h] = 0
  /\ pc[h] \in Pending \cup {"answered", "filed"} => tally[h].network < StopThreshold

Silence(h) == SilenceBefore(h) /\ SilenceDuring(h)

SilenceInv == \A h \in Hosts : Silence(h)

LEMMA SilenceStopsRun == TypeOK /\ SilenceInv => SilenceStops
<1> SUFFICES ASSUME TypeOK, SilenceInv, NEW h \in Hosts PROVE silent[h] <= StopThreshold
  BY DEF SilenceStops
<1>1. silent[h] \in Nat /\ tally[h].network \in Nat /\ pc[h] \in Points
  BY DEF TypeOK, Tally
<1>2. SilenceBefore(h) /\ SilenceDuring(h)
  BY DEF SilenceInv, Silence
<1> QED
  BY <1>1, <1>2 DEF SilenceBefore, SilenceDuring, Points, Pending, StopThreshold

\* A step of one process leaves the count of the others alone.
LEMMA SilenceOfOne ==
  ASSUME SilenceInv, NEW h \in Hosts, Silence(h)',
         \A g \in Hosts \ {h} :
           /\ pc'[g] = pc[g] /\ silent'[g] = silent[g] /\ tally'[g] = tally[g]
           /\ todo'[g] = todo[g] /\ answer'[g] = answer[g]
  PROVE  SilenceInv'
<1>1. ASSUME NEW g \in Hosts \ {h} PROVE Silence(g)'
  BY <1>1 DEF SilenceInv, Silence, SilenceBefore, SilenceDuring
<1> QED
  BY <1>1 DEF SilenceInv

LEMMA SilenceSame ==
  ASSUME SilenceInv, UNCHANGED <<pc, silent, tally, todo, answer>>
  PROVE  SilenceInv'
BY DEF SilenceInv, Silence, SilenceBefore, SilenceDuring

\* The fields that a failure or a stop leaves to the next request.
LEMMA CountedSilence ==
  ASSUME TypeOK, NEW h \in Hosts, CountNetworkFailure(h),
         silent'[h] \in Nat, silent'[h] <= tally[h].network + 1,
         tally[h].network < StopThreshold, pc'[h] = "loop"
  PROVE  Silence(h)'
<1>1. tally[h] \in Tally /\ tally[h].network \in Nat
  BY DEF TypeOK, Tally
<1>2. \A t \in Tally, n \in Nat :
        /\ [t EXCEPT !.failed = TRUE, !.network = n].network = n
        /\ [t EXCEPT !.failed = TRUE, !.network = n, !.reason = "unreachable"].network = n
  BY DEF Tally
<1>3. tally'[h].network = tally[h].network + 1
  <2>1. tally[h].network + 1 \in Nat
    BY <1>1
  <2>2. CASE tally[h].network + 1 >= StopThreshold
    <3>1. tally'[h] = [tally[h] EXCEPT !.failed = TRUE, !.network = tally[h].network + 1,
                                       !.reason = "unreachable"]
      BY <2>2 DEF CountNetworkFailure, TypeOK
    <3> QED
      BY <1>1, <1>2, <2>1, <3>1
  <2>3. CASE ~ (tally[h].network + 1 >= StopThreshold)
    <3>1. tally'[h] = [tally[h] EXCEPT !.failed = TRUE, !.network = tally[h].network + 1]
      BY <2>3 DEF CountNetworkFailure, TypeOK
    <3> QED
      BY <1>1, <1>2, <2>1, <3>1
  <2> QED
    BY <2>2, <2>3
<1>4. tally[h].network + 1 >= StopThreshold => todo'[h] = {}
  BY DEF CountNetworkFailure, TypeOK
<1> QED
  BY <1>1, <1>3, <1>4 DEF Silence, SilenceBefore, SilenceDuring, Pending, StopThreshold

\* An answer that is no network failure starts the count again or leaves it.
LEMMA HeardCount ==
  ASSUME TypeOK, NEW h \in Hosts, Handle(h), ~ HandleDropped(h), ~ WriteFile(h)
  PROVE  /\ pc[h] = "filed" \/ (pc[h] = "answered" /\ answer[h].kind # "dropped")
         /\ pc' = [pc EXCEPT ![h] = "loop"] /\ UNCHANGED silent
         /\ tally'[h].network \in {tally[h].network, 0}
         /\ \A g \in Hosts \ {h} :
              tally'[g] = tally[g] /\ todo'[g] = todo[g] /\ answer'[g] = answer[g]
<1>1. /\ pc[h] = "filed" \/ (pc[h] = "answered" /\ answer[h].kind # "dropped")
      /\ \E s : Settle(h, s)
  BY DEF Handle, HandleOverBudget, HandleOverCap, HandleTooLarge, HandleUnchanged,
         HandleForbidden, HandleError, HandleInvalid, SaveSuccess, Answered
<1>2. /\ pc' = [pc EXCEPT ![h] = "loop"] /\ UNCHANGED silent
      /\ \A g \in Hosts \ {h} : answer'[g] = answer[g]
  BY <1>1 DEF Settle, historyVars, TypeOK
<1>3. tally[h] \in Tally /\ tally \in [Hosts -> Tally] /\ todo \in [Hosts -> SUBSET Datasets]
  BY DEF TypeOK
<1>4. ASSUME NEW t \in Tally
      PROVE  /\ [t EXCEPT !.failed = TRUE, !.exhausted = TRUE].network = t.network
             /\ [t EXCEPT !.failed = TRUE].network = t.network
             /\ [t EXCEPT !.network = 0].network = 0
             /\ \A r : /\ [t EXCEPT !.failed = TRUE, !.reason = r].network = t.network
                       /\ [t EXCEPT !.network = 0, !.failed = TRUE, !.reason = r].network = 0
  BY DEF Tally
<1>5. CASE HandleOverBudget(h)
  BY <1>1, <1>2, <1>3, <1>4, <1>5 DEF HandleOverBudget
<1>6. CASE HandleOverCap(h)
  BY <1>1, <1>2, <1>3, <1>4, <1>6 DEF HandleOverCap
<1>7. CASE HandleTooLarge(h) \/ HandleError(h) \/ HandleInvalid(h)
  <2>1. /\ tally' = [tally EXCEPT ![h] =
                        [tally[h] EXCEPT !.failed = TRUE, !.reason = "other"]]
        /\ todo' = [todo EXCEPT ![h] = {}]
    BY <1>7 DEF HandleTooLarge, HandleError, HandleInvalid, Stop
  <2>2. tally'[h].network = tally[h].network
    BY <1>3, <1>4, <2>1
  <2> QED
    BY <1>1, <1>2, <1>3, <2>1, <2>2
<1>8. CASE HandleUnchanged(h) \/ SaveSuccess(h)
  BY <1>1, <1>2, <1>3, <1>4, <1>8 DEF HandleUnchanged, SaveSuccess
<1>9. CASE HandleForbidden(h)
  BY <1>1, <1>2, <1>3, <1>4, <1>9 DEF HandleForbidden
<1> QED
  BY <1>5, <1>6, <1>7, <1>8, <1>9 DEF Handle

LEMMA HandleSilence ==
  ASSUME TypeOK, SilenceInv, NEW h \in Hosts, Handle(h)
  PROVE  SilenceInv'
<1>1. tally[h].network \in Nat /\ silent[h] \in Nat
  BY DEF TypeOK, Tally
<1>2. SilenceDuring(h)
  BY DEF SilenceInv, Silence
<1>3. CASE HandleDropped(h)
  <2>1. /\ pc[h] = "answered" /\ answer[h].kind = "dropped" /\ UNCHANGED silent
        /\ pc'[h] = "loop" /\ CountNetworkFailure(h)
        /\ \A g \in Hosts \ {h} : pc'[g] = pc[g] /\ answer'[g] = answer[g]
    BY <1>3 DEF HandleDropped, Answered, Settle, historyVars, TypeOK
  <2>2. silent[h] <= tally[h].network + 1 /\ tally[h].network < StopThreshold
    BY <1>2, <2>1 DEF SilenceDuring
  <2>3. Silence(h)'
    BY <1>1, <2>1, <2>2, CountedSilence
  <2>4. \A g \in Hosts \ {h} : tally'[g] = tally[g] /\ todo'[g] = todo[g]
    BY <2>1 DEF CountNetworkFailure, TypeOK
  <2> QED
    BY <2>1, <2>3, <2>4, SilenceOfOne
<1>4. CASE WriteFile(h)
  <2>1. /\ pc[h] = "answered" /\ answer[h].kind # "dropped" /\ pc'[h] = "filed"
        /\ UNCHANGED <<silent, tally, todo, answer>>
        /\ \A g \in Hosts \ {h} : pc'[g] = pc[g]
    BY <1>4 DEF WriteFile, Answered, historyVars, TypeOK
  <2>2. Silence(h)'
    BY <1>2, <2>1 DEF Silence, SilenceBefore, SilenceDuring, Pending
  <2> QED
    BY <2>1, <2>2, SilenceOfOne
<1>5. CASE ~ HandleDropped(h) /\ ~ WriteFile(h)
  <2>1. /\ pc[h] = "filed" \/ (pc[h] = "answered" /\ answer[h].kind # "dropped")
        /\ pc' = [pc EXCEPT ![h] = "loop"] /\ UNCHANGED silent
        /\ tally'[h].network \in {tally[h].network, 0}
        /\ \A g \in Hosts \ {h} :
             tally'[g] = tally[g] /\ todo'[g] = todo[g] /\ answer'[g] = answer[g]
    BY <1>5, HeardCount
  <2>2. silent[h] = 0 /\ tally[h].network < StopThreshold
    BY <1>2, <2>1 DEF SilenceDuring
  <2>3. pc'[h] = "loop" /\ \A g \in Hosts \ {h} : pc'[g] = pc[g]
    BY <2>1 DEF TypeOK
  <2>4. Silence(h)'
    BY <1>1, <2>1, <2>2, <2>3
    DEF Silence, SilenceBefore, SilenceDuring, Pending, StopThreshold
  <2> QED
    BY <2>1, <2>3, <2>4, SilenceOfOne
<1> QED
  BY <1>3, <1>4, <1>5

LEMMA RequestSilence ==
  ASSUME TypeOK, SilenceInv, NEW h \in Hosts, Request(h)
  PROVE  SilenceInv'
<1>1. tally[h].network \in Nat /\ silent[h] \in Nat
  BY DEF TypeOK, Tally
<1>2. SilenceDuring(h)
  BY DEF SilenceInv, Silence
<1>3. CASE ConnectFails(h)
  <2>1. /\ pc[h] = "attempting" /\ pc'[h] = "loop" /\ silent'[h] = silent[h] + 1
        /\ CountNetworkFailure(h) /\ UNCHANGED answer
        /\ \A g \in Hosts \ {h} : pc'[g] = pc[g] /\ silent'[g] = silent[g]
    BY <1>3 DEF ConnectFails, TypeOK
  <2>2. silent[h] <= tally[h].network /\ tally[h].network < StopThreshold
    BY <1>2, <2>1 DEF SilenceDuring, Pending
  <2>3. Silence(h)'
    <3>1. silent'[h] \in Nat /\ silent'[h] <= tally[h].network + 1
      BY <1>1, <2>1, <2>2
    <3> QED
      BY <2>1, <2>2, <3>1, CountedSilence
  <2>4. \A g \in Hosts \ {h} : tally'[g] = tally[g] /\ todo'[g] = todo[g]
    BY <2>1 DEF CountNetworkFailure, TypeOK
  <2> QED
    BY <2>1, <2>3, <2>4, SilenceOfOne
<1>4. ASSUME NEW a, Exchange(h, a)
      PROVE  SilenceInv'
  <2>1. /\ pc[h] \in Pending /\ pc'[h] = "streamed" /\ UNCHANGED <<silent, tally, todo>>
        /\ \A g \in Hosts \ {h} : pc'[g] = pc[g] /\ answer'[g] = answer[g]
    BY <1>4 DEF Exchange, Pending, TypeOK
  <2>2. Silence(h)'
    BY <1>2, <2>1 DEF Silence, SilenceBefore, SilenceDuring, Pending
  <2> QED
    BY <2>1, <2>2, SilenceOfOne
<1>5. CASE Account(h)
  <2>1. /\ pc[h] \in Pending /\ pc'[h] = "answered" /\ UNCHANGED <<tally, todo, answer>>
        /\ silent'[h] = IF answer[h].kind = "dropped" THEN silent[h] + 1 ELSE 0
        /\ \A g \in Hosts \ {h} : pc'[g] = pc[g] /\ silent'[g] = silent[g]
    BY <1>5 DEF Account, Pending, TypeOK
  <2>2. silent[h] <= tally[h].network /\ tally[h].network < StopThreshold
    BY <1>2, <2>1 DEF SilenceDuring
  <2>3. Silence(h)'
    BY <1>1, <2>1, <2>2 DEF Silence, SilenceBefore, SilenceDuring, Pending
  <2> QED
    BY <2>1, <2>3, SilenceOfOne
<1> QED
  BY <1>3, <1>4, <1>5 DEF Request

LEMMA ConsiderSilence ==
  ASSUME TypeOK, SilenceInv, NEW h \in Hosts, NEW d \in Datasets,
         \/ SkipSpent(h, d) \/ SkipCorrupt(h, d) \/ SkipNotDue(h, d)
         \/ DeclineOverCap(h, d) \/ DeclineBudget(h, d) \/ Attempt(h, d)
  PROVE  SilenceInv'
<1>1. /\ pc[h] = "loop" /\ d \in todo[h] /\ UNCHANGED <<silent, answer>>
      /\ pc' \in {pc, [pc EXCEPT ![h] = "attempting"]}
      /\ todo' = [todo EXCEPT ![h] = @ \ {d}]
      /\ tally' \in {tally, [tally EXCEPT ![h].exhausted = TRUE],
                     [tally EXCEPT ![h].failed = TRUE]}
  BY DEF SkipSpent, SkipCorrupt, SkipNotDue, DeclineOverCap, DeclineBudget, Attempt, Due, Turn,
         Leave, volumeVars, historyVars
<1>2. tally[h] \in Tally /\ tally[h].network \in Nat /\ silent[h] \in Nat
  BY DEF TypeOK, Tally
<1>3. tally'[h].network = tally[h].network
  BY <1>1, <1>2 DEF TypeOK, Tally
<1>4. /\ pc'[h] \in {"loop", "attempting"}
      /\ \A g \in Hosts \ {h} : pc'[g] = pc[g] /\ todo'[g] = todo[g] /\ tally'[g] = tally[g]
  BY <1>1 DEF TypeOK
<1>5. silent[h] <= tally[h].network /\ tally[h].network < StopThreshold
  BY <1>1, <1>2 DEF SilenceInv, Silence, SilenceBefore, StopThreshold
<1>6. Silence(h)'
  BY <1>1, <1>2, <1>3, <1>4, <1>5
  DEF Silence, SilenceBefore, SilenceDuring, Pending, StopThreshold
<1> QED
  BY <1>1, <1>4, <1>6, SilenceOfOne

LEMMA SilenceStep ==
  ASSUME TypeOK, SilenceInv, [Next]_vars
  PROVE  SilenceInv'
<1>1. ASSUME NEW h \in Hosts,
             ReadClock(h) \/ RefuseLock(h) \/ Acquire(h) \/ Finish(h) \/ Crash(h)
      PROVE  SilenceInv'
  <2>1. /\ \/ pc'[h] \in {"idle", "starting"}
           \/ pc'[h] = "loop" /\ tally'[h] = NewTally
        /\ silent'[h] = 0
    BY <1>1
    DEF ReadClock, RefuseLock, Acquire, Finish, Crash, TypeOK, historyVars, SilenceInv, Silence,
        SilenceBefore
  <2>2. \A g \in Hosts \ {h} :
          /\ pc'[g] = pc[g] /\ silent'[g] = silent[g] /\ tally'[g] = tally[g]
          /\ todo'[g] = todo[g] /\ answer'[g] = answer[g]
    BY <1>1 DEF ReadClock, RefuseLock, Acquire, Finish, Crash, TypeOK, historyVars
  <2>3. Silence(h)'
    BY <2>1 DEF Silence, SilenceBefore, SilenceDuring, Pending, NewTally, StopThreshold
  <2> QED
    BY <2>2, <2>3, SilenceOfOne
<1>2. CASE \/ Tick \/ (\E d \in Datasets : DamageState(d)) \/ LoseLedger \/ UNCHANGED vars
           \/ \E h \in Hosts : WriteStatus(h)
  BY <1>2, SilenceSame
  DEF Tick, DamageState, LoseLedger, vars, WriteStatus, volumeVars, processVars, historyVars
<1> QED
  BY <1>1, <1>2, ConsiderSilence, RequestSilence, HandleSilence DEF Next, Proceed, Consider

\* No run sends more than two requests in a row into silence, however many
\* datasets it has before it and whatever else they answer.
THEOREM SilenceHolds == Spec => []SilenceStops
<1>1. Init => SilenceInv
  BY DEF Init, SilenceInv, Silence, SilenceBefore, SilenceDuring, Pending
<1> QED
  BY <1>1, SilenceStep, SilenceStopsRun, TypeCorrect, PTL DEF Spec

-----------------------------------------------------------------------------
(* The queue.  A run is past a dataset only because it could not be read,  *)
(* was not due when the run began, was declined for its size or found the  *)
(* allowance spent; the dataset it is at is not due before the next run.   *)

Busy == {"attempting", "streamed", "answered", "filed"}

Passed(h, e) ==
  \/ e \in damaged
  \/ NextAttemptAt(state[e]) > started[h]
  \/ state[e].result \in Declined
  \/ Remaining(h) <= 0

TurnBusy(h) ==
  /\ pc[h] \in Busy =>
       /\ cur[h] \in Datasets
       /\ started[h] <= Stamp(h)
       /\ NextAttemptAt(state[cur[h]]) > started[h]
  /\ pc[h] \in Pending => Remaining(h) > 0

TurnPassed(h) == Running(h) /\ todo[h] # {} => \A e \in Datasets \ todo[h] : Passed(h, e)

Turned(h) == started[h] <= Now(h) /\ TurnBusy(h) /\ TurnPassed(h)

TurnInv == \A h \in Hosts : Turned(h)

\* Steps that leave each process that is past the lock where it was.
TurnFrame ==
  /\ UNCHANGED state /\ damaged \subseteq damaged'
  /\ ledger' = ledger \/ \A g \in Hosts : ~ Running(g)'
  /\ \A g \in Hosts :
       /\ started'[g] <= Now(g)'
       /\ \/ ~ Running(g)'
          \/ pc'[g] = "loop" /\ todo'[g] = Datasets
          \/ /\ pc'[g] = pc[g] /\ cur'[g] = cur[g] /\ todo'[g] = todo[g]
             /\ started'[g] = started[g]

LEMMA TurnFrameKeeps ==
  ASSUME TurnInv, TurnFrame
  PROVE  TurnInv'
<1>1. ASSUME NEW g \in Hosts PROVE Turned(g)'
  <2>1. started'[g] <= Now(g)'
    BY DEF TurnFrame
  <2>2. CASE ~ Running(g)'
    BY <2>1, <2>2 DEF Turned, TurnBusy, TurnPassed, Running, Busy, Pending
  <2>3. CASE pc'[g] = "loop" /\ todo'[g] = Datasets
    BY <2>1, <2>3 DEF Turned, TurnBusy, TurnPassed, Busy, Pending
  <2>4. CASE Running(g)' /\ pc'[g] = pc[g] /\ cur'[g] = cur[g] /\ todo'[g] = todo[g]
               /\ started'[g] = started[g]
    <3>1. ledger' = ledger /\ state' = state /\ damaged \subseteq damaged'
      BY <2>4 DEF TurnFrame
    <3>2. Remaining(g)' = Remaining(g) /\ Stamp(g)' = Stamp(g)
      BY <2>4, <3>1 DEF Remaining, Stamp
    <3>3. \A e \in Datasets : Passed(g, e) => Passed(g, e)'
      BY <2>4, <3>1, <3>2 DEF Passed, NextAttemptAt
    <3>4. TurnBusy(g)' /\ TurnPassed(g)'
      BY <2>4, <3>1, <3>2, <3>3
      DEF TurnInv, Turned, TurnBusy, TurnPassed, Running, NextAttemptAt
    <3> QED
      BY <2>1, <3>4 DEF Turned
  <2> QED
    BY <2>2, <2>3, <2>4 DEF TurnFrame
<1> QED
  BY <1>1 DEF TurnInv

LEMMA FrameSteps ==
  ASSUME TypeOK, TurnInv,
         \/ Tick \/ (\E d \in Datasets : DamageState(d)) \/ UNCHANGED vars
         \/ \E h \in Hosts :
              \/ ReadClock(h) \/ RefuseLock(h) \/ Acquire(h) \/ WriteStatus(h)
              \/ Finish(h) \/ Crash(h)
  PROVE  TurnFrame
<1>1. clock \in Nat /\ \A g \in Hosts : started[g] <= Now(g) /\ 0 <= Now(g)
  <2>1. clock \in Nat
    BY HostAssumption DEF TypeOK, Times
  <2>2. \A g \in Hosts : started[g] <= Now(g)
    BY DEF TurnInv, Turned
  <2>3. \A g \in Hosts : 0 <= Now(g)
    BY ClockReading
  <2> QED
    BY <2>1, <2>2, <2>3
<1>2. CASE Tick
  <2>1. /\ clock' = clock + 1 /\ UNCHANGED <<state, damaged, ledger, pc, cur, todo, started>>
    BY <1>2 DEF Tick, volumeVars, processVars
  <2>2. \A g \in Hosts : SkewOf[g] \in Nat /\ started[g] \in Nat
    BY HostAssumption DEF TypeOK
  <2>3. \A g \in Hosts : started'[g] <= Now(g)'
    BY <1>1, <2>1, <2>2 DEF Now
  <2> QED
    BY <2>1, <2>3 DEF TurnFrame
<1>3. CASE (\E d \in Datasets : DamageState(d)) \/ UNCHANGED vars
           \/ \E h \in Hosts : WriteStatus(h)
  BY <1>1, <1>3
  DEF DamageState, vars, WriteStatus, volumeVars, processVars, TurnFrame, Now
<1>4. ASSUME NEW h \in Hosts,
             ReadClock(h) \/ RefuseLock(h) \/ Acquire(h) \/ Finish(h) \/ Crash(h)
      PROVE  TurnFrame
  <2>1. UNCHANGED <<clock, state, damaged, ledger>>
    BY <1>4 DEF ReadClock, RefuseLock, Acquire, Finish, Crash, volumeVars
  <2>2. /\ \/ pc'[h] \in {"idle", "starting"}
           \/ pc'[h] = "loop" /\ todo'[h] = Datasets
        /\ started'[h] \in {0, started[h], Now(h)}
    BY <1>4 DEF ReadClock, RefuseLock, Acquire, Finish, Crash, TypeOK
  <2>3. \A g \in Hosts \ {h} :
          /\ pc'[g] = pc[g] /\ cur'[g] = cur[g] /\ todo'[g] = todo[g]
          /\ started'[g] = started[g]
    BY <1>4 DEF ReadClock, RefuseLock, Acquire, Finish, Crash, TypeOK
  <2>4. \A g \in Hosts : started'[g] <= Now(g)'
    <3>1. \A g \in Hosts : Now(g)' = Now(g) /\ Now(g) <= Now(g)
      BY <2>1, ClockReading DEF Now
    <3> QED
      BY <1>1, <2>2, <2>3, <3>1
  <2> QED
    BY <2>1, <2>2, <2>3, <2>4 DEF TurnFrame, Running
<1> QED
  BY <1>2, <1>3, <1>4

\* A step of the process past the lock.
LEMMA TurnOfOne ==
  ASSUME TypeOK, LockHeld, TurnInv, NEW h \in Hosts, Running(h),
         UNCHANGED <<clock, started>>, \A g \in Hosts \ {h} : pc'[g] = pc[g],
         TurnBusy(h)', TurnPassed(h)'
  PROVE  TurnInv'
<1>1. \A g \in Hosts : started'[g] <= Now(g)'
  BY DEF TurnInv, Turned, Now
<1>2. ASSUME NEW g \in Hosts \ {h} PROVE Turned(g)'
  <2>1. ~ Running(g)'
    BY DEF LockHeld, Running
  <2> QED
    BY <1>1, <2>1 DEF Turned, TurnBusy, TurnPassed, Running, Busy, Pending
<1> QED
  BY <1>1, <1>2 DEF TurnInv, Turned

\* What a step does to the datasets behind.
LEMMA PassedKept ==
  ASSUME NEW h \in Hosts, NEW e, Passed(h, e), state'[e] = state[e],
         UNCHANGED <<damaged, ledger, started>>
  PROVE  Passed(h, e)'
BY DEF Passed, Remaining, NextAttemptAt

LEMMA ConsiderTurn ==
  ASSUME TypeOK, LockHeld, TurnInv, NEW h \in Hosts, NEW d \in Datasets,
         \/ SkipSpent(h, d) \/ SkipCorrupt(h, d) \/ SkipNotDue(h, d)
         \/ DeclineOverCap(h, d) \/ DeclineBudget(h, d) \/ Attempt(h, d)
  PROVE  TurnInv'
<1>1. /\ pc[h] = "loop" /\ d \in todo[h] /\ todo' = [todo EXCEPT ![h] = @ \ {d}]
      /\ UNCHANGED <<clock, started, ledger, damaged>>
  BY DEF SkipSpent, SkipCorrupt, SkipNotDue, DeclineOverCap, DeclineBudget, Attempt, Due, Turn,
         Leave, volumeVars, historyVars
<1>2. state[d] \in DatasetState /\ started[h] \in Nat /\ Now(h) \in Nat /\ started[h] <= Now(h)
  BY ClockReading, TimeAssumption DEF TypeOK, TurnInv, Turned
<1>3. \A e \in Datasets : e # d => state'[e] = state[e]
  BY DEF SkipSpent, SkipCorrupt, SkipNotDue, DeclineOverCap, DeclineBudget, Attempt, Save,
         volumeVars, TypeOK
<1>4. Remaining(h)' = Remaining(h)
  BY <1>1 DEF Remaining
<1>5. CASE Attempt(h, d)
  <2> DEFINE s == [state[d] EXCEPT !.attempt = Now(h), !.retry = Now(h) + Floor,
                                   !.result = "attempting"]
  <2>1. /\ state' = [state EXCEPT ![d] = s] /\ cur' = [cur EXCEPT ![h] = d]
        /\ pc' = [pc EXCEPT ![h] = "attempting"] /\ Remaining(h) > 0
    BY <1>5 DEF Attempt, Due, Save
  <2>2. s.attempt = Now(h) /\ s.retry = Now(h) + Floor
    BY <1>2 DEF DatasetState
  <2> HIDE DEF s
  <2>3. state'[d] = s /\ cur'[h] = d /\ pc'[h] = "attempting"
        /\ \A g \in Hosts \ {h} : pc'[g] = pc[g]
    BY <2>1 DEF TypeOK
  <2>4. NextAttemptAt(s) = Now(h) + Floor
    BY <1>2, <2>2, TimeAssumption DEF NextAttemptAt, Never
  <2>5. NextAttemptAt(s) > started[h] /\ started[h] <= s.attempt
    BY <1>2, <2>2, <2>4, TimeAssumption
  <2>6. NextAttemptAt(state'[d]) > started'[h]
    BY <1>1, <2>3, <2>5
  <2>7. TurnBusy(h)'
    BY <1>1, <1>4, <2>1, <2>3, <2>5, <2>6 DEF TurnBusy, Stamp, NextAttemptAt
  <2>8. Passed(h, d)'
    BY <2>6 DEF Passed, NextAttemptAt
  <2>9. TurnPassed(h)'
    <3>1. ASSUME NEW e \in Datasets \ todo'[h], e # d PROVE Passed(h, e)'
      <4>1. Passed(h, e)
        BY <1>1, <3>1 DEF TurnInv, Turned, TurnPassed, Running, TypeOK
      <4> QED
        BY <1>1, <1>3, <3>1, <4>1, PassedKept
    <3> QED
      BY <2>8, <3>1 DEF TurnPassed
  <2> QED
    BY <1>1, <2>3, <2>7, <2>9, TurnOfOne DEF Running
<1>6. CASE ~ Attempt(h, d)
  <2>1. UNCHANGED pc
    BY <1>6 DEF SkipSpent, SkipCorrupt, SkipNotDue, DeclineOverCap, DeclineBudget
  <2>2. Passed(h, d)'
    <3>1. CASE SkipSpent(h, d)
      BY <1>4, <3>1 DEF SkipSpent, Passed
    <3>2. CASE SkipCorrupt(h, d)
      BY <1>1, <3>2 DEF SkipCorrupt, Passed
    <3>3. CASE SkipNotDue(h, d)
      <4>1. Now(h) < NextAttemptAt(state[d]) /\ UNCHANGED state
        BY <3>3 DEF SkipNotDue, volumeVars
      <4>2. NextAttemptAt(state[d]) \in Int
        BY <1>2, TimeAssumption DEF NextAttemptAt, DatasetState, Never
      <4>3. NextAttemptAt(state[d]) > started[h]
        BY <1>2, <4>1, <4>2
      <4> QED
        BY <1>1, <4>1, <4>3 DEF Passed, NextAttemptAt
    <3>4. CASE DeclineOverCap(h, d) \/ DeclineBudget(h, d)
      <4>1. PICK r \in Declined : state' = [state EXCEPT ![d] = [state[d] EXCEPT !.result = r]]
        BY <3>4 DEF DeclineOverCap, DeclineBudget, Save, Declined
      <4>2. state'[d].result = r
        BY <1>2, <4>1 DEF DatasetState, TypeOK
      <4> QED
        BY <4>2 DEF Passed
    <3> QED
      BY <1>6, <3>1, <3>2, <3>3, <3>4
  <2>3. TurnPassed(h)'
    <3>1. ASSUME NEW e \in Datasets \ todo'[h], e # d PROVE Passed(h, e)'
      <4>1. Passed(h, e)
        BY <1>1, <3>1 DEF TurnInv, Turned, TurnPassed, Running, TypeOK
      <4> QED
        BY <1>1, <1>3, <3>1, <4>1, PassedKept
    <3> QED
      BY <2>2, <3>1 DEF TurnPassed
  <2>4. TurnBusy(h)'
    BY <1>1, <2>1 DEF TurnBusy, Busy, Pending
  <2> QED
    BY <1>1, <2>1, <2>3, <2>4, TurnOfOne DEF Running
<1> QED
  BY <1>5, <1>6

LEMMA ConnectTurn ==
  ASSUME TypeOK, LockHeld, TurnInv, NEW h \in Hosts, ConnectFails(h)
  PROVE  TurnInv'
<1> DEFINE d == cur[h]
           s == [state[d] EXCEPT !.retry = state[d].attempt + RetryInterval,
                                 !.result = "network-error"]
<1>1. /\ pc[h] = "attempting" /\ state' = [state EXCEPT ![d] = s]
      /\ pc' = [pc EXCEPT ![h] = "loop"] /\ CountNetworkFailure(h)
      /\ UNCHANGED <<clock, started, ledger, damaged>>
  BY DEF ConnectFails, Save
<1>2. d \in Datasets /\ started[h] <= state[d].attempt /\ Remaining(h) > 0
  BY <1>1 DEF TurnInv, Turned, TurnBusy, Busy, Pending, Stamp
<1>3. state[d] \in DatasetState /\ started[h] \in Nat /\ state[d].attempt \in Int
  BY <1>2, TimeAssumption DEF TypeOK, DatasetState
<1>4. s.retry = state[d].attempt + RetryInterval
  BY <1>3 DEF DatasetState
<1>5. NextAttemptAt(s) > started[h]
  BY <1>2, <1>3, <1>4, TimeAssumption DEF NextAttemptAt, Never
<1> HIDE DEF s
<1>6. state'[d] = s /\ \A e \in Datasets : e # d => state'[e] = state[e]
  BY <1>1, <1>2 DEF TypeOK
<1>7. \A e \in Datasets : e = d => Passed(h, e)'
  BY <1>1, <1>5, <1>6 DEF Passed, NextAttemptAt
<1> HIDE DEF d
<1>8. todo'[h] \in {todo[h], {}}
  BY <1>1 DEF CountNetworkFailure, TypeOK
<1>9. TurnPassed(h)'
  <2>1. SUFFICES ASSUME todo'[h] # {}, NEW e \in Datasets \ todo'[h] PROVE Passed(h, e)'
    BY DEF TurnPassed
  <2>2. CASE e # d
    <3>1. Passed(h, e)
      BY <1>1, <1>8, <2>1 DEF TurnInv, Turned, TurnPassed, Running
    <3> QED
      BY <1>1, <1>6, <2>2, <3>1, PassedKept
  <2> QED
    BY <1>7, <2>2
<1>10. TurnBusy(h)' /\ \A g \in Hosts \ {h} : pc'[g] = pc[g]
  BY <1>1 DEF TurnBusy, Busy, Pending, TypeOK
<1> QED
  BY <1>1, <1>9, <1>10, TurnOfOne DEF Running

LEMMA ExchangeTurn ==
  ASSUME TypeOK, LockHeld, TurnInv, NEW h \in Hosts, NEW a, Exchange(h, a)
  PROVE  TurnInv'
<1>1. /\ pc[h] = "attempting" /\ pc' = [pc EXCEPT ![h] = "streamed"]
      /\ UNCHANGED <<clock, started, state, ledger, damaged, todo, cur>>
  BY DEF Exchange, volumeVars
<1>2. /\ Running(h) /\ Running(h)' /\ pc[h] \in Busy \cap Pending
      /\ \A g \in Hosts \ {h} : pc'[g] = pc[g]
  BY <1>1 DEF Running, Busy, Pending, TypeOK
<1>3. Remaining(h)' = Remaining(h) /\ Stamp(h)' = Stamp(h)
  BY <1>1 DEF Remaining, Stamp
<1>4. TurnBusy(h)'
  BY <1>1, <1>2, <1>3 DEF TurnInv, Turned, TurnBusy, NextAttemptAt
<1>5. TurnPassed(h)'
  BY <1>1, <1>2, PassedKept DEF TurnInv, Turned, TurnPassed
<1> QED
  BY <1>1, <1>2, <1>4, <1>5, TurnOfOne

\* A run that made a request was not stopped by the allowance before it.
LEMMA AccountTurn ==
  ASSUME TypeOK, LockHeld, TurnInv, NEW h \in Hosts, Account(h)
  PROVE  TurnInv'
<1>1. /\ pc[h] = "streamed" /\ pc' = [pc EXCEPT ![h] = "answered"]
      /\ UNCHANGED <<clock, started, state, damaged, todo, cur>>
  BY DEF Account
<1>2. /\ Running(h) /\ pc[h] \in Busy \cap Pending /\ pc'[h] \notin Pending
      /\ \A g \in Hosts \ {h} : pc'[g] = pc[g]
  BY <1>1 DEF Running, Busy, Pending, TypeOK
<1>3. Remaining(h) > 0 /\ Remaining(h) \in Int
  BY <1>2, RemainingInt DEF TurnInv, Turned, TurnBusy
<1>4. TurnBusy(h)'
  BY <1>1, <1>2 DEF TurnInv, Turned, TurnBusy, NextAttemptAt, Stamp
<1>5. \A e : Passed(h, e) => Passed(h, e)'
  BY <1>1, <1>3 DEF Passed, NextAttemptAt
<1>6. TurnPassed(h)'
  BY <1>1, <1>2, <1>5 DEF TurnInv, Turned, TurnPassed
<1> QED
  BY <1>1, <1>2, <1>4, <1>6, TurnOfOne

\* Handling an answer changes what is known of the dataset, not when it is due.
LEMMA HandleTurn ==
  ASSUME TypeOK, LockHeld, TurnInv, NEW h \in Hosts, Handle(h)
  PROVE  TurnInv'
<1> DEFINE d == cur[h]
<1>1. /\ pc[h] \in {"answered", "filed"} /\ Running(h)
      /\ UNCHANGED <<clock, started, ledger, damaged>>
      /\ \/ pc' = [pc EXCEPT ![h] = "loop"]
         \/ pc' = [pc EXCEPT ![h] = "filed"] /\ UNCHANGED <<state, cur, todo>>
      /\ \/ UNCHANGED state
         \/ \E s : state' = [state EXCEPT ![d] = s]
  BY DEF Handle, HandleOverBudget, HandleOverCap, HandleTooLarge, HandleDropped,
         HandleUnchanged, HandleForbidden, HandleError, HandleInvalid, WriteFile,
         SaveSuccess, Answered, Settle, Save, Running
<1>2. todo'[h] \in {todo[h], {}}
  BY DEF Handle, HandleOverBudget, HandleOverCap, HandleTooLarge, HandleDropped,
         HandleUnchanged, HandleForbidden, HandleError, HandleInvalid, WriteFile,
         SaveSuccess, Stop, CountNetworkFailure, TypeOK
<1>3. /\ d \in Datasets /\ started[h] <= state[d].attempt
      /\ NextAttemptAt(state[d]) > started[h]
  BY <1>1 DEF TurnInv, Turned, TurnBusy, Busy, Stamp
<1>4. \A e \in Datasets : e # d => state'[e] = state[e]
  BY <1>1 DEF TypeOK
<1>5. NextAttemptAt(state'[d]) = NextAttemptAt(state[d])
  BY <1>3, HandleSame DEF SameSchedule, NextAttemptAt
<1>6. \A e \in Datasets : e = d => Passed(h, e)'
  BY <1>1, <1>3, <1>5 DEF Passed, NextAttemptAt
<1>7. TurnBusy(h)'
  <2>1. CASE pc' = [pc EXCEPT ![h] = "loop"]
    BY <2>1 DEF TurnBusy, Busy, Pending, TypeOK
  <2>2. CASE pc' = [pc EXCEPT ![h] = "filed"] /\ UNCHANGED <<state, cur, todo>>
    <3>1. pc'[h] = "filed"
      BY <2>2 DEF TypeOK
    <3> QED
      BY <1>1, <1>3, <2>2, <3>1 DEF TurnBusy, Busy, Pending, Stamp, NextAttemptAt
  <2> QED
    BY <1>1, <2>1, <2>2
<1> HIDE DEF d
<1>8. TurnPassed(h)'
  <2>1. SUFFICES ASSUME todo'[h] # {}, NEW e \in Datasets \ todo'[h] PROVE Passed(h, e)'
    BY DEF TurnPassed
  <2>2. CASE e # d
    <3>1. Passed(h, e)
      BY <1>1, <1>2, <2>1 DEF TurnInv, Turned, TurnPassed
    <3> QED
      BY <1>1, <1>4, <2>2, <3>1, PassedKept
  <2> QED
    BY <1>6, <2>2
<1>9. \A g \in Hosts \ {h} : pc'[g] = pc[g]
  BY <1>1 DEF TypeOK
<1> QED
  BY <1>1, <1>7, <1>8, <1>9, TurnOfOne

LEMMA TurnStep ==
  ASSUME TypeOK, LockHeld, TurnInv, [Next]_vars
  PROVE  TurnInv'
<1>1. CASE LoseLedger
  <2>1. /\ UNCHANGED <<clock, state, damaged, pc, cur, todo, started>> /\ lock = NoHost
    BY <1>1 DEF LoseLedger, processVars
  <2>2. \A g \in Hosts : ~ Running(g)'
    BY <2>1, HostAssumption DEF LockHeld, Running
  <2> QED
    BY <2>1, <2>2, TurnFrameKeeps DEF TurnFrame, TurnInv, Turned, Now
<1>2. CASE \/ Tick \/ (\E d \in Datasets : DamageState(d)) \/ UNCHANGED vars
           \/ \E h \in Hosts :
                \/ ReadClock(h) \/ RefuseLock(h) \/ Acquire(h) \/ WriteStatus(h)
                \/ Finish(h) \/ Crash(h)
  BY <1>2, FrameSteps, TurnFrameKeeps
<1> QED
  BY <1>1, <1>2, ConsiderTurn, ConnectTurn, ExchangeTurn, AccountTurn, HandleTurn
  DEF Next, Proceed, Consider, Request

LEMMA TurnInit == Init => TurnInv
<1> SUFFICES ASSUME Init, NEW h \in Hosts PROVE Turned(h)
  BY DEF TurnInv
<1>1. TypeOK
  BY InitTyped
<1>2. started[h] = 0 /\ pc[h] = "idle"
  BY DEF Init
<1> QED
  BY <1>1, <1>2, ClockReading DEF Turned, TurnBusy, TurnPassed, Running, Busy, Pending

\* No dataset is requested before one that was attempted longer ago, unless that
\* one was not due when the run began, is declined for its size, or cannot be
\* read: for every configured order, any number of hosts, and wherever the runs
\* are killed or their ledger is lost.
THEOREM TurnHolds == Spec => FairTurn
<1>1. Spec => []TurnInv
  <2>1. Init => LockHeld
    BY DEF Init, LockHeld, Running
  <2> QED
    BY <2>1, TurnInit, TurnStep, LockStep, TypeCorrect, PTL DEF Spec
<1>2. TypeOK /\ TurnInv /\ [Next]_vars =>
        [\A h \in Hosts, d, e \in Datasets :
           Attempt(h, d) /\ Key(e) < Key(d)
             => \/ e \in damaged
                \/ NextAttemptAt(state[e]) > started[h]
                \/ state[e].result \in {"budget-skipped", "over-dataset-cap"}]_vars
  <2>1. SUFFICES ASSUME TypeOK, TurnInv, NEW h \in Hosts, NEW d \in Datasets,
                        NEW e \in Datasets, Attempt(h, d), Key(e) < Key(d)
                 PROVE  \/ e \in damaged
                        \/ NextAttemptAt(state[e]) > started[h]
                        \/ state[e].result \in {"budget-skipped", "over-dataset-cap"}
    OBVIOUS
  <2>2. /\ pc[h] = "loop" /\ d \in todo[h] /\ e \notin todo[h] /\ Remaining(h) > 0
    BY <2>1 DEF Attempt, Due, Turn, Before
  <2>3. Passed(h, e) /\ Remaining(h) \in Int
    BY <2>1, <2>2, RemainingInt DEF TurnInv, Turned, TurnPassed, Running
  <2> QED
    BY <2>2, <2>3 DEF Passed, Declined
<1> QED
  BY <1>1, <1>2, TypeCorrect, PTL DEF Spec, FairTurn

-----------------------------------------------------------------------------
(* Telling that the allowance is exhausted.  As long as nothing is         *)
(* damaged, a dataset that stands declined is due on every clock, so each  *)
(* run still has it before it, or has met the end of the allowance, or was *)
(* stopped.                                                                *)

Skipped(d) == state[d].result = "budget-skipped"

Telling(h, d) == d \in todo[h] \/ tally[h].exhausted \/ tally[h].reason # "none"

SkippedIsDue ==
  /\ damaged = {}
  /\ \A d \in Datasets : Skipped(d) => \A h \in Hosts : NextAttemptAt(state[d]) <= Now(h)

SkippedIsTold == \A h \in Hosts, d \in Datasets : Running(h) /\ Skipped(d) => Telling(h, d)

HolderRuns == \A h \in Hosts : lock = h => Running(h)

ExhaustInv == HolderRuns /\ SkippedIsDue /\ SkippedIsTold /\ ExhaustionReported

\* The clocks of all hosts agree: a host whose clock is behind would find the
\* declined dataset not due, and report a run that met no limit.
Agreed == \A g, h \in Hosts : SkewOf[g] = SkewOf[h]

\* Steps after which the verdicts are those of before, or fewer.
NoNewSkip == \A d \in Datasets : Skipped(d)' => Skipped(d) /\ state'[d] = state[d]

LEMMA DueKept ==
  ASSUME TypeOK, SkippedIsDue, NoNewSkip, damaged' = damaged,
         clock' \in Nat, clock <= clock'
  PROVE  SkippedIsDue'
<1>1. ASSUME NEW d \in Datasets, NEW h \in Hosts, Skipped(d)'
      PROVE  NextAttemptAt(state'[d]) <= Now(h)'
  <2>1. NextAttemptAt(state[d]) <= Now(h) /\ state'[d] = state[d]
    BY <1>1 DEF NoNewSkip, SkippedIsDue
  <2>2. NextAttemptAt(state[d]) \in Int
    BY TimeAssumption DEF TypeOK, NextAttemptAt, DatasetState, Never
  <2>3. Now(h) \in Int /\ Now(h) <= Now(h)'
    <3>1. clock \in Nat /\ SkewOf[h] \in Nat
      BY HostAssumption DEF TypeOK, Times
    <3> QED
      BY <3>1 DEF Now
  <2>4. Now(h)' \in Int
    BY HostAssumption DEF Now
  <2>5. NextAttemptAt(state[d]) <= Now(h)'
    BY <2>1, <2>2, <2>3, <2>4
  <2> QED
    BY <2>1, <2>5
<1> QED
  BY <1>1 DEF SkippedIsDue, NextAttemptAt

\* A step of the process past the lock that does not release it.
LEMMA ExhaustOfOne ==
  ASSUME LockHeld, ExhaustInv, NEW h \in Hosts, Running(h), Running(h)', UNCHANGED lock,
         \A g \in Hosts \ {h} : pc'[g] = pc[g], SkippedIsDue',
         \A d \in Datasets : Skipped(d)' => Telling(h, d)'
  PROVE  ExhaustInv'
<1>1. lock = h /\ \A g \in Hosts \ {h} : ~ Running(g)'
  BY DEF LockHeld, Running
<1>2. lock # NoHost
  BY <1>1, HostAssumption
<1>3. HolderRuns' /\ ExhaustionReported'
  BY <1>1, <1>2 DEF HolderRuns, ExhaustionReported
<1>4. SkippedIsTold'
  BY <1>1 DEF SkippedIsTold
<1> QED
  BY <1>3, <1>4 DEF ExhaustInv

\* What the requests and the answers leave of the run's own outcome.
LEMMA OutcomeKept ==
  ASSUME TypeOK, NEW h \in Hosts, Request(h) \/ Handle(h)
  PROVE  /\ tally[h].exhausted => tally'[h].exhausted
         /\ tally[h].reason # "none" => tally'[h].reason # "none"
         /\ todo'[h] = todo[h] \/ tally'[h].reason # "none"
<1>1. tally[h] \in Tally /\ tally \in [Hosts -> Tally] /\ todo \in [Hosts -> SUBSET Datasets]
  BY DEF TypeOK
<1>2. ASSUME NEW t \in Tally
      PROVE  /\ [t EXCEPT !.failed = TRUE, !.exhausted = TRUE].exhausted
             /\ [t EXCEPT !.failed = TRUE, !.exhausted = TRUE].reason = t.reason
             /\ [t EXCEPT !.failed = TRUE].exhausted = t.exhausted
             /\ [t EXCEPT !.failed = TRUE].reason = t.reason
             /\ [t EXCEPT !.network = 0].exhausted = t.exhausted
             /\ [t EXCEPT !.network = 0].reason = t.reason
             /\ \A n : /\ [t EXCEPT !.failed = TRUE, !.network = n].exhausted = t.exhausted
                       /\ [t EXCEPT !.failed = TRUE, !.network = n].reason = t.reason
  BY DEF Tally
<1>3. ASSUME NEW t \in Tally, NEW r
      PROVE  /\ [t EXCEPT !.failed = TRUE, !.reason = r].exhausted = t.exhausted
             /\ [t EXCEPT !.failed = TRUE, !.reason = r].reason = r
             /\ [t EXCEPT !.network = 0, !.failed = TRUE, !.reason = r].exhausted = t.exhausted
             /\ [t EXCEPT !.network = 0, !.failed = TRUE, !.reason = r].reason = r
             /\ \A n : /\ [t EXCEPT !.failed = TRUE, !.network = n, !.reason = r].exhausted
                            = t.exhausted
                       /\ [t EXCEPT !.failed = TRUE, !.network = n, !.reason = r].reason = r
  BY <1>3 DEF Tally
<1>4. CASE CountNetworkFailure(h)
  <2>1. CASE tally[h].network + 1 >= StopThreshold
    <3>1. tally'[h] = [tally[h] EXCEPT !.failed = TRUE, !.network = tally[h].network + 1,
                                       !.reason = "unreachable"]
      BY <1>1, <1>4, <2>1 DEF CountNetworkFailure
    <3> QED
      BY <1>1, <1>3, <3>1
  <2>2. CASE ~ (tally[h].network + 1 >= StopThreshold)
    <3>1. /\ tally'[h] = [tally[h] EXCEPT !.failed = TRUE, !.network = tally[h].network + 1]
          /\ todo' = todo
      BY <1>1, <1>4, <2>2 DEF CountNetworkFailure
    <3> QED
      BY <1>1, <1>2, <3>1
  <2> QED
    BY <2>1, <2>2
<1>5. CASE \E r \in Reasons \ {"none"} : Stop(h, r)
  <2>1. PICK r \in Reasons \ {"none"} :
          tally' = [tally EXCEPT ![h] = [tally[h] EXCEPT !.failed = TRUE, !.reason = r]]
    BY <1>5 DEF Stop
  <2>2. tally'[h] = [tally[h] EXCEPT !.failed = TRUE, !.reason = r]
    BY <1>1, <2>1
  <2> QED
    BY <1>1, <1>3, <2>1, <2>2
<1>6. CASE HandleForbidden(h)
  <2>1. tally'[h] = [tally[h] EXCEPT !.network = 0, !.failed = TRUE, !.reason = "forbidden"]
    BY <1>1, <1>6 DEF HandleForbidden
  <2> QED
    BY <1>1, <1>3, <2>1
<1>7. CASE HandleOverBudget(h)
  BY <1>1, <1>2, <1>7 DEF HandleOverBudget
<1>8. CASE HandleOverCap(h) \/ HandleUnchanged(h) \/ SaveSuccess(h)
  BY <1>1, <1>2, <1>8 DEF HandleOverCap, HandleUnchanged, SaveSuccess
<1>9. CASE WriteFile(h) \/ Account(h) \/ \E a : Exchange(h, a)
  BY <1>9 DEF WriteFile, Account, Exchange
<1>10. HandleTooLarge(h) \/ HandleError(h) \/ HandleInvalid(h) => Stop(h, "other")
  BY DEF HandleTooLarge, HandleError, HandleInvalid
<1>11. HandleDropped(h) \/ ConnectFails(h) => CountNetworkFailure(h)
  BY DEF HandleDropped, ConnectFails
<1> QED
  BY <1>4, <1>5, <1>6, <1>7, <1>8, <1>9, <1>10, <1>11 DEF Request, Handle, Reasons

LEMMA OnlyDeclineSkips ==
  ASSUME TypeOK, [Next]_vars, ~ \E h \in Hosts, d \in Datasets : DeclineBudget(h, d)
  PROVE  NoNewSkip
<1>1. SUFFICES ASSUME NEW d \in Datasets, Skipped(d)'
               PROVE  state'[d] = state[d]
  BY DEF NoNewSkip, Skipped
<1>2. state[d] \in DatasetState
  BY DEF TypeOK
<1>3. \A h \in Hosts : ~ DeclinedForBudget(h, d)
  BY DEF DeclinedForBudget
<1>4. \A h \in Hosts : ~ DeclinedForCap(h, d)
  BY <1>1, <1>2 DEF DeclinedForCap, DatasetState, Skipped
<1>5. \A h \in Hosts : ~ CutAtCap(h, d)
  BY <1>1, <1>2 DEF CutAtCap, Measured, DatasetState, Skipped
<1> QED
  BY <1>1, <1>3, <1>4, <1>5, Verdicts DEF Skipped, Declined

LEMMA RequestTells ==
  ASSUME TypeOK, LockHeld, ExhaustInv, [Next]_vars, NEW h \in Hosts, Request(h) \/ Handle(h)
  PROVE  ExhaustInv'
<1>1. /\ pc[h] \in Busy
      /\ \E p \in Busy \cup {"loop"} : pc' = [pc EXCEPT ![h] = p]
      /\ UNCHANGED <<clock, lock, damaged>>
  BY DEF Request, ConnectFails, Exchange, Account, Handle, HandleOverBudget, HandleOverCap,
         HandleTooLarge, HandleDropped, HandleUnchanged, HandleForbidden, HandleError,
         HandleInvalid, WriteFile, SaveSuccess, Answered, Settle, Busy, volumeVars
<1>2. Running(h) /\ Running(h)' /\ \A g \in Hosts \ {h} : pc'[g] = pc[g]
  BY <1>1 DEF Running, Busy, TypeOK
<1>3. NoNewSkip
  <2>1. ~ \E g \in Hosts, d \in Datasets : DeclineBudget(g, d)
    BY <1>1, <1>2 DEF DeclineBudget, Due, Turn, LockHeld, Running, Busy
  <2> QED
    BY <2>1, OnlyDeclineSkips
<1>4. SkippedIsDue'
  <2>1. clock \in Nat /\ clock <= clock
    BY HostAssumption DEF TypeOK, Times
  <2> QED
    BY <1>1, <1>3, <2>1, DueKept DEF ExhaustInv
<1>5. \A d \in Datasets : Telling(h, d) => Telling(h, d)'
  BY OutcomeKept DEF Telling
<1>6. \A d \in Datasets : Skipped(d)' => Telling(h, d)'
  BY <1>2, <1>3, <1>5 DEF NoNewSkip, ExhaustInv, SkippedIsTold
<1> QED
  BY <1>1, <1>2, <1>4, <1>6, ExhaustOfOne

LEMMA ConsiderTells ==
  ASSUME TypeOK, LockHeld, ExhaustInv, Agreed, [Next]_vars, NEW h \in Hosts,
         NEW d \in Datasets,
         \/ SkipSpent(h, d) \/ SkipCorrupt(h, d) \/ SkipNotDue(h, d)
         \/ DeclineOverCap(h, d) \/ DeclineBudget(h, d) \/ Attempt(h, d)
  PROVE  ExhaustInv'
<1>1. /\ pc[h] = "loop" /\ d \in todo[h] /\ todo' = [todo EXCEPT ![h] = @ \ {d}]
      /\ pc' \in {pc, [pc EXCEPT ![h] = "attempting"]}
      /\ UNCHANGED <<clock, lock, damaged>>
  BY DEF SkipSpent, SkipCorrupt, SkipNotDue, DeclineOverCap, DeclineBudget, Attempt, Due, Turn,
         Leave, volumeVars, historyVars
<1>2. Running(h) /\ Running(h)' /\ \A g \in Hosts \ {h} : pc'[g] = pc[g]
  BY <1>1 DEF Running, TypeOK
<1>3. clock \in Nat /\ SkippedIsDue /\ state[d] \in DatasetState /\ tally[h] \in Tally
  BY HostAssumption DEF ExhaustInv, TypeOK, Times
<1>4. \A e \in Datasets : Skipped(e) => Telling(h, e)
  BY <1>2 DEF ExhaustInv, SkippedIsTold
<1>5. todo'[h] = todo[h] \ {d}
  BY <1>1 DEF TypeOK
<1>6. CASE SkipSpent(h, d)
  <2>1. UNCHANGED state /\ tally' = [tally EXCEPT ![h].exhausted = TRUE]
    BY <1>6 DEF SkipSpent, volumeVars
  <2>2. tally'[h].exhausted
    BY <1>3, <2>1 DEF TypeOK, Tally
  <2>3. SkippedIsDue'
    BY <1>1, <1>3, <2>1, DueKept DEF NoNewSkip, Skipped
  <2> QED
    BY <1>1, <1>2, <2>2, <2>3, ExhaustOfOne DEF Telling
<1>7. CASE SkipCorrupt(h, d)
  BY <1>3, <1>7 DEF SkipCorrupt, SkippedIsDue
<1>8. CASE SkipNotDue(h, d) \/ DeclineOverCap(h, d) \/ Attempt(h, d)
  <2>1. UNCHANGED tally
    BY <1>8 DEF SkipNotDue, DeclineOverCap, Attempt
  <2>2. ~ \E g \in Hosts, e \in Datasets : DeclineBudget(g, e)
    <3>1. SUFFICES ASSUME NEW e \in Datasets, DeclineBudget(h, e) PROVE FALSE
      BY <1>2 DEF DeclineBudget, Due, Turn, LockHeld, Running
    <3>2. todo' = [todo EXCEPT ![h] = @ \ {e}] /\ e \in todo[h]
      BY <3>1 DEF DeclineBudget, Due, Turn, Leave
    <3>3. e = d
      BY <1>1, <1>5, <3>2 DEF TypeOK
    <3>4. CASE SkipNotDue(h, d)
      <4>1. NextAttemptAt(state[d]) \in Int /\ Now(h) \in Int
        BY <1>3, TimeAssumption, ClockReading DEF NextAttemptAt, DatasetState, Never
      <4> QED
        BY <3>1, <3>3, <3>4, <4>1 DEF SkipNotDue, DeclineBudget, Due
    <3>5. CASE DeclineOverCap(h, d) \/ Attempt(h, d)
      BY <3>1, <3>3, <3>5 DEF DeclineOverCap, DeclineBudget, Attempt
    <3> QED
      BY <1>8, <3>4, <3>5
  <2>3. NoNewSkip
    BY <2>2, OnlyDeclineSkips
  <2>4. SkippedIsDue'
    BY <1>1, <1>3, <2>3, DueKept
  <2>5. ~ Skipped(d)'
    <3>1. CASE SkipNotDue(h, d)
      <4>1. NextAttemptAt(state[d]) \in Int /\ Now(h) \in Int
        BY <1>3, TimeAssumption, ClockReading DEF NextAttemptAt, DatasetState, Never
      <4>2. ~ Skipped(d)
        BY <1>3, <3>1, <4>1 DEF SkipNotDue, SkippedIsDue
      <4> QED
        BY <2>3, <4>2 DEF NoNewSkip
    <3>2. CASE DeclineOverCap(h, d)
      BY <1>3, <3>2 DEF DeclineOverCap, Save, TypeOK, DatasetState, Skipped
    <3>3. CASE Attempt(h, d)
      BY <1>3, <3>3 DEF Attempt, Save, TypeOK, DatasetState, Skipped
    <3> QED
      BY <1>8, <3>1, <3>2, <3>3
  <2>6. \A e \in Datasets : Skipped(e)' => Telling(h, e)'
    <3>1. SUFFICES ASSUME NEW e \in Datasets, Skipped(e)' PROVE Telling(h, e)'
      OBVIOUS
    <3>2. e # d /\ Telling(h, e)
      BY <1>4, <2>3, <2>5, <3>1 DEF NoNewSkip
    <3> QED
      BY <1>5, <2>1, <3>2 DEF Telling
  <2> QED
    BY <1>1, <1>2, <2>4, <2>6, ExhaustOfOne
<1>9. CASE DeclineBudget(h, d)
  <2>1. /\ NextAttemptAt(state[d]) <= Now(h)
        /\ state' = [state EXCEPT ![d] = [state[d] EXCEPT !.result = "budget-skipped"]]
        /\ tally' = [tally EXCEPT ![h].exhausted = TRUE]
    BY <1>9 DEF DeclineBudget, Due, Save
  <2>2. state'[d].retry = state[d].retry /\ state'[d].attempt = state[d].attempt
        /\ \A e \in Datasets : e # d => state'[e] = state[e]
    BY <1>3, <2>1 DEF TypeOK, DatasetState
  <2>3. NextAttemptAt(state'[d]) = NextAttemptAt(state[d])
    BY <2>2 DEF NextAttemptAt
  <2>4. \A g \in Hosts : Now(g)' = Now(g) /\ Now(g) = Now(h)
    BY <1>1 DEF Now, Agreed
  <2>5. SkippedIsDue'
    <3>1. ASSUME NEW e \in Datasets, Skipped(e)', NEW g \in Hosts
          PROVE  NextAttemptAt(state'[e]) <= Now(g)'
      <4>1. CASE e = d
        BY <2>1, <2>3, <2>4, <4>1
      <4>2. CASE e # d
        BY <1>3, <2>2, <2>4, <3>1, <4>2 DEF SkippedIsDue, Skipped
      <4> QED
        BY <4>1, <4>2
    <3> QED
      BY <1>1, <1>3, <3>1 DEF SkippedIsDue, NextAttemptAt
  <2>6. tally'[h].exhausted
    BY <1>3, <2>1 DEF TypeOK, Tally
  <2> QED
    BY <1>1, <1>2, <2>5, <2>6, ExhaustOfOne DEF Telling
<1> QED
  BY <1>6, <1>7, <1>8, <1>9

\* Steps that decide nothing about any dataset.
LEMMA OtherTells ==
  ASSUME TypeOK, LockHeld, ExhaustInv,
         \/ Tick \/ UNCHANGED vars
         \/ \E h \in Hosts : ReadClock(h) \/ RefuseLock(h) \/ Acquire(h) \/ WriteStatus(h)
                             \/ Finish(h)
  PROVE  ExhaustInv'
<1>1. UNCHANGED <<state, damaged>> /\ clock' \in Nat /\ clock <= clock'
  <2>1. clock \in Nat
    BY HostAssumption DEF TypeOK, Times
  <2> QED
    BY <2>1 DEF Tick, vars, ReadClock, RefuseLock, Acquire, WriteStatus, Finish, volumeVars
<1>2. SkippedIsDue'
  BY <1>1, DueKept DEF NoNewSkip, Skipped, ExhaustInv
<1>3. CASE Tick \/ UNCHANGED vars \/ \E h \in Hosts : WriteStatus(h)
  <2>1. UNCHANGED <<lock, pc, todo, tally, summary, state, faults>>
    BY <1>3 DEF Tick, vars, WriteStatus, volumeVars, processVars, historyVars
  <2> QED
    BY <1>2, <2>1 DEF ExhaustInv, HolderRuns, SkippedIsTold, ExhaustionReported, Running,
                      Skipped, Telling
<1>4. ASSUME NEW h \in Hosts, ReadClock(h) \/ RefuseLock(h)
      PROVE  ExhaustInv'
  <2>1. UNCHANGED <<lock, todo, tally, summary, state, faults>>
    BY <1>4 DEF ReadClock, RefuseLock, volumeVars, historyVars
  <2>2. \A g \in Hosts : Running(g)' = Running(g)
    BY <1>4 DEF ReadClock, RefuseLock, Running, TypeOK
  <2> QED
    BY <1>2, <2>1, <2>2
    DEF ExhaustInv, HolderRuns, SkippedIsTold, ExhaustionReported, Skipped, Telling
<1>5. ASSUME NEW h \in Hosts, Acquire(h)
      PROVE  ExhaustInv'
  <2>1. /\ lock = NoHost /\ lock' = h /\ pc'[h] = "loop" /\ todo'[h] = Datasets
        /\ \A g \in Hosts \ {h} : pc'[g] = pc[g]
    BY <1>5 DEF Acquire, TypeOK
  <2>2. \A g \in Hosts : ~ Running(g)
    BY <2>1, HostAssumption DEF LockHeld
  <2>3. HolderRuns' /\ ExhaustionReported'
    BY <2>1, HostAssumption DEF HolderRuns, ExhaustionReported, Running
  <2>4. SkippedIsTold'
    BY <2>1, <2>2 DEF SkippedIsTold, Running, Telling
  <2> QED
    BY <1>2, <2>3, <2>4 DEF ExhaustInv
<1>6. ASSUME NEW h \in Hosts, Finish(h)
      PROVE  ExhaustInv'
  <2>1. /\ pc[h] = "loop" /\ todo[h] = {} /\ lock' = NoHost /\ pc'[h] = "idle"
        /\ summary' = [written |-> TRUE, outcome |-> tally[h], checked |-> started[h]]
        /\ \A g \in Hosts \ {h} : pc'[g] = pc[g]
    BY <1>6 DEF Finish, TypeOK
  <2>2. \A d \in Datasets : Skipped(d) => tally[h].exhausted \/ tally[h].reason # "none"
    BY <2>1 DEF ExhaustInv, SkippedIsTold, Telling, Running
  <2>3. ExhaustionReported'
    BY <1>1, <2>1, <2>2 DEF ExhaustionReported, Skipped
  <2>4. \A g \in Hosts : ~ Running(g)'
    BY <2>1 DEF LockHeld, Running
  <2>5. HolderRuns' /\ SkippedIsTold'
    BY <2>1, <2>4, HostAssumption DEF HolderRuns, SkippedIsTold
  <2> QED
    BY <1>2, <2>3, <2>5 DEF ExhaustInv
<1> QED
  BY <1>3, <1>4, <1>5, <1>6

LEMMA ExhaustStep ==
  ASSUME Agreed, TypeOK, LockHeld, faults = 0 => ExhaustInv, [Next]_vars, faults' = 0
  PROVE  ExhaustInv'
<1>1. ~ \/ \E d \in Datasets : DamageState(d)
        \/ LoseLedger
        \/ \E h \in Hosts : Crash(h)
  BY FaultAssumption DEF DamageState, LoseLedger, Crash, Fault, TypeOK
<1>2. UNCHANGED faults
  <2>1. ASSUME NEW h \in Hosts, Request(h) \/ Handle(h) PROVE UNCHANGED faults
    BY <2>1 DEF Request, ConnectFails, Exchange, Account, Handle, HandleOverBudget,
                HandleOverCap, HandleTooLarge, HandleDropped, HandleUnchanged,
                HandleForbidden, HandleError, HandleInvalid, WriteFile, SaveSuccess, Settle,
                historyVars
  <2>2. ASSUME NEW h \in Hosts, Consider(h) PROVE UNCHANGED faults
    BY <2>2 DEF Consider, SkipSpent, SkipCorrupt, SkipNotDue, DeclineOverCap, DeclineBudget,
                Attempt, historyVars
  <2>3. CASE \/ Tick \/ UNCHANGED vars
             \/ \E h \in Hosts :
                  ReadClock(h) \/ RefuseLock(h) \/ Acquire(h) \/ WriteStatus(h) \/ Finish(h)
    BY <2>3 DEF Tick, vars, ReadClock, RefuseLock, Acquire, WriteStatus, Finish, historyVars
  <2> QED
    BY <1>1, <2>1, <2>2, <2>3 DEF Next, Proceed
<1>3. ExhaustInv
  BY <1>2
<1> QED
  BY <1>1, <1>3, ConsiderTells, RequestTells, OtherTells DEF Next, Proceed, Consider

\* As long as a dataset stands declined for want of allowance, the summary of the
\* last run that went to its end says so, for every order of datasets and any
\* number of hosts whose clocks agree.
THEOREM ExhaustionHolds ==
  ASSUME Agreed
  PROVE  Spec => []ExhaustionReported
<1>1. Init => LockHeld /\ ExhaustInv
  <2>1. Init => LockHeld /\ HolderRuns /\ SkippedIsTold
    BY HostAssumption DEF Init, LockHeld, Running, HolderRuns, SkippedIsTold
  <2>2. Init => \A d \in Datasets : ~ Skipped(d)
    BY DEF Init, Skipped, LegacyState, FreshState
  <2>3. Init => damaged = {}
    BY DEF Init
  <2> QED
    BY <2>1, <2>2, <2>3 DEF ExhaustInv, SkippedIsDue, ExhaustionReported, Skipped
<1>2. TypeOK /\ LockHeld /\ (faults = 0 => ExhaustInv) /\ [Next]_vars
        => (faults = 0 => ExhaustInv)'
  BY ExhaustStep
<1>3. (faults = 0 => ExhaustInv) => ExhaustionReported
  BY DEF ExhaustInv, ExhaustionReported
<1> QED
  BY <1>1, <1>2, <1>3, LockStep, TypeCorrect, PTL DEF Spec

=============================================================================
