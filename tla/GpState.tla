------------------------------ MODULE GpState ------------------------------
(***************************************************************************)
(* What survives a restart of the GP updater (gp_state.py) and the pure    *)
(* decisions gp.py takes on it: when a dataset may be requested again,     *)
(* whether its next response is known not to fit, which ceiling bounds a   *)
(* stream, and how much of the rolling allowance is spent.                 *)
(*                                                                         *)
(* Times are clock readings, sizes are byte counts; both are small         *)
(* naturals here.  Never and Unknown (-1) stand for Python's None.         *)
(***************************************************************************)
EXTENDS Integers, FiniteSets, FiniteSetsExt

CONSTANTS
  Datasets,       \* the configured gp.php queries
  Bodies,         \* the 200 bodies CelesTrak may serve
  NoBody,         \* nothing published yet
  SizeOf,         \* bytes of each body on the wire
  CountOf,        \* records a body parses to, 0 if it does not parse
  MinRecords,     \* minimum_records, per dataset
  DropPercent,    \* maximum_count_drop_fraction, in percent
  Floor,          \* minimum_interval_seconds
  RetryInterval,  \* network_retry_interval_seconds
  Window,         \* BandwidthLedger._WINDOW
  Budget,         \* maximum_daily_bytes
  ResponseLimit,  \* maximum_response_bytes
  Cap,            \* maximum_bytes of each dataset, or Unknown
  MarginPercent,  \* _SIZE_ESTIMATE_MARGIN_PERCENT
  Stamps          \* the clock readings within the horizon of a run

Never   == -1
Unknown == -1

ASSUME BodyAssumption == NoBody \notin Bodies

ASSUME TimeAssumption ==
  /\ Stamps \subseteq Nat
  /\ Floor \in Nat
  /\ RetryInterval \in Nat
  /\ 1 <= RetryInterval
  /\ RetryInterval <= Floor

ASSUME SizeAssumption ==
  /\ SizeOf \in [Bodies -> Nat]
  /\ CountOf \in [Bodies -> Nat]
  /\ Cap \in [Datasets -> Nat \cup {Unknown}]

\* The window and the margin are constants of the code, and config.py refuses a
\* limit under 1024 bytes.
ASSUME LimitAssumption == {Window, Budget, ResponseLimit, MarginPercent} \subseteq Nat

-----------------------------------------------------------------------------
(* One dataset's persistent state.                                         *)

\* "http-error" stands for the code's "upstream-error" too: both stop the run.
Results ==
  {"never-attempted", "attempting", "published", "not-updated",
   "network-error", "budget-exceeded", "budget-skipped", "over-dataset-cap",
   "response-too-large", "http-error", "forbidden", "validation-error"}

\* sha256, record_count and the two epochs are always assigned together and
\* from one body: `body' stands for the four of them.
DatasetState ==
  [attempt : Int, success : Int, retry : Int, result : Results,
   size : Int, format : {"unrecorded", "CSV"}, body : Bodies \cup {NoBody}]

\* A dataset without a state file.
FreshState ==
  [attempt |-> Never, success |-> Never, retry |-> Never,
   result |-> "never-attempted", size |-> Unknown, format |-> "unrecorded",
   body |-> NoBody]

RecordCount(s) == IF s.body = NoBody THEN 0 ELSE CountOf[s.body]

-----------------------------------------------------------------------------
(* When a dataset is due.                                                  *)

NextAttemptAt(s) ==
  CASE s.retry # Never   -> s.retry
    [] s.retry = Never /\ s.attempt # Never -> s.attempt + Floor
    [] OTHER             -> Never

-----------------------------------------------------------------------------
(* Forecast and ceilings of one response.                                  *)

\* Faulty variant: a size is a forecast whatever format it was measured under.
ExpectedBytes_AnyFormat(s) ==
  IF s.size = Unknown THEN Unknown ELSE s.size + (s.size * MarginPercent) \div 100

ExpectedBytes(s) ==
  IF s.size = Unknown \/ s.format # "CSV"
  THEN Unknown
  ELSE s.size + (s.size * MarginPercent) \div 100

OverCap(d, s) == Cap[d] # Unknown /\ ExpectedBytes(s) > Cap[d]

OverBudget(s, remaining) == ExpectedBytes(s) > remaining

Ceilings(d, remaining) ==
  {remaining, ResponseLimit} \cup {c \in {Cap[d]} : c # Unknown}

\* The lowest of the ceilings; a tie is resolved towards the shared ones.
StreamLimit(d, remaining) ==
  LET limit == Min(Ceilings(d, remaining))
  IN  [limit  |-> limit,
       source |-> CASE limit = remaining -> "budget"
                    [] limit # remaining /\ limit = ResponseLimit -> "response"
                    [] OTHER -> "dataset"]

\* validate_omm_json: the two count gates, measured against the count of the
\* state the run loaded.
Acceptable(d, s, b) ==
  /\ CountOf[b] >= MinRecords[d]
  /\ 100 * CountOf[b] >= RecordCount(s) * (100 - DropPercent)

-----------------------------------------------------------------------------
(* The bandwidth ledger: bytes by the clock reading they were recorded at. *)

EmptyLedger == [t \in Stamps |-> 0]

Pruned(ledger, now) ==
  [t \in Stamps |-> IF now - t < Window THEN ledger[t] ELSE 0]

Recorded(ledger, now, count) ==
  [Pruned(ledger, now) EXCEPT ![now] = @ + count]

Used(ledger) == MapThenSumSet(LAMBDA t : ledger[t], Stamps)

=============================================================================
