------------------------------ MODULE GpHealth ------------------------------
(***************************************************************************)
(* What check-health (health.py) makes of the documents GpUpdater leaves.  *)
(* It runs on any host at any time, takes no lock and writes nothing, so   *)
(* it is an operator of the state and no action.  The catalogue's checks   *)
(* are in CatalogUpdate.                                                   *)
(***************************************************************************)
EXTENDS GpUpdater

CONSTANTS
  Warning,        \* gp_warning_age_seconds
  Critical        \* gp_critical_age_seconds

ASSUME HealthAssumption ==
  /\ {Warning, Critical} \subseteq Nat \ {0}
  /\ Warning < Critical

\* HealthReport.severity: the worst of those that occur.
Worst(severities) ==
  IF "critical" \in severities THEN "critical"
  ELSE IF "warning" \in severities THEN "warning" ELSE "ok"

AgeSeverity(age) ==
  CASE age >= Critical -> "critical"
    [] age >= Warning /\ age < Critical -> "warning"
    [] OTHER -> "ok"

\* Faulty variant: the age of the last attempt.
CheckGp_LastAttempt(d, now) ==
  IF status[d].attempt = Never THEN "critical" ELSE AgeSeverity(now - status[d].attempt)

\* _check_gp: the age of what is published, as its status document has it.
CheckGp(d, now) ==
  IF status[d].success = Never THEN "critical" ELSE AgeSeverity(now - status[d].success)

\* _check_gp_run: the first of these that applies; an age is only looked at
\* after an ordinary run.
CheckGpRun(now, derivedFailed) ==
  CASE ~ summary.written \/ summary.outcome.reason \in {"unreachable", "forbidden"} -> "critical"
    [] summary.written /\ summary.outcome.reason \in {"none", "other"}
         /\ (summary.outcome.exhausted \/ derivedFailed) -> "warning"
    [] summary.written /\ summary.outcome.reason \in {"none", "other"}
         /\ ~ summary.outcome.exhausted /\ ~ derivedFailed ->
         IF summary.checked = Never THEN "ok" ELSE AgeSeverity(now - summary.checked)

Severity(now, derivedFailed) ==
  Worst({CheckGp(d, now) : d \in Datasets} \cup {CheckGpRun(now, derivedFailed)})

\* check-health pages for every public file that has become too old, and is
\* green only while none has: although the summary of a run that spent the
\* allowance hides how long ago that run was, and although a run that was
\* killed or declined a dataset leaves documents of several ages.
StaleIsReported ==
  \A h \in Hosts, derivedFailed \in BOOLEAN :
    LET severity == Severity(Now(h), derivedFailed)
        Age(d)   == Now(h) - file[d].stamp
    IN  /\ (\E d \in Datasets : Age(d) >= Critical) => severity = "critical"
        /\ severity = "ok" => \A d \in Datasets : Age(d) < Warning

=============================================================================
