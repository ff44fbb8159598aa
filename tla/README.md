# Orbit data: specifications

TLA+ specifications of `orbit-data`, the service that mirrors CelesTrak's GP
elements and a merged satellite catalogue onto a static file tree.  They are
written from the code in `src/orbit_data`; `PROJECT.json` maps every definition
to the lines it stands for.

## The system

Three commands are started by timers, or by hand, on whichever host has the
persistent volume mounted.  Nothing stays in memory between two runs: all that
the system knows is on the volume.

| Component | State it keeps | Operations | What makes it correct |
|---|---|---|---|
| GP updater (`gp.py`) | `state/gp/<name>.json`, `public/v1/gp/<name>.json`, `public/v1/status/gp/<name>.json`, `public/v1/status/gp.json` | one run: order the datasets, decline or request each, classify the answer, publish, summarise | the request floor, the stop rules, the byte allowance, last known good |
| Persistent state, ledger (`gp_state.py`) | the fields of a dataset; bytes of the last 24 h | load, save, record, prune | a crash or an upgrade never licences a request |
| Job lock (`locking.py`) | `locks/*.lock` | take without waiting, release on exit | one writer |
| Derivation (`derive.py`) | state, status and file of each rule | reconcile each rule with its source's published file | age is honest, failures are counted, layers are kept |
| CSV parser, validation (`omm_csv.py`, `omm.py`) | none | CSV to records to JSON; gates on count and ranges | a cut or bad body never replaces a good file |
| Release publication (`publishing.py`) | `releases/<stream>`, the public symlink, `tmp` | stage, promote, switch, prune | the public tree is always whole |
| Catalogue updater (`catalog.py`) | `public/v1/status/catalog.json` | fetch, parse, merge, guard, publish | drop guard, unchanged content is not republished |
| Source cache (`source_cache.py`) | body and validators of each source | conditional GET with fallback | the body belongs to its ETag, last good input |
| Catalogue parsers, merge and writer (`catalog_sources.py`, `catalog_writer.py`) | none | parse, merge, serialise | provenance, counts, ageing; index, buckets and manifest agree |
| Health (`health.py`) | none, reads the documents | severity of each check | whatever is wrong becomes visible |
| Configuration, command line, logging | none | validate, dispatch, format | |

They interact through files only.  `gp.py` calls the deriver at the end of
each run, under the same lock; the deriver reads what the fetch loop published,
in this run or any earlier one.  Health reads the status documents of both
updaters and the public tree.

The behaviours that are hard here:

* **Kills between writes.**  A run is killed by `TimeoutStartSec`, a reboot or
  a failover, and each of file, state, status document, ledger and summary is a
  rename of its own.
* **Several hosts and clocks.**  The volume moves; the next run may read its
  floor and its ledger with a clock that is ahead of or behind the one that
  wrote them.
* **An upstream that punishes.**  Requests too early, too large or too many in
  a row get the address firewalled, so every failure path has to leave behind
  the right next instant, the right size and the right count.
* **Old state.**  Releases changed what a state file holds (`retry_after`,
  `wire_format`, derived datasets that were fetched before).
* **Caches.**  A body and the validators that vouch for it are two files; a body
  is kept before anyone knows whether it parses.
* **Cut responses.**  A CSV body that ends anywhere still reads as CSV.
* **Documents as evidence.**  Health and readers conclude from several documents
  that were not written together.
* **Reconciliation.**  The deriver has to recognise, from the volume alone,
  what is stale.

`PROJECT.json` lists each hazard at its line with the property about it.

## Modules

| Module | Models | Role |
|---|---|---|
| `GpState` | `gp_state.py` and the decisions of `gp.py` that are functions of it: next instant, forecast, ceilings, count gates, ledger | operators, no state |
| `GpUpdater` | `GpUpdater.run`, `locking.py`, the volume and CelesTrak | the core state machine |
| `GpHealth` | the GP checks of `health.py`, on the state of `GpUpdater` | operators; composes health with the updater |
| `GpDeriver` | `GpDeriver.sync`, with a source that publishes | reconciliation |
| `OmmCsv` | `parse_omm_csv` and the strict csv reader under it | reader fed by a connection that may end |
| `CatalogPublic` | what the catalogue job promises to a reader of the public tree | abstract specification |
| `CatalogRelease` | `ReleasePublisher` and the catalogue run that uses it | publication of trees; implements `CatalogPublic` |
| `CatalogUpdate` | `CatalogUpdater.run`, `ConditionalSourceCache`, the catalogue checks of `health.py` | sources, cache, status; publishes by `CatalogPublic` |
| `CatalogMerge` | `parse_satcat`, `parse_gcat`, `merge_catalogues`, the gates, `build_catalog_artifacts` | what the sources merge into |
| `MC...` | | small instances for TLC |
| `FiniteSums` | | lemmas: induction over finite sets, sums over them, their extremes |
| `GpUpdaterProofs`, `GpHealthProofs`, `GpDeriverProofs`, `OmmCsvProofs`, `CatalogReleaseProofs`, `CatalogUpdateProofs`, `CatalogMergeProofs` | | theorems |

`CatalogPublic` stands between the two halves of the catalogue job.
`CatalogRelease` implements it with trees, links and renames; `CatalogUpdate`
takes its actions as the end of its own, so that the fetching and caching half
is checked against everything the publication may do, without its steps.

Operators whose comment begins with *Faulty variant* are plausible mistakes in
the code next to them.  No action uses them: each shows, put in the place of the
definition it follows, that a property would notice.

### GpUpdater

`clock` is true time; a host `h` reads `Now(h)`, up to `MaxSkew` ahead.  On the
volume are `lock`, `state`, `status`, `file`, `ledger`, `summary` and the set
`damaged` of state files that do not load.  A process has a program counter:

    idle -> starting -> loop -> attempting -> streamed -> answered -> (filed) -> loop

* `ReadClock` reads `started` before the lock is asked for (`run`, line 177);
  `RefuseLock` is exit status 75; `Acquire` resets the run's counters.
* In the loop, `Turn` picks the least recently attempted dataset of those left.
  `SkipSpent`, `SkipCorrupt`, `SkipNotDue`, `DeclineOverCap`, `DeclineBudget`
  and `Attempt` are the exits of the loop body before the network, in the order
  in which the code tests for them.
* `Attempt` saves the whole floor before the request.  `ConnectFails` shortens
  it, `Exchange` is a request that CelesTrak received, with any of its
  `Answers`: a complete body, one cut at the lowest of three ceilings, a
  connection that breaks, a "not updated", a refusal, another status.
* `Account` is the `finally` of `_download`, and each `Handle...` one handler.
  `Save` writes the state file; `WriteStatus` writes the status document, and
  nothing else the process does may overtake it (`dirty`).
* `Crash` takes a process at any point.  `DamageState` and `LoseLedger` are
  files that no longer load.

`served`, `wire`, `silent`, `uncharged`, `torn` and `faults` are history: what
CelesTrak saw, the bytes of `wire` whose record a fault prevented or destroyed,
and, for each dataset, the instant of a file whose run was killed before it saved
the state.
`sha256`, the record count and the epochs are assigned together from one body,
so one field `body` stands for them.

An `OSError` of a write leaves the run as a kill does: nothing catches it, the
lock is released and no summary is written, so `Crash` stands for both.  So it
does for the `ValueError` that the CSV parser lets out (`Uncaught` in `OmmCsv`),
which nothing on the way catches either.

### GpHealth

`check-health` takes no lock and writes nothing: `CheckGp`, `CheckGpRun` and
`Severity` are operators on the state of `GpUpdater`, evaluated in every state,
on every host's clock.  `CheckGpRun` has the returns of `_check_gp_run` in their
order.  Whether a derivation failed is free.

### GpDeriver

One source and its rules.  The fetch loop is reduced to `PublishSource` and
`RecordSource`, which write file and `last_success` in that order, or
`NoResponse`.  `ReadSource` starts a pass, `KeepCurrent`, `Repair` and
`MarkStale` examine the rules in configuration order, `ReadRecords` reads the
source's file once, and `WriteFile`, `SaveDerived`, `RejectDerived` and
`FailUnreadable` handle the stale ones.  Instants are numbered in order, since
the deriver only compares them for equality.  `torn` is history: the rules whose
state does not tell what their file holds, because a kill came between the two or
because the state does not load.

### OmmCsv

CelesTrak sends a header and a table of records token by token: `line`, `column`
and `place` are where it is, `phase` how far the field is with its quotes
(`OpenQuote`, `Character`, `DoubleQuote`, `CloseQuote`, `NextField`, `Return`,
`NextLine`).  `Deliver` feeds each token to the reader, and in every state
`Parsed` is what `parse_omm_csv` makes of the part that came: any state may be
the last one.  The reader is the
automaton of Python's `csv` module with `strict=True`, field by field, row by
row; carriage return and line feed are its row ends only outside quotes.
`Refused` is `OmmValidationError`.  A number is a run of digits.  It is refused
if it is larger than the serializer can write; one with more digits than Python's
`int()` takes (4300, `MaxDigits` here) has a third outcome, `Uncaught`, since
`int(value)` is outside of the `try` of `_coerce`.  Rows are read in order, so
which of the two a body with both gives depends on which comes first (`Escapes`,
`Sound`).  The spellings of floating point numbers and UTF-8 are left out.

### CatalogRelease

From the merged catalogue on: `RefuseDrop`, `KeepUnchanged`, or the steps of
`ReleasePublisher.publish` and `_prune`.  A release is named by its second and
its digest, and `Older` is the order of the names.  Removing a tree has a
beginning and an end.  `Collide` is the `PublishError` that the run does not
catch.  The refinement mapping: a reader sees (`Seen`) the content of the tree
that the link names if that is whole, `Job` is the catalogue of the run, and
`Switched` the part of the run after the link's rename.  `previous`, `orphans`
(trees whose run ended between their promotion and the switch) and `stepped` (the
clock went back) are history.

The code reads the instant of a run before it waits for `catalog.lock`
(catalog.py:65 and 72); `Start` takes both in one step.  What this leaves out is a
run that is overtaken while it waits and then publishes under the older name.
`ClockBack` between two runs gives the same order of names: every property but
`PreviousSurvives` is checked and proved with it, and that one excludes both.

### CatalogUpdate

Each source serves numbered versions, forward only.  On the volume are `body`
and `meta` of each source and the status document.  `Ask` is the conditional
request; `Receive` a 200, whose `WriteBody` and `WriteMeta` are two writes;
`Confirm` a 304, `Reuse` a failure with a cached body, `Unavailable` one
without.  ETag and Last-Modified are one tag.  `Reject` stands for the parsers
and the gates on counts (the constant `Sound`), the rest of the run is
`CatalogPublic`.  `Report` writes the status document; `Crash` writes none.
`CheckCatalog` and `CheckPublicTree` are the checks of `health.py`.  `asked`,
`received`, `worked` and `failing` are history.

### CatalogMerge

A run parses SATCAT row by row, then GCAT, merges number by number and builds
the documents; the next run has another day or other bodies.  Rows are functions
on the columns of the source, cells are model strings, and tables given as
constants (`NumberOf`, `NoradOf`, `DateOf`, the code tables of the module) say
what the conversions make of them.  `Order` is the precedence of the sources
for each field, `Merged` a merged record with its `_sources`.  The gates on
counts, join and drop are `Allowed`; every run that passes them publishes unless
`SameContent`.  The vendored magnitudes are a constant; the sky documents, which
are constant too, are left out.

## What the runs check

| Run | Question | Bounds | Size |
|---|---|---|---|
| `gp_floor` | lock, order of writes, floor, under overlapping runs and one fault | 2 hosts one apart, 1 dataset with old state, 6 ticks, floor 4 = limit 2 + skew 1 + delay 1 | 1.1 M states |
| `gp_budget` | wire budget, forecasts, order of turns, report, last known good, cap; health is red when what is served is old | 1 host, 2 datasets, 3 bodies, window of 2 ticks, warning age 1, critical age 2, one kill | 1.8 M |
| `gp_run_ends` | stop after two failures; every run releases the lock | 2 hosts, 3 datasets, one instant, one damaged state | 97 k |
| `derive_sync` | honest age, quiet pass, kept layers, reconciliation | 2 rules, 3 bodies, 3 publications, 2 faults | 88 k |
| `release` | whole tree, retention, drop guard, progress after interrupted runs, refinement of `CatalogPublic` | 3 catalogues, 3 trees kept, 3 seconds, 3 changes, 2 faults | 0.8 M |
| `catalog_update` | fresh is current, provenance, health, progress | 2 and 3 versions of the two sources, one of which does not parse and one of which lost too many records, 2 ticks, 2 faults | 1.2 M |
| `omm_csv` | whole responses read as meant, cut ones fail closed | every prefix of every response of at most 2 records, 4 orders of columns, 2 line ends, numbers of up to 4 digits where 2 can be written and 3 be read | 85 k |
| `catalog_merge` | provenance, counts, ageing, estimates, documents | 4 SATCAT bodies, 3 GCAT bodies, 3 days, 3 runs | 40 k |

Why the bounds are enough: the floor property relates two requests to one
dataset, so one dataset and time for a second request (the host that is ahead may
follow the other after 3 ticks, the other way round it takes 5) show every pair, from
either host, also after a request that an older release recorded; the second dataset of `gp_budget` is there to compete for the allowance,
and the third of `gp_run_ends` to see a third request.  Two ticks of window let
bytes leave it.  The derivation needs a rule that fails beside one that passes,
and a publication after a fault.  The kill in
`gp_budget` and the damaged state in `gp_run_ends` come at every point of a run.
Retention needs a tree to prune and room for three: the public one, the one before
it and an orphan between them.  The cache needs a kill between two writes and a second fault
after it, over a version that does not parse.  A response needs a record after
the one that is cut and, in a name, each character that has a meaning to the
reader.  The merge needs a number in two spellings, a row of GCAT that says
nothing, a Starlink whose two launch dates lie on both sides of the visors, a
decay that the window passes between two days, and a third run to measure
against an unchanged release.  Constants that bound time, changes and faults are guards of
`Tick`, `SourcesChange`, `PublishSource` and `Fault`.

Runs that TLC finds violated are disagreements between a text and the code; each
checks what the text says.

* `gp_killed`: a killed run does not account for the response in flight.
* `derive_repair`: a kill between state and status document leaves the request
  fields in the status document, and the repair that was written against exactly
  this looks at the state only.
* `catalog_escalates`: a catalogue that fails on every run never becomes
  critical, as the age that should escalate it is that of a status document
  which the failing runs keep young.
* `omm_escapes`: a number with more than 4300 digits leaves the CSV parser with a
  plain `ValueError`, though its comment promises "records, or
  `OmmValidationError`, never a third thing"; the run ends without a result for
  the dataset and without a summary.  Nothing is published of such a body
  (`WholeIsRead`, `CutFailsClosed`).

Some more were met while modelling and are visible in the definitions, without a
run of their own.  A connection reset after the request was sent keeps the whole
floor (`HandleDropped`, gp.py:431-440), while README:97-103 has every connection
reset retry soon.  Derivation clears three of the fields of a request (`Cleared`,
derive.py:285-290), while its docstring (derive.py:269) says every one: `wire_format`
(`format` in the model) stays.  Between the published file and its state a kill
leaves a `sha256` that is not the hash of the published file (README:189) until
the next publication.  A source that answers 304 for a body that is gone fails
every run until it moves (`Unavailable`; `FollowsUpstream` names the case).  A dataset over
its cap "stays skipped until an operator raises the cap or upstream shrinks"
(gp.py:563-566), but the size is only learnt by asking, and nothing asks: upstream
may shrink and the dataset stays skipped (`CapIsFinal` states what the code does).
A body that is cut at a dataset's cap does not reset the count of unreachable
requests (`HandleOverCap`, gp.py:261-281), though "any HTTP response proves
CelesTrak is reachable" (gp.py:285): a failed connection before it and one after
it stop the run.  Two
conversions of catalogue rows can raise an error that the run does not catch
(`csv.Error` of a lone carriage return in SATCAT, `int` of a digit that is not
ASCII in GCAT); the run then leaves no status, as after a `Crash`.

### Fairness

`FairSpec` of `GpUpdater` assumes weak fairness of what a process does while it
holds the lock, and nothing of clocks, starts or faults: connects and reads have
timeouts, so a running process goes on.  `GpDeriver` and `CatalogRelease` add
that the timer keeps starting runs, `CatalogRelease` also that time passes.
`FairSpec` of `CatalogUpdate` assumes weak fairness of a run as a whole (`Run`):
requests have timeouts, so a run goes on, and the timer starts the next one; a
failure of a request is a fault and not part of `Run`.  No
fairness is assumed of faults or of the sources.

## What is proved

The proofs hold for every value of the constants that satisfies the modules'
assumptions: any number of hosts, datasets, rules, bodies, records and faults,
any horizon.  Every safety property that a passing run checks is stated by a
theorem, and only `ExhaustionHolds` needs a hypothesis, named below with what breaks
it.  Where a fault does cost a guarantee, the property itself says which: the bytes,
the file, the rule or the tree that it concerns are in a history variable
(`uncharged`, `torn`, `orphans`, `stepped`), and the rest is promised through it.  TLC finds the inductive invariants true on
the instances of the runs too (`LedgerInv`, which speaks of every integer, on those
around the horizon).

The assumptions are what the code or the deployment fixes: constants are numbers,
finite sets are finite (datasets and rules are configured, the sizes of error
pages are a set of numbers read), `Keep >= 2` and percentages are what
`config.py` accepts, and a "nothing" value is none of the values it stands
beside.

`GpUpdaterProofs`
* `TypeCorrect`: `TypeOK` is inductive; one lemma per group of actions.
* `SingleWriter`: from `LockHeld`, a process past the lock is the holder.  The
  exclusion alone is not inductive, as it does not say that a taken lock belongs
  to the one who runs.
* `FloorHolds`: CelesTrak never receives two requests for a dataset less than
  its limit apart.  The invariant is in two parts.  `FloorKept`: whatever CelesTrak
  has received is stamped in the volume with a next instant at least the limit
  away in *any* host's clock.  `AttemptStamped`: while a request is open, its
  stamp is recent, the whole floor is already charged, and every earlier
  request is far enough away.  It rests on
  `CushionAssumption`, the floor exceeding CelesTrak's limit by the skew between
  two hosts and the delay of a request: the deployed 7500 s against 7200 s.
  With a floor of exactly 7200 s, which the configuration accepts, it
  holds only for hosts without skew.
* `AllowanceHolds`: the charged bytes of any window are at most the budget and one
  overshoot, a window being shorter than the configured one by the skew.
  `LedgerInv` says that what left the wire since any instant, less what faults
  kept from the ledger since that instant, is in the ledger since it, except for
  the response in hand, whose bytes `Account` will add; `WindowsHold` is the bound
  itself for every window.  A request is let through with what remains of the window
  by its host's clock, which is ahead by the skew at most.  Every fault is allowed.
  A process killed between the wire and the ledger moves exactly its bytes to
  `uncharged` (`CrashLedger`; `gp_killed` shows that this happens), and a ledger that
  does not load moves what it held (`LoseLedgerLedger`).
* `MeasuredHolds`: what is declined for its size was measured in CSV.  It is
  inductive once the verdicts are listed by the action that gives each (`Verdicts`).
* `CapHolds`: a dataset over its cap is not requested again.  `OverCapHeld`: the
  forecast still says so; `CutOverCap`: a body cut at the cap while it is still in
  memory is over it.
* `SilenceHolds`: at most two requests in a row without an answer.  `SilenceInv`
  relates the count that the code keeps, reset by any answer, to what CelesTrak
  saw, point by point of the loop.
* `TurnHolds`: a request overtakes nobody who was attempted longer ago, is due
  and not declined or unreadable.  `TurnPassed` has the reason why each dataset
  that is no longer in `todo` was passed; a reason lasts, since a started run
  reads one clock, and what it wrote carries a stamp no older than that.
* `ExhaustionHolds`: a dataset declined for want of allowance is in the summary
  of the last finished run.  `SkippedIsTold` says it of the run in progress,
  `SkippedIsDue` that no later run finds the dataset not due and so passes over it
  in silence.  The hypothesis is that clocks agree: a host that is behind does find
  it not due, and reports a run that met no limit.

`GpHealthProofs`
* `DocumentsTrailFile`: neither state nor status document claims a publication
  newer than the file, by an invariant on what a run still has to write.
* `StaleNeverPasses`: whenever a public file is past the critical age, on
  whichever host, `check-health` is critical, and it is green only if none is past
  the warning age: from the theorem above, as each check reads a document that
  trails its file.
* `KnownGoodHolds`: a file is only replaced by a body that passes the count gates
  measured against that very file.  `BodyInv`: the state describes the published
  file, except in the instant between the two writes.  A process killed in that
  instant marks its file as `torn`; the one comparison that follows is with the
  state's older body, and the property says so.

`GpDeriverProofs`
* `TypeCorrect`: the type needs a count: `FailuresFit`, the failures of a pass and
  the rules it has still to do are together no more than the rules.
* `AgesAreHonest`: no state or status document of a rule claims a publication
  newer than its file's.  `HonestAge` alone is not inductive: that a new file is
  no older than the one it replaces needs `LayerTrails` (a layer trails its
  source) and `SourceTrails` (the source's state trails its file, also when
  killed between them), and that the state which follows claims no more than
  the new file needs `PassReads`.
* `QuietHolds`: a pass without a failure leaves every rule derived from the
  publication it saw.  `QuietSoFar` says it of the rules the pass is done with;
  it needs that a rule never leads its source (`RuleTrails`) and that what is
  stale has not been derived from what the pass sees (`StaleLags`), or a repair
  could be mistaken for a derivation.
* `LayersHold`: a replaced file passes the floor, and the drop gate against the one
  it replaces unless its rule is `torn`: the state that the gate reads describes the
  file of every other rule that is not half written (`StateDescribesFile`), through
  any number of faults.  A torn rule has the gate back with its next derived file.

`OmmCsvProofs`
* `TypeCorrect`, `WholeHolds`, `CutHolds`: what a response of any number of
  columns and records, with any characters, is read as, whole or cut after any
  token.  The invariant `Following` gives the whole state of the reader as a
  function of how much was sent: the rows of the lines before, the fields of the
  line before this one, and the characters of the field.  It is kept by each
  token, by one lemma per action of the sender, so nothing has to be proved by
  induction over a text.  `LastInv` says when a line feed came last: inside quotes,
  where the end of the body is an error, or at the end of a record.  That
  a blank line is read as no field, and so is a record of one empty column, is why
  `CsvAssumption` needs two required columns; the code has sixteen.

`CatalogReleaseProofs`
* `TypeCorrect`: what remains of the type beside the invariants below is the
  temporary link: a run about to switch has one (`LinksInv`).
* `PublicTreeIsWhole`: the public link always names a tree that is whole.  The
  invariant `WholeInv` says it of the volume (`Standing`) and of what the process
  is about to do (`Underway`): what is promoted is whole and stays so up to the
  switch, and what pruning has doomed is never the public tree.  Nothing is
  assumed of the clock or of the order of names.
* `DropGuardHolds`: no switch loses more than the fraction of what the public
  had.  `Guarded` carries the comparison from the guard, over the promotion, to
  the switch: nothing else changes the public link in between.
* `PreviousHolds`: the release that was just replaced stays whole through kills and
  failures of the disk, if `Keep` has room for it, the public one and the orphans
  with newer names (`Between`).  `InTurn`: while the clock moves on, every tree but
  the orphans has been public in its turn, and the link and its predecessor are the
  latest two of those; `NewestStays`: so at most the orphans and the public tree
  have newer names, unless another tree of its second is kept in its place
  (`PreviousKept`).  With more orphans than there is room for, with a clock that
  stepped back or with three trees of one second it is false: retention is by name.
* `RetentionHolds`: a run that publishes leaves at most `Keep` trees and the
  current one: what is not doomed is among the retained (`RetentionInv`), whose
  number is bounded by `RetainedFew`.
* `ReleaseImplementsPublic`: `Spec => KeepsPromise`, the refinement.  Every step
  maps to a step of `CatalogPublic` or to none: most leave what a reader sees as
  it is (`UnseenStep`), the link's rename is `Publish`, whose two conditions are
  what `Guarded` carries to it, and the ends of a run are the abstract ends.
  The invariant is that of the theorems above with `SeenInv`, which says
  that a reader sees exactly the tree the link names.

`CatalogUpdateProofs`
* `TypeCorrect`: with `ArrivedInv`, that a body being written is a version its
  source serves and has its instant.
* `CacheAnswersForValidators`: a payload that is not marked stale is the version
  the source served when this run asked.  `FreshIsCurrent` is not inductive;
  `CacheTrails` says of the two files that the validators are never newer than
  the body and neither is ahead of the source, so that a 304 for the validators
  leaves only the same version for a body that is there.  It rests on the source
  moving forward only: one that returned to an older content under its old ETag
  could confirm a newer body after a kill between the two writes.
* `ProvenanceHolds`: what is public is at least as recent, source by source, as
  the status document claims.  `OriginInv` follows a body from its reception to
  the public tree: versions arrive in order, what is cached and what is in memory
  is the newest received, what is merged is what both payloads hold.
* `GreenHolds`: `check-health` is green only while runs succeed and something
  with records is public (`WorkedInv`, with the invariants above).

`CatalogMergeProofs`
* The invariant is a fact about each stage.  `ParseInv`: after `k` rows a table
  has, for each number known to them, the record of the *last* of these rows.
  `MergeInv`: after some numbers, the output has those that are not dropped, each
  merged from its two records.  `CountInv`: the counts are cardinalities of
  parts of the output.  `ReleaseInv`: the documents, read back, agree with the
  counts in the manifest.  `PriorInv`: what an earlier run kept and dropped, of
  its inputs and day.
* `SourcesAreTrue`, `CountsHold`, `EstimatesFit` and `TypeCorrect` follow from the
  first three, with a lemma on the precedence of the sources (`Precedence`) and
  one on where a magnitude can come from (`SourceOf`).
* `AgeingHolds`: the days of two runs are ordered and a record that has left the
  window stays out (`GoneLater`).
* `RecordsFound`: the index is in the order of the numbers and each row of it
  leads to the bucket with its record.  The sorted sequence exists by an induction
  over the set of numbers (`NthExists`, `NthGrows`).
* `ManifestHolds`: an unchanged release keeps counts that are true of this run.

`FiniteSums` holds the induction: a library theorem with a predicate as its
parameter cannot be instantiated by the provers, but the least-number principle can be
cited of a *set*, and gives an induction over finite sets stated with sets of
subsets.  The sum over a window splits, grows with its window, and changes by
what is added at one instant.

Only checked by TLC: liveness (`RunEnds`, `CatchesUp`, `FollowsSources`,
`FollowsUpstream`), which needs `ENABLED`.

## What is not modelled

* Configuration (`config.py`): it validates a file at start and keeps no state;
  what it guarantees appears as the assumptions on the constants.  Logging and the
  command line: formatting and dispatch.
* The ranges of single OMM records (`omm.py`): in `GpUpdater` a body is its size
  and the number of records it parses to, 0 if any is bad.
* The parsers of the vendored files (magnitudes, stars, constellations), which
  change only with the software.
* Free space in `check-health`.
* The derivation inside a `GpUpdater` run: it touches other files, and
  `GpDeriver` has it with the part of the fetch loop it can see.
* A single atomic file replacement is one step.
* Staging directories left behind, which nothing reads.

## Plan

1. Proofs: `ExhaustionHolds` for clocks that differ by less than the retry interval.
2. A queue under a scarce allowance over many windows, with relative time:
   whether a large dataset at its head can starve, although `gp.py:551-555` says
   that holding the head keeps the small ones from nibbling the refills away.
3. Publication of one dataset as an abstract specification that `GpUpdater`
   implements and `GpDeriver` relies on, as `CatalogPublic` is for the catalogue.
4. The gates on single OMM records.
