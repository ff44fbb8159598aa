--------------------------- MODULE CatalogRelease ---------------------------
(***************************************************************************)
(* The publication of the satellite catalogue: CatalogUpdater.run, once it *)
(* has merged its sources, and ReleasePublisher, which promotes a complete *)
(* tree, switches the public symlink to it and prunes the older trees.     *)
(*                                                                         *)
(* Runs are serialized by catalog.lock (GpUpdater models such a lock), so  *)
(* there is one process; it may be killed between any two of its renames,  *)
(* and inside the removal of a tree.                                       *)
(***************************************************************************)
EXTENDS Integers, FiniteSets

CONSTANTS
  Contents,       \* the catalogues the sources may merge into
  CountOf,        \* records of each catalogue
  DropPercent,    \* maximum_record_drop_fraction, in percent
  Digest,         \* the hash of each catalogue, as it orders release names
  Keep,           \* releases_to_keep
  None,           \* no release
  MaxClock,       \* bound of the clock, in the seconds a name can tell apart
  MaxChanges,     \* bound on the changes of the sources
  MaxFaults,      \* bound on the number of faults
  Faults          \* which of "crash", "disk" and "clock" may happen

ASSUME KeepAssumption == Keep \in Nat /\ Keep >= 2

ASSUME ContentAssumption ==
  /\ CountOf \in [Contents -> Nat]
  /\ Digest \in [Contents -> Nat]
  /\ \A c, d \in Contents : Digest[c] = Digest[d] => c = d
  /\ DropPercent \in 0 .. 100
  /\ {MaxClock, MaxChanges, MaxFaults} \subseteq Nat

Times    == 0 .. MaxClock
Releases == [time : Times, content : Contents]

ASSUME NoneAssumption == None \notin Releases \cup Contents

VARIABLES
  clock,      \* of the host that runs
  wanted,     \* what the sources merge into now
  \* the volume
  releases,   \* the trees of releases/catalog, by name
  partial,    \* those of them that are not whole
  links,      \* temporary links beside the public one
  link,       \* what public/v1/data points to
  status,     \* public/v1/status/catalog.json
  \* the process
  pc, release, whole, doomed,
  \* history
  previous,   \* what was public before the last switch
  orphans,    \* trees whose run ended between their promotion and the switch
  stepped,    \* whether the clock has ever stepped back
  changes, faults

volumeVars  == <<releases, partial, links, link, status>>
processVars == <<pc, release, whole, doomed>>
historyVars == <<previous, orphans, stepped, changes, faults>>
vars == <<clock, wanted, volumeVars, processVars, historyVars>>

-----------------------------------------------------------------------------
Points == {"idle", "updating", "staging", "promote", "link", "switch", "list",
           "prune", "removing"}

\* Release names sort by their time, then by their digest.
Older(a, b) ==
  \/ a.time < b.time
  \/ a.time = b.time /\ Digest[a.content] < Digest[b.content]

Init ==
  /\ clock = 0 /\ wanted \in Contents
  /\ releases = {} /\ partial = {} /\ links = 0 /\ link = None /\ status = "none"
  /\ pc = "idle" /\ release = None /\ whole = FALSE /\ doomed = {}
  /\ previous = None /\ orphans = {} /\ stepped = FALSE /\ changes = 0 /\ faults = 0

Fault(kind) ==
  /\ kind \in Faults
  /\ faults < MaxFaults
  /\ faults' = faults + 1

-----------------------------------------------------------------------------
(* Time, and the sources.                                                  *)

Tick ==
  /\ clock < MaxClock
  /\ clock' = clock + 1
  /\ UNCHANGED <<wanted, volumeVars, processVars, historyVars>>

\* A failover to a host whose clock is behind.  A run that is overtaken by another
\* while it waits for catalog.lock, after it has read its instant, publishes under
\* a name older than the one before it; a step back in between gives that order.
ClockBack ==
  /\ Fault("clock")
  /\ pc = "idle"
  /\ clock > 0
  /\ clock' = clock - 1
  /\ stepped' = TRUE
  /\ UNCHANGED <<wanted, volumeVars, processVars, previous, orphans, changes>>

SourcesChange(c) ==
  /\ changes < MaxChanges
  /\ c # wanted
  /\ wanted' = c
  /\ changes' = changes + 1
  /\ UNCHANGED <<clock, volumeVars, processVars, previous, orphans, stepped, faults>>

-----------------------------------------------------------------------------
(* The run, up to the staging directory.                                   *)

\* A release is named after the instant its run was started at, which is read
\* before the lock is waited for; see ClockBack.
Start ==
  /\ pc = "idle"
  /\ pc' = "updating"
  /\ release' = [time |-> clock, content |-> wanted]
  /\ UNCHANGED <<clock, wanted, volumeVars, whole, doomed, historyVars>>

Forget ==
  /\ pc' = "idle"
  /\ release' = None /\ whole' = FALSE /\ doomed' = {}

\* Faulty variant: the drop is measured against the release being built.
RecordsDropped_Self ==
  /\ link # None
  /\ 100 * CountOf[release.content] < CountOf[release.content] * (100 - DropPercent)

\* The previous manifest is read through the public link.
RecordsDropped ==
  /\ link # None
  /\ 100 * CountOf[release.content] < CountOf[link.content] * (100 - DropPercent)

\* Faulty variant: any tree on the volume will do, public or not.
Unchanged_OnDisk == \E r \in releases : r.content = release.content

Unchanged == link # None /\ link.content = release.content

RefuseDrop ==
  /\ pc = "updating"
  /\ RecordsDropped
  /\ status' = "failed"
  /\ Forget
  /\ UNCHANGED <<clock, wanted, releases, partial, links, link, historyVars>>

KeepUnchanged ==
  /\ pc = "updating"
  /\ ~ RecordsDropped
  /\ Unchanged
  /\ status' = "unchanged"
  /\ Forget
  /\ UNCHANGED <<clock, wanted, releases, partial, links, link, historyVars>>

\* A staging directory of its own, still empty.
MakeStaging ==
  /\ pc = "updating"
  /\ ~ RecordsDropped
  /\ ~ Unchanged
  /\ pc' = "staging"
  /\ UNCHANGED <<clock, wanted, volumeVars, release, whole, doomed, historyVars>>

WriteArtifacts ==
  /\ pc = "staging"
  /\ pc' = "promote"
  /\ whole' = TRUE
  /\ UNCHANGED <<clock, wanted, volumeVars, release, doomed, historyVars>>

-----------------------------------------------------------------------------
(* ReleasePublisher.publish.                                               *)

\* A tree of that name exists: PublishError, which the run does not catch and
\* after which no status is written.
Collide ==
  /\ pc = "promote"
  /\ release \in releases
  /\ Forget
  /\ UNCHANGED <<clock, wanted, volumeVars, historyVars>>

Promote ==
  /\ pc = "promote"
  /\ release \notin releases
  /\ releases' = releases \cup {release}
  /\ partial' = IF whole THEN partial ELSE partial \cup {release}
  /\ pc' = "link"
  /\ UNCHANGED <<clock, wanted, links, link, status, release, whole, doomed, historyVars>>

\* The temporary link has a name of its own.
MakeLink ==
  /\ pc = "link"
  /\ links' = links + 1
  /\ pc' = "switch"
  /\ UNCHANGED <<clock, wanted, releases, partial, link, status, release, whole,
                 doomed, historyVars>>

Switch ==
  /\ pc = "switch"
  /\ links' = links - 1
  /\ link' = release
  /\ previous' = link
  /\ pc' = "list"
  /\ UNCHANGED <<clock, wanted, releases, partial, status, release, whole, doomed,
                 orphans, stepped, changes, faults>>

Newer(r) == {s \in releases : Older(r, s)}

\* Faulty variant: the current release has to be among the newest.
Retained_Newest == {r \in releases : Cardinality(Newer(r)) < Keep}

\* Faulty variant: one release too few.
Retained_OneLess == {r \in releases : Cardinality(Newer(r)) < Keep - 1} \cup {release}

\* The newest by name, and the current one wherever it sorts.
Retained == {r \in releases : Cardinality(Newer(r)) < Keep} \cup {release}

ListReleases ==
  /\ pc = "list"
  /\ doomed' = releases \ Retained
  /\ pc' = "prune"
  /\ UNCHANGED <<clock, wanted, volumeVars, release, whole, historyVars>>

\* Removing a tree takes time: it is not whole from the first file on.
BeginRemove ==
  /\ pc = "prune"
  /\ \E r \in doomed :
       /\ \A s \in doomed : s = r \/ Older(s, r)
       /\ partial' = partial \cup {r}
  /\ pc' = "removing"
  /\ UNCHANGED <<clock, wanted, releases, links, link, status, release, whole,
                 doomed, historyVars>>

EndRemove ==
  /\ pc = "removing"
  /\ LET gone == {r \in doomed : \A s \in doomed : s = r \/ Older(s, r)} IN
       /\ releases' = releases \ gone
       /\ partial' = partial \ gone
       /\ doomed' = doomed \ gone
  /\ pc' = "prune"
  /\ UNCHANGED <<clock, wanted, links, link, status, release, whole, historyVars>>

\* Faulty variant: at most one tree is removed.
Finish_Early ==
  /\ pc = "prune"
  /\ Cardinality(doomed) <= 1
  /\ status' = "published"
  /\ Forget
  /\ UNCHANGED <<clock, wanted, releases, partial, links, link, historyVars>>

Finish ==
  /\ pc = "prune"
  /\ doomed = {}
  /\ status' = "published"
  /\ Forget
  /\ UNCHANGED <<clock, wanted, releases, partial, links, link, historyVars>>

-----------------------------------------------------------------------------
(* Faults.                                                                 *)

\* A run that ends between the two leaves a tree that has never been public.
Orphaned == IF pc \in {"link", "switch"} THEN orphans \cup {release} ELSE orphans

\* Faulty variant: a temporary link is taken back even if there is none.
DiskFails_Unlink ==
  /\ Fault("disk")
  /\ pc \in {"staging", "link", "switch", "list", "prune", "removing"}
  /\ links' = links - 1
  /\ status' = "failed"
  /\ orphans' = Orphaned
  /\ Forget
  /\ UNCHANGED <<clock, wanted, releases, partial, link, previous, stepped, changes>>

\* An OSError is caught by the run, which says that it failed; the temporary
\* link is taken back, the staging directory and a promoted tree are not.
DiskFails ==
  /\ Fault("disk")
  /\ pc \in {"staging", "link", "switch", "list", "prune", "removing"}
  /\ links' = IF pc = "switch" THEN links - 1 ELSE links
  /\ status' = "failed"
  /\ orphans' = Orphaned
  /\ Forget
  /\ UNCHANGED <<clock, wanted, releases, partial, link, previous, stepped, changes>>

Crash ==
  /\ Fault("crash")
  /\ pc # "idle"
  /\ orphans' = Orphaned
  /\ Forget
  /\ UNCHANGED <<clock, wanted, volumeVars, previous, stepped, changes>>

-----------------------------------------------------------------------------
Run ==
  \/ Start \/ RefuseDrop \/ KeepUnchanged \/ MakeStaging \/ WriteArtifacts
  \/ Collide \/ Promote \/ MakeLink \/ Switch
  \/ ListReleases \/ BeginRemove \/ EndRemove \/ Finish

Next ==
  \/ Tick \/ ClockBack
  \/ \E c \in Contents : SourcesChange(c)
  \/ Run
  \/ DiskFails \/ Crash

Spec == Init /\ [][Next]_vars

\* The timer starts runs for ever, a run keeps going, and time passes.
FairSpec == Spec /\ WF_vars(Run) /\ WF_vars(Tick)

-----------------------------------------------------------------------------
(* What a reader sees: the refinement mapping.  A link to a tree that is   *)
(* not whole would be no catalogue at all.                                 *)

Seen ==
  CASE link = None -> None
    [] link \in releases \ partial -> link.content
    [] OTHER -> [broken |-> link]

Job      == IF release = None THEN None ELSE release.content
Switched == pc \in {"list", "prune", "removing"}

Public == INSTANCE CatalogPublic WITH
  public   <- Seen,
  job      <- Job,
  switched <- Switched,
  outcome  <- status

-----------------------------------------------------------------------------
(* Properties.                                                             *)

\* The type invariant.
TypeOK ==
  /\ clock \in Times
  /\ wanted \in Contents
  /\ releases \subseteq Releases
  /\ partial \subseteq releases
  /\ links \in Nat
  /\ link \in Releases \cup {None}
  /\ status \in {"none", "failed", "unchanged", "published"}
  /\ pc \in Points
  /\ release \in Releases \cup {None}
  /\ whole \in BOOLEAN
  /\ doomed \subseteq Releases
  /\ previous \in Releases \cup {None}
  /\ orphans \subseteq Releases
  /\ stepped \in BOOLEAN
  /\ changes \in 0 .. MaxChanges
  /\ faults \in 0 .. MaxFaults

\* The public tree always resolves to a whole release (publish, _prune; what
\* check-health calls a dangling link), wherever a run was killed and whatever
\* the clock said.
PublicIsWhole == link # None => link \in releases \ partial

\* The trees that have never been public and whose names are newer than the one
\* that was public before.
Between == {r \in orphans : Older(previous, r)}

\* A reader of the release that has just been replaced can finish reading it, as
\* long as releases_to_keep has room for it, for the public release and for every
\* tree left behind since by a run that ended between its promotion and its
\* switch.  Kills and failures at any other point cost nothing.  What retention
\* by name cannot promise: a clock that has stepped back, or another release of
\* the same second, where names sort by digest.
PreviousSurvives ==
  /\ ~ stepped
  /\ previous # None
  /\ Cardinality(Between) + 2 <= Keep
  /\ \A r \in releases : r # previous => r.time # previous.time
  => previous \in releases \ partial

\* Bounded retention (README): a run that publishes leaves no more trees than
\* it is told to keep, and the current one, however many were left behind by
\* the runs that failed before it.
RetentionBounded ==
  [][pc = "prune" /\ pc' = "idle" /\ status' = "published" /\ faults' = faults
       => Cardinality(releases') <= Keep + 1]_vars

\* The drop guard (_validate_record_drop) is measured against what the public
\* replaces, through every crash: a switch never loses more than the fraction.
SwitchKeepsRecords ==
  [][link' # link /\ link # None =>
       100 * CountOf[link'.content] >= CountOf[link.content] * (100 - DropPercent)]_vars

\* The public catalogue follows its sources: once they stop changing it is what
\* they merge into, or the drop guard refuses that.  A run may fail over a name
\* that an interrupted run of the same second has taken; the clock leaves that
\* second behind, except at the end of the model's horizon.
FollowsSources ==
  []<>(\/ link # None /\ link.content = wanted
       \/ link # None /\ Public!DropsTooMuch(link.content, wanted)
       \/ clock = MaxClock /\ [time |-> clock, content |-> wanted] \in releases \ {link})

\* Trees, links and renames implement what CatalogPublic promises: however a run
\* is interrupted, a reader sees one whole catalogue replaced by another, and
\* what the run says of itself is true of the public tree.
KeepsPromise == Public!Spec

=============================================================================
