------------------------ MODULE CatalogReleaseProofs ------------------------
(***************************************************************************)
(* What CatalogRelease guarantees for every set of catalogues, every order *)
(* of the names, any retention of two or more, any clock and any number of *)
(* interrupted runs.                                                       *)
(***************************************************************************)
EXTENDS CatalogRelease, FiniteSums

-----------------------------------------------------------------------------
(* The public tree is whole.                                               *)

\* While a release is made its process knows its name; up to the promotion it
\* has been completed.
Underway ==
  /\ pc \in Points
  /\ pc # "idle" => release \in Releases
  /\ pc = "promote" => whole

\* A promoted tree stays whole until it is doomed, and the public one is not.
Standing ==
  /\ partial \subseteq releases
  /\ link # None => link \in releases \ partial
  /\ pc \in {"link", "switch"} => release \in releases \ partial
  /\ pc \in {"list", "prune", "removing"} => link = release
  /\ pc \in {"prune", "removing"} => release \notin doomed
  /\ doomed \subseteq releases
  /\ releases \subseteq Releases

WholeInv == Underway /\ Standing

LEMMA WholeInit == Init => WholeInv
BY DEF Init, WholeInv, Underway, Standing, Points

\* Up to the staging directory, nothing of the volume but its status changes.
LEMMA WholeBefore ==
  ASSUME WholeInv,
         Start \/ RefuseDrop \/ KeepUnchanged \/ MakeStaging \/ WriteArtifacts,
         clock \in Times, wanted \in Contents
  PROVE  WholeInv'
<1>1. CASE Start
  BY <1>1 DEF Start, WholeInv, Underway, Standing, Points, Releases, volumeVars, historyVars
<1>2. CASE RefuseDrop \/ KeepUnchanged
  BY <1>2 DEF RefuseDrop, KeepUnchanged, Forget, WholeInv, Underway, Standing, Points,
              historyVars
<1>3. CASE MakeStaging
  BY <1>3 DEF MakeStaging, WholeInv, Underway, Standing, Points, volumeVars, historyVars
<1>4. CASE WriteArtifacts
  BY <1>4 DEF WriteArtifacts, WholeInv, Underway, Standing, Points, volumeVars, historyVars
<1> QED
  BY <1>1, <1>2, <1>3, <1>4

\* The promoted tree is new, hence in no one's way, and is whole.
LEMMA WholePublish ==
  ASSUME WholeInv, Collide \/ Promote \/ MakeLink \/ Switch
  PROVE  WholeInv'
<1>1. CASE Collide
  BY <1>1 DEF Collide, Forget, WholeInv, Underway, Standing, Points, volumeVars, historyVars
<1>2. CASE Promote
  BY <1>2 DEF Promote, WholeInv, Underway, Standing, Points, historyVars
<1>3. CASE MakeLink
  BY <1>3 DEF MakeLink, WholeInv, Underway, Standing, Points, historyVars
<1>4. CASE Switch
  BY <1>4 DEF Switch, WholeInv, Underway, Standing, Points
<1> QED
  BY <1>1, <1>2, <1>3, <1>4

\* The current release is retained wherever it sorts.
LEMMA WholePrune ==
  ASSUME WholeInv, ListReleases \/ BeginRemove \/ EndRemove \/ Finish
  PROVE  WholeInv'
<1>1. CASE ListReleases
  <2>1. release \in Retained
    BY DEF Retained
  <2> QED
    BY <1>1, <2>1 DEF ListReleases, WholeInv, Underway, Standing, Points, volumeVars,
                      historyVars
<1>2. CASE BeginRemove
  <2>1. PICK r \in doomed : partial' = partial \cup {r}
    BY <1>2 DEF BeginRemove
  <2>2. release # r /\ link = release
    BY <1>2 DEF BeginRemove, WholeInv, Standing
  <2>3. r \in releases
    BY DEF WholeInv, Standing
  <2> QED
    BY <1>2, <2>1, <2>2, <2>3 DEF BeginRemove, WholeInv, Underway, Standing, Points, historyVars
<1>3. CASE EndRemove
  BY <1>3 DEF EndRemove, WholeInv, Underway, Standing, Points, historyVars
<1>4. CASE Finish
  BY <1>4 DEF Finish, Forget, WholeInv, Underway, Standing, Points, historyVars
<1> QED
  BY <1>1, <1>2, <1>3, <1>4

\* Faults only forget: what a killed run leaves behind is in nobody's way.
LEMMA WholeFault ==
  ASSUME WholeInv, DiskFails \/ Crash
  PROVE  WholeInv'
BY DEF DiskFails, Crash, Forget, WholeInv, Underway, Standing, Points, volumeVars

\* What the run reads of the world around it is typed.
WorldInv == clock \in Times /\ wanted \in Contents

LEMMA WorldInit == Init => WorldInv
BY ContentAssumption DEF Init, WorldInv, Times

LEMMA WorldStep == WorldInv /\ [Next]_vars => WorldInv'
<1> SUFFICES ASSUME WorldInv, [Next]_vars PROVE WorldInv'
  OBVIOUS
<1>1. CASE Tick
  BY <1>1, ContentAssumption DEF Tick, WorldInv, Times
<1>2. CASE ClockBack
  BY <1>2, ContentAssumption DEF ClockBack, WorldInv, Times
<1>3. ASSUME NEW c \in Contents, SourcesChange(c) PROVE WorldInv'
  BY <1>3 DEF SourcesChange, WorldInv
<1>4. CASE Run
  BY <1>4 DEF Run, Start, RefuseDrop, KeepUnchanged, MakeStaging, WriteArtifacts, Collide,
              Promote, MakeLink, Switch, ListReleases, BeginRemove, EndRemove, Finish,
              WorldInv
<1>5. CASE DiskFails \/ Crash
  BY <1>5 DEF DiskFails, Crash, WorldInv
<1>6. CASE UNCHANGED vars
  BY <1>6 DEF vars, WorldInv
<1> QED
  BY <1>1, <1>2, <1>3, <1>4, <1>5, <1>6 DEF Next

LEMMA WholeStep == WorldInv /\ WholeInv /\ [Next]_vars => WholeInv'
<1> SUFFICES ASSUME WorldInv, WholeInv, [Next]_vars PROVE WholeInv'
  OBVIOUS
<1>1. CASE Tick \/ ClockBack
  BY <1>1 DEF Tick, ClockBack, WholeInv, Underway, Standing, volumeVars, processVars
<1>2. ASSUME NEW c \in Contents, SourcesChange(c) PROVE WholeInv'
  BY <1>2 DEF SourcesChange, WholeInv, Underway, Standing, volumeVars, processVars
<1>3. CASE Run
  BY <1>3, WholeBefore, WholePublish, WholePrune DEF Run, WorldInv
<1>4. CASE DiskFails \/ Crash
  BY <1>4, WholeFault
<1>5. CASE UNCHANGED vars
  BY <1>5 DEF vars, volumeVars, processVars, WholeInv, Underway, Standing
<1> QED
  BY <1>1, <1>2, <1>3, <1>4, <1>5 DEF Next

\* The public tree always resolves to a whole release: publish and _prune,
\* interrupted anywhere, any number of times, on any clock.
THEOREM PublicTreeIsWhole == Spec => []PublicIsWhole
<1>1. Init => WorldInv /\ WholeInv
  BY WorldInit, WholeInit
<1>2. WorldInv /\ WholeInv /\ [Next]_vars => (WorldInv /\ WholeInv)'
  BY WorldStep, WholeStep
<1>3. WorldInv /\ WholeInv => PublicIsWhole
  BY DEF WholeInv, Standing, PublicIsWhole
<1> QED
  BY <1>1, <1>2, <1>3, PTL DEF Spec

-----------------------------------------------------------------------------
(* The drop guard.                                                         *)

\* Once the guard has been passed, what it was measured against stays public.
Guarded ==
  pc \in {"staging", "promote", "link", "switch"} =>
    ~ RecordsDropped

LEMMA GuardStep == WholeInv /\ Guarded /\ [Next]_vars => Guarded'
<1> SUFFICES ASSUME WholeInv, Guarded, [Next]_vars PROVE Guarded'
  OBVIOUS
<1>1. CASE Tick \/ ClockBack
  BY <1>1 DEF Tick, ClockBack, Guarded, RecordsDropped, volumeVars, processVars
<1>2. ASSUME NEW c \in Contents, SourcesChange(c) PROVE Guarded'
  BY <1>2 DEF SourcesChange, Guarded, RecordsDropped, volumeVars, processVars
<1>3. CASE Start \/ RefuseDrop \/ KeepUnchanged \/ Collide \/ Finish
  BY <1>3 DEF Start, RefuseDrop, KeepUnchanged, Collide, Finish, Forget, Guarded
<1>4. CASE MakeStaging
  BY <1>4 DEF MakeStaging, Guarded, RecordsDropped, volumeVars
<1>5. CASE WriteArtifacts \/ Promote \/ MakeLink
  BY <1>5 DEF WriteArtifacts, Promote, MakeLink, Guarded, RecordsDropped, volumeVars
<1>6. CASE Switch \/ ListReleases \/ BeginRemove \/ EndRemove
  BY <1>6 DEF Switch, ListReleases, BeginRemove, EndRemove, Guarded
<1>7. CASE DiskFails \/ Crash
  BY <1>7 DEF DiskFails, Crash, Forget, Guarded
<1>8. CASE UNCHANGED vars
  BY <1>8 DEF vars, volumeVars, processVars, Guarded, RecordsDropped
<1> QED
  BY <1>1, <1>2, <1>3, <1>4, <1>5, <1>6, <1>7, <1>8 DEF Next, Run

\* Only a switch changes what is public, and it is the release that was measured.
LEMMA SwitchGuarded ==
  ASSUME WholeInv, Guarded, [Next]_vars, link' # link, link # None
  PROVE  100 * CountOf[link'.content] >= CountOf[link.content] * (100 - DropPercent)
<1>1. Switch
  BY DEF Next, Run, vars, volumeVars, Tick, ClockBack, SourcesChange, Start, RefuseDrop,
         KeepUnchanged, MakeStaging, WriteArtifacts, Collide, Promote, MakeLink,
         ListReleases, BeginRemove, EndRemove, Finish, DiskFails, Crash
<1>2. link' = release /\ ~ RecordsDropped
  BY <1>1 DEF Switch, Guarded
<1>3. release \in Releases /\ link \in Releases
  BY <1>1 DEF Switch, WholeInv, Underway, Standing
<1> DEFINE kept == 100 * CountOf[release.content]
           needed == CountOf[link.content] * (100 - DropPercent)
<1>4. CountOf[release.content] \in Nat /\ CountOf[link.content] \in Nat
  BY <1>3, ContentAssumption DEF Releases
<1>5. kept \in Int /\ needed \in Int
  BY <1>4, ContentAssumption
<1>6. ~ (kept < needed)
  BY <1>2 DEF RecordsDropped
<1>7. kept >= needed
  <2> HIDE DEF kept, needed
  <2> QED
    BY <1>5, <1>6
<1> QED
  BY <1>2, <1>7

LEMMA GuardInit == Init => Guarded
BY DEF Init, Guarded

\* A switch never loses more than the fraction of what the public had, however
\* many runs were killed since it was published.
THEOREM DropGuardHolds == Spec => SwitchKeepsRecords
<1> DEFINE A == link' # link /\ link # None =>
             100 * CountOf[link'.content] >= CountOf[link.content] * (100 - DropPercent)
<1>1. Init => WorldInv /\ WholeInv /\ Guarded
  BY WorldInit, WholeInit, GuardInit
<1>2. WorldInv /\ WholeInv /\ Guarded /\ [Next]_vars => (WorldInv /\ WholeInv /\ Guarded)'
  BY WorldStep, WholeStep, GuardStep
<1>3. WholeInv /\ Guarded /\ [Next]_vars => [A]_vars
  BY SwitchGuarded
<1> QED
  BY <1>1, <1>2, <1>3, PTL DEF Spec, SwitchKeepsRecords

-----------------------------------------------------------------------------
(* The refinement.                                                         *)

\* Where the run is decides what the abstract run has done, and what it is
\* about to say of itself is true.
Mapped ==
  /\ pc = "idle" <=> release = None
  /\ pc = "idle" => doomed = {}
  /\ pc \in {"staging", "promote", "link", "switch"} => ~ Unchanged

LEMMA MappedInit == Init => Mapped
BY DEF Init, Mapped

LEMMA MappedStep == WorldInv /\ WholeInv /\ Mapped /\ [Next]_vars => Mapped'
<1> SUFFICES ASSUME WorldInv, WholeInv, Mapped, [Next]_vars PROVE Mapped'
  OBVIOUS
<1> USE NoneAssumption DEF Mapped
<1>1. CASE Tick \/ ClockBack
  BY <1>1 DEF Tick, ClockBack, Unchanged, volumeVars, processVars
<1>2. ASSUME NEW c \in Contents, SourcesChange(c) PROVE Mapped'
  BY <1>2 DEF SourcesChange, Unchanged, volumeVars, processVars
<1>3. CASE Start
  BY <1>3 DEF Start, WorldInv, Releases
<1>4. CASE RefuseDrop \/ KeepUnchanged \/ Collide \/ Finish
  BY <1>4 DEF RefuseDrop, KeepUnchanged, Collide, Finish, Forget
<1>5. CASE MakeStaging
  BY <1>5 DEF MakeStaging, Unchanged, volumeVars
<1>6. CASE WriteArtifacts \/ Promote \/ MakeLink
  BY <1>6 DEF WriteArtifacts, Promote, MakeLink, Unchanged, volumeVars
<1>7. CASE Switch \/ ListReleases \/ BeginRemove \/ EndRemove
  BY <1>7 DEF Switch, ListReleases, BeginRemove, EndRemove
<1>8. CASE DiskFails \/ Crash
  BY <1>8 DEF DiskFails, Crash, Forget
<1>9. CASE UNCHANGED vars
  BY <1>9 DEF vars, volumeVars, processVars, Unchanged
<1> QED
  BY <1>1, <1>2, <1>3, <1>4, <1>5, <1>6, <1>7, <1>8, <1>9 DEF Next, Run

\* What is public is the catalogue of a whole tree, the run that is on has a
\* catalogue, and neither is None.
SeenInv ==
  /\ link = None => Seen = None
  /\ link # None => Seen = link.content /\ Seen # None
  /\ pc = "idle" => Job = None
  /\ pc # "idle" => Job = release.content /\ Job # None

LEMMA SeenIs == WholeInv /\ Mapped => SeenInv
<1> SUFFICES ASSUME WholeInv, Mapped PROVE SeenInv
  OBVIOUS
<1>1. link = None => Seen = None
  BY NoneAssumption DEF Seen, WholeInv, Standing
<1>2. ASSUME link # None PROVE Seen = link.content /\ Seen # None
  <2>1. link \in releases \ partial /\ link \in Releases
    BY <1>2 DEF WholeInv, Standing
  <2>2. Seen = link.content
    BY <1>2, <2>1 DEF Seen
  <2>3. link.content \in Contents
    BY <2>1 DEF Releases
  <2> QED
    BY <2>2, <2>3, NoneAssumption
<1>3. pc # "idle" => release \in Releases
  BY DEF WholeInv, Underway
<1>4. /\ pc = "idle" => Job = None
      /\ pc # "idle" => Job = release.content /\ Job # None
  BY <1>3, NoneAssumption DEF Mapped, Job, Releases
<1> QED
  BY <1>1, <1>2, <1>4 DEF SeenInv

RefinementInv == WorldInv /\ WholeInv /\ Guarded /\ Mapped /\ SeenInv

\* Most steps are the volume's own business: a reader sees nothing of them.
LEMMA UnseenStep ==
  ASSUME RefinementInv, RefinementInv',
         \/ Tick \/ ClockBack \/ \E c \in Contents : SourcesChange(c)
         \/ MakeStaging \/ WriteArtifacts \/ Promote \/ MakeLink
         \/ ListReleases \/ BeginRemove \/ EndRemove \/ UNCHANGED vars
  PROVE  UNCHANGED Public!vars
<1>1. link' = link /\ release' = release /\ status' = status
  BY DEF Tick, ClockBack, SourcesChange, MakeStaging, WriteArtifacts, Promote, MakeLink,
         ListReleases, BeginRemove, EndRemove, vars, volumeVars, processVars
<1>2. Switched' = Switched /\ (pc' = "idle" <=> pc = "idle")
  BY DEF Tick, ClockBack, SourcesChange, MakeStaging, WriteArtifacts, Promote, MakeLink,
         ListReleases, BeginRemove, EndRemove, vars, volumeVars, processVars, Switched
<1>3. Seen' = Seen
  BY <1>1 DEF RefinementInv, SeenInv
<1>4. Job' = Job
  BY <1>1 DEF Job
<1> QED
  BY <1>1, <1>2, <1>3, <1>4 DEF Public!vars

\* The switch is the step at which a reader sees another catalogue.
LEMMA SwitchPublishes ==
  ASSUME RefinementInv, RefinementInv', Switch
  PROVE  Public!Publish
<1>1. Job # None /\ Job' = Job /\ Job = release.content
  BY DEF Switch, RefinementInv, SeenInv, Job
<1>2. ~ Switched /\ Switched'
  BY DEF Switch, Switched
<1>3. Seen' = Job
  BY <1>1 DEF Switch, RefinementInv, SeenInv, Mapped
<1>4. Seen # Job
  BY <1>1 DEF Switch, RefinementInv, SeenInv, Mapped, Unchanged
<1>5. ~ Public!DropsTooMuch(Seen, Job)
  BY <1>1 DEF Switch, RefinementInv, SeenInv, Guarded, RecordsDropped, Public!DropsTooMuch
<1>6. status' = status
  BY DEF Switch
<1> QED
  BY <1>1, <1>2, <1>3, <1>4, <1>5, <1>6 DEF Public!Publish

\* A run that ends, in whichever way, leaves the public catalogue alone.
LEMMA EndLeaves ==
  ASSUME RefinementInv, RefinementInv', Forget, link' = link, pc # "idle"
  PROVE  Public!Leave
<1>1. Job # None
  BY DEF RefinementInv, SeenInv
<1>2. Job' = None /\ Switched' = FALSE
  BY DEF Forget, Job, Switched
<1>3. Seen' = Seen
  BY DEF RefinementInv, SeenInv
<1> QED
  BY <1>1, <1>2, <1>3 DEF Public!Leave

LEMMA EndStep ==
  ASSUME RefinementInv, RefinementInv',
         RefuseDrop \/ KeepUnchanged \/ Collide \/ Finish \/ DiskFails \/ Crash
  PROVE  Public!EndPublished \/ Public!EndUnchanged \/ Public!EndFailed \/ Public!Killed
<1>1. Public!Leave
  <2>1. Forget /\ link' = link /\ pc # "idle"
    BY DEF RefuseDrop, KeepUnchanged, Collide, Finish, DiskFails, Crash, volumeVars
  <2> QED
    BY <2>1, EndLeaves
<1>2. CASE RefuseDrop \/ DiskFails
  BY <1>1, <1>2 DEF RefuseDrop, DiskFails, Public!EndFailed, Public!End
<1>3. CASE KeepUnchanged
  BY <1>1, <1>3 DEF KeepUnchanged, Unchanged, RefinementInv, SeenInv, Switched,
                    Public!EndUnchanged, Public!End
<1>4. CASE Finish
  BY <1>1, <1>4 DEF Finish, Switched, Public!EndPublished, Public!End
<1>5. CASE Collide \/ Crash
  BY <1>1, <1>5 DEF Collide, Crash, volumeVars, Public!Killed
<1> QED
  BY <1>2, <1>3, <1>4, <1>5

LEMMA StartBegins ==
  ASSUME RefinementInv, RefinementInv', Start
  PROVE  \E c \in Contents : Public!Begin(c)
<1>1. Job = None /\ Job' = wanted /\ wanted \in Contents
  BY DEF Start, RefinementInv, SeenInv, WorldInv
<1>2. Seen' = Seen /\ Switched' = Switched /\ status' = status
  BY DEF Start, RefinementInv, SeenInv, Switched, volumeVars
<1> QED
  BY <1>1, <1>2 DEF Public!Begin

LEMMA StepRefines ==
  RefinementInv /\ RefinementInv' /\ [Next]_vars => [Public!Next]_Public!vars
<1> SUFFICES ASSUME RefinementInv, RefinementInv', [Next]_vars
             PROVE  [Public!Next]_Public!vars
  OBVIOUS
<1>1. CASE \/ Tick \/ ClockBack \/ \E c \in Contents : SourcesChange(c)
           \/ MakeStaging \/ WriteArtifacts \/ Promote \/ MakeLink
           \/ ListReleases \/ BeginRemove \/ EndRemove \/ UNCHANGED vars
  BY <1>1, UnseenStep
<1>2. CASE Switch
  BY <1>2, SwitchPublishes DEF Public!Next
<1>3. CASE RefuseDrop \/ KeepUnchanged \/ Collide \/ Finish \/ DiskFails \/ Crash
  BY <1>3, EndStep DEF Public!Next
<1>4. CASE Start
  BY <1>4, StartBegins DEF Public!Next
<1> QED
  BY <1>1, <1>2, <1>3, <1>4 DEF Next, Run

LEMMA InitRefines == Init => Public!Init
BY DEF Init, Public!Init, Seen, Job, Switched

\* Trees, links and renames implement the promise to readers: for any
\* catalogues, names, clocks and interrupted runs, ReleasePublisher and the run
\* around it behave as CatalogPublic says.
THEOREM ReleaseImplementsPublic == Spec => KeepsPromise
<1>1. Init => WorldInv /\ WholeInv /\ Guarded /\ Mapped
  BY WorldInit, WholeInit, GuardInit, MappedInit
<1>2. WorldInv /\ WholeInv /\ Guarded /\ Mapped /\ [Next]_vars
        => (WorldInv /\ WholeInv /\ Guarded /\ Mapped)'
  BY WorldStep, WholeStep, GuardStep, MappedStep
<1>3. WorldInv /\ WholeInv /\ Guarded /\ Mapped => RefinementInv
  BY SeenIs DEF RefinementInv
<1>4. Spec => []RefinementInv
  BY <1>1, <1>2, <1>3, PTL DEF Spec
<1> QED
  BY <1>4, InitRefines, StepRefines, PTL DEF Spec, KeepsPromise, Public!Spec

-----------------------------------------------------------------------------
(* The type invariant.                                                     *)

\* What TypeOK says beyond the invariants above.  A run that is about to switch
\* has made its temporary link: there is one to rename or to take back.
LinksInv ==
  /\ links \in Nat
  /\ pc = "switch" => links >= 1
  /\ status \in {"none", "failed", "unchanged", "published"}
  /\ release \in Releases \cup {None}
  /\ previous \in Releases \cup {None}
  /\ whole \in BOOLEAN
  /\ changes \in 0 .. MaxChanges
  /\ orphans \subseteq Releases /\ stepped \in BOOLEAN
  /\ faults \in 0 .. MaxFaults
  /\ link \in Releases \cup {None}

LEMMA Bounds == MaxClock \in Nat /\ MaxChanges \in Nat /\ MaxFaults \in Nat
<1>1. {MaxClock, MaxChanges, MaxFaults} \subseteq Nat
  BY ContentAssumption
<1> QED
  BY <1>1

LEMMA LinksInit == Init => LinksInv
<1> SUFFICES ASSUME Init PROVE LinksInv
  OBVIOUS
<1>1. changes \in 0 .. MaxChanges /\ faults \in 0 .. MaxFaults
  BY Bounds DEF Init
<1>2. links \in Nat /\ pc # "switch" /\ whole \in BOOLEAN
  BY DEF Init
<1> QED
  BY <1>1, <1>2 DEF Init, LinksInv

LEMMA OrphansAreTrees ==
  ASSUME WholeInv, LinksInv
  PROVE  Orphaned \subseteq Releases
BY NoneAssumption DEF Orphaned, WholeInv, Underway, LinksInv

LEMMA LinksStep == WorldInv /\ WholeInv /\ LinksInv /\ [Next]_vars => LinksInv'
<1> SUFFICES ASSUME WorldInv, WholeInv, LinksInv, [Next]_vars PROVE LinksInv'
  OBVIOUS
<1>1. CASE Tick
  BY <1>1 DEF Tick, LinksInv, volumeVars, processVars, historyVars
<1>2. CASE ClockBack
  BY <1>2, Bounds DEF ClockBack, Fault, LinksInv, volumeVars, processVars
<1>3. ASSUME NEW c \in Contents, SourcesChange(c) PROVE LinksInv'
  BY <1>3, Bounds DEF SourcesChange, LinksInv, volumeVars, processVars
<1>4. CASE Start
  <2>1. release' \in Releases
    BY <1>4 DEF Start, WorldInv, Releases
  <2> QED
    BY <1>4, <2>1 DEF Start, LinksInv, volumeVars, historyVars
<1>5. CASE RefuseDrop \/ KeepUnchanged \/ Finish
  BY <1>5 DEF RefuseDrop, KeepUnchanged, Finish, Forget, LinksInv, historyVars
<1>6. CASE Collide
  BY <1>6 DEF Collide, Forget, LinksInv, volumeVars, historyVars
<1>7. CASE MakeStaging \/ WriteArtifacts \/ ListReleases
  BY <1>7 DEF MakeStaging, WriteArtifacts, ListReleases, LinksInv, volumeVars, historyVars
<1>8. CASE Promote \/ BeginRemove \/ EndRemove
  BY <1>8 DEF Promote, BeginRemove, EndRemove, LinksInv, historyVars
<1>9. CASE MakeLink
  BY <1>9 DEF MakeLink, LinksInv, historyVars
<1>10. CASE Switch
  BY <1>10 DEF Switch, LinksInv, WholeInv, Underway
<1>11. CASE DiskFails
  <2>1. faults' \in 0 .. MaxFaults /\ links' \in Nat
    BY <1>11, Bounds DEF DiskFails, Fault, LinksInv
  <2> QED
    BY <1>11, <2>1, OrphansAreTrees DEF DiskFails, Forget, LinksInv
<1>12. CASE Crash
  <2>1. faults' \in 0 .. MaxFaults
    BY <1>12, Bounds DEF Crash, Fault, LinksInv
  <2> QED
    BY <1>12, <2>1, OrphansAreTrees DEF Crash, Forget, LinksInv, volumeVars
<1>13. CASE UNCHANGED vars
  BY <1>13 DEF vars, LinksInv, volumeVars, processVars, historyVars
<1> QED
  BY <1>1, <1>2, <1>3, <1>4, <1>5, <1>6, <1>7, <1>8, <1>9, <1>10, <1>11, <1>12, <1>13
  DEF Next, Run

LEMMA TypeStep == WorldInv /\ WholeInv /\ LinksInv => TypeOK
BY DEF WorldInv, WholeInv, Underway, Standing, LinksInv, TypeOK

\* The type invariant of the publication; in particular no run takes back a
\* temporary link that it has not made.
THEOREM TypeCorrect == Spec => []TypeOK
<1>1. Init => WorldInv /\ WholeInv /\ LinksInv
  BY WorldInit, WholeInit, LinksInit
<1>2. WorldInv /\ WholeInv /\ LinksInv /\ [Next]_vars => (WorldInv /\ WholeInv /\ LinksInv)'
  BY WorldStep, WholeStep, LinksStep
<1> QED
  BY <1>1, <1>2, TypeStep, PTL DEF Spec

-----------------------------------------------------------------------------
(* The release that was public before.                                     *)

Making  == pc \in {"link", "switch"}
Settled == releases \ (orphans \cup IF Making THEN {release} ELSE {})

\* As long as the clock only moves on, every tree but the orphans has been public
\* in its turn: the link names the latest of them, and what it replaced the latest
\* of the others.
InTurn ==
  ~ stepped =>
    /\ \A r \in releases : r.time <= clock
    /\ release # None => /\ release.time <= clock
                         /\ link # None => link.time <= release.time
    /\ link = None => Settled = {} /\ previous = None
    /\ link # None => \A r \in Settled : r.time <= link.time
    /\ previous # None => \A r \in Settled \ {link} : r.time <= previous.time

\* Nothing is doomed before it is listed, and the sets can be counted.
DoomedLate ==
  /\ IsFiniteSet(releases)
  /\ IsFiniteSet(orphans) /\ orphans \subseteq Releases
  /\ pc \notin {"prune", "removing"} => doomed = {}
  /\ pc = "idle" => release = None

\* Whether retention has room for what was public before.
Room == previous # None /\ Cardinality(Between) + 2 <= Keep

\* What was public before is whole and stays so, or it shares its second with a
\* tree that stays.
PreviousKept ==
  ~ stepped /\ Room =>
    \/ previous \in releases \ (partial \cup doomed)
    \/ pc # "list" /\ \E d \in releases \ doomed : d # previous /\ d.time = previous.time

TurnInv == InTurn /\ DoomedLate /\ PreviousKept

LEMMA TurnInit == Init => TurnInv
BY FS_EmptySet DEF Init, TurnInv, InTurn, DoomedLate, PreviousKept, Room, Settled, Making

LEMMA OlderOrder ==
  /\ \A a \in Releases : ~ Older(a, a)
  /\ \A a, b, c \in Releases : Older(a, b) /\ Older(b, c) => Older(a, c)
<1>1. \A a \in Releases : a.time \in Int /\ Digest[a.content] \in Int
  BY ContentAssumption DEF Releases, Times
<1> QED
  BY <1>1 DEF Older

\* A tree that was left behind makes the room smaller, never larger.
LEMMA RoomShrinks ==
  ASSUME DoomedLate, DoomedLate', previous' = previous, orphans \subseteq orphans', Room'
  PROVE  Room
<1>1. Between \subseteq Between' /\ Between' \subseteq orphans'
  BY DEF Between, Older
<1>2. IsFiniteSet(Between')
  BY <1>1, FS_Subset DEF DoomedLate
<1>3. /\ Cardinality(Between) <= Cardinality(Between')
      /\ Cardinality(Between) \in Nat /\ Cardinality(Between') \in Nat
  BY <1>1, <1>2, FS_Subset, FS_CardinalityType
<1> QED
  BY <1>3, KeepAssumption DEF Room

\* Of the trees newer than what was public before, those of its own second reach
\* the retained ones: the newest of them has at most the orphans and the current
\* one above it.
LEMMA NewestStays ==
  ASSUME IsFiniteSet(releases), releases \subseteq Releases, DoomedLate, Room,
         previous \in releases, previous \notin Retained,
         \A r \in releases \ (orphans \cup {release}) : r.time <= previous.time
  PROVE  \E d \in releases \cap Retained : d # previous /\ d.time = previous.time
<1> DEFINE O == Between \cup {release}
           D == Newer(previous) \ O
           N == {n \in Nat : \E d \in D : Cardinality(Newer(d)) = n}
<1>1. \A a \in Releases : a.time \in Int
  BY DEF Releases, Times
<1>2. \A d \in releases : /\ Newer(d) \in SUBSET releases /\ IsFiniteSet(Newer(d))
                          /\ Cardinality(Newer(d)) \in Nat
  BY FS_Subset, FS_CardinalityType DEF Newer
<1>3. IsFiniteSet(O) /\ Cardinality(O) \in Nat /\ Cardinality(O) < Keep
  <2>1. Between \subseteq orphans
    BY DEF Between
  <2>2. IsFiniteSet(Between) /\ Cardinality(Between) \in Nat
    BY <2>1, FS_Subset, FS_CardinalityType DEF DoomedLate
  <2>3. /\ IsFiniteSet(O)
        /\ Cardinality(O) = IF release \in Between THEN Cardinality(Between)
                                                  ELSE Cardinality(Between) + 1
    BY <2>2, FS_AddElement
  <2> QED
    BY <2>2, <2>3, KeepAssumption DEF Room
<1>4. \A d \in releases : Newer(d) \subseteq O => Cardinality(Newer(d)) < Keep
  <2> TAKE d \in releases
  <2>1. Newer(d) \subseteq O => Cardinality(Newer(d)) <= Cardinality(O)
    BY <1>3, FS_Subset
  <2> HIDE DEF O
  <2> QED
    BY <1>2, <1>3, <2>1, KeepAssumption
<1>5. D # {}
  <2>1. ~ (Cardinality(Newer(previous)) < Keep)
    BY DEF Retained
  <2>2. ~ (Newer(previous) \subseteq O)
    BY <1>4, <2>1
  <2> QED
    BY <2>2
<1>6. \A d \in D : /\ d \in releases /\ d # release /\ d # previous
                  /\ Older(previous, d) /\ d.time = previous.time
  <2> TAKE d \in D
  <2>1. d \in releases /\ d # release /\ Older(previous, d) /\ d \notin Between
    BY DEF Newer
  <2>2. d \notin orphans
    BY <2>1 DEF Between
  <2>3. d.time <= previous.time /\ previous.time <= d.time
    BY <1>1, <2>1, <2>2 DEF Older
  <2> QED
    BY <1>1, <2>1, <2>3, OlderOrder
<1>7. N \in SUBSET Nat /\ N # {}
  BY <1>2, <1>5, <1>6
<1>8. PICK d \in D : \A e \in D : Cardinality(Newer(d)) <= Cardinality(Newer(e))
  <2>1. PICK n \in N : \A m \in N : n <= m
    BY <1>7, LeastNumber
  <2>2. PICK d \in D : Cardinality(Newer(d)) = n
    BY <2>1
  <2>3. \A e \in D : Cardinality(Newer(e)) \in N
    BY <1>2, <1>6
  <2> QED
    BY <2>1, <2>2, <2>3
<1>9. Newer(d) \subseteq O
  <2> SUFFICES ASSUME NEW s \in Newer(d), s \notin O PROVE FALSE
    OBVIOUS
  <2>1. s \in releases /\ d \in releases /\ Older(previous, d) /\ Older(d, s)
    BY <1>6 DEF Newer
  <2>2. s \in D
    BY <2>1, OlderOrder DEF Newer
  <2>3. Newer(s) \in SUBSET Newer(d)
    BY <2>1, OlderOrder DEF Newer
  <2>4. s \in Newer(d) /\ s \notin Newer(s)
    BY <2>1, OlderOrder DEF Newer
  <2>5. Cardinality(Newer(s)) <= Cardinality(Newer(d))
        /\ (Cardinality(Newer(s)) = Cardinality(Newer(d)) => Newer(s) = Newer(d))
    BY <1>2, <2>1, <2>3, FS_Subset
  <2>6. Cardinality(Newer(d)) <= Cardinality(Newer(s))
    BY <1>8, <2>2
  <2>7. Cardinality(Newer(s)) \in Nat /\ Cardinality(Newer(d)) \in Nat
    BY <1>2, <2>1
  <2>8. Cardinality(Newer(s)) = Cardinality(Newer(d))
    BY <2>5, <2>6, <2>7
  <2> QED
    BY <2>4, <2>5, <2>8
<1>10. d \in releases /\ d # previous /\ d.time = previous.time
  BY <1>6
<1>11. d \in Retained
  BY <1>4, <1>9, <1>10 DEF Retained
<1> QED
  BY <1>10, <1>11

\* Steps that leave the trees, the link and what came before it alone.
LEMMA TurnSame ==
  ASSUME WorldInv, WholeInv, LinksInv, TurnInv, clock' \in Times, clock <= clock',
         UNCHANGED <<releases, partial, link, previous, orphans, stepped>>,
         Making' = Making, doomed' = doomed \/ doomed' = {},
         release' = release \/ (release' = None /\ ~ Making),
         pc' \notin {"prune", "removing"} => doomed' = {},
         pc' = "idle" => release' = None,
         pc' = "list" => pc = "list"
  PROVE  TurnInv'
<1>1. clock \in Int /\ clock' \in Int /\ \A r \in Releases : r.time \in Int
  BY DEF WorldInv, Times, Releases
<1>2. releases \subseteq Releases /\ link \in Releases \cup {None}
      /\ release \in Releases \cup {None}
  BY DEF WholeInv, Standing, LinksInv
<1>3. Settled' = Settled
  BY DEF Settled
<1>4. InTurn'
  BY <1>1, <1>2, <1>3 DEF TurnInv, InTurn
<1>5. DoomedLate'
  BY DEF TurnInv, DoomedLate
<1>6. PreviousKept'
  BY DEF TurnInv, PreviousKept, Room, Between, Older
<1> QED
  BY <1>4, <1>5, <1>6 DEF TurnInv

\* Nothing is claimed once the clock has stepped back but that the trees can be
\* counted.
LEMMA TurnBack ==
  ASSUME TurnInv, ClockBack
  PROVE  TurnInv'
<1>1. stepped' /\ UNCHANGED <<releases, orphans, doomed, pc, release>>
  BY DEF ClockBack, volumeVars, processVars
<1> QED
  BY <1>1 DEF TurnInv, InTurn, DoomedLate, PreviousKept

\* A run that ends early leaves its tree, if it has promoted one, as an orphan.
LEMMA TurnFault ==
  ASSUME WorldInv, WholeInv, LinksInv, TurnInv, DiskFails \/ Crash
  PROVE  TurnInv'
<1>1. /\ UNCHANGED <<clock, releases, partial, link, previous, stepped>>
      /\ orphans' = Orphaned /\ pc' = "idle" /\ release' = None /\ doomed' = {}
  BY DEF DiskFails, Crash, Forget, volumeVars
<1>2. orphans' = orphans \cup (IF Making THEN {release} ELSE {})
  BY <1>1 DEF Orphaned, Making
<1>3. Making => release \in Releases
  BY NoneAssumption DEF Making, WholeInv, Underway
<1>4. Settled' = Settled
  BY <1>1, <1>2 DEF Settled, Making
<1>5. InTurn'
  BY <1>1, <1>4 DEF TurnInv, InTurn
<1>6. DoomedLate'
  BY <1>1, <1>2, <1>3, FS_AddElement DEF TurnInv, DoomedLate
<1>7. ~ stepped' /\ Room' => ~ stepped /\ Room
  BY <1>1, <1>2, <1>6, RoomShrinks DEF TurnInv
<1>8. PreviousKept'
  BY <1>1, <1>7 DEF TurnInv, PreviousKept
<1> QED
  BY <1>5, <1>6, <1>8 DEF TurnInv

LEMMA TurnStart ==
  ASSUME WorldInv, WholeInv, LinksInv, TurnInv, Start
  PROVE  TurnInv'
<1>1. /\ release'.time = clock /\ pc = "idle" /\ pc' = "updating"
      /\ UNCHANGED <<clock, releases, partial, link, previous, orphans, stepped, doomed>>
  BY DEF Start, volumeVars, historyVars
<1>2. link # None => link \in releases
  BY DEF WholeInv, Standing
<1>3. Settled' = Settled /\ clock \in Int
  BY <1>1 DEF Settled, Making, WorldInv, Times
<1>4. InTurn'
  BY <1>1, <1>2, <1>3 DEF TurnInv, InTurn
<1>5. DoomedLate' /\ PreviousKept'
  BY <1>1 DEF TurnInv, DoomedLate, PreviousKept, Room, Between, Older
<1> QED
  BY <1>4, <1>5 DEF TurnInv

LEMMA TurnPromote ==
  ASSUME WorldInv, WholeInv, LinksInv, TurnInv, Promote
  PROVE  TurnInv'
<1>1. /\ release \notin releases /\ releases' = releases \cup {release}
      /\ partial' = partial /\ pc = "promote" /\ pc' = "link" /\ release \in Releases
      /\ UNCHANGED <<clock, release, link, previous, orphans, stepped, doomed>>
  BY NoneAssumption DEF Promote, WholeInv, Underway, historyVars
<1>2. Settled' = Settled
  BY <1>1 DEF Settled, Making
<1>3. InTurn'
  BY <1>1, <1>2, NoneAssumption DEF TurnInv, InTurn
<1>4. DoomedLate'
  BY <1>1, FS_AddElement DEF TurnInv, DoomedLate
<1>5. PreviousKept'
  BY <1>1 DEF TurnInv, PreviousKept, Room, Between, Older
<1> QED
  BY <1>3, <1>4, <1>5 DEF TurnInv

LEMMA TurnSwitch ==
  ASSUME WorldInv, WholeInv, LinksInv, TurnInv, Switch
  PROVE  TurnInv'
<1>1. /\ link' = release /\ previous' = link /\ pc = "switch" /\ pc' = "list"
      /\ release \in Releases /\ release # None
      /\ UNCHANGED <<clock, releases, partial, release, orphans, stepped, doomed>>
  BY NoneAssumption DEF Switch, WholeInv, Underway
<1>2. link # None => link \in releases \ partial
  BY DEF WholeInv, Standing
<1>3. Settled' = releases \ orphans /\ Settled = releases \ (orphans \cup {release})
  BY <1>1 DEF Settled, Making
<1>4. \A r \in Releases : r.time \in Int
  BY DEF Releases, Times
<1>5. releases \subseteq Releases
  BY DEF WholeInv, Standing
<1>6. InTurn'
  <2> SUFFICES ASSUME ~ stepped PROVE InTurn'
    BY <1>1 DEF InTurn
  <2>1. \A r \in releases : r.time <= clock
    BY DEF TurnInv, InTurn
  <2>2. \A r \in releases \ (orphans \cup {release}) : link # None /\ r.time <= link.time
    BY <1>3 DEF TurnInv, InTurn
  <2>3. \A r \in releases \ orphans : r.time <= release.time
    BY <1>1, <1>2, <1>4, <1>5, <2>2 DEF TurnInv, InTurn
  <2> QED
    BY <1>1, <1>3, <1>4, <2>1, <2>2, <2>3 DEF TurnInv, InTurn
<1>7. DoomedLate' /\ PreviousKept'
  BY <1>1, <1>2 DEF TurnInv, DoomedLate, PreviousKept, Room
<1> QED
  BY <1>6, <1>7 DEF TurnInv

\* What is doomed is not what was public before, or a tree of its second stays.
LEMMA TurnList ==
  ASSUME WorldInv, WholeInv, LinksInv, TurnInv, ListReleases
  PROVE  TurnInv'
<1>1. /\ doomed' = releases \ Retained /\ pc = "list" /\ pc' = "prune" /\ link = release
      /\ UNCHANGED <<clock, releases, partial, release, link, previous, orphans, stepped>>
  BY DEF ListReleases, WholeInv, Standing, volumeVars, historyVars
<1>2. Settled' = Settled /\ Settled = releases \ orphans
  BY <1>1 DEF Settled, Making
<1>3. InTurn' /\ DoomedLate'
  BY <1>1, <1>2 DEF TurnInv, InTurn, DoomedLate
<1>4. PreviousKept'
  <2>1. Between' = Between /\ Room' = Room
    BY <1>1 DEF Room, Between, Older
  <2> SUFFICES ASSUME ~ stepped, Room, previous \notin Retained
               PROVE  \E d \in releases \cap Retained : d # previous /\ d.time = previous.time
    BY <1>1, <2>1 DEF TurnInv, PreviousKept
  <2>2. previous \in releases
    BY <1>1 DEF TurnInv, PreviousKept
  <2>3. \A r \in releases \ (orphans \cup {release}) : r.time <= previous.time
    BY <1>1, <1>2 DEF TurnInv, InTurn, Room
  <2>4. IsFiniteSet(releases) /\ releases \subseteq Releases /\ DoomedLate
    BY DEF TurnInv, DoomedLate, WholeInv, Standing
  <2> QED
    BY <2>2, <2>3, <2>4, NewestStays
<1> QED
  BY <1>3, <1>4 DEF TurnInv

LEMMA TurnRemove ==
  ASSUME WorldInv, WholeInv, LinksInv, TurnInv, BeginRemove \/ EndRemove
  PROVE  TurnInv'
<1>1. CASE BeginRemove
  <2>1. PICK r \in doomed : partial' = partial \cup {r}
    BY <1>1 DEF BeginRemove
  <2>2. /\ pc = "prune" /\ pc' = "removing"
        /\ UNCHANGED <<clock, releases, release, link, previous, orphans, stepped, doomed>>
    BY <1>1 DEF BeginRemove, historyVars
  <2>3. Settled' = Settled
    BY <2>2 DEF Settled, Making
  <2> QED
    BY <2>1, <2>2, <2>3 DEF TurnInv, InTurn, DoomedLate, PreviousKept, Room, Between, Older
<1>2. CASE EndRemove
  <2>1. PICK gone \in SUBSET doomed :
          releases' = releases \ gone /\ partial' = partial \ gone /\ doomed' = doomed \ gone
    BY <1>2 DEF EndRemove
  <2>2. /\ pc = "removing" /\ pc' = "prune"
        /\ UNCHANGED <<clock, release, link, previous, orphans, stepped>>
    BY <1>2 DEF EndRemove, historyVars
  <2>3. Settled' \subseteq Settled
    BY <2>1, <2>2 DEF Settled, Making
  <2>4. InTurn'
    BY <2>1, <2>2, <2>3 DEF TurnInv, InTurn
  <2>5. IsFiniteSet(releases')
    BY <2>1, FS_Subset DEF TurnInv, DoomedLate
  <2>6. DoomedLate' /\ PreviousKept'
    BY <2>1, <2>2, <2>5 DEF TurnInv, DoomedLate, PreviousKept, Room, Between, Older
  <2> QED
    BY <2>4, <2>6 DEF TurnInv
<1> QED
  BY <1>1, <1>2

LEMMA TurnStep == WorldInv /\ WholeInv /\ LinksInv /\ TurnInv /\ [Next]_vars => TurnInv'
<1> SUFFICES ASSUME WorldInv, WholeInv, LinksInv, TurnInv, [Next]_vars PROVE TurnInv'
  OBVIOUS
<1>1. clock \in Int /\ \A d \in {doomed} : pc \notin {"prune", "removing"} => d = {}
  BY DEF WorldInv, Times, TurnInv, DoomedLate
<1>2. CASE Tick
  <2>1. clock' \in Times /\ clock <= clock'
    BY <1>2, Bounds DEF Tick, WorldInv, Times
  <2> QED
    BY <1>1, <1>2, <2>1, TurnSame
    DEF Tick, volumeVars, processVars, historyVars, Making, TurnInv, DoomedLate
<1>3. CASE ClockBack
  BY <1>3, TurnBack
<1>4. CASE (\E c \in Contents : SourcesChange(c)) \/ UNCHANGED vars
  BY <1>1, <1>4, TurnSame
  DEF SourcesChange, vars, volumeVars, processVars, historyVars, Making, TurnInv, DoomedLate,
      WorldInv
<1>5. CASE RefuseDrop \/ KeepUnchanged \/ Collide \/ Finish
  BY <1>1, <1>5, TurnSame
  DEF RefuseDrop, KeepUnchanged, Collide, Finish, Forget, volumeVars, historyVars, Making,
      WorldInv
<1>6. CASE MakeStaging \/ WriteArtifacts \/ MakeLink
  BY <1>1, <1>6, TurnSame
  DEF MakeStaging, WriteArtifacts, MakeLink, volumeVars, historyVars, Making, WorldInv
<1>7. CASE Start
  BY <1>7, TurnStart
<1>8. CASE Promote
  BY <1>8, TurnPromote
<1>9. CASE Switch
  BY <1>9, TurnSwitch
<1>10. CASE ListReleases
  BY <1>10, TurnList
<1>11. CASE BeginRemove \/ EndRemove
  BY <1>11, TurnRemove
<1>12. CASE DiskFails \/ Crash
  BY <1>12, TurnFault
<1> QED
  BY <1>2, <1>3, <1>4, <1>5, <1>6, <1>7, <1>8, <1>9, <1>10, <1>11, <1>12 DEF Next, Run

\* A reader of the release that has just been replaced can finish reading it: it
\* stays whole through any number of kills and failures of the disk, for any
\* catalogues and names and any retention with room for the trees that were left
\* behind since, if the clock has not stepped back and no other release was made
\* in the same second.
THEOREM PreviousHolds == Spec => []PreviousSurvives
<1>1. Init => WorldInv /\ WholeInv /\ LinksInv /\ TurnInv
  BY WorldInit, WholeInit, LinksInit, TurnInit
<1>2. WorldInv /\ WholeInv /\ LinksInv /\ TurnInv /\ [Next]_vars
        => (WorldInv /\ WholeInv /\ LinksInv /\ TurnInv)'
  BY WorldStep, WholeStep, LinksStep, TurnStep
<1>3. TurnInv => PreviousSurvives
  BY DEF TurnInv, PreviousKept, Room, PreviousSurvives
<1> QED
  BY <1>1, <1>2, <1>3, PTL DEF Spec

-----------------------------------------------------------------------------
(* How many trees stay.                                                    *)

\* Names are told apart by what is newer than they are, so that no more than Keep
\* of them have fewer than Keep above them, and the current one.
LEMMA RetainedFew ==
  ASSUME IsFiniteSet(releases), releases \subseteq Releases
  PROVE  IsFiniteSet(Retained) /\ Cardinality(Retained) <= Keep + 1
<1> DEFINE Top == {r \in releases : Cardinality(Newer(r)) < Keep}
           f == [r \in Top |-> Cardinality(Newer(r))]
<1>1. \A d \in releases : /\ Newer(d) \in SUBSET releases /\ IsFiniteSet(Newer(d))
                          /\ Cardinality(Newer(d)) \in Nat
  BY FS_Subset, FS_CardinalityType DEF Newer
<1>2. \A a, b \in Releases : a # b => Older(a, b) \/ Older(b, a)
  <2> TAKE a \in Releases, b \in Releases
  <2>1. a.time \in Int /\ b.time \in Int /\ a.content \in Contents /\ b.content \in Contents
        /\ a = [time |-> a.time, content |-> a.content]
        /\ b = [time |-> b.time, content |-> b.content]
    BY DEF Releases, Times
  <2>2. Digest[a.content] \in Int /\ Digest[b.content] \in Int
        /\ (Digest[a.content] = Digest[b.content] => a.content = b.content)
    BY <2>1, ContentAssumption
  <2> QED
    BY <2>1, <2>2 DEF Older
<1>3. \A a, b \in releases : Older(a, b) => Cardinality(Newer(a)) # Cardinality(Newer(b))
  <2> SUFFICES ASSUME NEW a \in releases, NEW b \in releases, Older(a, b)
               PROVE  Cardinality(Newer(a)) # Cardinality(Newer(b))
    OBVIOUS
  <2>1. Newer(b) \in SUBSET Newer(a) /\ b \in Newer(a) /\ b \notin Newer(b)
    BY OlderOrder DEF Newer
  <2>2. Cardinality(Newer(a)) = Cardinality(Newer(b)) => Newer(b) = Newer(a)
    BY <1>1, <2>1, FS_Subset
  <2> QED
    BY <2>1, <2>2
<1>4. Top \in SUBSET releases /\ IsFiniteSet(Top)
  BY FS_Subset
<1>5. 0 \in Int /\ Keep - 1 \in Int /\ IsFiniteSet(0 .. (Keep - 1))
      /\ Cardinality(0 .. (Keep - 1)) = Keep
  BY KeepAssumption, FS_Interval
<1>6. f \in Injection(Top, 0 .. (Keep - 1))
  <2>1. f \in [Top -> 0 .. (Keep - 1)]
    BY <1>1, KeepAssumption
  <2>2. \A a, b \in Top : f[a] = f[b] => a = b
    BY <1>2, <1>3
  <2> QED
    BY <2>1, <2>2 DEF Injection, IsInjective
<1>7. Cardinality(Top) <= Keep
  BY <1>5, <1>6, FS_Injection
<1>8. Retained = Top \cup {release}
  BY DEF Retained
<1>9. Cardinality(Top) \in Nat
  BY <1>4, FS_CardinalityType
<1> HIDE DEF Top
<1> QED
  BY <1>4, <1>7, <1>8, <1>9, KeepAssumption, FS_AddElement

\* What is not doomed is retained, also when a part of the doomed is gone.
RetentionInv ==
  /\ IsFiniteSet(releases)
  /\ pc \in {"prune", "removing"} => releases \ doomed \subseteq Retained

LEMMA RetentionInit == Init => RetentionInv
BY FS_EmptySet DEF Init, RetentionInv

LEMMA RetainedGrows ==
  ASSUME IsFiniteSet(releases), releases' \in SUBSET releases, release' = release
  PROVE  Retained \cap releases' \subseteq Retained'
<1> SUFFICES ASSUME NEW r \in releases', r \in Retained, r # release
             PROVE  Cardinality(Newer(r)') < Keep
  BY DEF Retained
<1>1. Newer(r) \in SUBSET releases /\ Newer(r)' \in SUBSET Newer(r)
  BY DEF Newer, Older
<1>2. IsFiniteSet(Newer(r)) /\ Cardinality(Newer(r)) \in Nat
  BY <1>1, FS_Subset, FS_CardinalityType
<1>3. Cardinality(Newer(r)') <= Cardinality(Newer(r)) /\ Cardinality(Newer(r)') \in Nat
  BY <1>1, <1>2, FS_Subset, FS_CardinalityType
<1>4. Cardinality(Newer(r)) < Keep
  BY DEF Retained
<1> QED
  BY <1>2, <1>3, <1>4, KeepAssumption

LEMMA RetentionStep == RetentionInv /\ WholeInv /\ [Next]_vars => RetentionInv'
<1> SUFFICES ASSUME RetentionInv, WholeInv, [Next]_vars PROVE RetentionInv'
  OBVIOUS
<1>1. CASE EndRemove
  <2>1. PICK gone \in SUBSET doomed : releases' = releases \ gone /\ doomed' = doomed \ gone
    BY <1>1 DEF EndRemove
  <2>2. pc = "removing" /\ release' = release
    BY <1>1 DEF EndRemove
  <2>3. IsFiniteSet(releases') /\ Retained \cap releases' \subseteq Retained'
    BY <2>1, <2>2, FS_Subset, RetainedGrows DEF RetentionInv
  <2> QED
    BY <2>1, <2>2, <2>3 DEF RetentionInv
<1>2. CASE ListReleases
  <2>1. releases' = releases /\ release' = release /\ doomed' = releases \ Retained
    BY <1>2 DEF ListReleases, volumeVars
  <2>2. Retained' = Retained
    BY <2>1 DEF Retained, Newer, Older
  <2> QED
    BY <2>1, <2>2 DEF RetentionInv
<1>3. CASE BeginRemove \/ Tick \/ (\E c \in Contents : SourcesChange(c)) \/ UNCHANGED vars
  <2>1. /\ UNCHANGED <<releases, release, doomed>>
        /\ pc' \in {"prune", "removing"} => pc \in {"prune", "removing"}
    BY <1>3 DEF BeginRemove, Tick, SourcesChange, vars, volumeVars, processVars
  <2>2. Retained' = Retained
    BY <2>1 DEF Retained, Newer, Older
  <2> QED
    BY <2>1, <2>2 DEF RetentionInv
<1>4. CASE Promote
  BY <1>4, FS_AddElement DEF Promote, RetentionInv
<1>5. CASE \/ ClockBack \/ Start \/ RefuseDrop \/ KeepUnchanged \/ MakeStaging
           \/ WriteArtifacts \/ Collide \/ MakeLink \/ Switch \/ Finish \/ DiskFails \/ Crash
  <2>1. releases' = releases /\ pc' \notin {"prune", "removing"}
    BY <1>5 DEF ClockBack, Start, RefuseDrop, KeepUnchanged, MakeStaging, WriteArtifacts,
                Collide, MakeLink, Switch, Finish, DiskFails, Crash, Forget, volumeVars,
                processVars
  <2> QED
    BY <2>1 DEF RetentionInv
<1> QED
  BY <1>1, <1>2, <1>3, <1>4, <1>5 DEF Next, Run

\* A run that publishes leaves no more trees than it is told to keep, and the
\* current one, however many the runs that failed before it have left behind.
THEOREM RetentionHolds == Spec => RetentionBounded
<1> DEFINE A == pc = "prune" /\ pc' = "idle" /\ status' = "published" /\ faults' = faults
             => Cardinality(releases') <= Keep + 1
<1>1. Init => WorldInv /\ WholeInv /\ LinksInv /\ RetentionInv
  BY WorldInit, WholeInit, LinksInit, RetentionInit
<1>2. WorldInv /\ WholeInv /\ LinksInv /\ RetentionInv /\ [Next]_vars
        => (WorldInv /\ WholeInv /\ LinksInv /\ RetentionInv)'
  BY WorldStep, WholeStep, LinksStep, RetentionStep
<1>3. WholeInv /\ LinksInv /\ RetentionInv /\ [Next]_vars => [A]_vars
  <2> SUFFICES ASSUME WholeInv, LinksInv, RetentionInv, Next,
                      pc = "prune", pc' = "idle", faults' = faults
               PROVE  Cardinality(releases') <= Keep + 1
    BY DEF vars, processVars
  <2>1. faults' # faults + 1
    BY DEF LinksInv
  <2>2. Finish
    BY <2>1 DEF Next, Run, Tick, ClockBack, SourcesChange, Start, RefuseDrop, KeepUnchanged,
                MakeStaging, WriteArtifacts, Collide, Promote, MakeLink, Switch, ListReleases,
                BeginRemove, EndRemove, DiskFails, Crash, Fault, processVars
  <2>3. releases' = releases /\ doomed = {}
    BY <2>2 DEF Finish
  <2>4. releases \in SUBSET Retained
    BY <2>3 DEF RetentionInv
  <2>5. IsFiniteSet(Retained) /\ Cardinality(Retained) <= Keep + 1
    BY RetainedFew DEF RetentionInv, WholeInv, Standing
  <2>6. Cardinality(releases) <= Cardinality(Retained)
    BY <2>4, <2>5, FS_Subset
  <2>7. Cardinality(releases) \in Nat /\ Cardinality(Retained) \in Nat
    BY <2>5, FS_CardinalityType DEF RetentionInv
  <2> QED
    BY <2>3, <2>5, <2>6, <2>7, KeepAssumption
<1> QED
  BY <1>1, <1>2, <1>3, PTL DEF Spec, RetentionBounded

=============================================================================
