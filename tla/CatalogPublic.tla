---------------------------- MODULE CatalogPublic ----------------------------
(***************************************************************************)
(* What the catalogue job promises to those who read the public tree: the  *)
(* catalogue they see is replaced at one instant by another whole one that *)
(* lost few records, a run replaces it at most once, and what a run says   *)
(* of itself afterwards is true of the public tree.                        *)
(*                                                                         *)
(* CatalogRelease implements this with trees, links and renames;           *)
(* CatalogUpdate uses it for the end of a run.                             *)
(***************************************************************************)
EXTENDS Integers

CONSTANTS
  Contents,       \* the catalogues the sources may merge into
  CountOf,        \* records of each catalogue
  DropPercent,    \* maximum_record_drop_fraction, in percent
  None            \* nothing is public, or no run is on

VARIABLES
  public,     \* the catalogue a reader gets
  job,        \* the catalogue of the run that is on
  switched,   \* the run has replaced the public one
  outcome     \* what the last run said of itself

vars == <<public, job, switched, outcome>>

\* Too many of the old catalogue's records are missing from the new one.
DropsTooMuch(old, new) ==
  old # None /\ 100 * CountOf[new] < CountOf[old] * (100 - DropPercent)

Init == public = None /\ job = None /\ switched = FALSE /\ outcome = "none"

Begin(c) ==
  /\ job = None
  /\ job' = c
  /\ UNCHANGED <<public, switched, outcome>>

Publish ==
  /\ job # None
  /\ ~ switched
  /\ public # job
  /\ ~ DropsTooMuch(public, job)
  /\ public' = job
  /\ switched' = TRUE
  /\ UNCHANGED <<job, outcome>>

\* A run that is killed, or ended by an error nobody catches, says nothing.
Leave == job # None /\ job' = None /\ switched' = FALSE /\ UNCHANGED public

End(said) == Leave /\ outcome' = said

\* A run that came to no catalogue.
Abandoned ==
  /\ job = None
  /\ outcome' = "failed"
  /\ UNCHANGED <<public, job, switched>>

EndPublished == switched /\ End("published")
EndUnchanged == ~ switched /\ public = job /\ End("unchanged")
EndFailed    == End("failed")
Killed       == Leave /\ UNCHANGED outcome

Next ==
  \/ \E c \in Contents : Begin(c)
  \/ Publish \/ EndPublished \/ EndUnchanged \/ EndFailed \/ Killed \/ Abandoned

Spec == Init /\ [][Next]_vars

=============================================================================
