----------------------------- MODULE MCGpHealth -----------------------------
(* The instance of MCGpUpdater with the thresholds of check-health.         *)
EXTENDS MCGpUpdater, GpHealth

=============================================================================
