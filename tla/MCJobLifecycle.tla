--------------------------- MODULE MCJobLifecycle ---------------------------
(***************************************************************************)
(* Instances of JobLifecycle for TLC: one or two jobs of one chat, one     *)
(* download slot so that a job waits while the other downloads, and one    *)
(* restart, graceful or not, at any point of either job.                   *)
(***************************************************************************)
EXTENDS JobLifecycle

CONSTANTS j1, j2, s1

MCTwoJobs == {j1, j2}
MCFirstJob == {j1}
MCNoJob == {}
MCOneSender == {s1}
=============================================================================
