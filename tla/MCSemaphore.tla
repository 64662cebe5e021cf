---------------------------- MODULE MCSemaphore -----------------------------
(***************************************************************************)
(* Instances of Semaphore for TLC: three goroutines, limits 0..2 (0 is     *)
(* clamped to 1) so that the queue holds several waiters, the limit drops  *)
(* below what is in use and grows again, and every goroutine may lose its  *)
(* context at any point.                                                   *)
(***************************************************************************)
EXTENDS Semaphore, TLC

CONSTANTS c1, c2, c3

MCClients == {c1, c2, c3}

\* One permit, as every caller asks, and the 0 that Acquire and Release ignore.
MCWeights == {0, 1}
MCLimits == 0..2
=============================================================================
