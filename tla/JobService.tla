----------------------------- MODULE JobService -----------------------------
(***************************************************************************)
(* What tgdl promises for a job, with no goroutine, context, directory or  *)
(* status message: a submitted job stays pending until it gets one         *)
(* outcome, at most Slots jobs download at the same time, and a restart    *)
(* may interrupt downloads but takes no outcome back.  Only the user can,  *)
(* who cancels a job just when it ends.                                    *)
(***************************************************************************)
EXTENDS Integers, FiniteSets

CONSTANTS
  Jobs,
  Slots,       \* a number, TG_MAX_CONCURRENT_DOWNLOADS
  Cancellable  \* jobs that somebody may cancel

VARIABLES
  outcome,       \* per job
  downloading    \* jobs that hold a download slot

serviceVars == <<outcome, downloading>>

Outcomes == {"done", "failed"}

ServiceTypeOK ==
  /\ outcome \in [Jobs -> {"none", "pending"} \cup Outcomes]
  /\ downloading \subseteq Jobs

Init ==
  /\ outcome = [j \in Jobs |-> "none"]
  /\ downloading = {}

Submit(j) ==
  /\ outcome[j] = "none"
  /\ outcome' = [outcome EXCEPT ![j] = "pending"]
  /\ UNCHANGED downloading

TakeSlot(j) ==
  /\ outcome[j] = "pending"
  /\ j \notin downloading
  /\ Cardinality(downloading) < Slots
  /\ downloading' = downloading \cup {j}
  /\ UNCHANGED outcome

FreeSlot(j) ==
  /\ j \in downloading
  /\ downloading' = downloading \ {j}
  /\ UNCHANGED outcome

\* The process ends: whatever was downloading will have to start again.
Interrupt ==
  /\ downloading' = {}
  /\ UNCHANGED outcome

Finish(j) ==
  /\ outcome[j] = "pending"
  /\ j \notin downloading
  /\ \E o \in Outcomes : outcome' = [outcome EXCEPT ![j] = o]
  /\ UNCHANGED downloading

\* "done" or "failed" gives way to "cancelled", which is no outcome of the job's own.
Withdraw(j) ==
  /\ j \in Cancellable /\ outcome[j] \in Outcomes
  /\ outcome' = [outcome EXCEPT ![j] = "pending"]
  /\ UNCHANGED downloading

Next ==
  \/ \E j \in Jobs : Submit(j) \/ TakeSlot(j) \/ FreeSlot(j) \/ Finish(j) \/ Withdraw(j)
  \/ Interrupt

Spec == Init /\ [][Next]_serviceVars
=============================================================================
