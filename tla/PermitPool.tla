----------------------------- MODULE PermitPool -----------------------------
(***************************************************************************)
(* What a counting semaphore promises its users, with no queue, no mutex   *)
(* and no channel: a set of users that asked for a permit, a set of users  *)
(* that hold one, and a capacity an operator may change at any moment.     *)
(* The three gates of jobs.Manager (dlSem, ulSem, heavySem) are used       *)
(* through this contract; module Semaphore is shown to implement it.       *)
(***************************************************************************)
EXTENDS Integers, FiniteSets

CONSTANT Users

VARIABLES
  want,    \* users blocked until a permit is free
  inUse,   \* users that were admitted and have not left
  cap      \* the capacity, at least 1

poolVars == <<want, inUse, cap>>

PoolTypeOK ==
  /\ want \subseteq Users
  /\ inUse \subseteq Users
  /\ want \cap inUse = {}
  /\ cap \in Nat \ {0}

HasRoom == Cardinality(inUse) < cap

Init ==
  /\ want = {}
  /\ inUse = {}
  /\ cap \in Nat \ {0}

\* A user that finds a free permit takes it without waiting.
Enter(u) ==
  /\ u \notin want \cup inUse
  /\ HasRoom
  /\ inUse' = inUse \cup {u}
  /\ UNCHANGED <<want, cap>>

Request(u) ==
  /\ u \notin want \cup inUse
  /\ want' = want \cup {u}
  /\ UNCHANGED <<inUse, cap>>

Admit(u) ==
  /\ u \in want
  /\ HasRoom
  /\ want' = want \ {u}
  /\ inUse' = inUse \cup {u}
  /\ UNCHANGED cap

\* The user's context ended before it was admitted.
Withdraw(u) ==
  /\ u \in want
  /\ want' = want \ {u}
  /\ UNCHANGED <<inUse, cap>>

Leave(u) ==
  /\ u \in inUse
  /\ inUse' = inUse \ {u}
  /\ UNCHANGED <<want, cap>>

\* Shrinking below the number of users inside evicts nobody.
SetCap ==
  /\ cap' \in Nat \ {0}
  /\ UNCHANGED <<want, inUse>>

Next ==
  \/ \E u \in Users : Enter(u) \/ Request(u) \/ Admit(u) \/ Withdraw(u) \/ Leave(u)
  \/ SetCap

Spec == Init /\ [][Next]_poolVars
=============================================================================
