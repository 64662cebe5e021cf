-------------------------- MODULE SemaphoreProofs ---------------------------
(***************************************************************************)
(* Proofs about Semaphore for any set of clients and any limits: typing    *)
(* for arbitrary weights, and, for callers that take one permit each,      *)
(* conservation of permits, the absence of lost wakeups and the            *)
(* implementation of PermitPool.                                           *)
(***************************************************************************)
EXTENDS Semaphore, FiniteSetTheorems, SequenceTheorems, TLAPS

(***************************************************************************)
(* Taking one element out of a sequence (the append of line 56).           *)
(***************************************************************************)
LEMMA RemoveAtProperties ==
  ASSUME NEW S, NEW s \in Seq(S), NEW i \in 1..Len(s)
  PROVE  /\ RemoveAt(s, i) \in Seq(S)
         /\ Len(RemoveAt(s, i)) = Len(s) - 1
         /\ \A j \in 1..(Len(s) - 1) :
               RemoveAt(s, i)[j] = IF j < i THEN s[j] ELSE s[j + 1]
<1> DEFINE a == SubSeq(s, 1, i - 1)
           b == SubSeq(s, i + 1, Len(s))
<1>1. a \in Seq(S) /\ Len(a) = i - 1 /\ \A j \in 1..(i - 1) : a[j] = s[j]
  BY SubSeqProperties
<1>2. b \in Seq(S) /\ Len(b) = Len(s) - i /\ \A j \in 1..(Len(s) - i) : b[j] = s[i + j]
  BY SubSeqProperties
<1>3. /\ a \o b \in Seq(S)
      /\ Len(a \o b) = Len(a) + Len(b)
      /\ \A j \in 1..(Len(a) + Len(b)) :
            (a \o b)[j] = IF j <= Len(a) THEN a[j] ELSE b[j - Len(a)]
  <2> HIDE DEF a, b
  <2>1. QED  BY <1>1, <1>2, ConcatProperties
<1>4. RemoveAt(s, i) = a \o b
  BY DEF RemoveAt
<1>5. ASSUME NEW j \in 1..(Len(s) - 1)
      PROVE  (a \o b)[j] = IF j < i THEN s[j] ELSE s[j + 1]
  <2> HIDE DEF a, b
  <2>1. CASE j < i
    BY <1>1, <1>2, <1>3, <2>1
  <2>2. CASE ~(j < i)
    <3>1. j - (i - 1) \in 1..(Len(s) - i) /\ i + (j - (i - 1)) = j + 1
      BY <2>2
    <3>2. b[j - (i - 1)] = s[j + 1]
      BY <1>2, <3>1
    <3>3. QED  BY <1>1, <1>2, <1>3, <2>2, <3>1, <3>2
  <2>3. QED  BY <2>1, <2>2
<1>6. Len(a \o b) = Len(s) - 1
  <2> HIDE DEF a, b
  <2>1. QED  BY <1>1, <1>2, <1>3
<1>7. QED
  <2> HIDE DEF a, b
  <2>1. QED  BY <1>3, <1>4, <1>5, <1>6

-----------------------------------------------------------------------------
(***************************************************************************)
(* Every reachable state is well typed, for arbitrary weights and limits.  *)
(***************************************************************************)
LEMMA InitType == Init => TypeOK
<1> SUFFICES ASSUME Init PROVE TypeOK
  OBVIOUS
<1>1. limit \in Nat \ {0}
  <2>1. PICK m \in Limits : limit = AtLeastOne(m)
    BY DEF Init
  <2>2. m \in Int
    BY LimitsAssumption
  <2>3. QED  BY <2>1, <2>2 DEF AtLeastOne
<1>2. waiters \in Seq(Clients)
  BY EmptySeq DEF Init
<1>3. cur \in Int /\ ready \subseteq Clients /\ done \subseteq Clients
  BY DEF Init
<1>6. notifying \in BOOLEAN
  BY Zenon DEF Init
<1>4. pc \in [Clients -> PcValues]
  BY DEF Init, PcValues
<1>5. need \in [Clients -> Weights \cup {0}]
  BY DEF Init
<1>7. QED
  BY <1>1, <1>2, <1>3, <1>4, <1>5, <1>6 DEF TypeOK

LEMMA NextType == TypeOK /\ [Next]_vars => TypeOK'
<1> SUFFICES ASSUME TypeOK, [Next]_vars PROVE TypeOK'
  OBVIOUS
<1> USE WeightsAssumption, LimitsAssumption DEF TypeOK, PcValues
<1>1. ASSUME NEW c \in Clients, NEW n \in Weights, AcquireNothing(c, n) PROVE TypeOK'
  BY <1>1 DEF AcquireNothing, Start
<1>2. ASSUME NEW c \in Clients, NEW n \in Weights, AcquireFast(c, n) PROVE TypeOK'
  BY <1>2 DEF AcquireFast, Start, Fits
<1>3. ASSUME NEW c \in Clients, NEW n \in Weights, Enqueue(c, n) PROVE TypeOK'
  <2>1. waiters' \in Seq(Clients)
    BY <1>3, AppendProperties DEF Enqueue
  <2>2. QED  BY <1>3, <2>1 DEF Enqueue, Start
<1>4. ASSUME NEW c \in Clients, Wake(c) PROVE TypeOK'
  BY <1>4 DEF Wake
<1>5. ASSUME NEW c \in Clients, SeeDone(c) PROVE TypeOK'
  BY <1>5 DEF SeeDone
<1>6. ASSUME NEW c \in Clients, CancelGranted(c) PROVE TypeOK'
  BY <1>6 DEF CancelGranted
<1>7. ASSUME NEW c \in Clients, CancelQueued(c) PROVE TypeOK'
  <2>1. waiters' \in Seq(Clients)
    BY <1>7, RemoveAtProperties DEF CancelQueued
  <2>2. QED  BY <1>7, <2>1 DEF CancelQueued
<1>8. ASSUME NEW c \in Clients, Release(c) PROVE TypeOK'
  BY <1>8 DEF Release
<1>9. ASSUME NEW c \in Clients, ReleaseNothing(c) PROVE TypeOK'
  BY <1>9 DEF ReleaseNothing
<1>10. ASSUME NEW c \in Clients, ContextDone(c) PROVE TypeOK'
  BY <1>10 DEF ContextDone
<1>11. ASSUME NEW m \in Limits, Resize(m) PROVE TypeOK'
  BY <1>11 DEF Resize, AtLeastOne
<1>12. CASE NotifyHead
  <2>1. Head(waiters) \in Clients /\ Tail(waiters) \in Seq(Clients)
    BY <1>12, HeadTailProperties DEF NotifyHead
  <2>2. QED  BY <1>12, <2>1 DEF NotifyHead, Fits
<1>13. CASE NotifyEnd
  BY <1>13 DEF NotifyEnd
<1>14. CASE UNCHANGED vars
  BY <1>14 DEF vars
<1>15. QED
  BY <1>1, <1>2, <1>3, <1>4, <1>5, <1>6, <1>7, <1>8, <1>9, <1>10, <1>11, <1>12,
     <1>13, <1>14 DEF Next

THEOREM TypeCorrect == Spec => []TypeOK
<1>1. QED  BY InitType, NextType, PTL DEF Spec

-----------------------------------------------------------------------------
(***************************************************************************)
(* The inductive invariant for callers that take one permit.               *)
(***************************************************************************)
Blocked == {"waiting", "cancelling"}

\* A waiter in the queue is blocked, has no grant, and queues once.
QueueInv ==
  /\ \A i \in 1..Len(waiters) : pc[waiters[i]] \in Blocked /\ waiters[i] \notin ready
  /\ \A i, j \in 1..Len(waiters) : waiters[i] = waiters[j] => i = j

\* A grant not yet looked at belongs to a blocked client.
ReadyInv == \A c \in ready : pc[c] \in Blocked

NeedInv ==
  \A c \in Clients :
     /\ need[c] \in Int /\ need[c] <= 1
     /\ pc[c] = "idle" => need[c] = 0
     /\ pc[c] \in Blocked => need[c] = 1

UnitInv ==
  /\ TypeOK
  /\ QueueInv
  /\ ReadyInv
  /\ NeedInv
  /\ PermitsConserved
  /\ NoLostWakeup

LEMMA InitUnit == Init => UnitInv
<1> SUFFICES ASSUME Init PROVE UnitInv
  OBVIOUS
<1>1. TypeOK
  BY InitType
<1>2. Len(waiters) = 0
  BY DEF Init
<1>3. QueueInv
  BY <1>2 DEF QueueInv
<1>4. ReadyInv /\ NeedInv /\ NoLostWakeup
  BY DEF Init, ReadyInv, NeedInv, NoLostWakeup, Blocked
<1>5. Granted = {}
  BY DEF Init, Granted
<1>6. PermitsConserved
  BY <1>5, FS_EmptySet DEF Init, PermitsConserved
<1>7. QED  BY <1>1, <1>3, <1>4, <1>6 DEF UnitInv

LEMMA GrantedFinite == IsFiniteSet(Granted)
<1>1. Granted \subseteq Clients
  BY DEF Granted
<1>2. QED  BY <1>1, ClientsAssumption, FS_Subset

\* What a step does to the set of admitted clients and to cur.
LEMMA GrantOne ==
  ASSUME NEW c \in Clients, c \notin Granted, Granted' = Granted \cup {c},
         cur' = cur + 1, PermitsConserved
  PROVE  PermitsConserved'
BY GrantedFinite, FS_AddElement, FS_CardinalityType DEF PermitsConserved

LEMMA RevokeOne ==
  ASSUME NEW c \in Granted, Granted' = Granted \ {c}, cur' = cur - 1, PermitsConserved
  PROVE  PermitsConserved'
BY GrantedFinite, FS_RemoveElement, FS_CardinalityType DEF PermitsConserved

LEMMA GrantNone ==
  ASSUME Granted' = Granted, cur' = cur, PermitsConserved
  PROVE  PermitsConserved'
BY DEF PermitsConserved

\* An admitted client counts for one, so no release ever goes below zero.
LEMMA GrantedCounted ==
  ASSUME PermitsConserved, NEW c \in Granted
  PROVE  cur \in Nat /\ cur >= 1
<1>1. Cardinality(Granted \ {c}) = Cardinality(Granted) - 1
  BY GrantedFinite, FS_RemoveElement
<1>2. Cardinality(Granted \ {c}) \in Nat /\ Cardinality(Granted) \in Nat
  BY GrantedFinite, FS_RemoveElement, FS_CardinalityType
<1>3. QED  BY <1>1, <1>2 DEF PermitsConserved

LEMMA NextUnit == UnitWeights /\ UnitInv /\ [Next]_vars => UnitInv'
<1> SUFFICES ASSUME UnitWeights, UnitInv, [Next]_vars PROVE UnitInv'
  OBVIOUS
<1>0. TypeOK /\ TypeOK' /\ QueueInv /\ ReadyInv /\ NeedInv /\ PermitsConserved /\ NoLostWakeup
  BY NextType DEF UnitInv
<1> USE DEF Blocked
<1>1. ASSUME NEW c \in Clients, NEW n \in Weights, AcquireNothing(c, n) PROVE UnitInv'
  <2>1. n \in Int /\ n <= 0 /\ pc[c] = "idle" /\ c \notin ready
    BY <1>0, <1>1, WeightsAssumption DEF AcquireNothing, Start, ReadyInv
  <2>2. \A i \in 1..Len(waiters) : waiters[i] \in Clients /\ waiters[i] # c
    BY <1>0, <2>1 DEF QueueInv, TypeOK
  <2>3. QueueInv' /\ NoLostWakeup'
    BY <1>0, <1>1, <2>2 DEF AcquireNothing, Start, QueueInv, NoLostWakeup, TypeOK
  <2>4. ReadyInv' /\ NeedInv'
    BY <1>0, <1>1, <2>1 DEF AcquireNothing, Start, ReadyInv, NeedInv, TypeOK
  <2>5. Granted' = Granted /\ cur' = cur
    BY <1>0, <1>1, <2>1 DEF AcquireNothing, Start, Granted, NeedInv, TypeOK
  <2>6. PermitsConserved'
    BY <1>0, <2>5, GrantNone
  <2>7. QED  BY <1>0, <2>3, <2>4, <2>6 DEF UnitInv
<1>2. ASSUME NEW c \in Clients, NEW n \in Weights, AcquireFast(c, n) PROVE UnitInv'
  <2>1. n = 1 /\ pc[c] = "idle" /\ c \notin ready /\ need[c] = 0
    BY <1>0, <1>2, WeightsAssumption DEF AcquireFast, Start, UnitWeights, ReadyInv, NeedInv
  <2>2. QueueInv' /\ NoLostWakeup'
    BY <1>0, <1>2 DEF AcquireFast, Start, QueueInv, NoLostWakeup, TypeOK
  <2>3. ReadyInv' /\ NeedInv'
    BY <1>0, <1>2, <2>1 DEF AcquireFast, Start, ReadyInv, NeedInv, TypeOK
  <2>4. c \notin Granted /\ Granted' = Granted \cup {c}
    BY <1>0, <1>2, <2>1 DEF AcquireFast, Start, Granted, TypeOK
  <2>5. cur' = cur + 1
    BY <1>2, <2>1 DEF AcquireFast
  <2>6. PermitsConserved'
    BY <1>0, <2>4, <2>5, GrantOne
  <2>7. QED  BY <1>0, <2>2, <2>3, <2>6 DEF UnitInv
<1>3. ASSUME NEW c \in Clients, NEW n \in Weights, Enqueue(c, n) PROVE UnitInv'
  <2>1. n = 1 /\ pc[c] = "idle" /\ c \notin ready /\ need[c] = 0
    BY <1>0, <1>3, WeightsAssumption DEF Enqueue, Start, UnitWeights, ReadyInv, NeedInv
  <2>2. /\ waiters \in Seq(Clients) /\ Len(waiters) \in Nat
        /\ Len(waiters') = Len(waiters) + 1
        /\ \A i \in 1..Len(waiters) : waiters'[i] = waiters[i] /\ waiters[i] \in Clients
        /\ waiters'[Len(waiters) + 1] = c
    BY <1>0, <1>3, AppendProperties DEF Enqueue, TypeOK
  <2>3. \A i \in 1..Len(waiters) : waiters[i] # c
    BY <1>0, <2>1 DEF QueueInv
  <2>4. /\ \A i \in 1..Len(waiters) : pc'[waiters[i]] = pc[waiters[i]]
        /\ pc'[c] = "waiting" /\ ready' = ready
    BY <1>0, <1>3, <2>2, <2>3 DEF Enqueue, TypeOK
  <2>5. \A i \in 1..Len(waiters') : i \in 1..Len(waiters) \/ i = Len(waiters) + 1
    BY <2>2
  <2>6. QueueInv'
    BY <1>0, <2>1, <2>2, <2>3, <2>4, <2>5 DEF QueueInv
  <2>7. ReadyInv' /\ NeedInv'
    BY <1>0, <1>3, <2>1 DEF Enqueue, Start, ReadyInv, NeedInv, TypeOK
  <2>8. NoLostWakeup'
    BY <1>0, <1>3, <2>1 DEF Enqueue, NoLostWakeup, TypeOK, Fits
  <2>9. Granted' = Granted /\ cur' = cur
    BY <1>0, <1>3, <2>1 DEF Enqueue, Start, Granted, TypeOK
  <2>10. PermitsConserved'
    BY <1>0, <2>9, GrantNone
  <2>11. QED  BY <1>0, <2>6, <2>7, <2>8, <2>10 DEF UnitInv
<1>4. ASSUME NEW c \in Clients, Wake(c) PROVE UnitInv'
  <2>1. \A i \in 1..Len(waiters) : waiters[i] \in Clients /\ waiters[i] # c
    BY <1>0, <1>4 DEF Wake, QueueInv, TypeOK
  <2>2. QueueInv' /\ NoLostWakeup'
    BY <1>0, <1>4, <2>1 DEF Wake, QueueInv, NoLostWakeup, TypeOK
  <2>3. ReadyInv' /\ NeedInv'
    BY <1>0, <1>4 DEF Wake, ReadyInv, NeedInv, TypeOK
  <2>4. Granted' = Granted /\ cur' = cur
    BY <1>0, <1>4 DEF Wake, Granted, TypeOK, PcValues
  <2>5. PermitsConserved'
    BY <1>0, <2>4, GrantNone
  <2>6. QED  BY <1>0, <2>2, <2>3, <2>5 DEF UnitInv
<1>5. ASSUME NEW c \in Clients, SeeDone(c) PROVE UnitInv'
  <2>1. \A i \in 1..Len(waiters) : waiters[i] \in Clients
    BY <1>0 DEF TypeOK
  <2>2. QueueInv' /\ NoLostWakeup'
    BY <1>0, <1>5, <2>1 DEF SeeDone, QueueInv, NoLostWakeup, TypeOK
  <2>3. ReadyInv' /\ NeedInv'
    BY <1>0, <1>5 DEF SeeDone, ReadyInv, NeedInv, TypeOK
  <2>4. Granted' = Granted /\ cur' = cur
    BY <1>0, <1>5 DEF SeeDone, Granted, TypeOK, PcValues
  <2>5. PermitsConserved'
    BY <1>0, <2>4, GrantNone
  <2>6. QED  BY <1>0, <2>2, <2>3, <2>5 DEF UnitInv
<1>6. ASSUME NEW c \in Clients, CancelGranted(c) PROVE UnitInv'
  <2>1. need[c] = 1 /\ c \in Granted
    BY <1>0, <1>6 DEF CancelGranted, NeedInv, Granted
  <2>2. \A i \in 1..Len(waiters) : waiters[i] \in Clients /\ waiters[i] # c
    BY <1>0, <1>6 DEF CancelGranted, QueueInv, TypeOK
  <2>3. QueueInv' /\ NoLostWakeup'
    BY <1>0, <1>6, <2>2 DEF CancelGranted, QueueInv, NoLostWakeup, TypeOK
  <2>4. ReadyInv' /\ NeedInv'
    BY <1>0, <1>6 DEF CancelGranted, ReadyInv, NeedInv, TypeOK
  <2>5. Granted' = Granted \ {c}
    BY <1>0, <1>6 DEF CancelGranted, Granted, TypeOK, PcValues
  <2>6. cur' = cur - 1
    BY <1>6, <2>1 DEF CancelGranted
  <2>7. PermitsConserved'
    BY <1>0, <2>1, <2>5, <2>6, RevokeOne
  <2>8. QED  BY <1>0, <2>3, <2>4, <2>7 DEF UnitInv
<1>7. ASSUME NEW c \in Clients, CancelQueued(c) PROVE UnitInv'
  <2>1. PICK i \in 1..Len(waiters) : waiters[i] = c /\ waiters' = RemoveAt(waiters, i)
    BY <1>0, <1>7 DEF CancelQueued, TypeOK
  <2>2. /\ Len(waiters') = Len(waiters) - 1 /\ Len(waiters) \in Nat
        /\ \A j \in 1..(Len(waiters) - 1) :
              waiters'[j] = IF j < i THEN waiters[j] ELSE waiters[j + 1]
    <3>1. waiters \in Seq(Clients)
      BY <1>0 DEF TypeOK
    <3>2. Len(waiters) \in Nat
      BY <3>1
    <3>3. /\ Len(RemoveAt(waiters, i)) = Len(waiters) - 1
          /\ \A j \in 1..(Len(waiters) - 1) :
                RemoveAt(waiters, i)[j] = IF j < i THEN waiters[j] ELSE waiters[j + 1]
      BY <2>1, <3>1, RemoveAtProperties
    <3>4. QED  BY <2>1, <3>2, <3>3
  <2>3. \A j \in 1..Len(waiters') :
           \E k \in 1..Len(waiters) : k # i /\ waiters'[j] = waiters[k]
    BY <2>1, <2>2
  <2>4. \A j \in 1..Len(waiters) : j # i => waiters[j] # c /\ waiters[j] \in Clients
    BY <1>0, <2>1 DEF QueueInv, TypeOK
  <2>5. ready' = ready /\ \A d \in Clients : d # c => pc'[d] = pc[d]
    BY <1>0, <1>7 DEF CancelQueued, TypeOK
  <2>6. \A j \in 1..Len(waiters') : pc'[waiters'[j]] \in Blocked /\ waiters'[j] \notin ready'
    BY <1>0, <2>3, <2>4, <2>5 DEF QueueInv
  <2>7. ASSUME NEW j \in 1..Len(waiters'), NEW k \in 1..Len(waiters'), waiters'[j] = waiters'[k]
        PROVE  j = k
    <3>1. DEFINE p(x) == IF x < i THEN x ELSE x + 1
    <3>2. p(j) \in 1..Len(waiters) /\ p(k) \in 1..Len(waiters)
      BY <2>1, <2>2
    <3>3. waiters[p(j)] = waiters[p(k)]
      BY <2>2, <2>7
    <3>4. p(j) = p(k)
      BY <1>0, <3>2, <3>3 DEF QueueInv
    <3>5. QED  BY <2>1, <2>2, <3>4
  <2>8. QueueInv'
    BY <2>6, <2>7 DEF QueueInv
  <2>9. NoLostWakeup'
    BY <1>0, <1>7, <2>1, <2>2 DEF CancelQueued, NoLostWakeup, TypeOK
  <2>10. ReadyInv' /\ NeedInv'
    BY <1>0, <1>7 DEF CancelQueued, ReadyInv, NeedInv, TypeOK
  <2>11. Granted' = Granted /\ cur' = cur
    BY <1>0, <1>7 DEF CancelQueued, Granted, TypeOK, PcValues
  <2>12. PermitsConserved'
    BY <1>0, <2>11, GrantNone
  <2>13. QED  BY <1>0, <2>8, <2>9, <2>10, <2>12 DEF UnitInv
<1>8. ASSUME NEW c \in Clients, Release(c) PROVE UnitInv'
  <2>1. need[c] = 1 /\ c \in Granted /\ c \notin ready
    BY <1>0, <1>8 DEF Release, NeedInv, Granted, ReadyInv
  <2>2. \A i \in 1..Len(waiters) : waiters[i] \in Clients /\ waiters[i] # c
    BY <1>0, <1>8 DEF Release, QueueInv, TypeOK
  <2>3. QueueInv' /\ NoLostWakeup'
    BY <1>0, <1>8, <2>2 DEF Release, QueueInv, NoLostWakeup, TypeOK
  <2>4. ReadyInv' /\ NeedInv'
    BY <1>0, <1>8, <2>1 DEF Release, ReadyInv, NeedInv, TypeOK
  <2>5. Granted' = Granted \ {c}
    BY <1>0, <1>8, <2>1 DEF Release, Granted, TypeOK, PcValues
  <2>6. cur' = cur - 1
    BY <1>0, <1>8, <2>1, GrantedCounted DEF Release
  <2>7. PermitsConserved'
    BY <1>0, <2>1, <2>5, <2>6, RevokeOne
  <2>8. QED  BY <1>0, <2>3, <2>4, <2>7 DEF UnitInv
<1>9. ASSUME NEW c \in Clients, ReleaseNothing(c) PROVE UnitInv'
  <2>1. \A i \in 1..Len(waiters) : waiters[i] \in Clients /\ waiters[i] # c
    BY <1>0, <1>9 DEF ReleaseNothing, QueueInv, TypeOK
  <2>2. QueueInv' /\ NoLostWakeup'
    BY <1>0, <1>9, <2>1 DEF ReleaseNothing, QueueInv, NoLostWakeup, TypeOK
  <2>3. ReadyInv' /\ NeedInv'
    BY <1>0, <1>9 DEF ReleaseNothing, ReadyInv, NeedInv, TypeOK
  <2>4. Granted' = Granted /\ cur' = cur
    BY <1>0, <1>9 DEF ReleaseNothing, Granted, NeedInv, TypeOK
  <2>5. PermitsConserved'
    BY <1>0, <2>4, GrantNone
  <2>6. QED  BY <1>0, <2>2, <2>3, <2>5 DEF UnitInv
<1>10. ASSUME NEW m \in Limits, Resize(m) PROVE UnitInv'
  <2>1. QueueInv' /\ NoLostWakeup' /\ ReadyInv' /\ NeedInv'
    BY <1>0, <1>10 DEF Resize, QueueInv, NoLostWakeup, ReadyInv, NeedInv
  <2>2. Granted' = Granted /\ cur' = cur
    BY <1>10 DEF Resize, Granted
  <2>3. PermitsConserved'
    BY <1>0, <2>2, GrantNone
  <2>4. QED  BY <1>0, <2>1, <2>3 DEF UnitInv
<1>11. CASE NotifyHead
  <2>1. /\ waiters \in Seq(Clients) /\ waiters # <<>>
        /\ Len(waiters) \in Nat /\ 1 \in 1..Len(waiters)
        /\ Head(waiters) = waiters[1] /\ Head(waiters) \in Clients
        /\ Len(waiters') = Len(waiters) - 1
        /\ \A i \in 1..(Len(waiters) - 1) : waiters'[i] = waiters[i + 1] /\ waiters[i + 1] \in Clients
    BY <1>0, <1>11, HeadTailProperties DEF NotifyHead, TypeOK
  <2>2. DEFINE h == Head(waiters)
  <2>3. h \notin ready /\ pc[h] \in Blocked /\ need[h] = 1 /\ h \notin Granted
    BY <1>0, <2>1 DEF QueueInv, NeedInv, Granted
  <2>4. ASSUME NEW i \in 1..Len(waiters')
        PROVE  /\ i + 1 \in 1..Len(waiters) /\ i + 1 # 1
               /\ waiters'[i] = waiters[i + 1]
               /\ waiters[i + 1] # h
    <3>1. i + 1 \in 1..Len(waiters) /\ i + 1 # 1 /\ waiters'[i] = waiters[i + 1]
      BY <2>1
    <3>2. QED  BY <1>0, <2>1, <3>1 DEF QueueInv
  <2>5. ready' = ready \cup {h} /\ pc' = pc /\ need' = need /\ notifying' = notifying
    BY <1>11 DEF NotifyHead
  <2>6. \A i \in 1..Len(waiters') : pc'[waiters'[i]] \in Blocked /\ waiters'[i] \notin ready'
    BY <1>0, <2>4, <2>5 DEF QueueInv
  <2>7. \A i, j \in 1..Len(waiters') : waiters'[i] = waiters'[j] => i = j
    BY <1>0, <2>1, <2>4 DEF QueueInv
  <2>8. QueueInv'
    BY <2>6, <2>7 DEF QueueInv
  <2>9. ReadyInv' /\ NeedInv' /\ NoLostWakeup'
    BY <1>0, <1>11, <2>3, <2>5 DEF ReadyInv, NeedInv, NoLostWakeup, NotifyHead
  <2>10. Granted' = Granted \cup {h}
    BY <2>1, <2>3, <2>5 DEF Granted
  <2>11. cur' = cur + 1
    BY <1>11, <2>3 DEF NotifyHead
  <2>12. PermitsConserved'
    BY <1>0, <2>1, <2>3, <2>10, <2>11, GrantOne
  <2>13. QED  BY <1>0, <2>8, <2>9, <2>12 DEF UnitInv
<1>12. CASE NotifyEnd
  <2>1. QueueInv' /\ ReadyInv' /\ NeedInv'
    BY <1>0, <1>12 DEF NotifyEnd, QueueInv, ReadyInv, NeedInv
  <2>2. Granted' = Granted /\ cur' = cur
    BY <1>12 DEF NotifyEnd, Granted
  <2>3. PermitsConserved'
    BY <1>0, <2>2, GrantNone
  <2>4. ASSUME waiters # <<>> PROVE need[Head(waiters)] = 1
    <3>1. Head(waiters) = waiters[1] /\ Head(waiters) \in Clients /\ 1 \in 1..Len(waiters)
      BY <1>0, <2>4, HeadTailProperties DEF TypeOK
    <3>2. QED  BY <1>0, <3>1 DEF QueueInv, NeedInv
  <2>5. NoLostWakeup'
    BY <1>0, <1>12, <2>4 DEF NotifyEnd, NoLostWakeup, Fits, TypeOK
  <2>6. QED  BY <1>0, <2>1, <2>3, <2>5 DEF UnitInv
<1>13. ASSUME NEW c \in Clients, ContextDone(c) PROVE UnitInv'
  <2>1. QueueInv' /\ NoLostWakeup' /\ ReadyInv' /\ NeedInv'
    BY <1>0, <1>13 DEF ContextDone, QueueInv, NoLostWakeup, ReadyInv, NeedInv
  <2>2. Granted' = Granted /\ cur' = cur
    BY <1>13 DEF ContextDone, Granted
  <2>3. PermitsConserved'
    BY <1>0, <2>2, GrantNone
  <2>4. QED  BY <1>0, <2>1, <2>3 DEF UnitInv
<1>14. CASE UNCHANGED vars
  <2>1. QueueInv' /\ NoLostWakeup' /\ ReadyInv' /\ NeedInv'
    BY <1>0, <1>14 DEF vars, QueueInv, NoLostWakeup, ReadyInv, NeedInv
  <2>2. Granted' = Granted /\ cur' = cur
    BY <1>14 DEF vars, Granted
  <2>3. PermitsConserved'
    BY <1>0, <2>2, GrantNone
  <2>4. QED  BY <1>0, <2>1, <2>3 DEF UnitInv
<1>15. QED
  BY <1>1, <1>2, <1>3, <1>4, <1>5, <1>6, <1>7, <1>8, <1>9, <1>10, <1>11, <1>12,
     <1>13, <1>14 DEF Next

(***************************************************************************)
(* Whatever is cancelled, resized or raced, the permits in use are those   *)
(* of the clients inside: none leaks, none is handed out twice.            *)
(***************************************************************************)
THEOREM PermitsAreConserved ==
  ASSUME UnitWeights
  PROVE  Spec => []PermitsConserved
<1>1. UnitInv => PermitsConserved
  BY DEF UnitInv
<1>2. UnitInv /\ [Next]_vars => UnitInv'
  BY NextUnit
<1>3. QED  BY InitUnit, <1>1, <1>2, PTL DEF Spec

(***************************************************************************)
(* Nobody queues behind a free permit.                                     *)
(***************************************************************************)
THEOREM WakeupsAreNotLost ==
  ASSUME UnitWeights
  PROVE  Spec => []NoLostWakeup
<1>1. UnitInv => NoLostWakeup
  BY DEF UnitInv
<1>2. UnitInv /\ [Next]_vars => UnitInv'
  BY NextUnit
<1>3. QED  BY InitUnit, <1>1, <1>2, PTL DEF Spec

(***************************************************************************)
(* Whoever is let in, on the fast path or from the queue, finds room under *)
(* the limit of that moment, however the limit moves.                      *)
(***************************************************************************)
THEOREM AdmissionsAreWithinLimit ==
  ASSUME UnitWeights
  PROVE  Spec => AdmissionWithinLimit
<1>1. ASSUME UnitInv, [Next]_vars, NEW c \in Clients, c \in Granted' \ Granted
      PROVE  cur' <= limit'
  <2>1. ASSUME NEW d \in Clients, NEW n \in Weights, AcquireFast(d, n) PROVE cur' <= limit'
    BY <2>1 DEF AcquireFast, Fits
  <2>2. CASE NotifyHead
    BY <2>2 DEF NotifyHead, Fits
  <2>3. ASSUME NEW d \in Clients, NEW n \in Weights, AcquireNothing(d, n) \/ Enqueue(d, n)
        PROVE  Granted' \subseteq Granted
    <3>1. pc[d] = "idle" /\ d \notin ready
      BY <1>1, <2>3 DEF AcquireNothing, Enqueue, Start, UnitInv, ReadyInv, Blocked
    <3>2. CASE AcquireNothing(d, n)
      BY <1>1, <3>1, <3>2, WeightsAssumption DEF AcquireNothing, Start, Granted, UnitInv, TypeOK
    <3>3. CASE Enqueue(d, n)
      BY <1>1, <3>1, <3>3 DEF Enqueue, Start, Granted, UnitInv, TypeOK
    <3>4. QED  BY <2>3, <3>2, <3>3
  <2>4. ASSUME NEW d \in Clients,
               \/ Wake(d) \/ SeeDone(d) \/ CancelGranted(d) \/ CancelQueued(d)
               \/ Release(d) \/ ReleaseNothing(d) \/ ContextDone(d)
        PROVE  Granted' \subseteq Granted
    BY <1>1, <2>4 DEF Wake, SeeDone, CancelGranted, CancelQueued, Release, ReleaseNothing,
                      ContextDone, Granted, UnitInv, TypeOK, PcValues
  <2>5. ASSUME NotifyEnd \/ UNCHANGED vars \/ \E m \in Limits : Resize(m)
        PROVE  Granted' \subseteq Granted
    BY <2>5 DEF NotifyEnd, Resize, vars, Granted
  <2>6. QED  BY <1>1, <2>1, <2>2, <2>3, <2>4, <2>5 DEF Next
<1>2. UnitInv /\ [Next]_vars => [\A c \in Clients : c \in Granted' \ Granted => cur' <= limit']_vars
  BY <1>1
<1>3. UnitInv /\ [Next]_vars => UnitInv'
  BY NextUnit
<1>4. QED  BY InitUnit, <1>2, <1>3, PTL DEF Spec, AdmissionWithinLimit

-----------------------------------------------------------------------------
(***************************************************************************)
(* The refinement: a step of the semaphore is a step of the pool, or       *)
(* leaves the pool's state as it is.                                       *)
(***************************************************************************)
Queued == {c \in Clients : pc[c] \in {"waiting", "cancelling"}} \ ready

LEMMA InitPool ==
  ASSUME UnitWeights, Init
  PROVE  Pool!Init
<1>1. Granted = {} /\ {c \in Clients : pc[c] \in {"waiting", "cancelling"}} \ ready = {}
  BY DEF Init, Granted
<1>2. limit \in Nat \ {0}
  BY LimitsAssumption DEF Init, AtLeastOne
<1>3. QED  BY <1>1, <1>2 DEF Pool!Init

LEMMA NextPool ==
  ASSUME UnitWeights, TypeOK, TypeOK', UnitInv, [Next]_vars
  PROVE  [Pool!Next]_Pool!poolVars
<1> USE DEF UnitWeights
<1>0. Pool!poolVars = <<Queued, Granted, limit>>
  BY DEF Pool!poolVars, Queued
<1>1. ASSUME Queued' = Queued, Granted' = Granted, limit' = limit
      PROVE  [Pool!Next]_Pool!poolVars
  BY <1>1 DEF Pool!poolVars, Queued
<1>2. ASSUME Fits(1) PROVE Pool!HasRoom
  <2>1. Pool!Cardinality(Granted) = Cardinality(Granted)
    BY DEF Pool!Cardinality, Cardinality, Pool!IsFiniteSet, IsFiniteSet
  <2>2. Cardinality(Granted) < limit
    BY <1>2 DEF Fits, UnitInv, PermitsConserved, TypeOK
  <2>3. QED  BY <2>1, <2>2 DEF Pool!HasRoom
<1>3. ASSUME NEW c \in Clients, NEW n \in Weights, AcquireNothing(c, n)
      PROVE  [Pool!Next]_Pool!poolVars
  <2>1. n \in Int /\ n <= 0 /\ pc[c] = "idle" /\ c \notin ready /\ need[c] = 0
    BY <1>3, WeightsAssumption DEF AcquireNothing, Start, UnitInv, ReadyInv, NeedInv, Blocked
  <2>2. Queued' = Queued /\ Granted' = Granted /\ limit' = limit
    BY <1>3, <2>1 DEF AcquireNothing, Start, Queued, Granted, TypeOK
  <2>3. QED  BY <1>1, <2>2
<1>4. ASSUME NEW c \in Clients, NEW n \in Weights, AcquireFast(c, n)
      PROVE  Pool!Enter(c)
  <2>1. n = 1 /\ Pool!HasRoom
    BY <1>2, <1>4, WeightsAssumption DEF AcquireFast
  <2>2. c \notin Queued \cup Granted
    BY <1>4 DEF AcquireFast, Start, Queued, Granted, UnitInv, ReadyInv, NeedInv
  <2>3. Queued' = Queued /\ Granted' = Granted \cup {c} /\ limit' = limit
    BY <1>4, <2>1 DEF AcquireFast, Start, Queued, Granted, TypeOK
  <2>4. QED  BY <2>1, <2>2, <2>3 DEF Pool!Enter, Queued
<1>5. ASSUME NEW c \in Clients, NEW n \in Weights, Enqueue(c, n)
      PROVE  Pool!Request(c)
  <2>1. c \notin Queued \cup Granted
    BY <1>5 DEF Enqueue, Start, Queued, Granted, UnitInv, ReadyInv, NeedInv
  <2>2. c \notin ready
    BY <1>5 DEF Enqueue, Start, UnitInv, ReadyInv, Blocked
  <2>3. Queued' = Queued \cup {c} /\ Granted' = Granted /\ limit' = limit
    BY <1>5, <2>2 DEF Enqueue, Start, Queued, Granted, TypeOK
  <2>4. QED  BY <2>1, <2>3 DEF Pool!Request, Queued
<1>6. ASSUME NEW c \in Clients, Wake(c) \/ SeeDone(c) \/ ContextDone(c)
      PROVE  [Pool!Next]_Pool!poolVars
  <2>1. Queued' = Queued /\ Granted' = Granted /\ limit' = limit
    BY <1>6 DEF Wake, SeeDone, ContextDone, Queued, Granted, TypeOK, PcValues
  <2>2. QED  BY <1>1, <2>1
<1>7. ASSUME NEW c \in Clients, CancelGranted(c) \/ Release(c)
      PROVE  Pool!Leave(c)
  <2>1. need[c] = 1 /\ c \in Granted
    BY <1>7 DEF CancelGranted, Release, UnitInv, NeedInv, Granted, Blocked
  <2>2. Queued' = Queued /\ Granted' = Granted \ {c} /\ limit' = limit
    BY <1>7 DEF CancelGranted, Release, Queued, Granted, UnitInv, ReadyInv, TypeOK, PcValues
  <2>3. QED  BY <2>1, <2>2 DEF Pool!Leave, Queued
<1>8. ASSUME NEW c \in Clients, CancelQueued(c) PROVE Pool!Withdraw(c)
  <2>1. c \in Queued
    BY <1>8 DEF CancelQueued, Queued
  <2>2. Queued' = Queued \ {c} /\ Granted' = Granted /\ limit' = limit
    BY <1>8 DEF CancelQueued, Queued, Granted, TypeOK, PcValues
  <2>3. QED  BY <2>1, <2>2 DEF Pool!Withdraw, Queued
<1>9. ASSUME NEW c \in Clients, ReleaseNothing(c)
      PROVE  [Pool!Next]_Pool!poolVars
  <2>1. Queued' = Queued /\ Granted' = Granted /\ limit' = limit
    BY <1>9 DEF ReleaseNothing, Queued, Granted, TypeOK, UnitInv, NeedInv
  <2>2. QED  BY <1>1, <2>1
<1>10. ASSUME NEW m \in Limits, Resize(m) PROVE Pool!SetCap
  <2>1. Queued' = Queued /\ Granted' = Granted /\ limit' \in Nat \ {0}
    BY <1>10 DEF Resize, Queued, Granted, TypeOK
  <2>2. QED  BY <2>1 DEF Pool!SetCap, Queued
<1>11. ASSUME NotifyHead
       PROVE  \E u \in Clients : Pool!Admit(u)
  <2>1. Head(waiters) = waiters[1] /\ Head(waiters) \in Clients /\ 1 \in 1..Len(waiters)
    BY <1>11, HeadTailProperties DEF NotifyHead, TypeOK
  <2>2. PICK u \in Clients : u = Head(waiters)
    BY <2>1
  <2>3. need[u] = 1 /\ u \in Queued
    BY <2>1, <2>2 DEF UnitInv, QueueInv, NeedInv, Queued, Blocked
  <2>4. Pool!HasRoom
    BY <1>2, <1>11, <2>2, <2>3 DEF NotifyHead
  <2>5. /\ Queued' = Queued \ {u}
        /\ Granted' = Granted \cup {u}
        /\ limit' = limit
    BY <1>11, <2>2, <2>3 DEF NotifyHead, Queued, Granted
  <2>6. QED  BY <2>3, <2>4, <2>5 DEF Pool!Admit, Queued
<1>12. CASE NotifyEnd \/ UNCHANGED vars
  <2>1. Queued' = Queued /\ Granted' = Granted /\ limit' = limit
    BY <1>12 DEF NotifyEnd, vars, Queued, Granted
  <2>2. QED  BY <1>1, <2>1
<1>13. ASSUME NEW c \in Clients, NEW n \in Weights,
              AcquireNothing(c, n) \/ AcquireFast(c, n) \/ Enqueue(c, n)
       PROVE  [Pool!Next]_Pool!poolVars
  BY <1>3, <1>4, <1>5, <1>13 DEF Pool!Next
<1>14. ASSUME NEW c \in Clients,
              \/ Wake(c) \/ SeeDone(c) \/ CancelGranted(c) \/ CancelQueued(c)
              \/ Release(c) \/ ReleaseNothing(c) \/ ContextDone(c)
       PROVE  [Pool!Next]_Pool!poolVars
  BY <1>6, <1>7, <1>8, <1>9, <1>14 DEF Pool!Next
<1>15. ASSUME NEW m \in Limits, Resize(m) PROVE Pool!Next
  BY <1>10, <1>15 DEF Pool!Next
<1>16. CASE NotifyHead
  BY <1>11, <1>16 DEF Pool!Next
<1>17. QED
  BY <1>12, <1>13, <1>14, <1>15, <1>16 DEF Next

(***************************************************************************)
(* With one permit per call the semaphore is a pool of permits: users are  *)
(* let in only while there is room, whatever its queue, its cancellations  *)
(* and its resizes do in between.                                          *)
(***************************************************************************)
THEOREM SemaphoreImplementsPool ==
  ASSUME UnitWeights
  PROVE  Spec => ImplementsPool
<1>1. Init => Pool!Init
  BY InitPool
<1>2. TypeOK /\ TypeOK' /\ UnitInv /\ [Next]_vars => [Pool!Next]_Pool!poolVars
  BY NextPool
<1>3. UnitInv /\ [Next]_vars => UnitInv'
  BY NextUnit
<1>4. UnitInv => TypeOK
  BY DEF UnitInv
<1>5. QED  BY InitUnit, <1>1, <1>2, <1>3, <1>4, PTL DEF Spec, ImplementsPool, Pool!Spec

=============================================================================
