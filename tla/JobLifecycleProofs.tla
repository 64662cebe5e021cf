------------------------- MODULE JobLifecycleProofs -------------------------
(***************************************************************************)
(* Proofs about JobLifecycle for any set of jobs, any number of slots and  *)
(* restarts, with cancellations, mirrors and the ticker: typing, that no   *)
(* unfinished job is without its goroutine, that a cancellation the job    *)
(* can hear is final, and that no directory leaks.                         *)
(***************************************************************************)
EXTENDS JobLifecycle, TLAPS

USE DEF durable, process, handlers, history

-----------------------------------------------------------------------------
(***************************************************************************)
(* The State of a job.                                                     *)
(***************************************************************************)
DlPlaces == {"waiting", "admitted", "fetching", "over"}

\* What may become of a State: a cancellation is never taken back.
Updates(s) == {r \in States : s.cancelled => r.cancelled}

\* The forms of the assignments to the fields of a State.
LEMMA StateUpdates ==
  ASSUME NEW s \in States, NEW d \in DlPlaces, NEW a \in BOOLEAN, NEW b \in BOOLEAN
  PROVE  /\ [s EXCEPT !.dl = d] \in Updates(s)
         /\ [s EXCEPT !.dl = d, !.fatal = TRUE, !.ctxDone = TRUE] \in Updates(s)
         /\ [s EXCEPT !.fatal = TRUE, !.ctxDone = TRUE] \in Updates(s)
         /\ [s EXCEPT !.cancelled = TRUE, !.ctxDone = TRUE] \in Updates(s)
         /\ [s EXCEPT !.cancelled = TRUE, !.ctxDone = TRUE].cancelled
         /\ [s EXCEPT !.dl = d, !.ok = a, !.mirroring = b] \in Updates(s)
         /\ [s EXCEPT !.ul = "over"] \in Updates(s)
         /\ [s EXCEPT !.ctxDone = TRUE] \in Updates(s)
         /\ [s EXCEPT !.sent = a] \in Updates(s)
         /\ [s EXCEPT !.mirroring = FALSE] \in Updates(s)
BY DEF States, DlPlaces, Updates

LEMMA NewStateType == NewState \in States
BY DEF NewState, States

\* The States stay States, and each goes on from what it was.
MemUpdated ==
  /\ mem' \in [Jobs -> States]
  /\ \A j \in Jobs : mem'[j] \in Updates(mem[j])

LEMMA UpdateOne ==
  ASSUME TypeOK, NEW j \in Jobs, NEW r \in Updates(mem[j]), mem' = [mem EXCEPT ![j] = r]
  PROVE  MemUpdated
BY DEF TypeOK, MemUpdated, Updates

\* Every stage of a job updates its State in one of those forms.
LEMMA StagesMem ==
  ASSUME TypeOK, NEW j \in Jobs,
         Download(j) \/ ExceedLimit(j) \/ UploadFile(j) \/ UploadEnd(j) \/ MirrorEnd(j)
  PROVE  MemUpdated
<1> mem[j] \in States
  BY DEF TypeOK
<1>1. CASE AdmitDownload(j)
  <2>1. [mem[j] EXCEPT !.dl = "admitted"] \in Updates(mem[j])
    BY StateUpdates DEF DlPlaces
  <2>2. QED  BY <1>1, <2>1, UpdateOne DEF AdmitDownload
<1>2. CASE GiveUpWaiting(j) \/ MkdirFails(j)
  <2>1. [mem[j] EXCEPT !.dl = "over"] \in Updates(mem[j])
    BY StateUpdates DEF DlPlaces
  <2>2. QED  BY <1>2, <2>1, UpdateOne DEF GiveUpWaiting, MkdirFails
<1>3. CASE RefuseForDisk(j)
  <2>1. [mem[j] EXCEPT !.dl = "over", !.fatal = TRUE, !.ctxDone = TRUE] \in Updates(mem[j])
    BY StateUpdates DEF DlPlaces
  <2>2. QED  BY <1>3, <2>1, UpdateOne DEF RefuseForDisk
<1>4. CASE StartFetch(j)
  <2>1. [mem[j] EXCEPT !.dl = "fetching"] \in Updates(mem[j])
    BY StateUpdates DEF DlPlaces
  <2>2. QED  BY <1>4, <2>1, UpdateOne DEF StartFetch
<1>5. CASE ExceedLimit(j)
  <2>1. [mem[j] EXCEPT !.fatal = TRUE, !.ctxDone = TRUE] \in Updates(mem[j])
    BY StateUpdates DEF DlPlaces
  <2>2. QED  BY <1>5, <2>1, UpdateOne DEF ExceedLimit
<1>6. CASE FetchEnd(j)
  <2>1. PICK ok \in BOOLEAN, mirroring \in BOOLEAN :
          mem' = [mem EXCEPT ![j] = [@ EXCEPT !.dl = "over", !.ok = ok, !.mirroring = mirroring]]
    BY <1>6 DEF FetchEnd
  <2>2. [mem[j] EXCEPT !.dl = "over", !.ok = ok, !.mirroring = mirroring] \in Updates(mem[j])
    BY StateUpdates DEF DlPlaces
  <2>3. QED  BY <2>1, <2>2, UpdateOne
<1>7. CASE UploadFile(j)
  <2>1. PICK success \in BOOLEAN : mem' = [mem EXCEPT ![j].sent = mem[j].sent \/ success]
    BY <1>7 DEF UploadFile
  <2>2. PICK a \in BOOLEAN : a = (mem[j].sent \/ success)
    BY DEF States
  <2>3. [mem[j] EXCEPT !.sent = a] \in Updates(mem[j])
    BY StateUpdates DEF DlPlaces
  <2>4. mem' = [mem EXCEPT ![j].sent = a]
    BY <2>1, <2>2
  <2>5. QED  BY <2>3, <2>4, UpdateOne
<1>8. CASE UploadEnd(j)
  <2>1. [mem[j] EXCEPT !.ul = "over"] \in Updates(mem[j])
    BY StateUpdates DEF DlPlaces
  <2>2. QED  BY <1>8, <2>1, UpdateOne DEF UploadEnd
<1>9. CASE MirrorEnd(j)
  <2>1. [mem[j] EXCEPT !.mirroring = FALSE] \in Updates(mem[j])
    BY StateUpdates DEF DlPlaces
  <2>2. QED  BY <1>9, <2>1, UpdateOne DEF MirrorEnd
<1>10. QED
  BY <1>1, <1>2, <1>3, <1>4, <1>5, <1>6, <1>7, <1>8, <1>9 DEF Download, BeforeFetch

LEMMA StopMem ==
  ASSUME TypeOK, Stop
  PROVE  MemUpdated
<1>1. ASSUME NEW j \in Jobs PROVE [mem[j] EXCEPT !.ctxDone = TRUE] \in Updates(mem[j])
  <2>1. mem[j] \in States
    BY DEF TypeOK
  <2>2. QED  BY <2>1, StateUpdates DEF DlPlaces
<1>2. QED  BY <1>1 DEF Stop, MemUpdated, Updates

LEMMA CancelMem ==
  ASSUME TypeOK, NEW j \in Jobs, CancelRunning(j)
  PROVE  /\ MemUpdated
         /\ j \in Registered => mem'[j].cancelled
<1>1. mem[j] \in States
  BY DEF TypeOK
<1>2. /\ [mem[j] EXCEPT !.cancelled = TRUE, !.ctxDone = TRUE] \in Updates(mem[j])
      /\ [mem[j] EXCEPT !.cancelled = TRUE, !.ctxDone = TRUE].cancelled
  BY <1>1, StateUpdates DEF DlPlaces
<1>3. CASE j \in Registered
  BY <1>2, <1>3, UpdateOne DEF CancelRunning, TypeOK
<1>4. CASE j \notin Registered
  BY <1>4 DEF CancelRunning, MemUpdated, Updates, TypeOK
<1>5. QED  BY <1>3, <1>4

-----------------------------------------------------------------------------
(***************************************************************************)
(* Types.                                                                  *)
(***************************************************************************)
LEMMA InitType == Init => TypeOK
BY NewStateType, LimitsAssumption
   DEF Init, TypeOK, Statuses, PcValues, Terminal, IdleCleaner

LEMMA VerdictType ==
  ASSUME NEW j \in Jobs
  PROVE  Verdict(j) \in {"interrupted"} \cup Terminal
BY DEF Verdict, Terminal

LEMMA HandlersType ==
  ASSUME TypeOK,
         \/ \E s \in Senders : EnqueueCheck(s) \/ \E j \in Jobs : EnqueueCreate(s, j)
         \/ \E j \in Jobs : CancelRead(j) \/ CancelLookup(j) \/ CancelRunning(j) \/ CancelRow(j)
  PROVE  TypeOK'
<1> USE DEF TypeOK, Statuses, Resumable, Terminal, PcValues
<1>1. ASSUME NEW s \in Senders, EnqueueCheck(s) PROVE TypeOK'
  BY <1>1 DEF EnqueueCheck
<1>2. ASSUME NEW s \in Senders, NEW j \in Jobs, EnqueueCreate(s, j) PROVE TypeOK'
  BY <1>2 DEF EnqueueCreate
<1>3. ASSUME NEW j \in Jobs, CancelRead(j) PROVE TypeOK'
  BY <1>3 DEF CancelRead
<1>4. ASSUME NEW j \in Jobs, CancelLookup(j) PROVE TypeOK'
  BY <1>4 DEF CancelLookup
<1>5. ASSUME NEW j \in Jobs, CancelRunning(j) PROVE TypeOK'
  <2>1. mem' \in [Jobs -> States]
    BY <1>5, CancelMem DEF MemUpdated
  <2>2. QED  BY <1>5, <2>1 DEF CancelRunning
<1>6. ASSUME NEW j \in Jobs, CancelRow(j) PROVE TypeOK'
  BY <1>6 DEF CancelRow
<1>7. QED  BY <1>1, <1>2, <1>3, <1>4, <1>5, <1>6

LEMMA StagesType ==
  ASSUME TypeOK, NEW j \in Jobs,
         \/ Load(j) \/ Register(j)
         \/ Download(j) \/ ExceedLimit(j) \/ UploadFile(j) \/ UploadEnd(j) \/ MirrorEnd(j)
  PROVE  TypeOK'
<1> USE DEF TypeOK, Statuses, Resumable, PcValues
<1>1. CASE Load(j)      BY <1>1 DEF Load
<1>2. CASE Register(j)  BY <1>2, NewStateType DEF Register, RegisteredPcs
<1>3. CASE Download(j) \/ ExceedLimit(j) \/ UploadFile(j) \/ UploadEnd(j) \/ MirrorEnd(j)
  <2>1. mem' \in [Jobs -> States]
    BY <1>3, StagesMem DEF MemUpdated
  <2>2. QED
    BY <1>3, <2>1
       DEF Download, BeforeFetch, AdmitDownload, GiveUpWaiting, RefuseForDisk, MkdirFails, StartFetch,
           ExceedLimit, FetchEnd, UploadFile, UploadEnd, MirrorEnd
<1>4. QED  BY <1>1, <1>2, <1>3

\* finalize stores nothing but outcomes: without this, TypeOK is not inductive.
Decided == \A j \in Jobs : pc[j] = "persist" => final[j] \in Terminal

LEMMA FinalizeType ==
  ASSUME TypeOK, Decided, NEW j \in Jobs, Finalize(j)
  PROVE  TypeOK'
<1> USE DEF TypeOK, Statuses, PcValues, RegisteredPcs
<1>1. CASE JoinStages(j)     BY <1>1 DEF JoinStages
<1>2. CASE EndMirrorWait(j)  BY <1>2 DEF EndMirrorWait
<1>3. CASE Decide(j)
  <2>1. Verdict(j) \in {"interrupted"} \cup Terminal
    BY VerdictType
  <2>2. final' \in [Jobs -> {"none", "interrupted"} \cup Terminal]
    BY <1>3, <2>1 DEF Decide
  <2>3. QED  BY <1>3, <2>2 DEF Decide
<1>4. CASE Persist(j)        BY <1>4 DEF Persist, Decided
<1>5. CASE RemoveDirs(j)     BY <1>5 DEF RemoveDirs
<1>6. CASE Unregister(j)     BY <1>6 DEF Unregister
<1>7. QED  BY <1>1, <1>2, <1>3, <1>4, <1>5, <1>6 DEF Finalize

LEMMA CleanerType ==
  ASSUME TypeOK, CleanerStep
  PROVE  TypeOK'
<1> USE DEF TypeOK
<1>1. CASE CleanerQuery    BY <1>1 DEF CleanerQuery, ResumableJobs
<1>2. CASE CleanerReadDir  BY <1>2 DEF CleanerReadDir
<1>3. CASE CleanerStates   BY <1>3 DEF CleanerStates, Registered
<1>4. CASE CleanerEnd      BY <1>4 DEF CleanerEnd, IdleCleaner
<1>5. ASSUME NEW j \in Jobs, CleanerRemove(j) PROVE TypeOK'
  BY <1>5 DEF CleanerRemove
<1>6. QED  BY <1>1, <1>2, <1>3, <1>4, <1>5 DEF CleanerStep

LEMMA ProcessType ==
  ASSUME TypeOK, Stop \/ Exit \/ Start
  PROVE  TypeOK'
<1> USE DEF TypeOK
<1>1. CASE Stop
  <2>1. mem' \in [Jobs -> States]
    BY <1>1, StopMem DEF MemUpdated
  <2>2. QED  BY <1>1, <2>1 DEF Stop
<1>2. CASE Exit
  <2>1. restarts' \in 0..MaxRestarts
    BY <1>2, LimitsAssumption DEF Exit
  <2>2. QED
    BY <1>2, <2>1, NewStateType DEF Exit, PcValues, IdleCleaner
<1>3. CASE Start  BY <1>3 DEF Start, PcValues, ResumableJobs
<1>4. QED  BY <1>1, <1>2, <1>3

LEMMA DecidedStep ==
  ASSUME TypeOK, Decided, [Next]_vars
  PROVE  Decided'
<1> USE DEF TypeOK, Decided
<1>1. CASE UNCHANGED vars
  BY <1>1 DEF vars
<1>2. CASE Stop \/ Exit \/ Start \/ CleanerStep
  BY <1>2 DEF Stop, Exit, Start, CleanerStep, CleanerQuery, CleanerReadDir, CleanerStates,
              CleanerEnd, CleanerRemove
<1>3. ASSUME NEW s \in Senders,
             EnqueueCheck(s) \/ \E j \in Jobs : EnqueueCreate(s, j)
      PROVE  Decided'
  BY <1>3 DEF EnqueueCheck, EnqueueCreate
<1>4. ASSUME NEW j \in Jobs,
             \/ CancelRead(j) \/ CancelLookup(j) \/ CancelRunning(j) \/ CancelRow(j)
             \/ Load(j) \/ Register(j)
             \/ Download(j) \/ ExceedLimit(j) \/ UploadFile(j) \/ UploadEnd(j) \/ MirrorEnd(j)
      PROVE  Decided'
  <2>1. final' = final /\ pc' \in [Jobs -> PcValues]
    BY <1>4, HandlersType, StagesType
       DEF CancelRead, CancelLookup, CancelRunning, CancelRow, Load, Register,
           Download, BeforeFetch, AdmitDownload, GiveUpWaiting, RefuseForDisk, MkdirFails, StartFetch,
           ExceedLimit, FetchEnd, UploadFile, UploadEnd, MirrorEnd
  <2>2. \A i \in Jobs : pc'[i] = "persist" => pc[i] = "persist"
    BY <1>4
       DEF CancelRead, CancelLookup, CancelRunning, CancelRow, Load, Register,
           Download, BeforeFetch, AdmitDownload, GiveUpWaiting, RefuseForDisk, MkdirFails, StartFetch,
           ExceedLimit, FetchEnd, UploadFile, UploadEnd, MirrorEnd
  <2>3. QED  BY <2>1, <2>2
<1>5. ASSUME NEW j \in Jobs, Finalize(j) PROVE Decided'
  <2>1. CASE Decide(j)
    <3>1. Verdict(j) # "interrupted" => Verdict(j) \in Terminal
      BY VerdictType
    <3>2. QED  BY <2>1, <3>1 DEF Decide
  <2>2. CASE JoinStages(j) \/ EndMirrorWait(j) \/ Persist(j) \/ RemoveDirs(j) \/ Unregister(j)
    BY <2>2 DEF JoinStages, EndMirrorWait, Persist, RemoveDirs, Unregister
  <2>3. QED  BY <1>5, <2>1, <2>2 DEF Finalize
<1>6. QED  BY <1>1, <1>2, <1>3, <1>4, <1>5 DEF Next

TypeInv == TypeOK /\ Decided

LEMMA InitTypeInv == Init => TypeInv
BY InitType DEF Init, TypeInv, Decided

LEMMA StepTypeInv == TypeInv /\ [Next]_vars => TypeInv'
<1> SUFFICES ASSUME TypeInv, [Next]_vars PROVE TypeInv'
  OBVIOUS
<1>1. CASE UNCHANGED vars
  BY <1>1 DEF TypeInv, TypeOK, Decided, vars
<1>2. CASE Next
  <2>1. TypeOK'
    BY <1>2, HandlersType, StagesType, FinalizeType, CleanerType, ProcessType DEF Next, TypeInv
  <2>2. QED  BY <2>1, DecidedStep DEF TypeInv
<1>3. QED  BY <1>1, <1>2

LEMMA TypeInvariant == Spec => []TypeInv
BY InitTypeInv, StepTypeInv, PTL DEF Spec

\* The types of the manager hold for any jobs, handlers, slots and restarts.
THEOREM TypeCorrect == Spec => []TypeOK
<1>1. TypeInv => TypeOK
  BY DEF TypeInv
<1>2. QED  BY <1>1, TypeInvariant, PTL

-----------------------------------------------------------------------------
(***************************************************************************)
(* The inductive invariant.                                                *)
(***************************************************************************)

\* finalize has not looked at the job's flags yet.
Listening == {"running", "mirrorWait", "decide"}
Unfinished == {"loaded", "persist"} \cup Listening

\* Whatever the process, the directories or a handler know is in the store.
Known ==
  \A j \in Jobs :
     pc[j] # "none" \/ j \in dir \/ heard[j] # "no" \/ j \in willResume \/ canceller[j] # "idle"
       => Exists(j)

\* A process that is gone has no goroutines, and a flag it has heard is lost
\* or stored.
DownIsEmpty ==
  phase = "down" =>
     \A j \in Jobs : pc[j] = "none" /\ (heard[j] = "flag" => status[j] \in Terminal)

\* finalize removes the directory and takes the State away only after it has
\* stored an outcome or has found the process stopping.
EndsWithOutcome ==
  \A j \in Jobs : pc[j] \in {"cleanup", "unregister"} => status[j] \in Terminal \/ phase # "up"

UnfinishedHasNoOutcome ==
  \A j \in Jobs :
     /\ pc[j] \in Unfinished => status[j] \notin {"done", "failed"}
     /\ pc[j] \in Unfinished \cup {"spawned"} => j \notin willResume

\* A row that was cancelled before run had loaded it is never loaded.
RowIsFinal ==
  \A j \in Jobs : heard[j] = "row" => status[j] = "cancelled" /\ pc[j] \in {"none", "spawned"}

\* A flag that finalize has not seen yet is still up, one that it has seen
\* kept it from "done".
FlagIsFinal ==
  \A j \in Jobs : heard[j] = "flag" =>
     /\ status[j] # "done" /\ j \notin willResume
     /\ pc[j] \notin {"spawned", "loaded"}
     /\ pc[j] \in Listening => mem[j].cancelled
     /\ pc[j] = "persist" => final[j] # "done"

\* A directory outlives its goroutine only if run was told not to start.
DirsHaveOwners ==
  /\ \A j \in Jobs : pc[j] = "unregister" => j \notin dir
  /\ phase = "up" => \A j \in Jobs :
        pc[j] = "spawned" /\ status[j] \in Terminal => heard[j] = "row"

JobInv ==
  /\ Known /\ DownIsEmpty /\ EndsWithOutcome /\ UnfinishedHasNoOutcome
  /\ RowIsFinal /\ FlagIsFinal /\ DirsHaveOwners
  /\ NoStuckJob /\ NoLeakedDir

LEMMA InitJobInv == Init => JobInv
BY DEF Init, JobInv, Known, DownIsEmpty, EndsWithOutcome, UnfinishedHasNoOutcome, RowIsFinal,
       FlagIsFinal, DirsHaveOwners, NoStuckJob, NoLeakedDir, ResumableJobs, Resumable, Exists,
       Unfinished, Listening, Terminal

LEMMA HandlersJobInv ==
  ASSUME TypeInv, TypeInv', JobInv,
         \/ \E s \in Senders : EnqueueCheck(s) \/ \E j \in Jobs : EnqueueCreate(s, j)
         \/ \E j \in Jobs : CancelRead(j) \/ CancelLookup(j) \/ CancelRunning(j) \/ CancelRow(j)
  PROVE  JobInv'
<1> USE DEF TypeInv, TypeOK, JobInv, Known, DownIsEmpty, EndsWithOutcome, UnfinishedHasNoOutcome,
            RowIsFinal, FlagIsFinal, DirsHaveOwners, NoStuckJob, NoLeakedDir, ResumableJobs,
            Resumable, Exists, Unfinished, Listening, Terminal
<1>1. ASSUME NEW s \in Senders, EnqueueCheck(s) PROVE JobInv'
  BY <1>1 DEF EnqueueCheck
<1>2. ASSUME NEW s \in Senders, NEW j \in Jobs, EnqueueCreate(s, j) PROVE JobInv'
  BY <1>2 DEF EnqueueCreate
<1>3. ASSUME NEW j \in Jobs, CancelRead(j) PROVE JobInv'
  BY <1>3 DEF CancelRead
<1>4. ASSUME NEW j \in Jobs, CancelLookup(j) PROVE JobInv'
  BY <1>4 DEF CancelLookup
<1>5. ASSUME NEW j \in Jobs, CancelRunning(j) PROVE JobInv'
  <2>1. MemUpdated /\ (j \in Registered => mem'[j].cancelled)
    BY <1>5, CancelMem
  <2>2. /\ \A i \in Jobs : mem[i].cancelled => mem'[i].cancelled
        /\ pc[j] \in Listening => mem'[j].cancelled
    <3>1. pc[j] \in Listening => j \in Registered
      BY DEF Registered, RegisteredPcs
    <3>2. QED  BY <2>1, <3>1, Zenon DEF MemUpdated, Updates
  <2>3. /\ UNCHANGED <<status, dir, phase, pc, final, willResume>>
        /\ \/ heard' = heard
           \/ pc[j] \in Listening /\ heard' = [heard EXCEPT ![j] = "flag"]
        /\ canceller[j] = "hit" /\ canceller' = [canceller EXCEPT ![j] = "idle"]
    BY <1>5 DEF CancelRunning
  <2>4. FlagIsFinal'
    BY <2>2, <2>3
  <2>5. QED  BY <2>3, <2>4
<1>6. ASSUME NEW j \in Jobs, CancelRow(j) PROVE JobInv'
  BY <1>6 DEF CancelRow
<1>7. QED  BY <1>1, <1>2, <1>3, <1>4, <1>5, <1>6

LEMMA StagesJobInv ==
  ASSUME TypeInv, TypeInv', JobInv, NEW j \in Jobs,
         \/ Load(j) \/ Register(j)
         \/ Download(j) \/ ExceedLimit(j) \/ UploadFile(j) \/ UploadEnd(j) \/ MirrorEnd(j)
  PROVE  JobInv'
<1> USE DEF TypeInv, TypeOK, JobInv, Known, DownIsEmpty, EndsWithOutcome, UnfinishedHasNoOutcome,
            RowIsFinal, FlagIsFinal, DirsHaveOwners, NoStuckJob, NoLeakedDir, ResumableJobs,
            Resumable, Exists, Unfinished, Listening, Terminal
<1>1. CASE Load(j)      BY <1>1 DEF Load, Running
<1>2. CASE Register(j)  BY <1>2 DEF Register, Running
<1>3. CASE Download(j) \/ ExceedLimit(j) \/ UploadFile(j) \/ UploadEnd(j) \/ MirrorEnd(j)
  <2>1. MemUpdated
    BY <1>3, StagesMem
  <2>2. \A i \in Jobs : mem[i].cancelled => mem'[i].cancelled
    BY <2>1, Zenon DEF MemUpdated, Updates
  <2>3. UNCHANGED <<phase, pc, final, canceller, heard, willResume>>
    BY <1>3
       DEF Download, BeforeFetch, AdmitDownload, GiveUpWaiting, RefuseForDisk, MkdirFails, StartFetch,
           ExceedLimit, FetchEnd, UploadFile, UploadEnd, MirrorEnd
  <2>4. \/ status' = status /\ dir' = dir
        \/ /\ pc[j] = "running"
           /\ dir' = dir \/ dir' = dir \cup {j}
           /\ \/ status' = status
              \/ status' = [status EXCEPT ![j] = "downloading"]
              \/ status' = [status EXCEPT ![j] = "uploading"]
    BY <1>3
       DEF Download, BeforeFetch, AdmitDownload, GiveUpWaiting, RefuseForDisk, MkdirFails, StartFetch,
           ExceedLimit, FetchEnd, UploadFile, UploadEnd, MirrorEnd
  <2>5. FlagIsFinal'
    BY <2>2, <2>3, <2>4
  <2>6. QED  BY <2>3, <2>4, <2>5
<1>4. QED  BY <1>1, <1>2, <1>3

LEMMA FinalizeJobInv ==
  ASSUME TypeInv, TypeInv', JobInv, NEW j \in Jobs, Finalize(j)
  PROVE  JobInv'
<1> USE DEF TypeInv, TypeOK, JobInv, Known, DownIsEmpty, EndsWithOutcome, UnfinishedHasNoOutcome,
            RowIsFinal, FlagIsFinal, DirsHaveOwners, NoStuckJob, NoLeakedDir, ResumableJobs,
            Resumable, Exists, Unfinished, Listening, Terminal, Decided
<1>1. CASE JoinStages(j)     BY <1>1 DEF JoinStages
<1>2. CASE EndMirrorWait(j)  BY <1>2 DEF EndMirrorWait
<1>3. CASE Decide(j)         BY <1>3 DEF Decide, Verdict, Running
<1>4. CASE Persist(j)        BY <1>4 DEF Persist, Running
<1>5. CASE RemoveDirs(j)     BY <1>5 DEF RemoveDirs
<1>6. CASE Unregister(j)     BY <1>6 DEF Unregister
<1>7. QED  BY <1>1, <1>2, <1>3, <1>4, <1>5, <1>6 DEF Finalize

LEMMA ProcessJobInv ==
  ASSUME TypeInv, TypeInv', JobInv, Stop \/ Exit \/ Start \/ CleanerStep
  PROVE  JobInv'
<1> USE DEF TypeInv, TypeOK, JobInv, Known, DownIsEmpty, EndsWithOutcome, UnfinishedHasNoOutcome,
            RowIsFinal, FlagIsFinal, DirsHaveOwners, NoStuckJob, NoLeakedDir, ResumableJobs,
            Resumable, Exists, Unfinished, Listening, Terminal
<1>1. CASE Stop
  <2>1. MemUpdated
    BY <1>1, StopMem
  <2>2. QED  BY <1>1, <2>1 DEF Stop, MemUpdated, Updates
<1>2. CASE Exit   BY <1>2 DEF Exit, Running
<1>3. CASE Start  BY <1>3 DEF Start
<1>4. CASE CleanerStep
  BY <1>4 DEF CleanerStep, CleanerQuery, CleanerReadDir, CleanerStates, CleanerRemove, CleanerEnd
<1>5. QED  BY <1>1, <1>2, <1>3, <1>4

LEMMA StepJobInv == TypeInv /\ TypeInv' /\ JobInv /\ [Next]_vars => JobInv'
<1> SUFFICES ASSUME TypeInv, TypeInv', JobInv, [Next]_vars PROVE JobInv'
  OBVIOUS
<1>1. CASE UNCHANGED vars
  BY <1>1 DEF JobInv, Known, DownIsEmpty, EndsWithOutcome, UnfinishedHasNoOutcome, RowIsFinal,
              FlagIsFinal, DirsHaveOwners, NoStuckJob, NoLeakedDir, ResumableJobs, Exists, vars
<1>2. CASE Next
  BY <1>2, HandlersJobInv, StagesJobInv, FinalizeJobInv, ProcessJobInv DEF Next
<1>3. QED  BY <1>1, <1>2

LEMMA JobInvariant == Spec => []JobInv
<1>1. Init => JobInv
  BY InitJobInv
<1>2. TypeInv /\ TypeInv' /\ JobInv /\ [Next]_vars => JobInv'
  BY StepJobInv
<1>3. QED  BY <1>1, <1>2, TypeInvariant, PTL DEF Spec

-----------------------------------------------------------------------------
\* While the process runs, every job that the store calls queued or active
\* has its goroutine, for any number of jobs, slots and restarts.
THEOREM JobsAreNotStuck == Spec => []NoStuckJob
<1>1. JobInv => NoStuckJob
  BY DEF JobInv
<1>2. QED  BY <1>1, JobInvariant, PTL

\* A cancellation that the job could hear is never overruled: not by a
\* download that has just succeeded, nor by a shutdown, nor, once finalize has
\* stored it, by a restart.  Before that the end of the process loses it.
THEOREM CancellationsAreHonoured == Spec => []CancelHonoured
<1>1. JobInv => CancelHonoured
  BY DEF JobInv, RowIsFinal, FlagIsFinal, CancelHonoured
<1>2. QED  BY <1>1, JobInvariant, PTL

\* While the process runs, a directory without a goroutine is one whose row
\* was cancelled before run had loaded it.
THEOREM DirsAreNotLeaked == Spec => []NoLeakedDir
<1>1. JobInv => NoLeakedDir
  BY DEF JobInv
<1>2. QED  BY <1>1, JobInvariant, PTL

\* Both, as the run checks them.
THEOREM WorkHasGoroutines == Spec => []WorkHasGoroutine
<1>1. JobInv => WorkHasGoroutine
  BY DEF JobInv, WorkHasGoroutine
<1>2. QED  BY <1>1, JobInvariant, PTL

-----------------------------------------------------------------------------
(***************************************************************************)
(* The ticker.                                                             *)
(***************************************************************************)

\* A directory whose goroutine has not registered its State yet comes from an
\* earlier process, so its row is one that the ticker keeps.
DirBeforeState ==
  \A j \in dir : pc[j] \in {"spawned", "loaded"} => status[j] \in Resumable \/ j \in told

\* What the ticker has not set aside is registered, gone for good, or cancelled.
Settling(j) == j \in told \/ (Exists(j) /\ pc[j] \in RegisteredPcs \cup {"none"})

CleanerKnows ==
  /\ phase = "down" => cleaner.at = "idle"
  /\ cleaner.at = "readDir" => \A j \in dir \ cleaner.keep : Settling(j)
  /\ cleaner.at = "states" => \A j \in cleaner.entries \ cleaner.keep : Settling(j)
  /\ cleaner.at = "remove" => \A j \in cleaner.entries \ cleaner.live :
        j \in told \/ (Exists(j) /\ pc[j] = "none")

CleanerInv == DirBeforeState /\ CleanerKnows

LEMMA InitCleanerInv == Init => CleanerInv
BY DEF Init, CleanerInv, DirBeforeState, CleanerKnows, IdleCleaner

LEMMA StagesCleanerInv ==
  ASSUME TypeInv, TypeInv', JobInv, CleanerInv,
         \/ \E s \in Senders : EnqueueCheck(s) \/ \E j \in Jobs : EnqueueCreate(s, j)
         \/ \E j \in Jobs :
               \/ CancelRead(j) \/ CancelLookup(j) \/ CancelRunning(j) \/ CancelRow(j)
               \/ Load(j) \/ Register(j) \/ Download(j) \/ ExceedLimit(j)
               \/ UploadFile(j) \/ UploadEnd(j) \/ MirrorEnd(j) \/ Finalize(j)
  PROVE  CleanerInv'
<1> USE DEF TypeInv, TypeOK, JobInv, Known, DownIsEmpty, CleanerInv, DirBeforeState, CleanerKnows,
            Settling, Exists, Resumable, Terminal, RegisteredPcs
<1>1. ASSUME NEW s \in Senders, EnqueueCheck(s) PROVE CleanerInv'
  BY <1>1 DEF EnqueueCheck
<1>2. ASSUME NEW s \in Senders, NEW j \in Jobs, EnqueueCreate(s, j) PROVE CleanerInv'
  BY <1>2 DEF EnqueueCreate
<1>3. ASSUME NEW j \in Jobs, CancelRead(j) \/ CancelLookup(j) \/ CancelRunning(j) \/ CancelRow(j)
      PROVE  CleanerInv'
  <2>1. /\ UNCHANGED <<dir, phase, pc, cleaner>>
        /\ \/ status' = status /\ told' = told
           \/ status' = status /\ told' = told \cup {j}
           \/ status' = [status EXCEPT ![j] = "cancelled"] /\ told' = told \cup {j}
    BY <1>3 DEF CancelRead, CancelLookup, CancelRunning, CancelRow
  <2>2. QED  BY <2>1
<1>4. ASSUME NEW j \in Jobs, Load(j) \/ Register(j) PROVE CleanerInv'
  BY <1>4 DEF Load, Register, Running
<1>5. ASSUME NEW j \in Jobs,
             Download(j) \/ ExceedLimit(j) \/ UploadFile(j) \/ UploadEnd(j) \/ MirrorEnd(j)
      PROVE  CleanerInv'
  <2>1. UNCHANGED <<phase, pc, cleaner, told>>
    BY <1>5
       DEF Download, BeforeFetch, AdmitDownload, GiveUpWaiting, RefuseForDisk, MkdirFails, StartFetch,
           ExceedLimit, FetchEnd, UploadFile, UploadEnd, MirrorEnd
  <2>2. \/ status' = status /\ dir' = dir
        \/ /\ pc[j] = "running"
           /\ dir' = dir \/ dir' = dir \cup {j}
           /\ \/ status' = status
              \/ status' = [status EXCEPT ![j] = "downloading"]
              \/ status' = [status EXCEPT ![j] = "uploading"]
    BY <1>5
       DEF Download, BeforeFetch, AdmitDownload, GiveUpWaiting, RefuseForDisk, MkdirFails, StartFetch,
           ExceedLimit, FetchEnd, UploadFile, UploadEnd, MirrorEnd
  <2>3. QED  BY <2>1, <2>2
<1>6. ASSUME NEW j \in Jobs, Finalize(j) PROVE CleanerInv'
  <2>1. CASE JoinStages(j)     BY <2>1 DEF JoinStages
  <2>2. CASE EndMirrorWait(j)  BY <2>2 DEF EndMirrorWait
  <2>3. CASE Decide(j)         BY <2>3 DEF Decide
  <2>4. CASE Persist(j)        BY <2>4 DEF Persist, Decided
  <2>5. CASE RemoveDirs(j)     BY <2>5 DEF RemoveDirs
  <2>6. CASE Unregister(j)     BY <2>6 DEF Unregister
  <2>7. QED  BY <1>6, <2>1, <2>2, <2>3, <2>4, <2>5, <2>6 DEF Finalize
<1>7. QED  BY <1>1, <1>2, <1>3, <1>4, <1>5, <1>6

LEMMA TickerCleanerInv ==
  ASSUME TypeInv, TypeInv', JobInv, CleanerInv, CleanerStep
  PROVE  CleanerInv'
<1> USE DEF TypeInv, TypeOK, JobInv, Known, DownIsEmpty, CleanerInv, DirBeforeState, CleanerKnows,
            Settling, Exists, Resumable, Terminal, RegisteredPcs, PcValues
<1>1. CASE CleanerQuery
  <2>1. cleaner'.at = "readDir" /\ cleaner'.keep = ResumableJobs
    BY <1>1 DEF CleanerQuery
  <2>2. UNCHANGED <<status, dir, phase, pc, told>> /\ phase = "up"
    BY <1>1 DEF CleanerQuery
  <2>3. ASSUME NEW j \in dir \ ResumableJobs PROVE Settling(j)
    <3>1. pc[j] \in PcValues /\ j \in Jobs
      BY <2>3
    <3>2. QED  BY <3>1 DEF ResumableJobs
  <2>4. QED  BY <2>1, <2>2, <2>3
<1>2. CASE CleanerReadDir  BY <1>2 DEF CleanerReadDir, Running
<1>3. CASE CleanerStates   BY <1>3 DEF CleanerStates, Running, Registered
<1>4. CASE CleanerEnd      BY <1>4 DEF CleanerEnd, IdleCleaner
<1>5. ASSUME NEW j \in Jobs, CleanerRemove(j) PROVE CleanerInv'
  BY <1>5 DEF CleanerRemove, Running
<1>6. QED  BY <1>1, <1>2, <1>3, <1>4, <1>5 DEF CleanerStep

LEMMA ProcessCleanerInv ==
  ASSUME TypeInv, TypeInv', JobInv, CleanerInv, Stop \/ Exit \/ Start
  PROVE  CleanerInv'
<1> USE DEF TypeInv, TypeOK, JobInv, Known, DownIsEmpty, CleanerInv, DirBeforeState, CleanerKnows,
            Settling, Exists
<1>1. CASE Stop   BY <1>1 DEF Stop
<1>2. CASE Exit   BY <1>2 DEF Exit, IdleCleaner
<1>3. CASE Start  BY <1>3 DEF Start, ResumableJobs
<1>4. QED  BY <1>1, <1>2, <1>3

LEMMA StepCleanerInv == TypeInv /\ TypeInv' /\ JobInv /\ CleanerInv /\ [Next]_vars => CleanerInv'
<1> SUFFICES ASSUME TypeInv, TypeInv', JobInv, CleanerInv, [Next]_vars PROVE CleanerInv'
  OBVIOUS
<1>1. CASE UNCHANGED vars
  BY <1>1 DEF CleanerInv, DirBeforeState, CleanerKnows, Settling, Exists, vars
<1>2. CASE Next
  BY <1>2, StagesCleanerInv, TickerCleanerInv, ProcessCleanerInv DEF Next
<1>3. QED  BY <1>1, <1>2

\* Only finalize and the ticker remove directories while the process runs, the
\* ticker none that a job is working in.
LEMMA StepKeepsLiveDirs ==
  TypeInv /\ JobInv /\ CleanerInv /\ [Next]_vars
    => \A j \in dir \ dir' : pc[j] \in {"none", "cleanup"} \/ j \in told
<1> SUFFICES ASSUME TypeInv, JobInv, CleanerInv, [Next]_vars, NEW j \in dir \ dir'
             PROVE  pc[j] \in {"none", "cleanup"} \/ j \in told
  OBVIOUS
<1>1. CASE dir \subseteq dir'
  BY <1>1
<1>2. CASE Start
  BY <1>2 DEF Start, JobInv, DownIsEmpty, TypeInv, TypeOK
<1>3. ASSUME NEW i \in Jobs, RemoveDirs(i) PROVE pc[j] = "cleanup"
  BY <1>3 DEF RemoveDirs
<1>4. ASSUME NEW i \in Jobs, CleanerRemove(i) PROVE pc[j] = "none" \/ j \in told
  BY <1>4 DEF CleanerRemove, CleanerInv, CleanerKnows
<1>5. \/ dir \subseteq dir' \/ Start
      \/ \E i \in Jobs : RemoveDirs(i) \/ CleanerRemove(i)
  BY DEF Next, vars, EnqueueCheck, EnqueueCreate, CancelRead, CancelLookup, CancelRunning,
         CancelRow, Load, Register, Download, BeforeFetch, AdmitDownload, GiveUpWaiting, RefuseForDisk,
         MkdirFails, StartFetch, FetchEnd, ExceedLimit, UploadFile, UploadEnd, MirrorEnd,
         Finalize, JoinStages, EndMirrorWait, Decide, Persist, Unregister,
         CleanerStep, CleanerQuery, CleanerReadDir, CleanerStates, CleanerEnd, Stop, Exit
<1>6. QED  BY <1>1, <1>2, <1>3, <1>4, <1>5

\* The ticker removes no directory that a job is working in, however its
\* query, its ReadDir, its look at m.states and its removals interleave with
\* the jobs, their cancellations and the restarts.
THEOREM CleanupIsSafe == Spec => CleanupKeepsLiveDirs
<1>1. Init => CleanerInv
  BY InitCleanerInv
<1>2. TypeInv /\ TypeInv' /\ JobInv /\ CleanerInv /\ [Next]_vars => CleanerInv'
  BY StepCleanerInv
<1>3. TypeInv /\ JobInv /\ CleanerInv /\ [Next]_vars
        => [\A j \in dir \ dir' : pc[j] \in {"none", "cleanup"} \/ j \in told]_vars
  BY StepKeepsLiveDirs
<1>4. QED
  BY <1>1, <1>2, <1>3, TypeInvariant, JobInvariant, PTL DEF Spec, CleanupKeepsLiveDirs

-----------------------------------------------------------------------------
(***************************************************************************)
(* The manager implements JobService.                                      *)
(***************************************************************************)

\* A job is cancelled only if somebody may cancel it.
OnlyCancellable == \A j \in Jobs : canceller[j] # "idle" => j \in Cancellable

LEMMA OnlyCancellableStep ==
  ASSUME TypeInv, OnlyCancellable, [Next]_vars
  PROVE  OnlyCancellable'
<1> USE DEF TypeInv, TypeOK, OnlyCancellable
<1>1. CASE UNCHANGED vars
  BY <1>1 DEF vars
<1>2. ASSUME NEW j \in Jobs,
             CancelRead(j) \/ CancelLookup(j) \/ CancelRunning(j) \/ CancelRow(j)
      PROVE  OnlyCancellable'
  BY <1>2 DEF CancelRead, CancelLookup, CancelRunning, CancelRow
<1>3. CASE Exit
  BY <1>3 DEF Exit
<1>4. UNCHANGED canceller
      \/ Exit \/ \E j \in Jobs : CancelRead(j) \/ CancelLookup(j) \/ CancelRunning(j) \/ CancelRow(j)
  BY DEF Next, vars, EnqueueCheck, EnqueueCreate, Load, Register, Download, BeforeFetch, AdmitDownload,
         GiveUpWaiting, RefuseForDisk, MkdirFails, StartFetch, FetchEnd, ExceedLimit,
         UploadFile, UploadEnd, MirrorEnd, Finalize, JoinStages, EndMirrorWait, Decide,
         Persist, RemoveDirs, Unregister, CleanerStep, CleanerQuery, CleanerReadDir,
         CleanerStates, CleanerRemove, CleanerEnd, Stop, Start
<1>5. QED  BY <1>2, <1>3, <1>4

\* What the assignments to a State do to the place of its download.
LEMMA DlUpdates ==
  ASSUME NEW s \in States, NEW d \in DlPlaces, NEW a \in BOOLEAN, NEW b \in BOOLEAN
  PROVE  /\ [s EXCEPT !.dl = d].dl = d
         /\ [s EXCEPT !.dl = d, !.fatal = TRUE, !.ctxDone = TRUE].dl = d
         /\ [s EXCEPT !.fatal = TRUE, !.ctxDone = TRUE].dl = s.dl
         /\ [s EXCEPT !.dl = d, !.ok = a, !.mirroring = b].dl = d
         /\ [s EXCEPT !.ul = "over"].dl = s.dl
         /\ [s EXCEPT !.ctxDone = TRUE].dl = s.dl
         /\ [s EXCEPT !.cancelled = TRUE, !.ctxDone = TRUE].dl = s.dl
         /\ [s EXCEPT !.sent = a].dl = s.dl
         /\ [s EXCEPT !.mirroring = FALSE].dl = s.dl
BY DEF States, DlPlaces

HoldsSlot(p, d) == p = "running" /\ d \in {"admitted", "fetching"}

\* One State changes: its job enters the critical section, leaves it, or stays.
LEMMA SlotsOfOne ==
  ASSUME TypeOK, NEW j \in Jobs, NEW r, mem' = [mem EXCEPT ![j] = r], pc' = pc
  PROVE  HoldingSlot' = IF HoldsSlot(pc[j], r.dl) THEN HoldingSlot \cup {j} ELSE HoldingSlot \ {j}
BY DEF TypeOK, HoldingSlot, HoldsSlot

\* A status that stays unfinished gives no outcome.
LEMMA OutcomeKept ==
  ASSUME TypeOK, NEW j \in Jobs, NEW v \in Statuses \ {"none", "done", "failed"},
         status[j] \notin {"none", "done", "failed"}, status' = [status EXCEPT ![j] = v]
  PROVE  Outcome' = Outcome
BY DEF TypeOK, Outcome

LEMMA SameCardinality == \A S : Service!Cardinality(S) = Cardinality(S)
BY DEF Service!Cardinality, Cardinality, Service!IsFiniteSet, IsFiniteSet

LEMMA DownloadService ==
  ASSUME TypeInv, JobInv, NEW j \in Jobs, Download(j)
  PROVE  Service!Next \/ UNCHANGED Service!serviceVars
<1> USE DEF Service!serviceVars
<1>1. TypeOK /\ mem[j] \in States /\ pc[j] = "running" /\ pc' = pc
  BY DEF TypeInv, TypeOK, Download, BeforeFetch, AdmitDownload, GiveUpWaiting, RefuseForDisk, MkdirFails,
         StartFetch, FetchEnd
<1>2. status[j] \notin {"none", "done", "failed"} /\ Outcome[j] = "pending"
  BY <1>1 DEF JobInv, Known, Exists, UnfinishedHasNoOutcome, Unfinished, Listening, Outcome
<1>3. CASE AdmitDownload(j)
  <2>1. [mem[j] EXCEPT !.dl = "admitted"].dl = "admitted"
    BY <1>1, DlUpdates DEF DlPlaces
  <2>2. mem' = [mem EXCEPT ![j] = [mem[j] EXCEPT !.dl = "admitted"]]
    BY <1>3 DEF AdmitDownload
  <2>3. HoldingSlot' = HoldingSlot \cup {j}
    BY <1>1, <2>1, <2>2, SlotsOfOne DEF HoldsSlot
  <2>4. Outcome' = Outcome
    BY <1>1, <1>2, <1>3, OutcomeKept DEF AdmitDownload, Statuses, Resumable
  <2>5. j \notin HoldingSlot /\ Cardinality(HoldingSlot) < MaxConcurrentDL
    BY <1>3 DEF AdmitDownload, HoldingSlot
  <2>6. Service!TakeSlot(j)
    BY <1>2, <2>3, <2>4, <2>5, SameCardinality DEF Service!TakeSlot
  <2>7. QED  BY <2>6 DEF Service!Next
<1>4. CASE StartFetch(j)
  <2>1. [mem[j] EXCEPT !.dl = "fetching"].dl = "fetching"
    BY <1>1, DlUpdates DEF DlPlaces
  <2>2. mem' = [mem EXCEPT ![j] = [mem[j] EXCEPT !.dl = "fetching"]]
    BY <1>4 DEF StartFetch
  <2>3. HoldingSlot' = HoldingSlot
    BY <1>1, <1>4, <2>1, <2>2, SlotsOfOne DEF HoldsSlot, StartFetch, HoldingSlot
  <2>4. QED  BY <1>4, <2>3 DEF StartFetch, Outcome
<1>5. CASE GiveUpWaiting(j) \/ RefuseForDisk(j) \/ MkdirFails(j) \/ FetchEnd(j)
  <2>1. PICK r : mem' = [mem EXCEPT ![j] = r] /\ r.dl = "over"
    <3>1. CASE GiveUpWaiting(j) \/ MkdirFails(j)
      <4>1. [mem[j] EXCEPT !.dl = "over"].dl = "over"
        BY <1>1, DlUpdates DEF DlPlaces
      <4>2. mem' = [mem EXCEPT ![j] = [mem[j] EXCEPT !.dl = "over"]]
        BY <3>1 DEF GiveUpWaiting, MkdirFails
      <4>3. QED  BY <4>1, <4>2
    <3>2. CASE RefuseForDisk(j)
      <4>1. [mem[j] EXCEPT !.dl = "over", !.fatal = TRUE, !.ctxDone = TRUE].dl = "over"
        BY <1>1, DlUpdates DEF DlPlaces
      <4>2. mem' = [mem EXCEPT ![j] = [mem[j] EXCEPT !.dl = "over", !.fatal = TRUE,
                                                     !.ctxDone = TRUE]]
        BY <3>2 DEF RefuseForDisk
      <4>3. QED  BY <4>1, <4>2
    <3>3. CASE FetchEnd(j)
      <4>1. PICK ok \in BOOLEAN, mirroring \in BOOLEAN :
              mem' = [mem EXCEPT ![j] = [@ EXCEPT !.dl = "over", !.ok = ok,
                                                  !.mirroring = mirroring]]
        BY <3>3 DEF FetchEnd
      <4>2. [mem[j] EXCEPT !.dl = "over", !.ok = ok, !.mirroring = mirroring].dl = "over"
        BY <1>1, DlUpdates DEF DlPlaces
      <4>3. QED  BY <4>1, <4>2
    <3>4. QED  BY <1>5, <3>1, <3>2, <3>3
  <2>2. HoldingSlot' = HoldingSlot \ {j}
    BY <1>1, <2>1, SlotsOfOne DEF HoldsSlot
  <2>3. Outcome' = Outcome
    BY <1>5 DEF GiveUpWaiting, RefuseForDisk, MkdirFails, FetchEnd, Outcome
  <2>4. CASE j \in HoldingSlot
    <3>1. Service!FreeSlot(j)
      BY <2>2, <2>3, <2>4 DEF Service!FreeSlot
    <3>2. QED  BY <3>1 DEF Service!Next
  <2>5. CASE j \notin HoldingSlot
    BY <2>2, <2>3, <2>5
  <2>6. QED  BY <2>4, <2>5
<1>6. QED  BY <1>3, <1>4, <1>5 DEF Download, BeforeFetch

LEMMA OtherStagesService ==
  ASSUME TypeInv, JobInv, NEW j \in Jobs,
         ExceedLimit(j) \/ UploadFile(j) \/ UploadEnd(j) \/ MirrorEnd(j)
  PROVE  Outcome' = Outcome /\ HoldingSlot' = HoldingSlot
<1>1. TypeOK /\ mem[j] \in States /\ pc' = pc
  BY DEF TypeInv, TypeOK, ExceedLimit, UploadFile, UploadEnd, MirrorEnd
<1>2. PICK r : mem' = [mem EXCEPT ![j] = r] /\ r.dl = mem[j].dl
  <2>1. CASE ExceedLimit(j)
    <3>1. [mem[j] EXCEPT !.fatal = TRUE, !.ctxDone = TRUE].dl = mem[j].dl
      BY <1>1, DlUpdates DEF DlPlaces
    <3>2. mem' = [mem EXCEPT ![j] = [mem[j] EXCEPT !.fatal = TRUE, !.ctxDone = TRUE]]
      BY <2>1 DEF ExceedLimit
    <3>3. QED  BY <3>1, <3>2
  <2>2. CASE UploadFile(j)
    <3>1. PICK success \in BOOLEAN : mem' = [mem EXCEPT ![j].sent = mem[j].sent \/ success]
      BY <2>2 DEF UploadFile
    <3>2. PICK a \in BOOLEAN : a = (mem[j].sent \/ success)
      BY <1>1 DEF States
    <3>3. [mem[j] EXCEPT !.sent = a].dl = mem[j].dl
      BY <1>1, DlUpdates DEF DlPlaces
    <3>4. mem' = [mem EXCEPT ![j] = [mem[j] EXCEPT !.sent = a]]
      BY <3>1, <3>2
    <3>5. QED  BY <3>3, <3>4
  <2>3. CASE UploadEnd(j)
    <3>1. [mem[j] EXCEPT !.ul = "over"].dl = mem[j].dl
      BY <1>1, DlUpdates DEF DlPlaces
    <3>2. mem' = [mem EXCEPT ![j] = [mem[j] EXCEPT !.ul = "over"]]
      BY <2>3 DEF UploadEnd
    <3>3. QED  BY <3>1, <3>2
  <2>4. CASE MirrorEnd(j)
    <3>1. [mem[j] EXCEPT !.mirroring = FALSE].dl = mem[j].dl
      BY <1>1, DlUpdates DEF DlPlaces
    <3>2. mem' = [mem EXCEPT ![j] = [mem[j] EXCEPT !.mirroring = FALSE]]
      BY <2>4 DEF MirrorEnd
    <3>3. QED  BY <3>1, <3>2
  <2>5. QED  BY <2>1, <2>2, <2>3, <2>4
<1>3. HoldingSlot' = HoldingSlot
  BY <1>1, <1>2, SlotsOfOne DEF HoldsSlot, HoldingSlot
<1>4. CASE UploadFile(j)
  <2>1. pc[j] = "running" /\ status' = [status EXCEPT ![j] = "uploading"]
    BY <1>4 DEF UploadFile
  <2>2. status[j] \notin {"none", "done", "failed"}
    BY <2>1 DEF JobInv, Known, Exists, UnfinishedHasNoOutcome, Unfinished, Listening
  <2>3. QED  BY <1>1, <1>3, <2>1, <2>2, OutcomeKept DEF Statuses, Resumable
<1>5. CASE ExceedLimit(j) \/ UploadEnd(j) \/ MirrorEnd(j)
  BY <1>3, <1>5 DEF ExceedLimit, UploadEnd, MirrorEnd, Outcome
<1>6. QED  BY <1>4, <1>5

LEMMA FinalizeService ==
  ASSUME TypeInv, JobInv, NEW j \in Jobs, Finalize(j)
  PROVE  Service!Next \/ UNCHANGED Service!serviceVars
<1> USE DEF Service!serviceVars
<1>1. TypeOK
  BY DEF TypeInv
<1>2. HoldingSlot' = HoldingSlot
  BY <1>1 DEF Finalize, JoinStages, EndMirrorWait, Decide, Persist, RemoveDirs, Unregister,
              TypeOK, HoldingSlot
<1>3. CASE JoinStages(j)
  <2>1. status[j] \notin {"none", "done", "failed"}
    BY <1>3 DEF JoinStages, JobInv, Known, Exists, UnfinishedHasNoOutcome, Unfinished, Listening
  <2>2. Outcome' = Outcome
    BY <1>1, <1>3, <2>1, OutcomeKept DEF JoinStages, Statuses, Outcome
  <2>3. QED  BY <1>2, <2>2
<1>4. CASE Persist(j)
  <2>1. status[j] \notin {"none", "done", "failed"} /\ final[j] \in Terminal
    BY <1>4 DEF Persist, JobInv, Known, Exists, UnfinishedHasNoOutcome, Unfinished, TypeInv,
                Decided
  <2>2. CASE final[j] = "cancelled"
    <3>1. Outcome' = Outcome
      BY <1>1, <1>4, <2>1, <2>2, OutcomeKept DEF Persist, Statuses, Terminal
    <3>2. QED  BY <1>2, <3>1
  <2>3. CASE final[j] # "cancelled"
    <3>1. final[j] \in Service!Outcomes
      BY <2>1, <2>3 DEF Terminal, Service!Outcomes
    <3>2. Outcome[j] = "pending" /\ j \notin HoldingSlot
      BY <1>4, <2>1 DEF Persist, Outcome, HoldingSlot
    <3>3. Outcome' = [Outcome EXCEPT ![j] = final[j]]
      BY <1>1, <1>4, <2>1, <2>3 DEF Persist, Outcome, TypeOK, Terminal
    <3>4. Service!Finish(j)
      BY <1>2, <3>1, <3>2, <3>3 DEF Service!Finish
    <3>5. QED  BY <3>4 DEF Service!Next
  <2>4. QED  BY <2>2, <2>3
<1>5. CASE EndMirrorWait(j) \/ Decide(j) \/ RemoveDirs(j) \/ Unregister(j)
  BY <1>2, <1>5 DEF EndMirrorWait, Decide, RemoveDirs, Unregister, Outcome
<1>6. QED  BY <1>3, <1>4, <1>5 DEF Finalize

LEMMA StartOfRunService ==
  ASSUME TypeInv, JobInv, NEW j \in Jobs, Load(j) \/ Register(j)
  PROVE  Outcome' = Outcome /\ HoldingSlot' = HoldingSlot
<1>1. CASE Load(j)
  BY <1>1 DEF Load, TypeInv, TypeOK, HoldingSlot, Outcome
<1>2. CASE Register(j)
  BY <1>2 DEF Register, TypeInv, TypeOK, HoldingSlot, Outcome, NewState
<1>3. QED  BY <1>1, <1>2

LEMMA EnqueueService ==
  ASSUME TypeInv, JobInv, NEW s \in Senders, NEW j \in Jobs, EnqueueCreate(s, j)
  PROVE  Service!Next
<1>1. status[j] = "none" /\ pc[j] = "none"
  BY DEF EnqueueCreate, JobInv, Known, Exists, TypeInv, TypeOK
<1>2. HoldingSlot' = HoldingSlot
  BY <1>1 DEF EnqueueCreate, TypeInv, TypeOK, HoldingSlot
<1>3. Outcome[j] = "none" /\ Outcome' = [Outcome EXCEPT ![j] = "pending"]
  BY <1>1 DEF EnqueueCreate, TypeInv, TypeOK, Outcome
<1>4. QED  BY <1>2, <1>3 DEF Service!Next, Service!Submit

LEMMA ProcessService ==
  ASSUME TypeInv, JobInv, Stop \/ Exit \/ Start \/ CleanerStep
  PROVE  Service!Next \/ UNCHANGED Service!serviceVars
<1> USE DEF Service!serviceVars
<1>1. Outcome' = Outcome
  BY DEF Stop, Exit, Start, CleanerStep, CleanerQuery, CleanerReadDir, CleanerStates,
         CleanerRemove, CleanerEnd, Outcome
<1>2. CASE Stop
  <2>1. ASSUME NEW j \in Jobs PROVE mem'[j].dl = mem[j].dl
    <3>1. mem[j] \in States
      BY DEF TypeInv, TypeOK
    <3>2. [mem[j] EXCEPT !.ctxDone = TRUE].dl = mem[j].dl
      BY <3>1, DlUpdates DEF DlPlaces
    <3>3. mem'[j] = [mem[j] EXCEPT !.ctxDone = TRUE]
      BY <1>2 DEF Stop
    <3>4. QED  BY <3>2, <3>3
  <2>2. HoldingSlot' = HoldingSlot
    BY <1>2, <2>1 DEF Stop, HoldingSlot
  <2>3. QED  BY <1>1, <2>2
<1>3. CASE Exit
  <2>1. HoldingSlot' = {}
    BY <1>3 DEF Exit, HoldingSlot
  <2>2. QED  BY <1>1, <2>1 DEF Service!Next, Service!Interrupt
<1>4. CASE Start
  <2>1. HoldingSlot' = HoldingSlot
    BY <1>4 DEF Start, HoldingSlot, JobInv, DownIsEmpty, TypeInv, TypeOK
  <2>2. QED  BY <1>1, <2>1
<1>5. CASE CleanerStep
  <2>1. HoldingSlot' = HoldingSlot
    BY <1>5 DEF CleanerStep, CleanerQuery, CleanerReadDir, CleanerStates, CleanerRemove,
                CleanerEnd, HoldingSlot
  <2>2. QED  BY <1>1, <2>1
<1>6. QED  BY <1>2, <1>3, <1>4, <1>5

LEMMA CancelService ==
  ASSUME TypeInv, JobInv, OnlyCancellable, NEW j \in Jobs,
         CancelLookup(j) \/ CancelRunning(j) \/ CancelRow(j)
  PROVE  Service!Next \/ UNCHANGED Service!serviceVars
<1> USE DEF Service!serviceVars
<1>1. TypeOK /\ mem[j] \in States
  BY DEF TypeInv, TypeOK
<1>2. CASE CancelLookup(j)
  BY <1>2 DEF CancelLookup, Outcome, HoldingSlot
<1>3. CASE CancelRunning(j)
  <2>1. ASSUME NEW i \in Jobs PROVE mem'[i].dl = mem[i].dl
    <3>1. CASE i = j /\ j \in Registered
      <4>1. [mem[j] EXCEPT !.cancelled = TRUE, !.ctxDone = TRUE].dl = mem[j].dl
        BY <1>1, DlUpdates DEF DlPlaces
      <4>2. mem' = [mem EXCEPT ![j] = [mem[j] EXCEPT !.cancelled = TRUE, !.ctxDone = TRUE]]
        BY <1>3, <3>1 DEF CancelRunning
      <4>3. mem'[j] = [mem[j] EXCEPT !.cancelled = TRUE, !.ctxDone = TRUE]
        BY <1>1, <4>2 DEF TypeOK
      <4>4. QED  BY <3>1, <4>1, <4>3
    <3>2. CASE ~(i = j /\ j \in Registered)
      BY <1>1, <1>3, <3>2 DEF CancelRunning, TypeOK
    <3>3. QED  BY <3>1, <3>2
  <2>2. pc' = pc /\ Outcome' = Outcome
    BY <1>3 DEF CancelRunning, Outcome
  <2>3. HoldingSlot' = HoldingSlot
    BY <2>1, <2>2 DEF HoldingSlot
  <2>4. QED  BY <2>2, <2>3
<1>4. CASE CancelRow(j)
  <2>1. j \in Cancellable /\ status[j] # "none"
    BY <1>4 DEF CancelRow, OnlyCancellable, JobInv, Known, Exists
  <2>2. HoldingSlot' = HoldingSlot
    BY <1>4 DEF CancelRow, HoldingSlot
  <2>3. CASE status[j] \in {"done", "failed"}
    <3>1. Outcome[j] \in Service!Outcomes
      BY <2>3 DEF Outcome, Service!Outcomes
    <3>2. Outcome' = [Outcome EXCEPT ![j] = "pending"]
      BY <1>1, <1>4 DEF CancelRow, Outcome, TypeOK
    <3>3. Service!Withdraw(j)
      BY <2>1, <2>2, <3>1, <3>2 DEF Service!Withdraw
    <3>4. QED  BY <3>3 DEF Service!Next
  <2>4. CASE status[j] \notin {"done", "failed"}
    <3>1. Outcome' = Outcome
      BY <1>1, <1>4, <2>1, <2>4, OutcomeKept DEF CancelRow, Statuses, Terminal
    <3>2. QED  BY <2>2, <3>1
  <2>5. QED  BY <2>3, <2>4
<1>5. QED  BY <1>2, <1>3, <1>4

LEMMA StepService ==
  TypeInv /\ JobInv /\ OnlyCancellable /\ [Next]_vars => [Service!Next]_Service!serviceVars
<1> SUFFICES ASSUME TypeInv, JobInv, OnlyCancellable, [Next]_vars
             PROVE  Service!Next \/ UNCHANGED Service!serviceVars
  OBVIOUS
<1>1. CASE UNCHANGED vars
  BY <1>1 DEF vars, Service!serviceVars, Outcome, HoldingSlot
<1>2. ASSUME NEW s \in Senders, EnqueueCheck(s) PROVE UNCHANGED Service!serviceVars
  BY <1>2 DEF EnqueueCheck, Service!serviceVars, Outcome, HoldingSlot
<1>3. ASSUME NEW j \in Jobs, CancelRead(j) PROVE UNCHANGED Service!serviceVars
  BY <1>3 DEF CancelRead, Service!serviceVars, Outcome, HoldingSlot
<1>4. ASSUME NEW j \in Jobs,
             \/ Load(j) \/ Register(j)
             \/ ExceedLimit(j) \/ UploadFile(j) \/ UploadEnd(j) \/ MirrorEnd(j)
      PROVE  UNCHANGED Service!serviceVars
  BY <1>4, StartOfRunService, OtherStagesService DEF Service!serviceVars
<1>5. QED
  BY <1>1, <1>2, <1>3, <1>4, CancelService, EnqueueService, DownloadService, FinalizeService,
     ProcessService
     DEF Next

LEMMA InitService == Init => Service!Init
<1> SUFFICES ASSUME Init PROVE Service!Init
  OBVIOUS
<1>1. Outcome = [j \in Jobs |-> "none"]
  BY DEF Init, Outcome
<1>2. HoldingSlot = {}
  BY DEF Init, HoldingSlot
<1>3. QED  BY <1>1, <1>2 DEF Service!Init

\* The manager implements the job service: every job gets at most one outcome,
\* none is taken back by a restart, only by a user who cancels just then, and
\* the jobs that download keep to their slots.
THEOREM ManagerImplementsService == Spec => ImplementsService
<1>1. Init => OnlyCancellable
  BY DEF Init, OnlyCancellable
<1>2. TypeInv /\ OnlyCancellable /\ [Next]_vars => OnlyCancellable'
  BY OnlyCancellableStep
<1>3. QED
  BY <1>1, <1>2, InitService, StepService, TypeInvariant, JobInvariant, PTL
     DEF Spec, ImplementsService, Service!Spec
=============================================================================
