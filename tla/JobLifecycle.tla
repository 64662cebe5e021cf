---------------------------- MODULE JobLifecycle ----------------------------
(***************************************************************************)
(* The life of a job: jobs.Manager (src/internal/jobs/manager.go) with the *)
(* part of State it steers by, the statuses in the SQLite store, the       *)
(* download directories, and the two handlers of the bot that create and   *)
(* cancel jobs.  The process may be stopped or killed at any point and is  *)
(* started again by its container.                                         *)
(*                                                                         *)
(* An action is what a goroutine does between two points where another one *)
(* can see or change something it uses: a statement on the store, a        *)
(* critical section of m.mu, a channel, a directory.  The source of the    *)
(* job and the uploads are abstract: FetchEnd and UploadFile choose what   *)
(* they do.  The download semaphore is its contract, PermitPool.           *)
(***************************************************************************)
EXTENDS Integers, FiniteSets

CONSTANTS
  Jobs,
  Senders,          \* updates that enqueue a job, handled concurrently
  Cancellable,      \* jobs that somebody asks to cancel
  MirrorJobs,       \* jobs whose archives are mirrored in the background
  MaxConcurrentDL,  \* limit of m.dlSem
  MaxJobsPerChat,   \* cfg.MaxJobsPerChat; all jobs are of one chat
  Cleaner,          \* whether the 30 minute ticker of Start fires
  MaxRestarts       \* bound: how often the process ends

ASSUME JobsAssumption == IsFiniteSet(Jobs)
ASSUME SubsetsAssumption == Cancellable \subseteq Jobs /\ MirrorJobs \subseteq Jobs
ASSUME LimitsAssumption ==
  /\ MaxConcurrentDL \in Nat \ {0}
  /\ MaxJobsPerChat \in Nat
  /\ MaxRestarts \in Nat
  /\ Cleaner \in BOOLEAN

VARIABLES
  \* on disk
  status,      \* status column of the jobs table, "none" before CreateJob
  dir,         \* jobs that have a directory under DownloadsDir()
  \* the process
  phase,       \* "up", "stopping" (m.root is done) or "down"
  restarts,
  pc,          \* where run(id) is; "none" when there is no such goroutine
  mem,         \* the *State of a job
  final,       \* local variable of finalize
  sender,      \* where enqueue is, per update
  canceller,   \* where cmdCancel or cbCancel is, per job
  cleaner,     \* the ticker goroutine: its place and its local variables
  \* history
  heard,       \* cancellations that came when the job listens: by its flag, by its
               \* row, or by a flag that was lost with the process
  told,        \* jobs that their user was told are cancelled
  willResume   \* jobs that finalize logged as interrupted, until the next start

durable == <<status, dir>>
process == <<phase, restarts>>
handlers == <<sender, canceller>>
history == <<heard, told, willResume>>
vars == <<durable, process, pc, mem, final, handlers, cleaner, history>>

-----------------------------------------------------------------------------
Resumable == {"queued", "downloading", "uploading"}
Terminal  == {"done", "failed", "cancelled"}
Statuses  == {"none", "mirroring"} \cup Resumable \cup Terminal

\* run(id) has put the job's State into m.states and not taken it out yet.
RegisteredPcs == {"running", "mirrorWait", "decide", "persist", "cleanup", "unregister"}
PcValues == {"none", "spawned", "loaded"} \cup RegisteredPcs
Registered == {j \in Jobs : pc[j] \in RegisteredPcs}

Exists(j) == status[j] # "none"
ResumableJobs == {j \in Jobs : status[j] \in Resumable}

\* Jobs inside the critical section that m.dlSem guards.
HoldingSlot == {j \in Jobs : pc[j] = "running" /\ mem[j].dl \in {"admitted", "fetching"}}

\* newState: the context is a child of m.root.
NewState ==
  [dl |-> "waiting", ul |-> "active", ctxDone |-> phase # "up", cancelled |-> FALSE,
   fatal |-> FALSE, ok |-> FALSE, sent |-> FALSE, mirroring |-> FALSE]

States ==
  [dl : {"waiting", "admitted", "fetching", "over"}, ul : {"active", "over"},
   ctxDone : BOOLEAN, cancelled : BOOLEAN, fatal : BOOLEAN, ok : BOOLEAN,
   sent : BOOLEAN, mirroring : BOOLEAN]

IdleCleaner == [at |-> "idle", keep |-> {}, entries |-> {}, live |-> {}]

Running == phase # "down"

-----------------------------------------------------------------------------
(* Wrong versions of the code below, each of which a run must reject.       *)

\* Only Store.QueuedJobs is asked for at startup.
StartQueuedOnly ==
  /\ phase = "down"
  /\ phase' = "up"
  /\ dir' = dir \cap ResumableJobs
  /\ pc' = [j \in Jobs |-> IF status[j] = "queued" THEN "spawned" ELSE "none"]
  /\ willResume' = {}
  /\ UNCHANGED <<status, restarts, mem, final, handlers, cleaner, heard, told>>

\* The shutdown is looked at before the user's cancellation.
VerdictShutdownFirst(j) ==
  IF mem[j].fatal THEN "failed"
  ELSE IF phase # "up" THEN "interrupted"
  ELSE IF mem[j].cancelled THEN "cancelled"
  ELSE IF mem[j].ok \/ mem[j].sent THEN "done"
  ELSE "failed"

\* Any ended context counts as an interruption.
VerdictByContext(j) ==
  IF mem[j].fatal THEN "failed"
  ELSE IF mem[j].ctxDone THEN "interrupted"
  ELSE IF mem[j].ok \/ mem[j].sent THEN "done"
  ELSE "failed"

\* The files of a failed job are kept.
RemoveDirsUnlessFailed(j) ==
  /\ pc[j] = "cleanup"
  /\ dir' = IF final[j] = "failed" THEN dir ELSE dir \ {j}
  /\ pc' = [pc EXCEPT ![j] = "unregister"]
  /\ UNCHANGED <<status, process, mem, final, handlers, cleaner, history>>

\* The download starts without m.dlSem.
AdmitWithoutSlot(j) ==
  /\ pc[j] = "running" /\ mem[j].dl = "waiting"
  /\ mem' = [mem EXCEPT ![j].dl = "admitted"]
  /\ status' = [status EXCEPT ![j] = "downloading"]
  /\ UNCHANGED <<dir, process, pc, final, handlers, cleaner, history>>

\* The ticker keeps the directory of every row.
CleanerQueryAllRows ==
  /\ Cleaner
  /\ phase = "up"
  /\ cleaner.at = "idle"
  /\ cleaner' = [cleaner EXCEPT !.at = "readDir", !.keep = {j \in Jobs : Exists(j)}]
  /\ UNCHANGED <<durable, process, pc, mem, final, handlers, history>>

\* The ticker does not look at m.states.
CleanerStatesIgnored ==
  /\ Running
  /\ cleaner.at = "states"
  /\ cleaner' = [cleaner EXCEPT !.at = "remove", !.live = cleaner.keep]
  /\ UNCHANGED <<durable, process, pc, mem, final, handlers, history>>

-----------------------------------------------------------------------------
Init ==
  /\ status = [j \in Jobs |-> "none"]
  /\ dir = {}
  /\ phase = "up"
  /\ restarts = 0
  /\ pc = [j \in Jobs |-> "none"]
  /\ mem = [j \in Jobs |-> NewState]
  /\ final = [j \in Jobs |-> "none"]
  /\ sender = [s \in Senders |-> "idle"]
  /\ canceller = [j \in Jobs |-> "idle"]
  /\ cleaner = IdleCleaner
  /\ heard = [j \in Jobs |-> "no"]
  /\ told = {}
  /\ willResume = {}

-----------------------------------------------------------------------------
(* bot.enqueue: it counts, then it creates.  CreateJob and mgr.Add are one  *)
(* step: a row without its goroutine behaves like one whose goroutine has   *)
(* not run yet.                                                             *)

EnqueueCheck(s) ==
  /\ phase = "up"
  /\ sender[s] = "idle"
  /\ Cardinality(ResumableJobs) < MaxJobsPerChat
  /\ sender' = [sender EXCEPT ![s] = "create"]
  /\ UNCHANGED <<durable, process, pc, mem, final, canceller, cleaner, history>>

EnqueueCreate(s, j) ==
  /\ phase = "up"
  /\ sender[s] = "create"
  /\ ~Exists(j)
  /\ status' = [status EXCEPT ![j] = "queued"]
  /\ pc' = [pc EXCEPT ![j] = "spawned"]
  /\ sender' = [sender EXCEPT ![s] = "idle"]
  /\ UNCHANGED <<dir, process, mem, final, canceller, cleaner, history>>

-----------------------------------------------------------------------------
(* cmdCancel, cbCancel and Manager.Cancel.                                  *)

CancelRead(j) ==
  /\ phase = "up"
  /\ j \in Cancellable
  /\ canceller[j] = "idle"
  /\ Exists(j) /\ status[j] \notin Terminal
  /\ canceller' = [canceller EXCEPT ![j] = "lookup"]
  /\ UNCHANGED <<durable, process, pc, mem, final, sender, cleaner, history>>

CancelLookup(j) ==
  /\ Running
  /\ canceller[j] = "lookup"
  /\ canceller' = [canceller EXCEPT ![j] = IF j \in Registered THEN "hit" ELSE "miss"]
  /\ UNCHANGED <<durable, process, pc, mem, final, sender, cleaner, history>>

\* st.cancelled.Store(true), st.cancel(), st.kill(), then the reply.  A State
\* that finalize has left behind takes no notice.
CancelRunning(j) ==
  /\ Running
  /\ canceller[j] = "hit"
  /\ mem' = IF j \in Registered
              THEN [mem EXCEPT ![j] = [@ EXCEPT !.cancelled = TRUE, !.ctxDone = TRUE]]
              ELSE mem
  /\ heard' = IF pc[j] \in {"running", "mirrorWait", "decide"}
                THEN [heard EXCEPT ![j] = "flag"]
                ELSE heard
  /\ told' = told \cup {j}
  /\ canceller' = [canceller EXCEPT ![j] = "idle"]
  /\ UNCHANGED <<durable, process, pc, final, sender, cleaner, willResume>>

\* The job has no State: only its row is changed, then the reply.
CancelRow(j) ==
  /\ phase = "up"
  /\ canceller[j] = "miss"
  /\ status' = [status EXCEPT ![j] = "cancelled"]
  /\ heard' = IF pc[j] \in {"none", "spawned"} /\ status[j] \notin Terminal
                THEN [heard EXCEPT ![j] = "row"]
                ELSE heard
  /\ told' = told \cup {j}
  /\ canceller' = [canceller EXCEPT ![j] = "idle"]
  /\ UNCHANGED <<dir, process, pc, mem, final, sender, cleaner, willResume>>

-----------------------------------------------------------------------------
(* run(id): load, register, run the two stages, join them.                  *)

\* GetJob fails once m.root is done; a terminal job is left alone.
Load(j) ==
  /\ Running
  /\ pc[j] = "spawned"
  /\ pc' = [pc EXCEPT ![j] =
              IF phase = "up" /\ status[j] \notin Terminal THEN "loaded" ELSE "none"]
  /\ UNCHANGED <<durable, process, mem, final, handlers, cleaner, history>>

Register(j) ==
  /\ Running
  /\ pc[j] = "loaded"
  /\ pc' = [pc EXCEPT ![j] = "running"]
  /\ mem' = [mem EXCEPT ![j] = NewState]
  /\ UNCHANGED <<durable, process, final, handlers, cleaner, history>>

\* downloadStage: m.dlSem.Acquire; its fast path does not look at the context.
AdmitDownload(j) ==
  /\ pc[j] = "running" /\ mem[j].dl = "waiting"
  /\ Cardinality(HoldingSlot) < MaxConcurrentDL
  /\ mem' = [mem EXCEPT ![j].dl = "admitted"]
  /\ status' = [status EXCEPT ![j] = "downloading"]
  /\ UNCHANGED <<dir, process, pc, final, handlers, cleaner, history>>

GiveUpWaiting(j) ==
  /\ pc[j] = "running" /\ mem[j].dl = "waiting"
  /\ mem[j].ctxDone
  /\ mem' = [mem EXCEPT ![j].dl = "over"]
  /\ UNCHANGED <<durable, process, pc, final, handlers, cleaner, history>>

\* Too little disk: setFatal also ends the context.
RefuseForDisk(j) ==
  /\ pc[j] = "running" /\ mem[j].dl = "admitted"
  /\ mem' = [mem EXCEPT ![j] = [@ EXCEPT !.dl = "over", !.fatal = TRUE, !.ctxDone = TRUE]]
  /\ UNCHANGED <<durable, process, pc, final, handlers, cleaner, history>>

MkdirFails(j) ==
  /\ pc[j] = "running" /\ mem[j].dl = "admitted"
  /\ mem' = [mem EXCEPT ![j].dl = "over"]
  /\ UNCHANGED <<durable, process, pc, final, handlers, cleaner, history>>

StartFetch(j) ==
  /\ pc[j] = "running" /\ mem[j].dl = "admitted"
  /\ mem' = [mem EXCEPT ![j].dl = "fetching"]
  /\ dir' = dir \cup {j}
  /\ UNCHANGED <<status, process, pc, final, handlers, cleaner, history>>

\* checkMaxBytesLocked, the free space ticker and monitorDisk.
ExceedLimit(j) ==
  /\ pc[j] = "running" /\ mem[j].dl = "fetching"
  /\ ~mem[j].fatal
  /\ mem' = [mem EXCEPT ![j] = [@ EXCEPT !.fatal = TRUE, !.ctxDone = TRUE]]
  /\ UNCHANGED <<durable, process, pc, final, handlers, cleaner, history>>

\* src.Fetch returns.  A finished archive may leave uploads to its mirrors in
\* the background, counted by st.mirrorWG.
FetchEnd(j) ==
  /\ pc[j] = "running" /\ mem[j].dl = "fetching"
  /\ \E ok, mirroring \in BOOLEAN :
        /\ ok => ~mem[j].ctxDone
        /\ mirroring => ok /\ j \in MirrorJobs
        /\ mem' = [mem EXCEPT ![j] = [@ EXCEPT !.dl = "over", !.ok = ok, !.mirroring = mirroring]]
  /\ UNCHANGED <<durable, process, pc, final, handlers, cleaner, history>>

\* processFile sends a file while the download goes on or after it; an upload
\* that began before the context was done may still succeed.
UploadFile(j) ==
  /\ pc[j] = "running" /\ mem[j].ul = "active"
  /\ j \in dir
  /\ status' = [status EXCEPT ![j] = "uploading"]
  /\ \E success \in BOOLEAN :
        mem' = [mem EXCEPT ![j].sent = mem[j].sent \/ success]
  /\ UNCHANGED <<dir, process, pc, final, handlers, cleaner, history>>

\* uploadStage ends with the context, or when the download is over and nothing
\* is left.
UploadEnd(j) ==
  /\ pc[j] = "running" /\ mem[j].ul = "active"
  /\ mem[j].ctxDone \/ mem[j].dl = "over"
  /\ mem' = [mem EXCEPT ![j].ul = "over"]
  /\ UNCHANGED <<durable, process, pc, final, handlers, cleaner, history>>

MirrorEnd(j) ==
  /\ Running
  /\ mem[j].mirroring
  /\ mem' = [mem EXCEPT ![j].mirroring = FALSE]
  /\ UNCHANGED <<durable, process, pc, final, handlers, cleaner, history>>

-----------------------------------------------------------------------------
(* finalize.                                                                *)

JoinStages(j) ==
  /\ pc[j] = "running" /\ mem[j].dl = "over" /\ mem[j].ul = "over"
  /\ IF mem[j].mirroring
       THEN /\ status' = [status EXCEPT ![j] = "mirroring"]
            /\ pc' = [pc EXCEPT ![j] = "mirrorWait"]
       ELSE /\ pc' = [pc EXCEPT ![j] = "decide"]
            /\ UNCHANGED status
  /\ UNCHANGED <<dir, process, mem, final, handlers, cleaner, history>>

\* The mirrors are done, the context is done, or 30 minutes have passed.
EndMirrorWait(j) ==
  /\ pc[j] = "mirrorWait"
  /\ pc' = [pc EXCEPT ![j] = "decide"]
  /\ UNCHANGED <<durable, process, mem, final, handlers, cleaner, history>>

Verdict(j) ==
  IF mem[j].fatal THEN "failed"
  ELSE IF mem[j].cancelled THEN "cancelled"
  ELSE IF phase # "up" THEN "interrupted"
  ELSE IF mem[j].ok \/ mem[j].sent THEN "done"
  ELSE "failed"

\* An interrupted job skips everything but the deferred removals.
Decide(j) ==
  /\ Running
  /\ pc[j] = "decide"
  /\ final' = [final EXCEPT ![j] = Verdict(j)]
  /\ pc' = [pc EXCEPT ![j] = IF Verdict(j) = "interrupted" THEN "cleanup" ELSE "persist"]
  /\ willResume' = IF Verdict(j) = "interrupted" THEN willResume \cup {j} ELSE willResume
  /\ UNCHANGED <<durable, process, mem, handlers, cleaner, heard, told>>

Persist(j) ==
  /\ Running
  /\ pc[j] = "persist"
  /\ status' = [status EXCEPT ![j] = final[j]]
  /\ pc' = [pc EXCEPT ![j] = "cleanup"]
  /\ UNCHANGED <<dir, process, mem, final, handlers, cleaner, history>>

RemoveDirs(j) ==
  /\ pc[j] = "cleanup"
  /\ dir' = dir \ {j}
  /\ pc' = [pc EXCEPT ![j] = "unregister"]
  /\ UNCHANGED <<status, process, mem, final, handlers, cleaner, history>>

Unregister(j) ==
  /\ pc[j] = "unregister"
  /\ pc' = [pc EXCEPT ![j] = "none"]
  /\ final' = [final EXCEPT ![j] = "none"]
  /\ UNCHANGED <<durable, process, mem, handlers, cleaner, history>>

-----------------------------------------------------------------------------
(* The ticker goroutine: query, ReadDir, m.states, then the removals one by  *)
(* one.  The directories are read before m.states is.                        *)

CleanerQuery ==
  /\ Cleaner
  /\ phase = "up"
  /\ cleaner.at = "idle"
  /\ cleaner' = [cleaner EXCEPT !.at = "readDir", !.keep = ResumableJobs]
  /\ UNCHANGED <<durable, process, pc, mem, final, handlers, history>>

CleanerReadDir ==
  /\ Running
  /\ cleaner.at = "readDir"
  /\ cleaner' = [cleaner EXCEPT !.at = "states", !.entries = dir]
  /\ UNCHANGED <<durable, process, pc, mem, final, handlers, history>>

CleanerStates ==
  /\ Running
  /\ cleaner.at = "states"
  /\ cleaner' = [cleaner EXCEPT !.at = "remove", !.live = cleaner.keep \cup Registered]
  /\ UNCHANGED <<durable, process, pc, mem, final, handlers, history>>

CleanerRemove(j) ==
  /\ Running
  /\ cleaner.at = "remove"
  /\ j \in cleaner.entries \ cleaner.live
  /\ dir' = dir \ {j}
  /\ cleaner' = [cleaner EXCEPT !.entries = cleaner.entries \ {j}]
  /\ UNCHANGED <<status, process, pc, mem, final, handlers, history>>

CleanerEnd ==
  /\ Running
  /\ cleaner.at = "remove"
  /\ cleaner.entries \subseteq cleaner.live
  /\ cleaner' = IdleCleaner
  /\ UNCHANGED <<durable, process, pc, mem, final, handlers, history>>

-----------------------------------------------------------------------------
(* The process.                                                             *)

\* SIGTERM: m.root is done, and with it the context of every State.
Stop ==
  /\ phase = "up"
  /\ restarts < MaxRestarts
  /\ phase' = "stopping"
  /\ mem' = [j \in Jobs |-> [mem[j] EXCEPT !.ctxDone = TRUE]]
  /\ UNCHANGED <<durable, restarts, pc, final, handlers, cleaner, history>>

\* The process ends: it is killed, Manager.Stop has seen every run return, its
\* 15 seconds are over, or /restart calls os.Exit three seconds after its
\* SIGTERM.  What is in memory is gone, and with it the flag of a job that was
\* cancelled and whose outcome finalize has not stored yet.
Exit ==
  /\ Running
  /\ restarts < MaxRestarts
  /\ phase' = "down"
  /\ restarts' = restarts + 1
  /\ pc' = [j \in Jobs |-> "none"]
  /\ mem' = [j \in Jobs |-> NewState]
  /\ final' = [j \in Jobs |-> "none"]
  /\ sender' = [s \in Senders |-> "idle"]
  /\ canceller' = [j \in Jobs |-> "idle"]
  /\ cleaner' = IdleCleaner
  /\ heard' = [j \in Jobs |->
                 IF heard[j] = "flag" /\ status[j] \notin Terminal THEN "lost" ELSE heard[j]]
  /\ UNCHANGED <<durable, told, willResume>>

\* Manager.Start, before the bot handles updates: resumable jobs are read,
\* the other directories removed, and each job gets its goroutine.
Start ==
  /\ phase = "down"
  /\ phase' = "up"
  /\ dir' = dir \cap ResumableJobs
  /\ pc' = [j \in Jobs |-> IF j \in ResumableJobs THEN "spawned" ELSE "none"]
  /\ willResume' = {}
  /\ UNCHANGED <<status, restarts, mem, final, handlers, cleaner, heard, told>>

-----------------------------------------------------------------------------
BeforeFetch(j) ==
  \/ AdmitDownload(j) \/ GiveUpWaiting(j) \/ RefuseForDisk(j) \/ MkdirFails(j)
  \/ StartFetch(j)

Download(j) == BeforeFetch(j) \/ FetchEnd(j)

Finalize(j) ==
  \/ JoinStages(j) \/ EndMirrorWait(j) \/ Decide(j) \/ Persist(j)
  \/ RemoveDirs(j) \/ Unregister(j)

CleanerStep ==
  \/ CleanerQuery \/ CleanerReadDir \/ CleanerStates \/ CleanerEnd
  \/ \E j \in Jobs : CleanerRemove(j)

Next ==
  \/ \E s \in Senders : EnqueueCheck(s) \/ \E j \in Jobs : EnqueueCreate(s, j)
  \/ \E j \in Jobs :
        \/ CancelRead(j) \/ CancelLookup(j) \/ CancelRunning(j) \/ CancelRow(j)
        \/ Load(j) \/ Register(j) \/ Download(j) \/ ExceedLimit(j)
        \/ UploadFile(j) \/ UploadEnd(j) \/ MirrorEnd(j) \/ Finalize(j)
  \/ CleanerStep
  \/ Stop \/ Exit \/ Start

Spec == Init /\ [][Next]_vars

(***************************************************************************)
(* Goroutines keep running; the semaphore serves its waiters (property     *)
(* EveryWaiterServed of module Semaphore), hence the strong fairness of    *)
(* AdmitDownload; the container restarts the process.  A fetch or an       *)
(* upload need not end by itself: engines run without a timeout            *)
(* (subproc.go:260-330), HTTP clients have Timeout 0 and a rename may wait *)
(* for the upload stage without end.  They end once their context is done, *)
(* which kills the engine and aborts the requests.  Nothing obliges users, *)
(* signals, limits or mirrors.                                             *)
(***************************************************************************)
Fairness ==
  /\ \A j \in Jobs :
        /\ WF_vars(Load(j)) /\ WF_vars(Register(j))
        /\ SF_vars(AdmitDownload(j))
        /\ WF_vars(BeforeFetch(j)) /\ WF_vars(Finalize(j))
        /\ WF_vars(mem[j].ctxDone /\ FetchEnd(j)) /\ WF_vars(mem[j].ctxDone /\ UploadEnd(j))
        /\ WF_vars(CancelLookup(j)) /\ WF_vars(CancelRunning(j) \/ CancelRow(j))
  /\ WF_vars(CleanerStep)
  /\ WF_vars(phase = "stopping" /\ Exit)
  /\ WF_vars(Start)

FairSpec == Spec /\ Fairness

-----------------------------------------------------------------------------
TypeOK ==
  /\ status \in [Jobs -> Statuses]
  /\ dir \subseteq Jobs
  /\ phase \in {"up", "stopping", "down"}
  /\ restarts \in 0..MaxRestarts
  /\ pc \in [Jobs -> PcValues]
  /\ mem \in [Jobs -> States]
  /\ final \in [Jobs -> {"none", "interrupted"} \cup Terminal]
  /\ sender \in [Senders -> {"idle", "create"}]
  /\ canceller \in [Jobs -> {"idle", "lookup", "hit", "miss"}]
  /\ cleaner \in [at : {"idle", "readDir", "states", "remove"}, keep : SUBSET Jobs,
                  entries : SUBSET Jobs, live : SUBSET Jobs]
  /\ heard \in [Jobs -> {"no", "flag", "row", "lost"}]
  /\ told \subseteq Jobs
  /\ willResume \subseteq Jobs

(***************************************************************************)
(* Safety.                                                                 *)
(***************************************************************************)

\* While the process runs, a job that the store calls queued or active has a
\* goroutine working on it: none is left behind by a restart, by a cancelled
\* wait for the semaphore, by a limit or by a lost race (Start, run,
\* finalize).  A job in "mirroring" is not covered: Start does not look for it.
NoStuckJob ==
  phase = "up" => \A j \in ResumableJobs : pc[j] # "none"

\* A cancellation that arrived while the job could hear it is final, over
\* restarts too.  Either the row was cancelled before run loaded it, and then
\* it never runs; or the flag was set before finalize looked, and then the job
\* does not end "done" even if the download had succeeded or the process was
\* stopping meanwhile.  Three cancellations that the user sees confirmed are
\* not heard, and the job may end "done" after them: one whose process ends
\* before finalize has stored the outcome ("lost": the flag is only in
\* memory), one that changes the row between Load and Register
\* (cmd_misc.go:78-97), and one that comes after finalize has looked.
CancelHonoured ==
  \A j \in Jobs :
     /\ heard[j] = "row" => status[j] = "cancelled"
     /\ heard[j] = "flag" => status[j] # "done" /\ j \notin willResume

\* While the process runs, a directory belongs to a goroutine, which removes
\* it in finalize; the exception is a job of an earlier process cancelled
\* before its goroutine loaded it, whose directory waits for the ticker.
NoLeakedDir ==
  phase = "up" => \A j \in dir : pc[j] # "none" \/ heard[j] = "row"

\* What is left of a job in the store or on the disk has a goroutine that will
\* deal with it.
WorkHasGoroutine == NoStuckJob /\ NoLeakedDir

\* The ticker never removes the directory of a job that is being worked on:
\* whatever is created, registered or finished between its query, its ReadDir
\* and its look at m.states, only finalize removes a live job's directory.  A
\* job whose row was cancelled while it had no State may lose it: the ticker
\* takes that row at its word.
CleanupKeepsLiveDirs ==
  [][\A j \in dir \ dir' : pc[j] \in {"none", "cleanup"} \/ j \in told]_vars

(***************************************************************************)
(* Liveness and refinement.                                                *)
(***************************************************************************)

\* The source is fetching, or uploads are all that is left to do, and nobody
\* has ended the context of the job.
Transferring(j) ==
  /\ pc[j] = "running" /\ ~mem[j].ctxDone
  /\ mem[j].dl = "fetching" \/ (mem[j].dl = "over" /\ mem[j].ul = "active")

\* Unless some transfer goes on for ever and nobody cancels it, every job that
\* was accepted gets its outcome, across cancellations, limits, waits for the
\* semaphore and restarts, except the one that is interrupted while its
\* archives are being mirrored (store.go:343).  A job whose context is done
\* needs nothing of its own transfers, a job that waits for a slot needs it of
\* those that hold one.  And in any case no directory is abandoned for good.
JobsSettle ==
  /\ (\A j \in Jobs : []<>~Transferring(j)) =>
        \A j \in Jobs :
           Exists(j) ~> status[j] \in Terminal \/ (status[j] = "mirroring" /\ pc[j] = "none")
  /\ \A j \in Jobs : j \in dir /\ pc[j] = "none" ~> j \notin dir \/ pc[j] # "none"

Outcome ==
  [j \in Jobs |->
     IF status[j] \in {"none", "done", "failed"} THEN status[j] ELSE "pending"]

\* Every job has one outcome and the downloads keep to their slots.
Service == INSTANCE JobService WITH
             Slots <- MaxConcurrentDL, outcome <- Outcome, downloading <- HoldingSlot

ImplementsService == Service!Spec
=============================================================================
