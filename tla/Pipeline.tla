------------------------------ MODULE Pipeline ------------------------------
(***************************************************************************)
(* The upload stage of one job (src/internal/jobs/pipeline.go) beside its  *)
(* download stage, over restarts of the process: which file is sent, what  *)
(* the store remembers of it, and what is left on disk.                    *)
(*                                                                         *)
(* A source file is plain, larger than the upload limit (it is split into  *)
(* its parts) or an archive (its files go to the directory of extracted    *)
(* files).  The job is finished when both stages have returned; when they  *)
(* return because the process is stopping, finalize removes the            *)
(* directories and the job starts again in the next process.               *)
(*                                                                         *)
(* A file is the pair of where its content comes from and its name, which  *)
(* is also its key in the store.  Names of parts and of extracted files    *)
(* are distinct from those of the sources; two archives may contain files  *)
(* of the same name.  Extracted files are plain, an archive is below the   *)
(* limit, and renaming, conversion and mirrors are left out.               *)
(***************************************************************************)
EXTENDS Integers, FiniteSets

CONSTANTS
  Plain, Large, Archives,   \* the files a source may yield, by kind
  Pieces,                   \* [Large \cup Archives -> sets of names of parts or files]
  Scenes                    \* bounds: jobs, each the files its source yields, whether it
                            \* is an unzip job (args.Unzip), and how often the process is
                            \* killed, or told to stop, meanwhile

Sources == Plain \cup Large \cup Archives

Source(f) == <<f, f>>
PiecesOf(f) == {f} \X Pieces[f]
Inner == UNION {PiecesOf(f) : f \in Archives}
Items == {Source(f) : f \in Sources} \cup (UNION {PiecesOf(f) : f \in Large}) \cup Inner

Origin(x) == x[1]
Key(x) == x[2]
Keys(S) == {Key(x) : x \in S}

ASSUME KindsAssumption ==
  /\ Plain \cap (Large \cup Archives) = {} /\ Large \cap Archives = {}
  /\ \A f \in Large \cup Archives : Pieces[f] \cap Sources = {} /\ Pieces[f] # {}
  /\ "none" \notin Sources
ASSUME ScenesAssumption ==
  Scenes \subseteq [source : SUBSET Sources, unzip : BOOLEAN, kills : Nat, stops : Nat]

VARIABLES
  disk,       \* st.Dest: source files and parts
  extracted,  \* st.Extract
  marked,     \* the uploaded_files table
  phase,      \* "up", "stopping" (m.root is done), "down" or "finished"
  scene,      \* the job, and how often the process may still end
  dl,         \* downloadStage: whether it is over, and what it has fetched
  ok,         \* its result
  up,         \* uploadStage: its place and its local variables
  uploaded,   \* st.uploaded
  failed,     \* st.failed, each with its entry in st.skipped
  splitParts, \* st.splitParts
  choice,     \* sess.archiveDone, "none" until it is made
  tried,      \* sess.extracted
  fatal,      \* st.fatal is set
  sent,       \* history: how often each item reached the chat
  doubt,      \* history: how often it did without the job recording it
  wiped       \* history: sources recorded as uploaded whose pieces are lost

disks == <<disk, extracted, marked>>
process == <<phase, scene>>
stages == <<dl, ok, up>>
memory == <<uploaded, failed, splitParts, choice, tried, fatal>>
chat == <<sent, doubt, wiped>>
vars == <<disks, process, stages, memory, chat>>

-----------------------------------------------------------------------------
Choices == {"only", "ext", "ext_only"}

NoFile == <<"none", "none">>

Unzip == scene.unzip

\* cur is the file of processFile, queue the files still to do of this pass,
\* inner the extracted files still to do, arch the archive to send after them,
\* batch the files that were sent and not recorded, saw the value of done.
Idle ==
  [at |-> "restore", cur |-> NoFile, queue |-> {}, inner |-> {}, arch |-> NoFile,
   batch |-> {}, saw |-> FALSE]

Live == phase \in {"up", "stopping"}
Cancelled == phase = "stopping" \/ fatal
Pending(x) == Key(x) \notin uploaded \cup failed

At(place) == Live /\ up.at = place
GoTo(place) == up' = [up EXCEPT !.at = place]

\* Writing files replaces those of the same names.
Put(dir, files) == {x \in dir : Key(x) \notin Keys(files)} \cup files

\* The sources that the store takes for uploaded, some of whose pieces are here.
Replaced(S) == {f \in Sources : f \in marked /\ \E x \in S : Origin(x) = f /\ Key(x) \notin marked}

Ready == {x \in disk : Pending(x)}

\* Split parts are uploaded together with the others of their file.
GroupMates(x, S) == {y \in S : Origin(y) = Origin(x) /\ Key(y) \in splitParts}
Groups(S) == {x \in S : Key(x) \in splitParts /\ Cardinality(GroupMates(x, S)) > 1}

-----------------------------------------------------------------------------
(* Wrong versions of the code below, each of which a run must reject.       *)

\* The list of uploaded files is not read at the start of the stage.
RestoreNothing ==
  /\ At("restore")
  /\ GoTo("loop")
  /\ UNCHANGED <<disks, process, dl, ok, memory, chat>>

\* A file whose upload failed stays pending.
SendFailsUnmarked ==
  /\ At("send")
  /\ GoTo("file")
  /\ UNCHANGED <<disks, process, dl, ok, memory, chat>>

\* The file is marked as uploaded before it is split.
SplitMarkedFirst ==
  /\ At("large")
  /\ marked' = marked \cup {Key(up.cur)}
  /\ IF Key(up.cur) \in marked
       THEN disk' = Put(disk \ {up.cur}, PiecesOf(Key(up.cur))) /\ GoTo("split")
       ELSE UNCHANGED <<disk, up>>
  /\ UNCHANGED <<extracted, process, dl, ok, memory, chat>>

-----------------------------------------------------------------------------
Init ==
  /\ disk = {} /\ extracted = {} /\ marked = {}
  /\ phase = "up" /\ scene \in Scenes
  /\ dl = [over |-> FALSE, got |-> {}] /\ ok = FALSE /\ up = Idle
  /\ uploaded = {} /\ failed = {} /\ splitParts = {}
  /\ choice = [a \in Archives |-> "none"] /\ tried = {} /\ fatal = FALSE
  /\ sent = [i \in Items |-> 0] /\ doubt = [i \in Items |-> 0] /\ wiped = {}

-----------------------------------------------------------------------------
(* The download stage, abstract: each process fetches the sources one by    *)
(* one, those that an earlier one left on disk included.                    *)

Fetch(f) ==
  /\ Live /\ ~dl.over /\ ~Cancelled
  /\ f \in scene.source \ dl.got
  /\ disk' = Put(disk, {Source(f)})
  /\ dl' = [dl EXCEPT !.got = dl.got \cup {f}]
  /\ UNCHANGED <<extracted, marked, process, ok, up, memory, chat>>

FetchEnd ==
  /\ Live /\ ~dl.over
  /\ dl' = [dl EXCEPT !.over = TRUE]
  /\ ok' \in {FALSE, dl.got = scene.source /\ ~Cancelled}
  /\ UNCHANGED <<disks, process, up, memory, chat>>

-----------------------------------------------------------------------------
(* uploadStage.                                                             *)

Restore ==
  /\ At("restore")
  /\ uploaded' = uploaded \cup marked
  /\ GoTo("loop")
  /\ UNCHANGED <<disks, process, dl, ok, failed, splitParts, choice, tried, fatal, chat>>

\* An unzip job first waits for its download.  done is read before the files
\* are listed.
ReadDone ==
  /\ At("loop")
  /\ Unzip => dl.over \/ Cancelled
  /\ up' = IF Cancelled THEN [up EXCEPT !.at = "over"]
                        ELSE [up EXCEPT !.at = "list", !.saw = dl.over]
  /\ UNCHANGED <<disks, process, dl, ok, memory, chat>>

\* Before the download is done, readyFiles yields the files that have not
\* changed lately, which may be any.
List ==
  /\ At("list")
  /\ \E S \in SUBSET Ready :
        /\ up.saw => S = Ready
        /\ up' = IF S = {} THEN [up EXCEPT !.at = IF up.saw THEN "over" ELSE "loop"]
                 ELSE IF Groups(S) # {}
                        THEN [up EXCEPT !.at = "group", !.queue = Groups(S)]
                        ELSE [up EXCEPT !.at = "file", !.queue = S]
  /\ UNCHANGED <<disks, process, dl, ok, memory, chat>>

-----------------------------------------------------------------------------
(* uploadSplitGroup.                                                        *)

\* One message: a part, or an album of up to ten of them.
SendGroup ==
  /\ At("group")
  /\ \E B \in SUBSET up.queue \ {{}} :
        /\ \A x, y \in B : Origin(x) = Origin(y)
        /\ sent' = [i \in Items |-> IF i \in B THEN sent[i] + 1 ELSE sent[i]]
        /\ up' = [up EXCEPT !.at = "recordGroup", !.queue = up.queue \ B, !.batch = B]
  /\ UNCHANGED <<disks, process, dl, ok, memory, doubt, wiped>>

\* What is left of the group is failed; what was on its way may have arrived.
GroupFails ==
  /\ At("group")
  /\ \E x \in up.queue : \E B \in SUBSET GroupMates(x, up.queue) :
        /\ failed' = failed \cup Keys(GroupMates(x, up.queue))
        /\ up' = [up EXCEPT !.queue = up.queue \ GroupMates(x, up.queue)]
        /\ sent' = [i \in Items |-> IF i \in B THEN sent[i] + 1 ELSE sent[i]]
        /\ doubt' = [i \in Items |-> IF i \in B THEN doubt[i] + 1 ELSE doubt[i]]
  /\ UNCHANGED <<disks, process, dl, ok, uploaded, splitParts, choice, tried, fatal, wiped>>

EndGroups ==
  /\ At("group") /\ up.queue = {}
  /\ GoTo("loop")
  /\ UNCHANGED <<disks, process, dl, ok, memory, chat>>

-----------------------------------------------------------------------------
(* processFile, for the files of a pass and for extracted ones.             *)

\* Every loop over files looks at the context first.
LeaveOnCancel ==
  /\ up.at \in {"file", "archive"} /\ Live
  /\ Cancelled
  /\ up' = [Idle EXCEPT !.at = "over"]
  /\ UNCHANGED <<disks, process, dl, ok, memory, chat>>

TakeInner ==
  /\ At("file") /\ ~Cancelled
  /\ \E x \in up.inner :
        up' = [up EXCEPT !.inner = up.inner \ {x}, !.cur = x,
                         !.at = IF Pending(x) THEN "send" ELSE "file"]
  /\ UNCHANGED <<disks, process, dl, ok, memory, chat>>

\* handleArchive has returned false: the archive itself is sent as well.
TakeArchive ==
  /\ At("file") /\ ~Cancelled
  /\ up.inner = {} /\ up.arch # NoFile
  /\ up' = [up EXCEPT !.arch = NoFile, !.cur = up.arch, !.at = "send"]
  /\ UNCHANGED <<disks, process, dl, ok, memory, chat>>

TakeFile ==
  /\ At("file") /\ ~Cancelled
  /\ up.inner = {} /\ up.arch = NoFile
  /\ \E x \in up.queue :
        up' = [up EXCEPT !.queue = up.queue \ {x}, !.cur = x,
                         !.at = IF ~Pending(x) THEN "file"
                                ELSE IF Key(x) \in Archives THEN "archive"
                                ELSE IF Key(x) \in Large THEN "large"
                                ELSE "send"]
  /\ UNCHANGED <<disks, process, dl, ok, memory, chat>>

EndPass ==
  /\ At("file")
  /\ up.inner = {} /\ up.arch = NoFile /\ up.queue = {}
  /\ GoTo("loop")
  /\ UNCHANGED <<disks, process, dl, ok, memory, chat>>

\* HandleLarge has written the parts and removed the file.
Split ==
  /\ At("large")
  /\ disk' = Put(disk \ {up.cur}, PiecesOf(Key(up.cur)))
  /\ GoTo("split")
  /\ UNCHANGED <<extracted, marked, process, dl, ok, memory, chat>>

\* The parts are remembered, and the file they replace counts as uploaded.
MarkOriginal ==
  /\ At("split")
  /\ splitParts' = splitParts \cup Pieces[Key(up.cur)]
  /\ marked' = marked \cup {Key(up.cur)}
  /\ uploaded' = uploaded \cup {Key(up.cur)}
  /\ GoTo("file")
  /\ UNCHANGED <<disk, extracted, process, dl, ok, failed, choice, tried, fatal, chat>>

\* Splitting is not allowed or failed: the file is reported and gone.  When the
\* context is done heavySem is not taken and the file stays.
TooLarge ==
  /\ At("large")
  /\ \E removed \in {TRUE, ~Cancelled} : disk' = IF removed THEN disk \ {up.cur} ELSE disk
  /\ failed' = failed \cup {Key(up.cur)}
  /\ GoTo("file")
  /\ UNCHANGED <<extracted, marked, process, dl, ok, uploaded, splitParts, choice, tried,
                 fatal, chat>>

Send ==
  /\ At("send")
  /\ sent' = [sent EXCEPT ![up.cur] = @ + 1]
  /\ up' = [up EXCEPT !.at = "record", !.batch = {up.cur}]
  /\ UNCHANGED <<disks, process, dl, ok, memory, doubt, wiped>>

\* An error: nothing is recorded when the context is done, else the file is
\* failed.  The message may have arrived all the same.
SendFails ==
  /\ At("send")
  /\ \E arrived \in {0, 1} :
        /\ sent' = [sent EXCEPT ![up.cur] = @ + arrived]
        /\ doubt' = [doubt EXCEPT ![up.cur] = @ + arrived]
  /\ failed' = IF Cancelled THEN failed ELSE failed \cup {Key(up.cur)}
  /\ GoTo("file")
  /\ UNCHANGED <<disks, process, dl, ok, uploaded, splitParts, choice, tried, fatal, wiped>>

\* afterUpload, one file after the other: it is removed, then recorded in the
\* store and in memory.
RemoveSent ==
  /\ At("record") \/ At("recordGroup")
  /\ \E x \in up.batch :
        /\ disk' = disk \ {x}
        /\ extracted' = extracted \ {x}
        /\ up' = [up EXCEPT !.cur = x, !.at = IF up.at = "record" THEN "mark" ELSE "markGroup"]
  /\ UNCHANGED <<marked, process, dl, ok, memory, chat>>

Record ==
  /\ At("mark") \/ At("markGroup")
  /\ marked' = marked \cup {Key(up.cur)}
  /\ uploaded' = uploaded \cup {Key(up.cur)}
  /\ up' = [up EXCEPT !.batch = up.batch \ {up.cur},
                      !.at = IF up.at = "mark" THEN "file"
                             ELSE IF up.batch # {up.cur} THEN "recordGroup" ELSE "group"]
  /\ UNCHANGED <<disk, extracted, process, dl, ok, failed, splitParts, choice, tried, fatal, chat>>

-----------------------------------------------------------------------------
(* handleArchive.                                                           *)

WantsExtract(a) == Unzip \/ choice[a] \in {"ext", "ext_only"}
Consumes(a) == Unzip \/ choice[a] = "ext_only"

\* The user answers the prompt, or it times out ("only").
Choose ==
  /\ At("archive") /\ ~Unzip
  /\ choice[Key(up.cur)] = "none"
  /\ \E c \in Choices : choice' = [choice EXCEPT ![Key(up.cur)] = c]
  /\ UNCHANGED <<disks, process, stages, uploaded, failed, splitParts, tried, fatal, chat>>

BeginExtract ==
  /\ At("archive")
  /\ WantsExtract(Key(up.cur)) /\ Key(up.cur) \notin tried
  /\ tried' = tried \cup {Key(up.cur)}
  /\ GoTo("extract")
  /\ UNCHANGED <<disks, process, dl, ok, uploaded, failed, splitParts, choice, fatal, chat>>

\* "Archive Only", or an extraction that was tried before.
SendArchive ==
  /\ At("archive") /\ ~Unzip /\ ~Cancelled
  /\ choice[Key(up.cur)] = "only" \/ (WantsExtract(Key(up.cur)) /\ Key(up.cur) \in tried)
  /\ GoTo("send")
  /\ UNCHANGED <<disks, process, dl, ok, memory, chat>>

Extracted ==
  /\ At("extract")
  /\ extracted' = Put(extracted, PiecesOf(Key(up.cur)))
  /\ up' = IF Consumes(Key(up.cur))
             THEN [up EXCEPT !.at = "consume"]
             ELSE [up EXCEPT !.at = "file", !.inner = extracted', !.arch = up.cur]
  /\ UNCHANGED <<disk, marked, process, dl, ok, memory, chat>>

\* An unzip job is over then; otherwise the archive is sent, after "Extract
\* Only" in the next pass.
ExtractFails ==
  /\ At("extract")
  /\ fatal' = (fatal \/ (Unzip /\ ~Cancelled))
  /\ GoTo(IF Consumes(Key(up.cur)) \/ Cancelled THEN "file" ELSE "send")
  /\ UNCHANGED <<disks, process, dl, ok, uploaded, failed, splitParts, choice, tried, chat>>

\* consumeArchive: the archive is removed, then recorded; then the listing of
\* uploadExtracted.
RemoveArchive ==
  /\ At("consume")
  /\ disk' = disk \ {up.cur}
  /\ GoTo("consumed")
  /\ UNCHANGED <<extracted, marked, process, dl, ok, memory, chat>>

Consume ==
  /\ At("consumed")
  /\ marked' = marked \cup {Key(up.cur)}
  /\ uploaded' = uploaded \cup {Key(up.cur)}
  /\ up' = [up EXCEPT !.at = "file", !.inner = extracted]
  /\ UNCHANGED <<disk, extracted, process, dl, ok, failed, splitParts, choice, tried, fatal, chat>>

-----------------------------------------------------------------------------
(* The job and the process.                                                 *)

\* run joins the stages; finalize removes the directories in any case.
Finalize ==
  /\ At("over") /\ dl.over
  /\ phase' = IF phase = "stopping" /\ ~fatal THEN "down" ELSE "finished"
  /\ disk' = {} /\ extracted' = {}
  /\ wiped' = IF phase' = "down" THEN wiped \cup Replaced(disk \cup extracted) ELSE wiped
  /\ UNCHANGED <<marked, scene, stages, memory, sent, doubt>>

Stop ==
  /\ phase = "up"
  /\ scene.stops > 0
  /\ phase' = "stopping"
  /\ scene' = [scene EXCEPT !.stops = @ - 1]
  /\ UNCHANGED <<disks, stages, memory, chat>>

\* The process dies, at the latest 15 seconds after it was told to stop.
Kill ==
  /\ Live
  /\ scene.kills > 0
  /\ phase' = "down"
  /\ scene' = [scene EXCEPT !.kills = @ - 1]
  /\ doubt' = [i \in Items |-> IF i \in up.batch THEN doubt[i] + 1 ELSE doubt[i]]
  /\ UNCHANGED <<disks, stages, memory, sent, wiped>>

\* The next process resumes the job with a new State; cleanupOrphans spares
\* the directories of a resumed job, but nothing looks into the one of extracted
\* files.
Restart ==
  /\ phase = "down"
  /\ phase' = "up"
  /\ dl' = [over |-> FALSE, got |-> {}] /\ ok' = FALSE /\ up' = Idle
  /\ uploaded' = {} /\ failed' = {} /\ splitParts' = {}
  /\ choice' = [a \in Archives |-> "none"] /\ tried' = {} /\ fatal' = FALSE
  /\ wiped' = wiped \cup Replaced(extracted)
  /\ UNCHANGED <<disks, scene, sent, doubt>>

-----------------------------------------------------------------------------
DownloadStage == FetchEnd \/ \E f \in Sources : Fetch(f)

UploadGroup == SendGroup \/ GroupFails \/ EndGroups

ProcessFile ==
  \/ LeaveOnCancel \/ TakeInner \/ TakeArchive \/ TakeFile \/ EndPass
  \/ Split \/ MarkOriginal \/ TooLarge \/ Send \/ SendFails
  \/ RemoveSent \/ Record

HandleArchive ==
  \/ Choose \/ BeginExtract \/ SendArchive \/ Extracted \/ ExtractFails
  \/ RemoveArchive \/ Consume

UploadStage == Restore \/ ReadDone \/ List \/ UploadGroup \/ ProcessFile \/ HandleArchive

Next == DownloadStage \/ UploadStage \/ Finalize \/ Stop \/ Kill \/ Restart

Spec == Init /\ [][Next]_vars

(***************************************************************************)
(* The goroutines run, prompts time out, 7z and ffmpeg and the single      *)
(* calls to Telegram end, and the container restarts the process.  The     *)
(* source has no timeout: it ends once the context is done, and otherwise  *)
(* may go on for ever.  Nothing obliges the process to end.                *)
(***************************************************************************)
Fairness ==
  /\ WF_vars(Cancelled /\ FetchEnd) /\ WF_vars(UploadStage)
  /\ WF_vars(Finalize) /\ WF_vars(Restart)

FairSpec == Spec /\ Fairness

-----------------------------------------------------------------------------
Places ==
  {"restore", "loop", "list", "group", "recordGroup", "file", "archive", "extract", "consume",
   "consumed", "large", "split", "send", "record", "mark", "markGroup", "over"}

TypeOK ==
  /\ disk \subseteq Items /\ extracted \subseteq Inner
  /\ marked \subseteq Keys(Items)
  /\ phase \in {"up", "stopping", "down", "finished"}
  /\ scene \in [source : SUBSET Sources, unzip : BOOLEAN, kills : Nat, stops : Nat]
  /\ dl \in [over : BOOLEAN, got : SUBSET Sources] /\ ok \in BOOLEAN
  /\ up \in [at : Places, cur : Items \cup {NoFile}, queue : SUBSET Items,
             inner : SUBSET Inner, arch : {Source(a) : a \in Archives} \cup {NoFile},
             batch : SUBSET Items, saw : BOOLEAN]
  /\ uploaded \subseteq Keys(Items) /\ failed \subseteq Keys(Items)
  /\ splitParts \subseteq Keys(Items)
  /\ choice \in [Archives -> Choices \cup {"none"}] /\ tried \subseteq Archives
  /\ fatal \in BOOLEAN
  /\ sent \in [Items -> Nat] /\ doubt \in [Items -> Nat]
  /\ wiped \subseteq Large \cup Archives

Settled(i) == sent[i] > 0 \/ Key(i) \in failed

Delivered(f) ==
  Settled(Source(f)) \/ (f \notin Plain /\ \A i \in PiecesOf(f) : Settled(i))

\* A job whose download succeeded and that ends as done has sent every file of
\* its source, or all the pieces it was turned into, or reported it as failed:
\* nothing is lost between the last listing and the end of the download, or
\* between a split or an extraction and its uploads; and whenever the process is
\* stopped or killed, only the pieces of a file that was already recorded in
\* their place can be lost.
DeliveredOrWiped ==
  phase = "finished" /\ ok /\ ~fatal => \A f \in scene.source \ wiped : Delivered(f)

\* An item reaches the chat a second time only if an earlier upload of it ended
\* without the job learning that it had arrived: the process died before
\* afterUpload had recorded it, or the answer was lost.
SentAgainOnlyInDoubt == TypeOK /\ \A i \in Items : sent[i] <= 1 + doubt[i]

Downloading == Live /\ ~dl.over /\ ~Cancelled

\* The stage does not go round for ever: every file it lists is in the end
\* uploaded or failed, and the job comes to its end, unless its source goes on
\* for ever and nobody ends its context.
JobEnds == []<>~Downloading => <>(phase = "finished")
=============================================================================
