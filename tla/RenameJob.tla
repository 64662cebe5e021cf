------------------------------ MODULE RenameJob ------------------------------
(***************************************************************************)
(* A batch rename: renameSource.Fetch (src/internal/jobs/sources.go:81-251)*)
(* downloads the files of a batch one by one from Telegram and gives each  *)
(* its new name, beside the upload stage of the same job                   *)
(* (src/internal/jobs/pipeline.go), which empties the same directory.  The *)
(* process may be killed and the job resumed.                              *)
(*                                                                         *)
(* MTProto.Download writes to the final path and not to a ".part", and for *)
(* a rename job the upload stage does not wait until a file is stable.     *)
(* Old and new names may coincide in any way: a file is then created, or   *)
(* renamed, over another.  Files are plain and below the upload limit;     *)
(* sizes count for the cap on the directory only.                          *)
(***************************************************************************)
EXTENDS Integers, FiniteSets

CONSTANTS
  N,          \* files of the batch
  FileId,     \* [1..N -> ids]: the same file may be sent twice
  OldName,    \* [1..N -> names]: the names they have in Telegram
  NewName,    \* [1..N -> names]: what the user asked for
  Size, Cap,  \* sizes, and MAX_TOTAL_DOWNLOADS_BYTES; 0: there is no cap
  MaxKills    \* bound

Batch == 1..N

ASSUME RenameAssumption ==
  /\ N \in Nat \ {0} /\ Cap \in Nat /\ MaxKills \in Nat
  /\ DOMAIN FileId = Batch /\ DOMAIN OldName = Batch /\ DOMAIN NewName = Batch
  /\ Size \in [Batch -> Nat \ {0}]

\* The plan is a map by file id: of two entries with one id the later counts.
Target(i) == LET same == {k \in Batch : FileId[k] = FileId[i]}
             IN  NewName[CHOOSE k \in same : \A l \in same : l <= k]
Old(i) == OldName[i]
Names == {Old(i) : i \in Batch} \cup {Target(i) : i \in Batch}

Absent == <<0, FALSE>>
Contents == (Batch \X BOOLEAN) \cup {Absent}   \* whose content, and whether it is whole

VARIABLES
  dir,       \* st.Dest: what is under each name
  marked,    \* the uploaded_files table and st.uploaded, which is read from it
  phase,     \* "run" or "over"
  ended,     \* the job's context
  i,         \* Fetch: the file it is at
  fetch,     \* Fetch: "next", "get", "rename" or "done"
  known,     \* Fetch: uploaded, read once at its start
  failed,    \* st.failed
  up,        \* upload stage: "scan", "open", "send" or "record"
  name,      \* the file processFile is at
  content,   \* what Upload has opened
  kills,
  delivered, \* history: what has reached the chat: its name and its content
  again,     \* history: names that reached the chat more than once
  skipped,   \* history: files of the batch given up
  refused    \* history: names whose upload failed

fetchVars == <<i, fetch, known, skipped>>
upVars == <<marked, failed, up, name, content, delivered, again, refused>>
vars == <<dir, phase, ended, kills, fetchVars, upVars>>

TypeOK ==
  /\ dir \in [Names -> Contents] /\ marked \subseteq Names
  /\ failed \subseteq refused /\ refused \subseteq Names /\ known \subseteq marked
  /\ phase \in {"run", "over"} /\ ended \in BOOLEAN /\ kills \in 0..MaxKills
  /\ i \in 1..N + 1 /\ fetch \in {"next", "get", "rename", "done"}
  /\ fetch \in {"get", "rename"} => i \in Batch
  /\ up \in {"scan", "open", "send", "record"} /\ name \in Names /\ content \in Contents
  /\ up = "send" => content # Absent
  /\ delivered \subseteq Names \X Contents /\ again \subseteq Names
  /\ skipped \subseteq Batch
  /\ phase = "over" => fetch = "done" /\ up = "scan"

\* What a process starts from.
Fresh ==
  /\ i' = 1 /\ fetch' = "next" /\ known' = marked
  /\ failed' = {} /\ up' = "scan" /\ name' = Old(1) /\ content' = Absent

Init ==
  /\ dir = [n \in Names |-> Absent] /\ marked = {} /\ phase = "run" /\ ended = FALSE
  /\ i = 1 /\ fetch = "next" /\ known = {} /\ failed = {}
  /\ up = "scan" /\ name = Old(1) /\ content = Absent /\ kills = 0
  /\ delivered = {} /\ again = {} /\ skipped = {} /\ refused = {}

\* beginUpload has put the file of an upload that runs into st.uploading.
Pending(n) == n \notin marked \cup failed /\ ~(up \in {"open", "send"} /\ n = name)
OnDisk == {n \in Names : dir[n] # Absent}
Waiting == {n \in OnDisk : Pending(n)}

----------------------------------------------------------------------------
(* renameSource.Fetch *)

Fetching(at) == phase = "run" /\ fetch = at /\ ~ended
NextFile == i' = i + 1 /\ fetch' = "next"

Uploaded == {Target(i), Old(i)} \cap known # {}

FetchPasses ==
  /\ Fetching("next") /\ i <= N /\ Uploaded
  /\ NextFile
  /\ UNCHANGED <<dir, phase, ended, kills, known, skipped, upVars>>

\* There is not enough free space for it.
FetchNoSpace ==
  /\ Fetching("next") /\ i <= N /\ ~Uploaded
  /\ NextFile /\ skipped' = skipped \cup {i}
  /\ UNCHANGED <<dir, phase, ended, kills, known, upVars>>

\* Creating a file empties the one that has the name, also where the upload stage
\* has it open: what is read after that is the new content.
Creates ==
  /\ dir' = [dir EXCEPT ![Old(i)] = <<i, FALSE>>]
  /\ content' \in IF up = "send" /\ dir[Old(i)][1] = content[1]
                 THEN {content, <<i, FALSE>>} ELSE {content}

\* Wrong: nobody waits for the upload stage.
StartsAtOnce ==
  /\ Fetching("next") /\ i <= N /\ ~Uploaded
  /\ Cap = 0 \/ Size[i] <= Cap
  /\ fetch' = "get" /\ Creates
  /\ UNCHANGED <<phase, ended, kills, i, known, skipped, marked, failed, up, name, delivered, again, refused>>

\* The loop leaves when no file is pending; the cap then counts this file alone.
\* The file is created at once under its old name.
FetchStarts ==
  /\ Fetching("next") /\ i <= N /\ ~Uploaded /\ Waiting = {}
  /\ Cap = 0 \/ Size[i] <= Cap
  /\ fetch' = "get" /\ Creates
  /\ UNCHANGED <<phase, ended, kills, i, known, skipped, marked, failed, up, name, delivered, again, refused>>

\* The last byte.  A path the upload stage has removed meanwhile is not created again.
FetchGets ==
  /\ Fetching("get")
  /\ fetch' = "rename"
  /\ dir' = IF dir[Old(i)] = Absent THEN dir ELSE [dir EXCEPT ![Old(i)] = <<i, TRUE>>]
  /\ UNCHANGED <<phase, ended, kills, i, known, skipped, upVars>>

FetchFails ==
  /\ Fetching("get")
  /\ NextFile /\ skipped' = skipped \cup {i}
  /\ dir' = [dir EXCEPT ![Old(i)] = Absent]
  /\ UNCHANGED <<phase, ended, kills, known, upVars>>

\* os.Rename, also over another file; that it fails is logged.
FetchRenames ==
  /\ Fetching("rename")
  /\ dir' = IF dir[Old(i)] = Absent THEN dir
            ELSE [dir EXCEPT ![Old(i)] = Absent, ![Target(i)] = dir[Old(i)]]
  /\ NextFile
  /\ UNCHANGED <<phase, ended, kills, known, skipped, upVars>>

FetchReturns ==
  /\ phase = "run" /\ fetch # "done" /\ (ended \/ i > N)
  /\ fetch' = "done"
  /\ dir' = IF fetch = "get" THEN [dir EXCEPT ![Old(i)] = Absent] ELSE dir
  /\ UNCHANGED <<phase, ended, kills, i, known, skipped, upVars>>

----------------------------------------------------------------------------
(* uploadStage *)

\* A file of readyFiles is still pending and still there.
UpTakes(n) ==
  /\ phase = "run" /\ up = "scan" /\ ~ended /\ n \in Waiting
  /\ up' = "open" /\ name' = n
  /\ UNCHANGED <<dir, phase, ended, kills, fetchVars, marked, failed, content, delivered, again, refused>>

Scans == up' = "scan" /\ name' = Old(1) /\ content' = Absent
Refuse ==
  /\ Scans /\ failed' = failed \cup {name} /\ refused' = refused \cup {name}
  /\ UNCHANGED <<marked, delivered, again>>

UpOpens ==
  /\ phase = "run" /\ up = "open" /\ ~ended
  /\ IF dir[name] = Absent THEN Refuse
     ELSE /\ up' = "send" /\ content' = dir[name]
          /\ UNCHANGED <<marked, failed, name, delivered, again, refused>>
  /\ UNCHANGED <<dir, phase, ended, kills, fetchVars>>

UpSends ==
  /\ phase = "run" /\ up = "send"
  /\ up' = "record"
  /\ delivered' = delivered \cup {<<name, content>>}
  /\ again' = IF \E c \in Contents : <<name, c>> \in delivered THEN again \cup {name} ELSE again
  /\ UNCHANGED <<dir, phase, ended, kills, fetchVars, marked, failed, name, content, refused>>

UpFails ==
  /\ phase = "run" /\ up = "send" /\ Refuse
  /\ UNCHANGED <<dir, phase, ended, kills, fetchVars>>

\* afterUpload removes whatever has the name by now.
UpRecords ==
  /\ phase = "run" /\ up = "record" /\ Scans
  /\ dir' = [dir EXCEPT ![name] = Absent]
  /\ marked' = marked \cup {name}
  /\ UNCHANGED <<phase, ended, kills, fetchVars, failed, delivered, again, refused>>

\* Wrong: an empty directory ends the stage, whatever Fetch is about to bring.
EndsWhenEmpty ==
  /\ phase = "run" /\ up \in {"scan", "open", "send"}
  /\ ended \/ (up = "scan" /\ Waiting = {})
  /\ phase' = "over" /\ Scans /\ fetch' = "done"
  /\ UNCHANGED <<dir, ended, kills, i, known, skipped, marked, failed, delivered, again, refused>>

\* Wrong: a cancelled stage still waits until nothing is pending.
ReturnsDrained ==
  /\ phase = "run" /\ fetch = "done" /\ up = "scan" /\ Waiting = {}
  /\ phase' = "over" /\ Scans
  /\ UNCHANGED <<dir, ended, kills, fetchVars, marked, failed, delivered, again, refused>>

\* The upload stage returns, and with it the job is over.
UpReturns ==
  /\ phase = "run" /\ fetch = "done" /\ up \in {"scan", "open", "send"}
  /\ ended \/ (up = "scan" /\ Waiting = {})
  /\ phase' = "over" /\ Scans
  /\ UNCHANGED <<dir, ended, kills, fetchVars, marked, failed, delivered, again, refused>>

----------------------------------------------------------------------------
Cancel ==
  /\ phase = "run" /\ ~ended /\ ended' = TRUE
  /\ UNCHANGED <<dir, phase, kills, fetchVars, upVars>>

\* The process is killed; the next one finds the directory as it was and resumes.
Kill ==
  /\ phase = "run" /\ ~ended /\ kills < MaxKills
  /\ kills' = kills + 1 /\ Fresh
  /\ UNCHANGED <<dir, phase, ended, marked, delivered, again, skipped, refused>>

Fetch == FetchPasses \/ FetchNoSpace \/ FetchStarts \/ FetchGets \/ FetchFails \/ FetchRenames \/ FetchReturns
Upload == UpOpens \/ UpSends \/ UpFails \/ UpRecords \/ UpReturns \/ \E n \in Names : UpTakes(n)

Next == Fetch \/ Upload \/ Cancel \/ Kill

\* Both goroutines are scheduled and a transfer of either ends one way or the other.
Spec == Init /\ [][Next]_vars /\ WF_vars(Fetch) /\ WF_vars(Upload)

----------------------------------------------------------------------------
(* Properties *)

InUpload == IF up = "scan" THEN {} ELSE {name}

\* The batch streams through the disk: beside the file in upload, and files whose
\* upload was refused or whose name was uploaded before, there is never more than
\* one, and one more after a kill (the wait of sources.go:186-213).
DiskBound == TypeOK /\ (phase = "run" =>
  Cardinality(OnDisk \ (refused \cup marked \cup InUpload)) <= IF kills = 0 THEN 1 ELSE 2)

\* No other file of the batch has a name of this one, old or new.
Apart(k) == \A l \in Batch \ {k} : {Old(l), Target(l)} \cap {Old(k), Target(k)} = {}

\* A job that was not cancelled accounts for every file whose names are its own:
\* something of it was delivered, or it was given up or refused, whatever the names
\* of the other files do to each other (sources.go:157-176, pipeline.go:60-97); and a
\* name reaches the chat a second time only if the job was killed between the sending
\* and the record of it (pipeline.go:359-374).  Nothing is claimed of files that
\* share a name, like E01 and E02 renamed to E02 and E03, or two files of one name
\* in Telegram: one may be created over the other, removed after the upload of the
\* other, or passed as uploaded after a restart.
AccountedOnce ==
  /\ phase = "over" /\ ~ended => \A k \in Batch :
       \/ \E n \in Names, w \in BOOLEAN : <<n, <<k, w>>>> \in delivered
       \/ k \in skipped
       \/ {Old(k), Target(k)} \cap refused # {}
       \/ ~Apart(k)
  /\ kills = 0 => again = {}

\* A batch whose files fit under the cap ends, and so does every cancelled one
\* (sources.go:186-213, which waits for the upload stage).
BatchEnds ==
  /\ (\A k \in Batch : Cap = 0 \/ Size[k] <= Cap) => <>(phase = "over")
  /\ ended ~> phase = "over"
=============================================================================
