------------------------------- MODULE Uploads -------------------------------
(***************************************************************************)
(* How the files of a group reach the chat: UploadGroupWithNames, Upload   *)
(* and uploadOnce (src/internal/jobs/tgupload.go) on top of the MTProto    *)
(* client (src/internal/tg/mtproto.go).                                    *)
(*                                                                         *)
(* The group is split into albums; an album that fails is sent file by     *)
(* file; a file is tried three times, waits out floods and is sent again   *)
(* as a document when Telegram rejects it.  The client maps every error of *)
(* an RPC to a flood or a bad request and returns a broken connection as   *)
(* it is, whether the message had gone out or not.                         *)
(*                                                                         *)
(* Left out: captions and their continuation in replies, thumbnails,       *)
(* screenshots, the conversion of images and the pace after an upload.     *)
(***************************************************************************)
EXTENDS Integers, Sequences, FiniteSets, Functions

CONSTANTS
  Kind,       \* the kinds of the files of the group, in their natural order
  Sizes,      \* the sizes a file may have; Gone: it cannot be read
  Gone,
  Limit,      \* of one file
  AlbumBytes, AlbumFiles,   \* of an album (AlbumFiles is 10)
  Attempts, MaxFloods       \* 3 and 5 in the code; floods are counted up to MaxFloods + 1

Files == DOMAIN Kind
Kinds == {"photo", "video", "mkv", "file"}

ASSUME UploadsAssumption ==
  /\ Kind \in Seq(Kinds) /\ Sizes \subseteq Nat \cup {Gone} /\ Gone \notin Nat
  /\ {Limit, AlbumBytes, AlbumFiles, Attempts, MaxFloods} \subseteq Nat /\ Attempts > 0

VARIABLES
  size,       \* of each file
  ended,      \* the context of the job is over
  client,     \* the connection: "connecting", "ready" or "failed"
  pc,         \* "plan", "next", "album", "albumCall", "single", "singleCall", "done"
  result,     \* "", "ok", "error" or "ended"
  plan,       \* albums and files still to be sent
  again,      \* the album is sent for the second time, after a flood
  todo,       \* the files of the part being sent, those of an album one by one if it failed
  attempt, flood, force,    \* of the first of them
  asDoc,      \* send as documents
  notified,   \* files reported as sent
  arrived,    \* history: how often a file has come to the chat
  doubtful    \* history: files on the way when a connection broke

fileVars == <<todo, attempt, flood, force>>
uploadVars == <<size, ended, client, pc, result, plan, again, fileVars, asDoc, notified, arrived, doubtful>>

UploadsType ==
  /\ size \in [Files -> Sizes] /\ ended \in BOOLEAN
  /\ client \in {"connecting", "ready", "failed"}
  /\ pc \in {"plan", "next", "album", "albumCall", "single", "singleCall", "done"}
  /\ result \in {"", "ok", "error", "ended"} /\ (pc = "done" <=> result # "")
  /\ plan \in Seq(Seq(Files))
  /\ todo \in Seq(Files) /\ attempt \in 0..Attempts - 1 /\ flood \in 0..MaxFloods + 1
  /\ again \in BOOLEAN /\ force \in BOOLEAN /\ asDoc \in BOOLEAN
  /\ notified \subseteq Files /\ doubtful \subseteq Files
  \* the album once, then Attempts times alone
  /\ arrived \in [Files -> 0..Attempts + 2]

UploadsInit ==
  /\ size \in [Files -> Sizes] /\ asDoc \in BOOLEAN
  /\ ended = FALSE /\ client = "connecting"
  /\ pc = "plan" /\ result = "" /\ plan = <<>> /\ again = FALSE
  /\ todo = <<>> /\ attempt = 0 /\ flood = 0 /\ force = FALSE
  /\ notified = {} /\ arrived = [f \in Files |-> 0] /\ doubtful = {}

----------------------------------------------------------------------------
(* PlanAlbumBatches *)

\* Wrong: an album is full one file too late.
FullLate(i, j) == j - i > AlbumFiles

Full(i, j) == j - i >= AlbumFiles

\* The sizes of the files from one to another, added up.
Total(i, j) ==
  LET sum[k \in 0..Len(Kind)] == IF k = 0 THEN 0 ELSE sum[k - 1] + size[k]
  IN sum[j] - sum[i - 1]

\* The files from one up to another.
Run(from, to) == [k \in 1..to - from |-> from + k - 1]

\* The first file that no longer fits into an album that starts with file i.
Ahead(i) ==
  LET stops(j) == j > Len(Kind) \/ Full(i, j) \/ Total(i, j) > AlbumBytes
  IN CHOOSE j \in i..Len(Kind) + 1 : stops(j) /\ \A k \in i..j - 1 : ~stops(k)

\* A file that is left alone is no album.
After(i) == IF Ahead(i) - i >= 2 THEN Ahead(i) ELSE i + 1

PlanAlbumBatches ==
  LET rest[i \in 1..Len(Kind) + 1] == IF i > Len(Kind) THEN <<>> ELSE <<Run(i, After(i))>> \o rest[After(i)]
  IN rest[1]

----------------------------------------------------------------------------
(* Through the parts of the plan *)

Done(r) == pc' = "done" /\ result' = r

Plan ==
  /\ pc = "plan"
  /\ \/ /\ \E f \in Files : size[f] = Gone
        /\ Done("error") /\ UNCHANGED plan
     \/ /\ \A f \in Files : size[f] # Gone
        /\ plan' = PlanAlbumBatches /\ pc' = "next" /\ UNCHANGED result
  /\ UNCHANGED <<size, ended, client, again, fileVars, asDoc, notified, arrived, doubtful>>

NextPart ==
  /\ pc = "next" /\ todo = <<>>
  /\ \/ plan = <<>> /\ Done("ok") /\ UNCHANGED <<plan, todo, again>>
     \/ /\ plan # <<>>
        /\ plan' = Tail(plan) /\ todo' = Head(plan) /\ again' = FALSE
        /\ pc' = IF Len(Head(plan)) = 1 THEN "next" ELSE "album"
        /\ UNCHANGED result
  /\ UNCHANGED <<size, ended, client, attempt, flood, force, asDoc, notified, arrived, doubtful>>

\* uploadOnce begins: documents are asked for, except for an mkv, or Telegram
\* would not take the image as a photo.
BeginOnce(f) ==
  /\ flood' = 0
  /\ force' \in IF asDoc' /\ Kind[f] # "mkv" THEN {TRUE}
                ELSE IF Kind[f] = "photo" THEN BOOLEAN ELSE {FALSE}

\* Upload begins.
NextFile ==
  /\ pc = "next" /\ todo # <<>>
  /\ UNCHANGED asDoc
  /\ \/ /\ size[Head(todo)] = 0 \/ size[Head(todo)] > Limit
        /\ Done("error") /\ UNCHANGED <<attempt, flood, force>>
     \/ /\ size[Head(todo)] \in 1..Limit
        /\ pc' = "single" /\ attempt' = 0 /\ BeginOnce(Head(todo)) /\ UNCHANGED result
  /\ UNCHANGED <<size, ended, client, plan, again, todo, notified, arrived, doubtful>>

\* The limiter lets the call go, after the pause of a flood or of a new attempt.
Call ==
  /\ \/ pc = "single" /\ pc' = "singleCall"
     \/ pc = "album" /\ pc' = "albumCall"
  /\ UNCHANGED <<size, ended, client, result, plan, again, fileVars, asDoc, notified, arrived, doubtful>>

\* A wait is over because the context is.
GiveUp ==
  /\ ended /\ pc \in {"single", "album"}
  /\ Done("ended")
  /\ UNCHANGED <<size, ended, client, plan, again, fileVars, asDoc, notified, arrived, doubtful>>

----------------------------------------------------------------------------
(* Answers of the client *)

\* The answers to a call, with the files that come to the chat: ErrAmbiguousUpload
\* is none of them.  "badmedia" is a rejection that names the photo or its size.
\* Nothing is sent before the login, and nothing after it failed.
Answers == {"ok", "flood", "bad", "badmedia", "lost"}

Answer(files, a) ==
  /\ client # "connecting" \/ (ended /\ a = "lost")
  /\ client = "failed" => a = "lost"
  /\ \/ a = "ok" /\ UNCHANGED doubtful
        /\ arrived' = [f \in Files |-> arrived[f] + IF f \in files THEN 1 ELSE 0]
     \/ a # "ok" /\ UNCHANGED <<arrived, doubtful>>
     \/ /\ a = "lost" /\ client = "ready"
        /\ arrived' = [f \in Files |-> arrived[f] + IF f \in files THEN 1 ELSE 0]
        /\ doubtful' = doubtful \cup files

\* MTProto.Upload and MTProto.UploadGroup.
Upload(a) == Answer({Head(todo)}, a)
UploadAlbum(a) == Answer(Range(todo), a)

\* One flood is waited out; any other error sends the files one by one.
AlbumFails(a) ==
  IF a = "flood" /\ ~again
  THEN pc' = "album" /\ again' = TRUE
  ELSE pc' = "next" /\ UNCHANGED again

\* Wrong: the answer to the second call goes to a variable of its own.
ShadowedAlbum == \E a \in Answers :
  /\ pc = "albumCall" /\ UploadAlbum(a)
  /\ IF a = "ok" /\ ~again
     THEN pc' = "next" /\ notified' = notified \cup Range(todo) /\ todo' = <<>> /\ UNCHANGED again
     ELSE AlbumFails(a) /\ UNCHANGED <<todo, notified>>
  /\ UNCHANGED <<size, ended, client, result, plan, attempt, flood, force, asDoc>>

AlbumAnswer == \E a \in Answers :
  /\ pc = "albumCall" /\ UploadAlbum(a)
  /\ IF a = "ok"
     THEN pc' = "next" /\ notified' = notified \cup Range(todo) /\ todo' = <<>> /\ UNCHANGED again
     ELSE AlbumFails(a) /\ UNCHANGED <<todo, notified>>
  /\ UNCHANGED <<size, ended, client, result, plan, attempt, flood, force, asDoc>>

\* Wrong: a flood does not count.
WaitsForever(a) == a = "flood"

\* uploadOnce waits out a flood.
WaitsOut(a) == a = "flood" /\ flood < MaxFloods

\* uploadOnce sends the file again as a document.
AsDocument(a) == a \in {"bad", "badmedia"} /\ ~force

\* Upload gives up after an error uploadOnce returns.
LastError(a) == a \in {"bad", "badmedia"} \/ attempt + 1 = Attempts

FileAnswer == \E a \in Answers :
  /\ pc = "singleCall" /\ Upload(a)
  /\ \/ /\ a = "ok"
        /\ pc' = "next" /\ notified' = notified \cup {Head(todo)} /\ todo' = Tail(todo)
        /\ asDoc' = (asDoc \/ (force /\ Kind[Head(todo)] = "photo"))
        /\ UNCHANGED <<result, attempt, flood, force>>
     \/ /\ WaitsOut(a) \/ AsDocument(a)
        /\ pc' = "single" /\ flood' = IF flood > MaxFloods THEN flood ELSE flood + 1
        /\ force' = (force \/ AsDocument(a)) /\ asDoc' = (asDoc \/ (AsDocument(a) /\ a = "badmedia"))
        /\ UNCHANGED <<result, attempt, todo, notified>>
     \/ /\ a # "ok" /\ ~WaitsOut(a) /\ ~AsDocument(a)
        /\ UNCHANGED <<asDoc, todo, notified>>
        /\ IF ended \/ LastError(a)
           THEN Done(IF ended THEN "ended" ELSE "error") /\ UNCHANGED <<attempt, flood, force>>
           ELSE pc' = "single" /\ attempt' = attempt + 1 /\ BeginOnce(Head(todo)) /\ UNCHANGED result
  /\ UNCHANGED <<size, ended, client, plan, again>>

----------------------------------------------------------------------------
(* The connection and the context *)

\* MTProto.Start: ready is closed after the login and when Start returns.
Connect ==
  /\ client = "connecting" /\ client' \in {"ready", "failed"}
  /\ UNCHANGED <<size, ended, pc, result, plan, again, fileVars, asDoc, notified, arrived, doubtful>>

EndContext ==
  /\ ~ended /\ pc # "done" /\ ended' = TRUE
  /\ UNCHANGED <<size, client, pc, result, plan, again, fileVars, asDoc, notified, arrived, doubtful>>

Step == Plan \/ NextPart \/ NextFile \/ Call \/ GiveUp \/ AlbumAnswer \/ FileAnswer
UploadsNext == Step \/ Connect \/ EndContext

\* The calls of the limiter and of Telegram end.
UploadsSpec == UploadsInit /\ [][UploadsNext]_uploadVars /\ WF_uploadVars(Step) /\ WF_uploadVars(Connect)

----------------------------------------------------------------------------
(* Properties *)

Album(from, to) == to - from < AlbumFiles /\ Total(from, to) <= AlbumBytes

\* The first files of the messages a group could be sent in.
Splits == {S \in SUBSET Files : (1 \in Files => 1 \in S) /\ \A i \in S :
  LET to == Cardinality({f \in Files : \A j \in S : j > i => f < j}) IN to > i => Album(i, to)}

\* PlanAlbumBatches sends every file once, in order, with no album over its
\* limits, in as few messages as that allows (tgupload.go:297-335).
PlanIsBest ==
  LET parts == PlanAlbumBatches
      first(k) == IF k > Len(parts) THEN Len(Kind) + 1 ELSE Head(parts[k])
  IN pc = "plan" /\ Gone \notin Range(size) =>
       /\ first(1) = 1 /\ \A k \in 1..Len(parts) : parts[k] = Run(first(k), first(k + 1))
       /\ {first(k) : k \in 1..Len(parts)} \in Splits
       /\ \A S \in Splits : Len(parts) <= Cardinality(S)

\* What is reported as sent has come to the chat, after everything before it, and
\* a group that ends well has come as a whole (tgupload.go:359-457): the caller
\* removes a file when it is reported.  And a file comes twice only after a
\* connection broke with the file on its way; no flood, rejection or fallback
\* repeats it (tgupload.go:139-163 and 407-436).
SentOnceBeforeReported ==
  /\ UploadsType
  /\ \A f \in notified : arrived[f] > 0 /\ \A g \in 1..f : g \in notified
  /\ result = "ok" => notified = Files
  /\ \A f \in Files : arrived[f] > 1 => f \in doubtful

\* However often Telegram asks to wait or the connection breaks, the group comes
\* to an end: no file is tried forever (tgupload.go:139, 234 and 247).
GroupEnds == <>(pc = "done")
=============================================================================
