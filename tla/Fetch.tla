-------------------------------- MODULE Fetch --------------------------------
(***************************************************************************)
(* The download stage of a job that fetches URLs                           *)
(* (src/internal/jobs/sources.go, src/internal/dl): the source that takes  *)
(* the job tries the chain of engines for each URL in turn, or the direct  *)
(* download first, or only that; the direct download of a playlist         *)
(* (src/internal/dl/hls.go) joins its segments.  The upload stage takes    *)
(* what is complete out of the same directory meanwhile, so that what an   *)
(* engine left there is not what it fetched.                               *)
(*                                                                         *)
(* Each URL stands for one file; gallery-dl, cyberdrop-dl and the direct   *)
(* download give it different names.                                       *)
(***************************************************************************)
EXTENDS Integers, Sequences, FiniteSets, SequencesExt

CONSTANTS
  NUrls, Playlists,   \* URLs, in their order; those of a playlist
  NSegments, Tries,   \* segments of a playlist, and attempts at one: 3 in the code
  Sources,            \* the sources looked at
  MaxRetries          \* GDL_MAX_RUN_RETRIES

Urls == 1..NUrls
Engines == {"gdl", "cdl"}
Files == Urls \X (Engines \cup {"direct"})

ASSUME FetchAssumption ==
  /\ NUrls \in Nat \ {0} /\ Playlists \subseteq Urls /\ {NSegments, Tries} \subseteq Nat \ {0} /\ MaxRetries \in Nat
  /\ Sources \subseteq {"gallery-dl", "cyberdrop-dl", "gofile", "mirror", "direct"}

VARIABLES
  source,    \* the source pickSource has chosen
  pc,        \* "bulk", "chain", "engine", "direct", "segments", "sleep" or "over"
  url,       \* the URL in turn
  bulk,      \* the direct download of all URLs, and not of one an engine failed
  eng,       \* place in the chain
  retries,   \* bo.attempt
  limited,   \* the last standard error looks like a rate limit
  dir,       \* st.Dest: complete files
  junk,      \* st.Dest: a ".part" an engine left
  ts,        \* the output of a playlist: its segments, and whether each is whole
  seg, try,  \* the segment in turn, and the attempt
  ended,     \* the job's context
  result,    \* "", "ok", "failed" or "cancelled"
  delivered, \* files that reached the chat, which are those of st.uploaded
  asked,     \* history: who has been asked for each URL nobody had so far
  shadowed,  \* history: URLs taken for done because of a file of another one
  joined     \* history: what each playlist was made of

runVars == <<source, pc, url, bulk, eng, retries, limited, result>>
tsVars == <<ts, seg, try, joined>>
logVars == <<asked, shadowed>>
vars == <<runVars, dir, junk, tsVars, ended, delivered, logVars>>

TypeOK ==
  /\ source \in Sources /\ url \in 1..NUrls + 1 /\ bulk \in BOOLEAN /\ eng \in 1..2
  /\ pc \in {"bulk", "chain", "engine", "direct", "segments", "sleep", "over"}
  /\ pc \in {"engine", "direct", "segments"} => url \in Urls
  /\ retries \in 0..MaxRetries /\ limited \in BOOLEAN /\ junk \in BOOLEAN /\ ended \in BOOLEAN
  /\ ts \in Seq((1..NSegments) \X BOOLEAN) /\ seg \in 1..NSegments + 1 /\ try \in 0..Tries
  /\ result \in {"", "ok", "failed", "cancelled"} /\ (pc = "over" <=> result # "")
  /\ dir \subseteq Files /\ delivered \subseteq Files
  /\ asked \in [Urls -> SUBSET (Engines \cup {"direct"})] /\ shadowed \subseteq Urls
  /\ DOMAIN joined \subseteq Playlists

Init ==
  /\ source \in Sources
  /\ pc = IF source \in {"gofile", "mirror", "direct"} THEN "bulk" ELSE "chain"
  /\ url = 1 /\ bulk = (pc = "bulk") /\ eng = 1 /\ retries = 0 /\ limited = FALSE
  /\ dir = {} /\ junk = FALSE /\ ts = <<>> /\ seg = 1 /\ try = 0 /\ ended = FALSE /\ result = ""
  /\ delivered = {}
  /\ asked = [u \in Urls |-> {}] /\ shadowed = {} /\ joined = [p \in {} |-> <<>>]

Chain == IF source = "cyberdrop-dl" THEN <<"cdl", "gdl">> ELSE <<"gdl", "cdl">>
Engine == Chain[eng]
Backs == source \in {"gallery-dl", "gofile"}   \* RunWithBackoff, and not Run

Fetched == dir \cup delivered
Asks(who) == asked' = [asked EXCEPT ![url] =
  IF \E f \in Fetched : f[1] = url THEN {} ELSE @ \cup {who}]
Arrives(f) == dir' = dir \cup {f} /\ asked' = [asked EXCEPT ![f[1]] = {}]
TsClosed == ts' = <<>> /\ seg' = 1 /\ try' = 0
Over(r) == pc' = "over" /\ result' = r

----------------------------------------------------------------------------
(* Direct: DownloadItems, of all URLs or of the one the engines have failed *)

DirectStarts ==
  /\ pc = "bulk" /\ url <= NUrls /\ ~ended
  /\ pc' = "direct"
  /\ UNCHANGED <<source, url, bulk, eng, retries, limited, result, dir, junk, tsVars, ended, delivered, logVars>>

\* The next item, or the next URL of Run.
ItemOver == url' = url + 1 /\ eng' = 1 /\ pc' = IF bulk THEN "bulk" ELSE "chain"

DirectGets ==
  /\ pc = "direct" /\ url \notin Playlists /\ ~ended
  /\ Arrives(<<url, "direct">>) /\ ItemOver
  /\ UNCHANGED <<source, bulk, retries, limited, result, junk, tsVars, ended, delivered, shadowed>>

DirectFails ==
  /\ pc \in {"direct", "segments"} /\ ~ended
  /\ Asks("direct") /\ ItemOver /\ TsClosed
  /\ UNCHANGED <<source, bulk, retries, limited, result, dir, junk, joined, ended, delivered, shadowed>>

Playlist ==
  /\ pc = "direct" /\ url \in Playlists /\ ~ended
  /\ pc' = "segments" /\ TsClosed
  /\ UNCHANGED <<source, url, bulk, eng, retries, limited, result, dir, junk, joined, ended, delivered, logVars>>

\* Wrong: the output is not cut back before the next attempt.
AppendsAttempt(whole) ==
  /\ pc = "segments" /\ seg <= NSegments /\ try < Tries /\ ~ended
  /\ ts' = Append(ts, <<seg, whole>>)
  /\ IF whole THEN seg' = seg + 1 /\ try' = 0 ELSE seg' = seg /\ try' = try + 1
  /\ UNCHANGED <<runVars, dir, junk, joined, ended, delivered, logVars>>

\* An attempt begins where the segment does; it may break off.
SegmentStreams(whole) ==
  /\ pc = "segments" /\ seg <= NSegments /\ try < Tries /\ ~ended
  /\ ts' = Append(SubSeq(ts, 1, seg - 1), <<seg, whole>>)
  /\ IF whole THEN seg' = seg + 1 /\ try' = 0 ELSE seg' = seg /\ try' = try + 1
  /\ UNCHANGED <<runVars, dir, junk, joined, ended, delivered, logVars>>

Remux ==
  /\ pc = "segments" /\ seg > NSegments /\ ~ended
  /\ joined' = [p \in DOMAIN joined \cup {url} |-> IF p = url THEN ts ELSE joined[p]]
  /\ Arrives(<<url, "direct">>) /\ ItemOver /\ TsClosed
  /\ UNCHANGED <<source, bulk, retries, limited, result, junk, ended, delivered, shadowed>>

\* All items are through: an error only if every one of them failed; then the
\* engines are next, or nobody.
BulkOver ==
  /\ pc = "bulk" /\ url > NUrls /\ ~ended
  /\ IF \E f \in Fetched : f[2] = "direct" THEN Over("ok") /\ UNCHANGED <<url, bulk>>
     ELSE IF source = "direct" THEN Over("failed") /\ UNCHANGED <<url, bulk>>
     ELSE pc' = "chain" /\ url' = 1 /\ bulk' = FALSE /\ UNCHANGED result
  /\ UNCHANGED <<source, eng, retries, limited, dir, junk, tsVars, ended, delivered, logVars>>

----------------------------------------------------------------------------
(* Runner.Run and RunWithBackoff *)

NextEngine == IF eng < 2 THEN eng' = eng + 1 /\ pc' = "chain" ELSE eng' = 1 /\ pc' = "direct"

\* Wrong: a missing tool ends the URL.
MissingSkips ==
  /\ pc = "chain" /\ url <= NUrls /\ ~ended
  /\ Asks(Engine) /\ url' = url + 1 /\ eng' = 1 /\ pc' = "chain"
  /\ UNCHANGED <<source, bulk, retries, limited, result, dir, junk, tsVars, ended, delivered, shadowed>>

\* ErrToolMissing: the next engine.
EngineMissing ==
  /\ pc = "chain" /\ url <= NUrls /\ ~ended
  /\ Asks(Engine) /\ NextEngine
  /\ UNCHANGED <<source, url, bulk, retries, limited, result, dir, junk, tsVars, ended, delivered, shadowed>>

EngineStarts ==
  /\ pc = "chain" /\ url <= NUrls /\ ~ended
  /\ pc' = "engine" /\ Asks(Engine)
  /\ UNCHANGED <<source, url, bulk, eng, retries, limited, result, dir, junk, tsVars, ended, delivered, shadowed>>

\* A file that is in the directory is not fetched again.
EngineWrites ==
  /\ pc = "engine" /\ ~ended /\ <<url, Engine>> \notin dir
  /\ Arrives(<<url, Engine>>)
  /\ UNCHANGED <<runVars, junk, tsVars, ended, delivered, shadowed>>

\* What is judged is what lies in the directory at the end, of whatever URL, and for
\* cyberdrop-dl also the count it prints (counts: it says that it has downloaded).
Good(code, counts) == code = 0 /\ (dir # {} \/ junk' \/ counts)

EngineExits(code, counts, rate) ==
  /\ pc = "engine" /\ ~ended
  /\ counts => Engine = "cdl" /\ <<url, "cdl">> \in Fetched
  /\ junk' \in {junk, junk \/ code = 1} /\ limited' = (rate /\ Backs)
  /\ IF Good(code, counts)
     THEN /\ url' = url + 1 /\ eng' = 1 /\ pc' = "chain"
          /\ shadowed' = IF <<url, Engine>> \in Fetched THEN shadowed ELSE shadowed \cup {url}
     ELSE NextEngine /\ UNCHANGED <<url, shadowed>>
  /\ UNCHANGED <<source, bulk, retries, result, dir, tsVars, ended, delivered, asked>>

\* Wrong: the retries are not counted.
RunOverUncounted ==
  /\ pc = "chain" /\ url > NUrls /\ ~ended
  /\ IF dir # {} \/ junk THEN Over("ok")
     ELSE IF Backs /\ limited THEN pc' = "sleep" /\ UNCHANGED result
     ELSE Over("failed")
  /\ UNCHANGED <<source, url, bulk, eng, retries, limited, dir, junk, tsVars, ended, delivered, logVars>>

\* Run returns OK if any file is left.
RunOver ==
  /\ pc = "chain" /\ url > NUrls /\ ~ended
  /\ IF dir # {} \/ junk THEN Over("ok")
     ELSE IF Backs /\ limited /\ retries < MaxRetries THEN pc' = "sleep" /\ UNCHANGED result
     ELSE Over("failed")
  /\ UNCHANGED <<source, url, bulk, eng, retries, limited, dir, junk, tsVars, ended, delivered, logVars>>

Again ==
  /\ pc = "sleep" /\ ~ended
  /\ pc' = "chain" /\ url' = 1 /\ retries' = IF retries < MaxRetries THEN retries + 1 ELSE retries
  /\ UNCHANGED <<source, bulk, eng, limited, result, dir, junk, tsVars, ended, delivered, logVars>>

\* Every wait hears the context; a process is killed.  The directory is removed.
HearsEnd ==
  /\ pc # "over" /\ ended
  /\ Over("cancelled") /\ dir' = {} /\ junk' = FALSE /\ TsClosed
  /\ UNCHANGED <<source, url, bulk, eng, retries, limited, joined, ended, delivered, logVars>>

----------------------------------------------------------------------------
(* uploadStage and finalize *)

\* Uploaded, removed and recorded; refusals are left to the module Pipeline.
Uploads(f) ==
  /\ f \in dir \ delivered /\ ~ended
  /\ delivered' = delivered \cup {f} /\ dir' = dir \ {f}
  /\ UNCHANGED <<runVars, junk, tsVars, ended, logVars>>

Cancel ==
  /\ pc # "over" /\ ~ended /\ ended' = TRUE
  /\ UNCHANGED <<runVars, dir, junk, tsVars, delivered, logVars>>

Idle == pc = "over" /\ (ended \/ dir \subseteq delivered)

\* The final state of the job, once both stages are over.
Verdict ==
  IF ended THEN "cancelled"
  ELSE IF result # "ok" /\ delivered = {} THEN "failed" ELSE "done"

----------------------------------------------------------------------------
\* What waits for a server, or for ffmpeg; and what does not.
Transfer == DirectGets \/ DirectFails \/ Remux \/ \E w \in BOOLEAN : SegmentStreams(w)
Items == DirectStarts \/ Playlist \/ BulkOver
EngineEnds == \E code \in {0, 1}, counts, rate \in BOOLEAN : EngineExits(code, counts, rate)
Run == EngineMissing \/ EngineStarts \/ RunOver \/ Again
Upload == \E f \in Files : Uploads(f)

Next == Transfer \/ Items \/ Run \/ EngineWrites \/ EngineEnds \/ HearsEnd \/ Upload \/ Cancel

\* The goroutines are scheduled.  An engine may run for ever, and so may a transfer:
\* the clients are built with Timeout 0 (direct.go:112-116) and nothing bounds the
\* reading of a body (direct.go:371-392, hls.go:348-372).
Spec == Init /\ [][Next]_vars /\ WF_vars(Items) /\ WF_vars(Run) /\ WF_vars(HearsEnd) /\ WF_vars(Upload)

----------------------------------------------------------------------------
(* Properties *)

\* The direct download is all that is tried: the job has no engines, or the direct
\* download got one of its URLs and the others are not looked at any more
\* (direct.go:239, sources.go:316-319, 376-381).
DirectOnly == bulk /\ (source = "direct" \/ \E f \in Fetched : f[2] = "direct")

\* A job that is not cancelled has asked for every URL until somebody had it: all
\* engines of the chain and the direct download.  Two exceptions.  Of several URLs of
\* which the direct download got some and not others, the engines are asked for none
\* (DirectOnly).  And a URL an engine left with code 0 while a file of another one lay
\* there is taken for done (shadowed; subproc.go:371, 416).  A job does not fail when
\* files of it reached the chat, or lie in the directory, even if the upload stage had
\* emptied the directory before the engine was judged (subproc.go:507, manager.go:814).
EveryUrlAsked ==
  /\ TypeOK
  /\ pc = "over" /\ ~ended => \A u \in Urls :
       \/ \E f \in Fetched : f[1] = u
       \/ u \in shadowed
       \/ asked[u] = Engines \cup {"direct"}
       \/ DirectOnly /\ "direct" \in asked[u]
  /\ Idle /\ Verdict = "failed" => Fetched = {}

\* A playlist is made of its segments, each whole, once and in order, however many
\* attempts they took (hls.go:320-399).  And a file that has reached the chat is not
\* uploaded a second time, however often the engines fetch it again because the
\* directory looked empty (pipeline.go:98-103).
WholeAndOnce ==
  /\ [](\A p \in DOMAIN joined : joined[p] = [k \in 1..NSegments |-> <<k, TRUE>>])
  /\ [][~ended => delivered \cap dir \subseteq dir']_vars

\* A job that is cancelled comes back whatever servers and engines do, and any other
\* one if each transfer and each run of an engine ends: attempts and retries are
\* bounded (subproc.go:271-279, 515-527, hls.go:320-345).
FetchEnds ==
  /\ ended ~> pc = "over"
  /\ WF_vars(Transfer) /\ WF_vars(EngineEnds) => <>(pc = "over")
=============================================================================
