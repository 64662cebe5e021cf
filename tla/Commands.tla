------------------------------- MODULE Commands -------------------------------
(***************************************************************************)
(* From a message to where its files go: the download commands             *)
(* (src/internal/bot/cmd_download.go), the source of a job                 *)
(* (jobs/manager.go, sources.go) and what each source makes of the target  *)
(* (gdrive, mega, dl), the hosts it is mirrored to (jobs/pipeline.go,      *)
(* upload/hosts.go), and the keys and credentials that users store and     *)
(* their jobs use (upload/keys.go, bot/cmd_misc.go, gdrive.go).            *)
(*                                                                         *)
(* A link is known by the prefixes in front of it and the kind of thing it *)
(* names.  A job downloads what its source can read; the steps of a        *)
(* download are those of the module Fetch and are not repeated.            *)
(***************************************************************************)
EXTENDS Integers, Sequences, FiniteSets, SequencesExt

CONSTANTS
  Users,
  AllHosts,     \* hosts files can be mirrored to, each with a command of its name
  SmallHosts,   \* those that do not take large files
  KeyedHosts,   \* those that take them only with a key
  MirrorHosts,  \* MIRROR_HOSTS
  Retries,      \* MIRROR_RETRIES
  AllowShared,  \* the values of ALLOW_SHARED_UPLOAD_KEYS, which may change between two uses
  UseServiceAccts, \* those of USE_SERVICE_ACCOUNTS
  SharedFiles,  \* files of the owner's in AUTH_DIR that serve whoever has none
  Scenes,       \* bound: the lists of messages that may come together
  MaxRequests   \* bound: messages

Owned == {"accounts", "token", "client", "cookies"}  \* files of a user

\* The commands that download, but for those of hosts; "key" and "file" store something.
Downloads == {"m", "dl", "gdl", "cdl", "gfdl", "mega", "gd", "tor", "aria", "unzip"}

LinkPrefixes == {"gdrive:", "mega:", "gofile:", "direct:", "cdl:", "bare"}  \* "bare": without "https://"
LinkKinds == {"page", "file", "stream", "drive", "mega", "gofile", "magnet", "torrent", "archive", "word"}
Links == [pre : Seq(LinkPrefixes), kind : LinkKinds, n : Nat]

\* Another word of a message that could name a GoFile folder: 4 to 40 letters and digits,
\* the value of a flag (-p, -o) or just so (gofileIDRE).
Word == [pre |-> <<"bare">>, kind |-> "word", n |-> 0]

ASSUME CommandsAssumption ==
  /\ SharedFiles \subseteq {"accounts", "token", "cookies"}
  /\ SmallHosts \subseteq AllHosts /\ KeyedHosts \subseteq AllHosts /\ MirrorHosts \subseteq AllHosts /\ "gofile" \in AllHosts
  /\ AllHosts \cap (Downloads \cup {"key", "file"}) = {}
  /\ \A ms \in Scenes : (\E n \in 0..MaxRequests : DOMAIN ms = 1..n) /\ \A r \in DOMAIN ms : LET m == ms[r] IN
       /\ m.user \in Users /\ m.host \in AllHosts /\ m.what \in Owned /\ {m.links, m.replied} \subseteq Seq(Links)
       /\ m.cmd \in Downloads \cup AllHosts \cup {"key", "file"} /\ m.mirror \in BOOLEAN /\ m.tg \in BOOLEAN
  /\ {"", "shared", "none"} \cap Users = {} /\ AllowShared \cup UseServiceAccts \subseteq BOOLEAN
  /\ {Retries, MaxRequests} \subseteq Nat

VARIABLES
  reqs,   \* the requests: a message that has come, its job, and how far it is
  keys,   \* keys.json of each user: the request that set the key of each host, or 0
  lock,   \* Keys.mu: the request that holds it, or 0
  files,  \* the other files under auth/<user>: the request that sent each, 0 for none, -1 if being written
  uses,   \* history: the credentials jobs have used
  given   \* history: the key each user has given last, by host

commandVars == <<reqs, keys, lock, files, uses, given>>

OfOwner == MaxRequests + 1  \* who sent a shared file
Shared == "shared"
Sources == <<"unzip", "google-drive", "mega", "gofile", "aria2", "mirror-telegram", "mirror", "cyberdrop-dl",
             "direct", "gallery-dl">>
NoJob == [links |-> <<>>, outer |-> "", engine |-> "", mirror |-> FALSE, tg |-> FALSE, unzip |-> FALSE,
          hosts |-> {}, file |-> FALSE, user |-> ""]
New == [pc |-> "new", m |-> [cmd |-> ""], job |-> NoJob, source |-> "", got |-> {}, token |-> <<>>, old |-> <<>>,
         host |-> [h \in {} |-> ""], tries |-> [h \in {} |-> 0], stop |-> FALSE, telegram |-> FALSE]
Requests == DOMAIN reqs
Phases == {"new", "key", "keyput", "file", "fileput", "queued", "drive", "refresh", "fetched", "mirror", "telegram", "done"}

CommandsType ==
  /\ lock \in 0..MaxRequests
  /\ \A r \in Requests :
       /\ reqs[r].pc \in Phases /\ reqs[r].source \in ToSet(Sources) \cup {""}
       /\ \A l \in ToSet(reqs[r].job.links) \cup reqs[r].got : ToSet(l.pre) \subseteq LinkPrefixes \cup {"mirror:"} /\ l.kind \in LinkKinds
       /\ DOMAIN reqs[r].host \subseteq AllHosts
  /\ keys \in [Users -> [AllHosts -> 0..MaxRequests]]
  /\ files \in [Users \cup {Shared} -> [Owned -> -1..OfOwner]]

CommandsInit ==
  /\ lock = 0 /\ uses = {}
  /\ \E ms \in Scenes :
       reqs = [r \in DOMAIN ms |->
                 [New EXCEPT !.m = ms[r], !.pc = IF ms[r].cmd \in {"key", "file"} THEN ms[r].cmd ELSE "new"]]
  /\ keys = [u \in Users |-> [h \in AllHosts |-> 0]] /\ given = keys
  /\ files = [u \in Users \cup {Shared} |-> [f \in Owned |-> IF u = Shared /\ f \in SharedFiles THEN OfOwner ELSE 0]]

----------------------------------------------------------------------------
(* The commands: what each makes of a message *)

Starts(l, prefixes) == l.pre # <<>> /\ Head(l.pre) \in prefixes
Trim(l, prefix) == IF Starts(l, {prefix}) THEN [l EXCEPT !.pre = Tail(@)] ELSE l

\* Those of a list that are in S, or for which Test holds, in their order.
Among(links, S) ==
  LET kept[i \in 0..Len(links)] ==
        IF i = 0 THEN <<>> ELSE IF links[i] \in S THEN Append(kept[i - 1], links[i]) ELSE kept[i - 1]
  IN kept[Len(links)]
Only(links, Test(_)) == Among(links, {l \in ToSet(links) : Test(l)})

\* isURLToken
IsURLToken(l) == ~Starts(l, {"bare"})
URLTokens(links) == Only(links, IsURLToken)

\* parseFlags: a flag that takes a value takes the link behind it for the value.
Flags(m) == [mirror |-> m.mirror, tg |-> m.tg, unzip |-> m.unzip, to |-> m.to,
             links |-> URLTokens(IF m.valueless /\ m.links # <<>> THEN Tail(m.links) ELSE m.links)]

\* collectURLs: those of the message, or else those of the message it replies to.
CollectURLs(m, fromTokens) == IF fromTokens # <<>> THEN fromTokens ELSE URLTokens(m.replied)

Urls(m) == CollectURLs(m, Flags(m).links)
Prefixed(p, urls) == [i \in 1..Len(urls) |-> IF Starts(urls[i], {p}) THEN urls[i] ELSE [urls[i] EXCEPT !.pre = <<p>> \o @]]
Job(m, links) == [NoJob EXCEPT !.links = links, !.user = m.user]
Flagged(m, links) ==
  LET f == Flags(m)
  IN [Job(m, links) EXCEPT !.mirror = f.mirror, !.tg = f.tg \/ ~f.mirror, !.unzip = f.unzip]
OrUsage(urls, job) == IF urls = <<>> THEN NoJob ELSE job
FileLink(m) == <<[pre |-> <<>>, kind |-> m.file, n |-> 1]>>

\* IsGofileURL; an address is only looked at when nothing is in front of it, and without
\* an address any word may be an identifier.
IsGofileURL(l) ==
  \/ Starts(l, {"gofile:"})
  \/ l.pre \in {<<>>, <<"bare">>} /\ l.kind = "gofile"
  \/ l = Word

Words(m) == IF m.word THEN <<Word>> ELSE <<>>

\* cmdGofileDL: an identifier alone will do, which any word may be.
GofileDL(m) ==
  LET urls == IF Urls(m) # <<>> THEN Urls(m) ELSE Only(m.links, IsGofileURL) \o Words(m)
  IN OrUsage(urls, Flagged(m, Prefixed("gofile:", urls)))

\* cmdMirrorTo: the hosts the command names, or -to; "/gofile" of a GoFile link, or with
\* any word that could be an identifier, downloads.
MirrorTo(m) ==
  LET f == Flags(m)  named == m.cmd \in AllHosts
      job == [Job(m, Urls(m)) EXCEPT !.mirror = TRUE, !.tg = f.tg, !.unzip = f.unzip, !.outer = "mirror:",
                !.hosts = IF named THEN {m.cmd} ELSE f.to]
  IN IF named /\ f.to # {} THEN NoJob
     ELSE IF m.cmd = "gofile" /\ \E l \in ToSet(Urls(m)) \cup ToSet(m.links) \cup ToSet(Words(m)) : IsGofileURL(l)
     THEN GofileDL(m)
     ELSE IF Urls(m) # <<>> THEN job
     ELSE IF m.file = "none" THEN NoJob
     ELSE [job EXCEPT !.links = FileLink(m), !.outer = "mirror_tg:", !.file = TRUE]

\* cmdDirect
Direct(m) == OrUsage(Urls(m), [Flagged(m, Urls(m)) EXCEPT !.engine = "direct"])

\* cmdEngine
Engine(m, engine) == OrUsage(Urls(m), [Flagged(m, Urls(m)) EXCEPT !.engine = engine])

\* cmdMega: a link without "https://" will do.
Mega(m) ==
  LET isMega(l) == l.kind = "mega" \/ Starts(l, {"mega:"})
      urls == IF Urls(m) # <<>> THEN Urls(m)
              ELSE IF Only(m.links, isMega) # <<>> THEN Only(m.links, isMega)
              ELSE Only(m.replied, LAMBDA l : l.kind = "mega")
  IN OrUsage(urls, Flagged(m, Prefixed("mega:", urls)))

\* cmdDrive, without a file of credentials
Drive(m) == OrUsage(Urls(m), Flagged(m, Prefixed("gdrive:", Urls(m))))

\* cmdTorrent: the first link that begins with "http" or "magnet:", or a .torrent file.
Torrent(m) ==
  LET ours == Only(m.links, LAMBDA l : l.pre = <<>>)
      theirs == Only(m.replied, LAMBDA l : l.pre = <<>> /\ l.kind = "magnet")
      job(l, outer) == [Job(m, <<l>>) EXCEPT !.engine = "aria2", !.outer = outer]
  IN IF ours # <<>> THEN job(ours[1], "")
     ELSE IF m.file = "torrent" THEN job(FileLink(m)[1], "torrent:")
     ELSE IF m.file = "none" /\ theirs # <<>> THEN job(theirs[1], "")
     ELSE NoJob

\* cmdAria: the first link.
Aria(m) ==
  LET urls == URLTokens(m.links)
      theirs == URLTokens(m.replied)
      job(l, outer) == [Job(m, <<l>>) EXCEPT !.engine = "aria2", !.outer = outer]
  IN IF urls # <<>> THEN job(urls[1], "")
     ELSE IF m.file = "torrent" THEN job(FileLink(m)[1], "torrent:")
     ELSE IF m.file = "none" /\ theirs # <<>> THEN job(theirs[1], "")
     ELSE NoJob

\* cmdUnzip
Unzip(m) ==
  IF m.file # "none" THEN [Job(m, FileLink(m)) EXCEPT !.unzip = TRUE, !.outer = "unzip:", !.file = TRUE]
  ELSE OrUsage(Urls(m), [Job(m, Urls(m)) EXCEPT !.unzip = TRUE])

\* The handler of each command: register.
Handler(m) ==
  CASE m.cmd = "m" \/ m.cmd \in AllHosts -> MirrorTo(m)
    [] m.cmd = "dl" -> Direct(m)
    [] m.cmd = "gdl" -> Engine(m, "gallery-dl")
    [] m.cmd = "cdl" -> Engine(m, "cyberdrop-dl")
    [] m.cmd = "gfdl" -> GofileDL(m)
    [] m.cmd = "mega" -> Mega(m)
    [] m.cmd = "gd" -> Drive(m)
    [] m.cmd = "tor" -> Torrent(m)
    [] m.cmd = "aria" -> Aria(m)
    [] m.cmd = "unzip" -> Unzip(m)

----------------------------------------------------------------------------
(* The source of a job, and what it makes of the target *)

\* FirstURL
FirstURL(job) == [job.links[1] EXCEPT !.pre = IF job.outer = "" THEN @ ELSE <<job.outer>> \o @]

\* isTorrentURL, and the Match of each source.
IsTorrentURL(u) == Starts(u, {"torrent:"}) \/ u.kind \in {"magnet", "torrent"}
IsDriveURL(u) == Starts(u, {"gdrive:"}) \/ u.kind = "drive"
IsMegaURL(u) == Starts(u, {"mega:"}) \/ u.kind = "mega"
IsDirectURL(u) == Starts(u, {"direct:"}) \/ (u.pre = <<>> /\ u.kind \in {"file", "stream"})
Match(s, job) ==
  LET u == FirstURL(job)
  IN CASE s = "unzip" -> Starts(u, {"unzip:"}) \/ (job.unzip /\ job.file)
       [] s = "google-drive" -> IsDriveURL(u)
       [] s = "mega" -> IsMegaURL(u)
       [] s = "gofile" -> IsGofileURL(u)
       [] s = "aria2" -> IsTorrentURL(u)
       [] s = "mirror-telegram" -> Starts(u, {"mirror_tg:"}) /\ job.file
       [] s = "mirror" -> Starts(u, {"mirror:"})
       [] s = "cyberdrop-dl" -> Starts(u, {"cdl:"})
       [] s = "direct" -> IsDirectURL(u)
       [] s = "gallery-dl" -> TRUE

\* pickSource
PickSource(job) ==
  LET i == CHOOSE j \in 1..Len(Sources) : Match(Sources[j], job) /\ \A k \in 1..(j - 1) : ~Match(Sources[k], job)
  IN IF job.engine # "" THEN job.engine ELSE Sources[i]

\* Wrong: the prefix is taken off the target, and not off each link of a list.
ReadDriveWhole(job) == {IF Len(job.links) = 1 THEN Trim(l, "gdrive:") ELSE l : l \in ToSet(job.links)}

\* What a source takes off a link before it reads it.  Drive and MEGA take a list
\* apart only if nothing is in front of it.
ReadDrive(job) == {IF job.outer = "" THEN Trim(l, "gdrive:") ELSE [l EXCEPT !.pre = <<job.outer>> \o @] : l \in ToSet(job.links)}
ReadMega(job) == {IF job.outer = "" THEN Trim(l, "mega:") ELSE [l EXCEPT !.pre = <<job.outer>> \o @] : l \in ToSet(job.links)}
ReadGofile(job) == {Trim(l, "gofile:") : l \in ToSet(job.links)}
ReadAria(job) == {Trim(Trim(Trim(FirstURL(job), "mirror:"), "direct:"), "torrent:")}
ReadDirect(job) == {Trim(l, "direct:") : l \in ToSet(job.links)}
ReadCyberdrop(job) == {Trim(FirstURL(job), "cdl:")}
ReadGallery(job) == {Trim(l, "cdl:") : l \in ToSet(job.links)}

\* What the source can read of it, with the engines it falls back on.
Fetched(s, job) ==
  LET sites == {"page", "gofile", "file"}
      of(read, kinds) == {l \in read : l.pre = <<>> /\ l.kind \in kinds}
  IN CASE s \in {"unzip", "mirror-telegram"} -> ToSet(job.links)
       [] s = "google-drive" -> {l \in ReadDrive(job) : l.pre \in {<<>>, <<"bare">>} /\ l.kind = "drive"}
       [] s = "mega" -> of(ReadMega(job), {"mega"})
       [] s = "gofile" -> {l \in ReadGofile(job) : l.pre \in {<<>>, <<"bare">>} /\ l.kind \in sites}
       [] s = "aria2" -> of(ReadAria(job), {"magnet", "torrent", "file"})
       [] s = "mirror" -> of(ReadDirect(job), {"file", "stream"}) \cup of(ReadGallery(job), sites)
       [] s = "cyberdrop-dl" -> of(ReadCyberdrop(job), sites)
       [] s = "direct" -> of(ReadDirect(job), {"file", "stream"})
       [] s = "gallery-dl" -> of(ReadGallery(job), sites)

----------------------------------------------------------------------------
(* Requests: messages that have come, each with a goroutine that handles it (Dispatch) *)

Goes(r, pc) == reqs' = [reqs EXCEPT ![r].pc = pc]
User(r) == reqs[r].m.user

\* The answer is how the command is used, or there is a job.
Handle(r) ==
  /\ reqs[r].pc = "new"
  /\ LET job == Handler(reqs[r].m)
     IN reqs' = [reqs EXCEPT ![r].job = job, ![r].pc = IF job = NoJob THEN "done" ELSE "queued"]
  /\ UNCHANGED <<keys, lock, files, uses, given>>

\* Wrong: the lock covers the writing only.
KeyReadUnlocked(r) ==
  /\ reqs[r].pc = "key"
  /\ reqs' = [reqs EXCEPT ![r].old = keys[User(r)], ![r].pc = "keyput"]
  /\ UNCHANGED <<keys, lock, files, uses, given>>

\* cmdKey, Save and Delete: all keys of the user are read,
KeyRead(r) ==
  /\ reqs[r].pc = "key" /\ lock = 0 /\ lock' = r
  /\ reqs' = [reqs EXCEPT ![r].old = keys[User(r)], ![r].pc = "keyput"]
  /\ UNCHANGED <<keys, files, uses, given>>

\* and written with the one that is new: another file is put in the place of the old one.
KeyWrite(r) ==
  LET m == reqs[r].m  key == IF m.delete THEN 0 ELSE r
  IN /\ reqs[r].pc = "keyput" /\ lock' = 0 /\ Goes(r, "done")
     /\ keys' = [keys EXCEPT ![m.user] = [reqs[r].old EXCEPT ![m.host] = key]]
     /\ given' = [given EXCEPT ![m.user][m.host] = key]
     /\ UNCHANGED <<files, uses>>

\* cmdCookies, and cmdDrive with credentials: the file is emptied,
FileBegin(r) ==
  LET m == reqs[r].m
  IN /\ reqs[r].pc = "file" /\ Goes(r, IF m.delete THEN "done" ELSE "fileput")
     /\ files' = [files EXCEPT ![m.user][m.what] = IF m.delete THEN 0 ELSE -1]
     /\ UNCHANGED <<keys, lock, uses, given>>

\* and written.
FileEnd(r) ==
  /\ reqs[r].pc = "fileput" /\ Goes(r, "done")
  /\ files' = [files EXCEPT ![User(r)][reqs[r].m.what] = r]
  /\ UNCHANGED <<keys, lock, uses, given>>

----------------------------------------------------------------------------
(* Its job *)

\* CookiesPath
CookiesPath(u) == IF files[u]["cookies"] # 0 THEN u ELSE Shared

\* Auth.Service: service accounts, if they are used, before the token, and the user's
\* before the owner's: the first that can be read, if there is one.  One that is being
\* written cannot, and the next is taken.
Credentials(accounts) == IF accounts THEN {"accounts", "token"} ELSE {"token"}
Account(u, accounts) ==
  LET order == <<<<u, "accounts">>, <<u, "token">>, <<Shared, "accounts">>, <<Shared, "token">>>>
      readable == {i \in 1..4 : order[i][2] \in Credentials(accounts) /\ files[order[i][1]][order[i][2]] > 0}
  IN {order[i] : i \in {j \in readable : \A k \in readable : j <= k}}

\* has: the user has one; writing: but for now none that can be read; allowed: the owner's may be used.
Use(r, what, owner, has, writing, allowed) ==
  uses' = uses \cup {[r |-> r, what |-> what, owner |-> owner, has |-> has, writing |-> writing, allowed |-> allowed]}

\* downloadStage: Drive needs an account, the engines take cookies.
Download(r) ==
  LET job == reqs[r].job  s == PickSource(job)  own == files[User(r)]
      goesOn(pc, got, token) == reqs' = [reqs EXCEPT ![r].source = s, ![r].pc = pc, ![r].got = got, ![r].token = token]
  IN /\ reqs[r].pc = "queued"
     /\ IF s # "google-drive"
        THEN /\ goesOn("fetched", Fetched(s, job), <<>>)
             /\ IF s \in {"gofile", "mirror", "cyberdrop-dl", "gallery-dl"}
                THEN Use(r, "cookies", CookiesPath(User(r)), own["cookies"] # 0, FALSE, TRUE) ELSE UNCHANGED uses
        ELSE \E accounts \in UseServiceAccts :
             \/ Account(User(r), accounts) = {} /\ goesOn("fetched", {}, <<>>) /\ UNCHANGED uses
             \/ \E a \in Account(User(r), accounts) :
                /\ goesOn(IF a[2] = "token" THEN "drive" ELSE "fetched", Fetched(s, job), <<a[1], files[a[1]][a[2]]>>)
                /\ Use(r, "drive", a[1], \E f \in Credentials(accounts) : own[f] # 0, \A f \in Credentials(accounts) : own[f] <= 0, TRUE)
     /\ UNCHANGED <<keys, lock, files, given>>

\* persistSource.Token: the token has been refreshed, and its file is emptied
Refresh(r) ==
  /\ reqs[r].pc = "drive" /\ Goes(r, "refresh")
  /\ files' = [files EXCEPT ![reqs[r].token[1]]["token"] = -1]
  /\ UNCHANGED <<keys, lock, uses, given>>

\* and written where it was read.
Refreshed(r) ==
  /\ reqs[r].pc = "refresh" /\ Goes(r, "fetched")
  /\ files' = [files EXCEPT ![reqs[r].token[1]]["token"] = reqs[r].token[2]]
  /\ UNCHANGED <<keys, lock, uses, given>>

DriveFetched(r) ==
  /\ reqs[r].pc = "drive" /\ Goes(r, "fetched")
  /\ UNCHANGED <<keys, lock, files, uses, given>>

\* EnabledHosts, and selectedHosts
EnabledHosts == IF MirrorHosts = {} THEN AllHosts ELSE MirrorHosts
SelectedHosts(job) == IF job.hosts # {} THEN job.hosts ELSE EnabledHosts

\* processFile: to the hosts first.
Upload(r) ==
  LET job == reqs[r].job  large == reqs[r].m.large
  IN /\ reqs[r].pc = "fetched"
     /\ reqs' = [reqs EXCEPT
          ![r].pc = IF reqs[r].got = {} THEN "done" ELSE IF job.mirror THEN "mirror" ELSE "telegram",
          ![r].host = IF ~job.mirror \/ reqs[r].got = {} THEN @
                      ELSE [h \in SelectedHosts(job) |-> IF large /\ h \in SmallHosts THEN "skipped" ELSE "up"],
          ![r].tries = [h \in SelectedHosts(job) |-> 0]]
     /\ UNCHANGED <<keys, lock, files, uses, given>>

\* Resolve: the key of the user, or the owner's if that is allowed and there is one.
Resolve(u, h, allowed) == IF keys[u][h] # 0 THEN u ELSE IF allowed /\ h \in {"gofile", "pixeldrain"} THEN Shared ELSE "none"

\* uploadOnce looks the key up for every attempt.
Uses(r, h, allowed) == Use(r, "key", Resolve(User(r), h, allowed), given[User(r)][h] # 0, FALSE, allowed)

\* The host: a link, a failure for good, or one that isRetryable takes for worth another attempt.
Answers(r, h, allowed) ==
  IF reqs[r].m.large /\ h \in KeyedHosts /\ Resolve(User(r), h, allowed) = "none" THEN {"failed"} ELSE {"linked", "failed", "again"}

\* Wrong: attempts are counted from the beginning again.
AttemptForever(r, h) ==
  /\ reqs[r].pc = "mirror" /\ reqs[r].host[h] = "up" /\ ~reqs[r].stop /\ lock = 0
  /\ \E allowed \in AllowShared : Uses(r, h, allowed) /\ \E result \in Answers(r, h, allowed) :
       reqs' = [reqs EXCEPT
         ![r].host[h] = IF result # "again" THEN result ELSE @,
         ![r].tries[h] = IF result = "again" THEN (@ + 1) % (Retries + 1) ELSE @]
  /\ UNCHANGED <<keys, lock, files, given>>

\* UploadWithRetry, of each host in a goroutine of its own.
Attempt(r, h) ==
  /\ reqs[r].pc = "mirror" /\ reqs[r].host[h] = "up" /\ ~reqs[r].stop /\ lock = 0
  /\ \E allowed \in AllowShared : Uses(r, h, allowed) /\ \E result \in Answers(r, h, allowed) :
       reqs' = [reqs EXCEPT
         ![r].host[h] = IF result # "again" THEN result ELSE IF reqs[r].tries[h] = Retries THEN "failed" ELSE @,
         ![r].tries[h] = IF result = "again" /\ @ < Retries THEN @ + 1 ELSE @]
  /\ UNCHANGED <<keys, lock, files, given>>

\* The job is cancelled: those that were under way fail, others are not begun.
Cancel(r) ==
  /\ reqs[r].pc = "mirror" /\ ~reqs[r].stop
  /\ reqs' = [reqs EXCEPT ![r].stop = TRUE]
  /\ UNCHANGED <<keys, lock, files, uses, given>>

HostStops(r, h) ==
  /\ reqs[r].pc = "mirror" /\ reqs[r].stop /\ reqs[r].host[h] = "up"
  /\ \E state \in {"failed", "unasked"} : reqs' = [reqs EXCEPT ![r].host[h] = state]
  /\ UNCHANGED <<keys, lock, files, uses, given>>

Settled(r) == reqs[r].pc = "mirror" /\ \A h \in DOMAIN reqs[r].host : reqs[r].host[h] # "up"

\* Wrong: no host has taken the file, and Telegram is not asked.
MirroredOnly(r) ==
  /\ Settled(r)
  /\ LET some == \E h \in DOMAIN reqs[r].host : reqs[r].host[h] = "linked"
     IN Goes(r, IF reqs[r].job.tg /\ some /\ ~reqs[r].stop THEN "telegram" ELSE "done")
  /\ UNCHANGED <<keys, lock, files, uses, given>>

\* processFile goes on to Telegram if that is wanted too, whatever the hosts have said.
Mirrored(r) ==
  /\ Settled(r)
  /\ Goes(r, IF reqs[r].job.tg /\ ~reqs[r].stop THEN "telegram" ELSE "done")
  /\ UNCHANGED <<keys, lock, files, uses, given>>

Telegram(r) ==
  /\ reqs[r].pc = "telegram"
  /\ reqs' = [reqs EXCEPT ![r].pc = "done", ![r].telegram = TRUE]
  /\ UNCHANGED <<keys, lock, files, uses, given>>

Done == (\A r \in Requests : reqs[r].pc = "done") /\ UNCHANGED commandVars

\* A download from others, and uploads to them.
Fetching(r) == Download(r) \/ Refresh(r) \/ DriveFetched(r)
Attempting(r) == \E h \in DOMAIN reqs[r].host : Attempt(r, h)

\* Whatever the program does itself, and its calls of Telegram.
Proceeds(r) ==
  \/ Handle(r) \/ KeyRead(r) \/ KeyWrite(r) \/ FileBegin(r) \/ FileEnd(r) \/ Refreshed(r)
  \/ Upload(r) \/ (\E h \in DOMAIN reqs[r].host : HostStops(r, h)) \/ Mirrored(r) \/ Telegram(r)

Works(r) == Proceeds(r) \/ Fetching(r) \/ Attempting(r)

CommandsNext == (\E r \in Requests : Works(r) \/ Cancel(r)) \/ Done

\* Handlers, jobs and uploads are goroutines of their own, which go on.  That calls of
\* Telegram return is assumed.  Nothing is assumed of others: the clients of hosts and of
\* MEGA have no timeout, so that a download or an attempt need never end.
Fairness == \A r \in 1..MaxRequests : WF_commandVars(r \in Requests /\ Proceeds(r))

CommandsSpec == CommandsInit /\ [][CommandsNext]_commandVars /\ Fairness

----------------------------------------------------------------------------
(* What is promised *)

Plain(kinds) == {<<>>} \X kinds
Pre(prefix, kinds) == {<<>>, <<prefix>>} \X kinds

\* The links a command is for (README.md, docs/downloaders.md, docs/torrents.md,
\* docs/cloud_and_drive.md), with the prefixes they may be given.
Mirrors(m) ==
  \/ m.cmd = "m"
  \/ m.cmd \in AllHosts /\ ~(m.cmd = "gofile" /\ \E l \in ToSet(m.links) \cup ToSet(Urls(m)) : l.kind = "gofile")
For(m) ==
  CASE Mirrors(m) -> Pre("direct:", {"file", "stream"}) \cup Plain({"page"})
    [] m.cmd = "dl" -> Pre("direct:", {"file", "stream"})
    [] m.cmd = "gdl" -> Plain({"page"})
    [] m.cmd = "cdl" -> Pre("cdl:", {"page"})
    [] m.cmd = "mega" -> Pre("mega:", {"mega"})
    [] m.cmd = "gd" -> Pre("gdrive:", {"drive"})
    [] m.cmd = "gfdl" \/ (m.cmd \in AllHosts /\ ~Mirrors(m)) -> Pre("gofile:", {"gofile"}) \cup {<<<<"bare">>, "gofile">>}
    [] m.cmd = "tor" -> Plain({"magnet", "torrent"})
    [] m.cmd = "aria" -> Plain({"magnet", "torrent", "file"})
    [] m.cmd = "unzip" -> Pre("direct:", {"file", "stream"}) \cup Pre("mega:", {"mega"}) \cup Pre("gdrive:", {"drive"})
                          \cup Pre("gofile:", {"gofile"}) \cup Plain({"page"})
    [] OTHER -> {}

\* The source the command names, or the one the link is of.
SourceOf(m, kind) ==
  CASE Mirrors(m) -> "mirror"
    [] m.cmd = "dl" -> "direct"
    [] m.cmd = "gdl" -> "gallery-dl"
    [] m.cmd = "cdl" -> "cyberdrop-dl"
    [] m.cmd \in {"tor", "aria"} -> "aria2"
    [] OTHER -> (CASE kind = "drive" -> "google-drive" [] kind \in {"mega", "gofile"} -> kind
                  [] kind \in {"file", "stream"} -> "direct" [] kind = "page" -> "gallery-dl")

\* "/gofile" without a GoFile link, but with a word that it takes for the identifier of one.
Mistaken(m) == m.cmd = "gofile" /\ m.word /\ Mirrors(m)

\* The links of the message, if it has some, all of one kind and all for its command; an
\* identifier alone is looked for only where there is no link, and should be the only word.
Given(m) == IF m.links # <<>> THEN m.links ELSE IF m.cmd = "tor" THEN Only(m.replied, LAMBDA l : l.kind = "magnet") ELSE m.replied
Suits(m) ==
  /\ Given(m) # <<>> /\ m.file = "none" /\ ~m.valueless
  /\ \A l \in ToSet(Given(m)) : <<l.pre, l.kind>> \in For(m) /\ l.kind = Given(m)[1].kind
  /\ \/ \A l \in ToSet(Given(m)) : IsURLToken(l)
     \/ (m.links # <<>> /\ Urls(m) = <<>> /\ ~m.word /\ \A l \in ToSet(m.links) : ~IsURLToken(l))
  /\ ~(m.cmd \in AllHosts /\ m.to # {}) /\ ~Mistaken(m)

\* Links that suit a command make a job, which the source of that command runs, and it
\* finds every one of them under the prefixes the layers before it have put on; where
\* cyberdrop-dl and aria2 take one link, it is the first.  Excepted: "/gofile" with a word
\* of 4 to 40 letters, were it only a password, which downloads instead of mirroring; and a
\* flag that has taken a link for its value.  (register, the handlers of cmd_download.go,
\* pickSource and every Match and Fetch of sources.go)
ServedAsAsked ==
  \A r \in Requests : LET q == reqs[r]  m == q.m
    IN q.pc \in Phases \ {"new", "key", "keyput", "file", "fileput", "queued"} /\ m.cmd \notin {"key", "file"} /\ Suits(m) =>
         /\ q.job # NoJob /\ q.source = SourceOf(m, Given(m)[1].kind)
         /\ \/ (q.source = "google-drive" /\ q.token = <<>>)
            \/ {l.n : l \in q.got} = IF q.source \in {"aria2", "cyberdrop-dl"} THEN {Given(m)[1].n}
                                     ELSE {l.n : l \in ToSet(Given(m))}

HostsWanted(m) ==
  IF Mirrors(m) THEN IF m.cmd = "m" THEN IF m.to # {} THEN m.to ELSE EnabledHosts ELSE {m.cmd}
  ELSE IF m.mirror /\ m.cmd \notin {"tor", "aria", "unzip"} THEN EnabledHosts ELSE {}

\* What is called a GoFile link is one, and nothing else is in front of one; other words
\* are not among the links.
Plainly(l) ==
  /\ l.kind # "word"
  /\ Starts(l, {"gofile:"}) => l.kind = "gofile"
  /\ l.kind = "gofile" => l.pre \in {<<>>, <<"bare">>, <<"gofile:">>}

\* Files go to the hosts that were asked for, each of which answers for itself, and to
\* Telegram if that was asked for or no host was, even if all hosts have failed.  Excepted:
\* what "/gofile" takes for a GoFile link, a link or any word, and is none.  (parseFlags,
\* cmdMirrorTo, the flags of all commands, selectedHosts, mirrorFile and processFile)
GoesWhereAsked ==
  \A r \in Requests : LET q == reqs[r]
    IN q.pc = "done" /\ q.got # {} /\ ~Mistaken(q.m) /\ (q.m.cmd = "gofile" => \A l \in ToSet(q.m.links) \cup ToSet(Urls(q.m)) : Plainly(l)) =>
         /\ DOMAIN q.host = HostsWanted(q.m)
         /\ ~q.stop => /\ (q.telegram <=> (HostsWanted(q.m) = {} \/ q.m.tg))
                       /\ \A h \in DOMAIN q.host : q.host[h] \in {"linked", "failed", "skipped"}

\* A job uses what its user has stored, or the owner's if the user has none, never another
\* user's: the owner's key of a host only while ALLOW_SHARED_UPLOAD_KEYS says so, the owner's
\* Drive account and cookies always.  Excepted: a job that wants Drive while all credentials
\* of its user are being written takes the owner's.  And under the name of a user is only
\* what that user has sent, whoever refreshes it.  No key is lost to another that the user
\* saves or deletes at the same time: all are in one file.  (enqueue's UserID, Resolve,
\* CookiesPath, Auth.Service, persistSource.Token, Keys.Save and Keys.Delete)
OwnAccounts ==
  /\ \A x \in uses : /\ x.owner \in {User(x.r), Shared, "none"}
                     /\ x.has => x.owner = User(x.r) \/ (x.what = "drive" /\ x.writing)
                     /\ x.what = "key" /\ x.owner = Shared => x.allowed
  /\ \A u \in Users, f \in Owned : files[u][f] > 0 => files[u][f] # OfOwner /\ User(files[u][f]) = u
  /\ lock = 0 => keys = given

\* Every message is answered, and every job ends, however often a host fails, provided that
\* downloads end, and that every attempt of an upload does or the job is cancelled: nothing
\* else ends an attempt.  (UploadWithRetry, mirrorFile)
RequestEnds ==
  \A r \in 1..MaxRequests :
    /\ WF_commandVars(r \in Requests /\ Fetching(r))
    /\ WF_commandVars(r \in Requests /\ Attempting(r)) \/ <>(r \in Requests /\ reqs[r].stop)
    => <>[](r \in Requests => reqs[r].pc = "done")

=============================================================================
