# Formal model of tgdl

tgdl is a Telegram bot that downloads from links, torrents and cloud services
and uploads the files to a chat or to web hosts. This directory holds TLA+
models of it, the TLC configurations that check them on small instances and
TLAPS proofs. `PROJECT.json` lists the components, the runs, the lines of source
each definition models, the hazards and the theorems.

    tlc -workers 4 -config MCPipeline.cfg MCPipeline.tla
    tlapm SemaphoreProofs.tla

## 1. The system

| component | state | operations | talks to |
|---|---|---|---|
| bot (`internal/bot`) | awaited input for a setting, cards that wait for a confirmation, batches and single renames by chat and user | updates, each handled by a goroutine of its own: commands, texts, files, buttons | creates jobs in the store, calls `Manager.Add` and `Manager.Cancel`, answers prompts of a job, edits settings, stores users' keys |
| job manager (`jobs/manager.go`, `state.go`) | `m.states`, the root context, four semaphores, one `State` per running job | `Start`, `Stop`, `Add`, `Cancel`, `run`, `finalize`, a ticker that cleans up | store, sources, pipeline |
| sources (`jobs/sources.go`) | none | the first of ten sources whose `Match` accepts the link fetches it; a batch rename is a source too | engines, direct download, aria2, cloud clients, Telegram |
| pipeline (`jobs/pipeline.go`, `tgupload.go`) | the keys uploaded, failed and split of a job; its directories | list ready files, split, extract, convert, mirror, upload, record | the files the download stage writes, store, Telegram, hosts, prompts |
| prompts (`jobs/sessions.go`) | choices, prompts and password waits of a job | ask, answer, time out | handlers resolve what the pipeline waits for |
| semaphores (`jobs/semaphore.go`) | limit, permits in use, queue | `Acquire`, `Release`, `Resize` | download, upload, mirror and heavy work; settings resize them |
| store (`internal/store`) | SQLite: jobs, uploaded files, names | one statement per call | everything |
| settings (`internal/settings`) | values, history, `settings.json`, `.env` | set, reset, undo, import | hooks into the semaphores, limiter and config |
| pacing (`internal/pacing`) | slots per second and per chat, flood waits | acquire, record, sweep | every Telegram call |
| engines (`internal/dl`) | subprocesses, the job's directory | a chain of engines per URL, direct download, playlists | called by sources |
| aria2 (`internal/torrent`) | one daemon, its port, secret and transfers by GID | start on demand, add, poll, remove | called by a source |
| cloud (`gdrive`, `mega`) and hosts (`internal/upload`) | credentials and keys of users in files | download, upload with retries | sources, mirrors, commands that store keys |
| scraper (`scraper/`) | cache, domain rotation, provider health | search RPC | the search command |

What is hard: a job is worked on by a goroutine for each stage, a status loop
and background mirrors, while handlers cancel it, answer its prompts and resize
the semaphores it waits for; contexts end for four reasons (cancel, fatal limit,
shutdown, failure) which `finalize` must tell apart; the process is killed or
restarted at any time and resumes from the store and from what lies in the
directories; the two stages share a directory that one fills and the other
empties; uploads may arrive without anyone learning it; one daemon serves all
torrents; updates that arrive together meet between critical sections; and a text
may be a value, a password, a name or names, depending on what is awaited.

What makes the parts correct:

- semaphore: permits are neither lost nor doubled; nobody waits while one is free;
- manager: every accepted job gets one outcome, across restarts; a cancellation
  that the job hears is not overruled; directories are removed in the end and never
  under a running job;
- pipeline and upload: a job that ends as done has delivered or reported every
  file; a file is sent again only if nobody could know that it arrived; the stage ends;
- sources: a request reaches the source that can read it, under the prefixes the
  layers in front have added; a URL is given up only when everybody was asked for it; a
  rename batch accounts for every file within its bound on the disk;
- aria2: success means complete files, and every download comes back;
- settings: what is shown, in memory and on disk agrees; undo restores;
- pacing: no more calls in a window than allowed, also after a flood wait;
- dialogs: each text and each click is taken once, for what it was meant;
- accounts: a job uses the credentials of its user, and no key is lost.

Section 6 lists where the code does not keep to that; the properties name these cases.

## 2. Modules

| module | models | instance |
|---|---|---|
| `PermitPool` | abstract: a pool of permits, clients that wait, hold or are idle | through `Semaphore!ImplementsPool` |
| `Semaphore`, `SemaphoreProofs` | `ResizableSemaphore` step by step | `MCSemaphore` |
| `JobService` | abstract: jobs have one outcome or are withdrawn, downloads keep to their slots | through `JobLifecycle!ImplementsService` |
| `JobLifecycle`, `JobLifecycleProofs` | `Manager` with the store, the directories and the handlers that enqueue and cancel | `MCJobLifecycle` |
| `Pipeline`, `PipelineProofs` | the upload stage of one job with its disk and store, over restarts | `MCPipeline` |
| `Settings`, `SettingsProofs` | the settings manager with its hooks, `settings.json`, `.env` and `config.Load`, over restarts | `MCSettings` |
| `Limiter`, `LimiterProofs` | `TelegramLimiter` with its sweeper | `MCLimiter` |
| `Uploads`, `PipelineProofs` | one upload of a group: albums, attempts, floods, fallbacks | `MCUploads` |
| `Aria2`, `Aria2Proofs` | the daemon, the downloads that share it and their cancellation | `MCAria2` |
| `RenameJob`, `RenameProofs` | `renameSource.Fetch` beside the upload stage, over kills | `MCRenameJob` |
| `Fetch`, `FetchProofs` | the chain of engines, the direct download and playlists beside the upload stage | `MCFetch` |
| `Dialogs`, `RenameProofs` | what the bot makes of texts, files and buttons | `MCDialogs` |
| `Commands`, `SettingsProofs` | from a message to its job, source, hosts and credentials | `MCCommands` |

They compose by contract. `JobLifecycle` uses the download semaphore as the pool
that `Semaphore` is shown to implement (its strong fairness is
`EveryWaiterServed`). `JobLifecycle` lets the stages end in any way that `Pipeline`,
`Fetch`, `RenameJob` and `Aria2` allow; `Pipeline` takes from `JobLifecycle` that a
stopped job has its directories removed by `finalize` and is started again, and from
the sources any set of files in any order. The `Send` of `Pipeline` is a run of
`Uploads`, whose calls the `Limiter` lets through. `Commands` ends where `Fetch`
begins: what a source gets is what it has to fetch. `Settings` ends in its hooks;
what a resize does to those who wait is the business of `Semaphore`. `Dialogs`
decides which text becomes a value, and `Settings` what the value does.

### Semaphore

`limit`, `cur`, `waiters` are the fields of the struct; `ready` and `need` the
channel and the weight of each waiter; the mutex has a holder of its own, since
`notifyWaitersLocked` closes channels one after the other while it is held. An
action is one critical section or one branch of the `select` in `Acquire`.
`CancelGranted` is the branch in which both the context and the grant are there
and the permit is given back.

### JobLifecycle

`status` is the column of the store, `dir` the directories, `mem` the part of
`State` the manager steers by, `pc` where `run(id)` is. Each action is what a
goroutine does between two points where another can see or change something it
uses; the names follow `run`, `downloadStage` and `finalize`. `Verdict` is the
`switch` of `finalize`, in its order. The ticker reads the store, then the
directories, then `m.states`, then removes: four actions, since each answer may
be old when it is used. `Stop` ends every context; `Exit` forgets everything but
`status` and `dir`, at any moment: a kill, the 15 seconds of `Manager.Stop`, and
`/restart`, which calls `os.Exit` three seconds after its SIGTERM. A cancellation
that finds no `State` writes only the row; the service calls that `Withdraw`.

History variables: `heard` (a cancellation arrived when the job could hear it; "lost" if
the process ended before its outcome was stored, since the flag is only in memory), `told`
(the user was told) and `willResume` (finalize logged it).

Abstracted: what sources fetch and what is uploaded (any result is possible),
the status card, mirrors (a background activity that ends or not), errors of the
store, `Reset` of a job.

### Pipeline

A file is the pair of its origin and its name, and the name is its key in the
store. `disk` is `st.Dest`, `extracted` is `st.Extract`, `marked` the table of
uploaded files; `up` holds the place of the upload stage and its local
variables; `uploaded`, `failed`, `splitParts`, `choice`, `tried` and `fatal` are
the fields of `State` and `sessions`, lost with the process. `ReadDone` and
`List` are two actions, because the stage reads `done` before it lists. An
upload is three steps, `Send`, `RemoveSent` and `Record`, and the end of an archive two,
`RemoveArchive` and `Consume`: the process may die between the file and the store.
`doubt` counts uploads that arrived without being recorded, `wiped` names the sources whose
pieces were removed with the directories after the store had taken the source for
uploaded, the one loss `DeliveredOrWiped` admits. `scene` is the job: the files
its source yields, whether it is an unzip job, and how often its process may
still end; the instance starts in one of several.

Abstracted: the bytes of a file, the seconds a file must be unchanged (any
subset may be ready while the download runs), conversion, renaming, mirrors,
password prompts, volumes of split archives, an extracted file above the limit.

### Settings

`disk` and `dotenv` are the two files, `environ`, `values`, `history` and `live` what
the process has of them: its environment, `m.data` and the fields of
`config.Config`. A method of the manager holds `m.mu`, so it is one action up to
its save; `SyncEnv`, the last thing that `Set` and `Reset` do, is another, since the
process may die between the two files. `Save` may fail and leaves the memory
changed; a hook may fail (`HookError`), and one that calls the aria2 daemon
(`Remote`) has changed the config by then. An import is shown, confirmed and
applied key by key. `Start` is `config.Load` and `NewManager`: the hooks are
registered afterwards, so the overrides are not applied.

A value is what its text means: `Invalid` names what `Validate` and the hooks refuse,
`IdList` the people a list of users names, in their order. `owner` is the `OwnerID` of the
running process: `OWNER_ID` (`ExplicitOwner`), or the first of the list that
`config.Load` finds in the environment of the container or else in `.env` (`OwnerOf`,
`Environment`), which `SyncEnv` rewrites. `Set` asks only that the owner is in a list.

History variables: `said` (how the latest call ended), `applied` (keys whose shown
value went to its hook since the start), `trusted` (whom `.env` may make the owner: the
first owner, whomever an owner put in front of himself in a list, and nobody once an
owner has had the list taken out of `.env`), `lost` (an undo met a reset-all or
took an explicit "" for no value, or was made while a record of another environment
was in the history, after which `UndoRestores` promises nothing), and in
the records what was shown and set at the time.

Abstracted: encryption of secrets, the backup file, a file that cannot be
read at the start, `[REDACTED]`, read-only settings.

### Limiter

Times are relative to now; `Tick` moves all of them. `state` holds the objects made
for a chat and `current` the one `l.chats` points to: a caller keeps its pointer
(`ref`) while the sweeper removes the object from the map. A caller passes
`slot` (the gap of the whole bot), `chat` (flood wait, gap and window, looked at
again after each sleep, which may be too long) and, when it uploads, `upload` and
`spacing`. `granted`, `spaced` and `penalty` remember what the chat was promised,
`forgotten` the chats whose object was dropped while it mattered.

### Uploads

`size` and the kind of each file are given; `Plan` is `PlanAlbumBatches`, which goes on
behind each album at the first file that no longer fits (`Ahead`, the inner loop); its
result is compared with every way to cut the group. Then `NextPart`, `NextFile`, `Call`
and the answers of the client, which hands on a broken connection as it is: `doubtful`
are the files on their way then.

### Aria2

`daemon` and `transfer` are the processes and what each makes of its GIDs;
`current`, `stopped` are the fields of `Aria2`, `mine` the process a caller has
started. `Start` returns early, spawns or waits as the code does under its mutex
and outside it, so two callers may both spawn. `Poll` is one turn of the ticker,
with its branches in their order; `Killer` the goroutine that removes the transfer
when the context ends. The first transfer of a download may only name others: one for a
magnet and the URL of a `.torrent`, any number (`Parts`) for the URL of a metalink; the poll
follows the first of them. In a swarm (`Swarm`) a transfer is "active" without a
peer or a byte, "peered" with an idle peer, or "fed"; only the first of these is given
up after five minutes, and only of a download known to be a torrent (`Bt`).

### RenameJob and Fetch

Both model a download stage and the upload stage that empties its directory, at the points
where one looks at what the other leaves. In `RenameJob` `dir` says whose content is under
each name and whether it is whole, since the client writes to the final path. `OldName`
and `NewName` may coincide in any way; a file is then created, renamed, removed or passed
as uploaded in the place of another. In `Fetch` `source` is the source that took the job,
`Good` and `Verdict` are what a run is judged by, and `asked` is who was asked for each
URL. A playlist is joined segment by segment; a segment that breaks off is cut (`ts`)
before the next attempt. `Transfer` is what waits for a server or ffmpeg, `EngineEnds` the
end of a run: no deadline forces either; `Items` and `Run` need nobody.

### Dialogs

`hs` are the goroutines that handle updates, each at a step between two critical
sections; `Message` begins with the order of `Dispatch`, and the steps of a text
(`input`, `media`, `password`, `single`, `names`) are the handlers it is offered to.
`batches` are objects a handler keeps after the map has forgotten them. The buttons of a
key that set it at once (toggle, choice, default) are `ButtonSets`; a typed value of a
dangerous key waits for its card (`ConfirmButton`, `RefuseButton`). `wait` is
the password wait of `extract`. `scene` says which updates come together, which
is a bound on the instance.

### Commands

`reqs` are the messages, present from the start, and how far each is: `Handle` is
the whole handler of a download command up to `enqueue`; `Download` runs
`pickSource` and the reader of the links (`Fetched`); the files are mirrored host by
host (`Attempt`) and sent. A link is the list of its prefixes and the kind of thing
it names, so that a layer which adds or strips one prefix too many shows. `word` is
another word of the message that could be a GoFile identifier, the value of a flag
included, and `valueless` a flag that swallows the link behind it. `AllowShared` and
`UseServiceAccts` say which values the two switches may have at each use. `keys` and
`files` are what lies under `auth/`, `lock` the mutex of `Keys`.

## 3. Runs

| run | instance | shows |
|---|---|---|
| `semaphore` | 3 callers, weights 0 and 1 (as all callers ask), limits up to 2, resizes, cancellations, fair | exact permits, no lost wakeup, every waiter served, refinement of `PermitPool` |
| `job` | 2 jobs created by concurrent updates, 1 slot, 1 stop or kill, fair | stored or leftover work has its goroutine, refinement of `JobService`, every job gets an outcome if transfers end |
| `job_reclaim` | 1 job with mirrors, a cancellation, the ticker, 1 restart, fair | a cancellation heard is not overruled, no directory in use removed, every other removed in the end, the outcome |
| `pipe` | a plain file, a split one and an archive in one process; the first two, or the archive in a prompt or in an unzip job, with 1 stop and 1 kill; fair | everything delivered, reported or known to be wiped, sent again only in doubt, the job ends if its source does |
| `settings` | lists "1", "2,1" and "" of users in `.env`, which is rewritten, and a limit with a remote hook from the container, an import, failing saves and hooks, 1 restart | what is used is what is shown, what is confirmed is saved, no owner but by an owner's list, undo restores |
| `limiter` | the uploads of a job and the replies of the bot in one chat, 2 calls each, 2 flood waits, 2 objects for the chat | gap and window, floods kept, uploads spaced |
| `uploads` | 4 files of four kinds and any sizes, albums of 3 files and 3 units, 2 attempts, 1 flood, fair | the plan is the best one, what is reported has come and once unless in doubt, the group ends |
| `aria2` | a magnet and the URL of a `.torrent`, one place in the daemon, 2 daemons, 1 crash, fair | OK only of complete files, the end of the context is heard, every download comes back but in two named cases |
| `rename_job` | a batch of 3 files, two of one name in Telegram, one as large as the disk, 1 kill, fair | the disk bound, every file with names of its own accounted for, nothing sent twice in a process, the batch ends |
| `fetch` | 2 URLs, one a playlist of 2 segments, 3 sources, 1 retry, fair | every URL asked but in two named cases, segments whole and in order, nothing sent again, the stage ends if transfers and engines do |
| `dialogs` | 4 updates, 2 handled at a time, private chat and group, batches of 2, 1 running job, fair | renames what was sent, each text taken once, sessions and waits bounded, nothing awaited for ever |
| `commands` | every command with every link, reply and another word; flags and hosts; 3 requests of two users about keys and files, both switches either way; fair | served as asked, sent where asked, with the accounts of the user, every request ends if transfers do |

Bounds, and why they are enough:

- Jobs: two jobs and one slot are the smallest instance in which a job waits for
  another; a third adds only a longer queue, which `semaphore` checks with three
  callers. One restart shows every crash point of a job and of its recovery up to
  the next one; the stop and the kill of `pipe` add a crash during recovery.
- Files: two pieces make a group and a loss in its middle; four files of an album of
  three cover a full album, its rest and a file left over.
- Settings: a limit is good, refused or empty; a list of two people has the owner alone,
  first, last or not at all, which is all that the checks and the next start tell apart;
  the limits of 30 edits and 50 records become 1 so that they are met, and two records are
  needed to undo behind a reset of all.
- Limiter: the window of 3 with 2 calls is the smallest that can be full while the
  gap is over; a penalty of 3 outlives a window and one of 1 does not; two objects
  are one that a caller still holds and one made after the sweep.
- aria2: one place is `MaxActive` at its tightest; two daemons are what a double start
  needs. A metalink of several files is left to the proof.
- Renames: two files of one name show all that a shared name does (a third file follows
  them); names that shift are the same race between other actions, and left to the proof.
- Dialogs: `Scenes` names which kinds of updates meet, since all kinds with all kinds
  are too many; each scene holds those that share state. Two handlers at a time are
  the interleavings of any two critical sections.
- Commands: a request for links or flags shares no state with another, so one at a
  time out of all messages is enough; keys and files are shared, and three requests
  are two writers and a job that reads.

`MaxRestarts`, `MaxKills`, `MaxCrashes`, `MaxFloods` and `MaxUpdates` bound only how
often the environment acts. The runs say `CHECK_DEADLOCK FALSE` where the system may
stop: a finished job, an idle bot, callers that have made all their calls. In
`commands` the end is a step of its own (`Done`).

The weight 0 takes the early returns of `Acquire` and `Release`. Weights above 1 are
legal for the type and asked by nobody; with them a waiter that gives up can leave
a free permit unused behind it, which is why the theorems that need it say so.

Fairness. Goroutines run (weak fairness of their steps). `AdmitDownload` is strongly
fair, since the semaphore serves its queue in order (`EveryWaiterServed`), and so are
the steps of `Semaphore` that wait for `sync.Mutex`, which starves nobody. Prompts and
waits for passwords, cards and sessions end by their timeouts. The container restarts the
process (`restart: unless-stopped` in docker-compose.yml).

No transfer is assumed to end: an engine runs without a timeout (subproc.go:260-330), the
HTTP clients have `Timeout: 0` and the bodies no deadline (direct.go:112-116, 371-392;
hls.go:348-372; hosts.go:185; mega.go:180), and a rename waits for the upload stage
without end (sources.go:200-213). It ends when its context is done, which is assumed to
abort the request or kill the engine. What needs the end of transfers says so:
`JobsSettle` and `JobEnds` promise an outcome unless a job transfers for ever and nobody
cancels it, `FetchEnds` and `RequestEnds` if transfers, engines and attempts end or the
job is cancelled, `BatchEnds` if every file fits, `ComesBack` but for a torrent that no rule
ends. Assumed, not given by a timeout of the code: that a single call of Telegram returns
(`Uploads`, `RenameJob`, `Pipeline`, `Commands`), a file of a batch included, that 7z and
ffmpeg end, and that aria2 ends what it fetches from servers, by its own timeouts. Nothing
is assumed of users, signals, crashes, torrents or the end of mirrors.

## 4. Proofs

`SemaphoreProofs` proves for any set of clients, any weights and limits
`TypeCorrect`, and, when no call asks for more than one permit (`UnitWeights`, true of
every caller in the repository):

- `PermitsAreConserved`: the permits counted in `cur` are those of the admitted
  clients and of the waiters whose channel is closed;
- `WakeupsAreNotLost`: while nobody holds the mutex, a queue means a full semaphore;
- `AdmissionsAreWithinLimit`: a client is let in only while the permits in use
  are below the limit of that moment, whatever the limit was before;
- `SemaphoreImplementsPool`: every step is a step of `PermitPool` or a stutter.

They rest on the inductive invariant `UnitInv`: the queue has no duplicates and
holds exactly the clients that wait without a grant, the count of permits is the
cardinality of the set of holders, and the semaphore is full whenever the queue is
not empty and `notifyWaitersLocked` is not running. The wakeup property alone is not
inductive: it needs the queue to match the places of the clients, so that a
waiter that gives up leaves it, and the exact count, so that "full" means that
somebody will release.

`JobLifecycleProofs` proves for any finite set of jobs, any limit of downloads and
any number of restarts, with cancellations, mirrors and the ticker:

- `TypeCorrect`. `TypeOK` alone is not inductive: `Persist` copies `final` into the
  column of statuses, so it needs `Decided`, that a job which is about to persist
  has decided on a status that may be stored;
- `WorkHasGoroutines`: an unfinished job of a running process has its goroutine, and a
  directory belongs to a job that still runs or will resume;
- `CancellationsAreHonoured`: a job whose row was cancelled before it was loaded stays
  cancelled; one that heard the flag does not end as done and is not resumed, unless its
  process ended before the outcome was stored (`lost`);
- `CleanupIsSafe`: the ticker never removes the directory of a job that runs, but for
  one whose user was told that it is cancelled;
- `ManagerImplementsService`: each step is a step of `JobService` or a stutter.

They rest on `JobInv`: a row exists wherever the process knows the job (`Known`), no
goroutine outlives the process, and a flag it has heard is lost or stored (`DownIsEmpty`),
a job past `Persist` has a final row or was interrupted (`EndsWithOutcome`) and before it
has none (`UnfinishedHasNoOutcome`), so that the verdict (`RowIsFinal`) and the
cancellation flag (`FlagIsFinal`) are not undone by a later step, and a directory has an
owner (`DirsHaveOwners`). `CleanerInv` adds what the ticker may still believe between its
four steps: a directory it does not keep is of a job that has registered its State or is
gone for good, since a directory found before its State comes from an earlier process,
whose row the ticker keeps (`DirBeforeState`).

`PipelineProofs` proves for any files of the three kinds, any jobs and any numbers of
stops and kills:

- `TypeCorrect`. It needs `Placed`: the file in turn is one, and of the kind its place is
  for, which no type says;
- `SentAgainOnlyWhenInDoubt`. Its invariant `OnceInv` says where a file that has arrived
  is known from: recorded in the store or in the hands of the stage (`Accounted`);
  that the memory of the stage is that of the store once it has been read
  (`Remembered`); that the file in turn, and the archive kept for later, are not
  recorded (`CurUnsent`); and that the members of a group have names of their own
  (`GroupUnsent`), without which recording one would make another seem recorded;
- `NothingIsLost`: `DeliveredOrWiped`, if no two files are turned into pieces of the same
  name (`NamesApart`: the store knows a piece by its name alone, so that of two
  archives with a common name one loses its file). Its invariant `LostInv` follows a source
  from the download to the end: fetched and not recorded it is on disk or being
  split (`InHand`); recorded without having been sent, each of its pieces has come or
  is still there (`Kept`), in this process in the hands of the stage if it was extracted,
  since nothing looks into that directory (`Handled`, `InPlace`); a piece is recorded
  only if it was sent (`PiecesSent`); and the stage ends on a list read after the download
  was over (`SawDone`).

And about `Uploads`, for any group of files and any sizes, limits and numbers of attempts
and floods, `SentInOrder` (`SentOnceBeforeReported`). Its invariant `GroupInv` says that
there are two places in the group, `n` and `m`: the files up to `n` are reported, those
before `m` are the part in turn, and the plan cuts up the rest (`Reached`). How often a
file has come depends on its side of them (`Counted`): before `n` once, or more if in
doubt; the first of a part that is sent alone once for the album and once for each
attempt that broke off; not at all from `m` on, nor while the album may still succeed as
a whole. That `PlanAlbumBatches` cuts up the whole group in order (`Follows`) needs its
recursion to be a function at all (`RestExists`), which follows from the least
number of files for which there was none, without induction.

And `PlansAreBest` (`PlanIsBest`): no album of the plan is over its limits, and no other
way to split the group needs fewer messages. Sizes are not negative, so the sums grow
(`SumsGrow`), and what fits into an album fits when it begins later or ends earlier
(`ShorterAlbum`). `Ahead` stops where nothing more fits (`PartIsFull`), so any other split
begins a message behind the first file of each part but the last and no later than the
next part does (`SplitBetween`): it has as many messages at least (`PlanIsShortest`).

`SettingsProofs` proves for any settings, values, documents, hooks, limits and
number of restarts:

- `TypeCorrect`, with the shape of records (a record of a setting has an old value)
  that `Undo` relies on;
- `ConfirmedIsSaved`: a change that was confirmed is in `settings.json`;
- `ShownIsUsed`: a setting that went to its hook has in the config the value that
  is shown. Both need `Quiet`, that a process which is not up has said and
  applied nothing, since `Start` changes the memory without a call;
- `OwnerIsKept` (`OwnerKept`), for any lists, environment and rewriting of `.env`: whom the
  next start makes the owner is the first owner or was put in front by an owner, and the
  list it reads has the present owner or is empty. Both are about one line of the
  environment, which only `SyncEnv` changes (`OwnerInv`); what it is about to write
  was accepted for this owner (`Vetted`), also when an undo or an import set it;
- `UndosRestore`: changes can be undone one by one, over restarts and failing saves,
  and each undo brings back what was shown before its change. `UndoInv` chains the
  records in memory and on disk: each differs from what follows it in one setting,
  as seen in its environment (`Linked`, `Ended`). A value that `Validate` refuses is
  in no record and no override unless it came from the environment (`AllExplained`,
  `Borrowed`, `Standing`), since the next start drops refused overrides.

About `Commands`, for any users, messages, links, hosts and values of the switches, there
are three.

`AccountsAreKept` (`OwnAccounts`): `AccountInv` says that what lies under the name of a
user was sent by that user (`Stored`); that a job which may still write a token has read
it under the name it writes it to, so that a refresh of the owner's token cannot come to
lie with a user (`Tokens`); that the file of keys holds what was saved and deleted one
after the other, and what `Save` has read under the lock is still there when it writes
(`KeysSafe`); and that each use was fair when it happened (`Owners`), which files sent
later do not change: the user's own, or the owner's where the user has none (a key only
while sharing is allowed), and for Drive also where all of the user's credentials were
being written.

`FilesGoWhereAsked` (`GoesWhereAsked`): whatever the links of a message, its files end at
the hosts it asked for and, if asked for or no host was, in Telegram; but for what
`/gofile` takes for a GoFile link and is none (`Mistaken`, `Plainly`). `HandlerFits` shows
of each handler that the job it makes has the flags and hosts of its message (`JobFits`);
the invariant `WayInv` says of each request what its files can have met by the place it is
at (`Way`): the job is the handler's, an upload has opened exactly the hosts of that job,
`unasked` only after a cancel, and Telegram only past them. `Understood` is the guard of
that exception, and matters for `/gofile` alone.

`LinksAreServed` (`ServedAsAsked`): for lists of links of any length, links that suit the
command of a message (`Suits`, which leaves `Mistaken` and a flag without its value out)
make a job, `pickSource` finds the source of that command, and that source finds all of
them (the first, for aria2 and cyberdrop-dl, which take one; and Drive is not read without
an account). The lists are filtered by a function on their length, of which `AmongFacts`
says what it keeps (its values exist and are such by the least index for which they would
not be, without induction; a `SelectSeq` would be opaque to the provers). `Ready` is the
form in which a source can read what a command hands on: each link as it was given or with
the prefix of the source once in front; `ReadyAsGiven` and `ReadyPrefixed` show of the two
ways in which handlers pass links on that they have it, and a `...Gets` lemma of each kind
of source that it is picked before the other nine and finds them (`Gets`). One lemma per
command puts these together (`DirectSuits`, ..., `HandlerSuits`). The invariant
`CourseInv` carries this to the end of the job: the job is the handler's, and source and
files are those of the job, whatever its uploads, its account or the requests beside it
do. The proof found two places where the promise said more than the code does: `/gofile`
of anything but a GoFile link is for links to mirror (two cases of `For` overlapped), and
an identifier without "https://" is looked for only where neither the message nor the one
it replies to has a link.

`LimiterProofs` proves for any callers, chats, gaps, windows and flood waits:

- `FloodWaitKept`: `FloodKept`;
- `UploadsKeepTheirDistance`: `UploadsSpaced`, if `Stale >= UploadGap` (a day against four
  seconds in `pacing.go:73-74`): a state that is swept must not be that of an upload that
  still counts.

- `CallsKeepTheirPace`: `CallsPaced`, if the gap is positive and `Stale` is at least the
  gap and the window (`pacing.go:73-78`: 3 s, a day, 60 s). A call of exactly a window ago
  is kept but holds nobody back, so a history may hold one call more than `MaxCalls`;
  with a gap it is never more than one.

The invariant `LimiterInv` says that a caller which sleeps points to the state in the
map (`Held`) and that this state remembers as much as the history does
(`Remembers`), both for chats the sweeper has not taken from under a caller.
`PaceInv` adds what the state knows of the calls let in (`Followed`): none is younger than
`touched` unless it is old, the last is no younger than `lastCall`, and the trimmed
`history` is the end of `granted`, of which only what has left the window is missing. The
code trims a prefix (`pacing.go:181-188`), so the model says how long that prefix is
(`Expired`): that there is such a length follows from the least number not in the
window, and that all behind it is young from `history` being in order (`AllGood`).

`Aria2Proofs` proves `CompleteWhenOk` (`OkIsComplete`) for any downloads, numbers of transfers
that one names, daemons, crashes and places; of a metalink that names several it says only that
the first is had. A download reads `complete` from a daemon, so `AriaInv` says what that means
there: the file is had, or the transfer only names files (`CompleteIsGot`),
after which the poll goes on with the first of these. The places need that the set of
active transfers is finite and grows in `Activate` alone.

`RenameProofs` proves `BatchStreams` (`DiskBound`) for any batch, names, cap and number
of kills. The bound is not inductive: `Two` says that while a file is fetched there is one
other at most, whichever name it has, since a fetch starts only when nothing is
pending, so that its rename cannot make a third; `One` says the same of a process that
was not killed, where that other one is in upload.

`NothingForgotten` (`AccountedOnce`) is for any names, old and new, and promises nothing
of a file that shares a name with another (`Apart`). It needs `AccountInv`: under a name
lies, and was delivered, only content of a file that has this name before or after its
renaming (`Sound`), so that nothing can replace a file whose names are its own; the one
that is fetched lies under its old name or was removed (`InHand`); what is in the table
reached the chat (`Recorded`); each file the download stage is through with is settled,
shares a name, or lies whole under one of its names (`Accounted`), across kills, since a
restart goes through the batch again; and, until the first kill, a name that was sent is
in the table or about to be (`Once`), whoever shares it.

The same module proves what `Dialogs` promises, for any users, chats, settings, updates
and handlers at a time. A handler reads and writes in several critical sections, so each
invariant is about what it still holds between two of them.

- `RenamesStayInPlace` (`RenamesWhatWasSent`): a place has a batch of its own
  (`OwnSessions`); a handler sent to a batch knows it as that of its place
  even when the map has forgotten it (`AllCarry`); and a batch takes only files of the
  place it is the session of, so that it grows within what a handler knows (`Grown`).
  The names a handler has counted have a file each (`Fits`), which files that
  arrive meanwhile cannot undo.
- `LimitHolds` (`JobsBounded`): a handler between the count and the creation has a job
  coming, so these are counted with the active jobs (`RoomLeft`). One handler at least
  is outside when another counts, which is the one the bound leaves out.
- `TextsHaveOneMeaning` (`TakenOnce`): the number of an update is held by one handler
  (`Numbered`), and becomes the token of a card. A token is on one card, or with the
  handler of its `Confirm`, or spent, and no update in progress has its number
  (`TokensApart`); the buttons that set a key at once have none. `OneUse`: a handler that
  has not yet given its text a meaning has another text than the one used last.

`FetchProofs` proves `PlaylistsAreWhole` (`WholeAndOnce`) for any segments, attempts and
retries. `Streamed` ties the length of the output to the segment in turn and to whether an
attempt broke off, so that cutting back to the segment loses nothing whole.
`NobodyLeftOut` (`EveryUrlAsked`) needs `AskInv`: URLs before the one in turn are through,
and the one in turn has been asked of the engines before its place in the chain (`Seen`),
where that place is the first again for every URL and every retry (`Turn`); `Left` is what
remains true of them when the source has returned. Its exceptions are those of the
property: a URL passed over for the file of another, and the URLs left over when the
direct download got one (`DirectOnly`).

Only model-checked: liveness (`EveryWaiterServed`, `JobsSettle`, `JobEnds`, `GroupEnds`,
`CancelReturns`, `ComesBack`, `BatchEnds`, `FetchEnds`, `DialogsEnd`, `RequestEnds`), which
is out of the prover's reach under fairness. Every other property of a run is stated
by a theorem, with the assumptions named above.

## 5. Mutants

Each property of a passing run is checked against a wrong version of one
operation, kept in its module and marked as wrong: a dropped
notification, a swapped order of cases, a stale answer used, a record left out. The
run must reject it.

## 6. What the code does otherwise than documented or expected

Met while modelling. The properties are stated so that they hold of the code; each of
these is an exception one of them names, or lies in what a model abstracts.

Jobs and files:

- A cancellation confirmed to the user is lost when the process is killed, or runs out of
  its 15 seconds, before `finalize` has stored the outcome: the flag is only in memory,
  and the job is resumed (`CancelHonoured`).
- A job stopped while it waits for its mirrors is logged as one that "will resume on
  restart" (manager.go:806) but has the status `mirroring`, which no restart looks
  for (store.go:343; `JobsSettle`).
- A cancellation between the load and the registration of a job changes only its row;
  the job runs although the user was told that it is cancelled (cmd_misc.go:97).
- A server that stops in the middle of a body, or an engine that hangs, holds its job and its
  download slot until somebody cancels it (`JobsSettle`, `JobEnds`, `FetchEnds`, `RequestEnds`).
- An archive, or a file that is split, is recorded as uploaded before its pieces are
  sent; a graceful stop removes the pieces and the resumed job ends as done without
  them (pipeline.go:300, 451; `DeliveredOrWiped`).
- Two updates pass the check of `MAX_JOBS_PER_CHAT` together (app.go:694; `JobsBounded`).
- A file whose name an earlier archive of the job used is dropped: both have one key.
- A later volume of a split archive whose first one is missing is listed again and again.
- `tg.ErrAmbiguousUpload` is returned by nobody (mtproto.go:724-727): after a broken
  connection the file is sent again, although the branch that logs "not retrying to
  avoid duplicates" (tgupload.go:154) exists for it.

Batch renames (`AccountedOnce`, `BatchEnds`):

- There is no stability wait (pipeline.go:104) and the client writes to the final
  path, so a file may be sent half written under its old name, where
  docs/rename.md:3 promises the typed one; so does a kill in the middle of a download.
- Files that share a name may be lost: when names shift (E01 to E02, E02 to E03) or two
  files have one name in Telegram, a download truncates the file that is in upload
  (mtproto.go:818-819), `afterUpload` then removes the new one (pipeline.go:188-191), and
  after a kill the second file of a name passes as uploaded (sources.go:174). The same file
  twice shares an entry of the plan; of two equal new names the second file is lost.
- A file larger than `MAX_TOTAL_DOWNLOADS_BYTES` waits until it is cancelled,
  where docs/configuration.md:65 says that the job is aborted.

Sources:

- When the direct download gets one of several URLs, the engines are not asked for those
  it could not get (direct.go:239, sources.go:316-319, 376-381; `EveryUrlAsked`).
- An engine is judged by what it left in the directory, which the upload stage empties:
  a good run may look failed, its files are fetched again and not sent; and a `.part` left by
  another may look good. A URL is skipped when a file of the name it would have is there
  from another URL.
- Two downloads may both start aria2; the second overwrites the port and the secret of
  the first, whose download then asks for a GID nobody knows until it is cancelled
  (`ComesBack`).
- A torrent that has got a byte or has an idle peer is polled for ever (aria2.go:485-486),
  and so is one named by the URL of a `.torrent`, to which the five-minute rule does not
  apply; it keeps its place. A torrent that waits in the queue is declared dead after five
  minutes though it was never tried (aria2.go:480-489).
- Of the files a metalink URL names, only the first is waited for (aria2.go:463-468): the
  download is OK when that one is complete (`OkIsComplete`).
- A magnet cancelled between the end of its metadata and the next poll goes on in the
  daemon (aria2.go:354-363, 463-468; README.md:34-35 says cancel kills aria2 GIDs).
- Metalink answers are never read.

Commands:

- `/gofile` takes any word of 4 to 40 letters and digits for the identifier of a folder,
  the value of a flag included (cmd_download.go:107-114, gofile.go:74-77): `/gofile -uz -p
  secret123 <url>` downloads the URL through the GoFile source instead of mirroring it, and
  in reply to a file `/gofile word` makes a job for the folder "word". `/gfdl <id> -p secret`
  asks for the password as one more folder (`ServedAsAsked`, `GoesWhereAsked`).
- `/mega` takes a link without `https://` that the parser refuses later.
- `/m` with a Drive or MEGA link fails, since the prefix `mirror:` stays; so does `/gfdl` or
  `/mega` with a Drive link, and `/m` in reply to a `.torrent`.
- `/cdl`, `/tor` and `/aria` fetch only the first link (cmd_download.go:180), though
  docs/downloaders.md:111 says `<url…>`. `-to` counts for `/m` only
  (docs/downloaders.md:97-105). A flag that takes a value swallows the link behind it.
- `/unzip` needs `-p` for the password (docs/archives.md:13-15 give it without), its `split` and
  `multi` are absent, as is `/mega -login` (docs/cloud_and_drive.md:43-59).
- The owner's Drive account and cookies serve every user who has none, with no switch for
  it; `ALLOW_SHARED_UPLOAD_KEYS` is about keys of hosts alone. A Drive job takes the owner's
  account also while the credentials of its user are being written, since they cannot be
  read then (gdrive.go:176-195; `OwnAccounts`).
- The OAuth client in a user's `credentials.json` is saved and never read. A job that
  refreshes a Drive token overwrites one the user has stored meanwhile.

Settings and dialogs:

- Overrides take precedence over the environment (docs/settings.md:18), but after a restart
  they are only shown: the hooks come after `NewManager` (manager.go:115, main.go:98-102).
- Without `OWNER_ID` the first of a list is the owner at the next start: an owner who sets
  "2,1" hands the bot to 2 (manager.go:170-173, config.go:211; `OwnerKept`).
- `/unset AUTHORIZED_USER_IDS` looks for the owner in the environment of the process and
  then comments the line out in `.env`: the next start has no owner.
- A dangerous change asks for a confirmation (docs/settings.md:73), but the buttons of
  booleans, also of the group Security, set theirs at once (bot/settings.go:569-576,
  820-832; `TakenOnce`).
- Two texts sent together while one value is awaited are both taken for it.
- `/cancel` while a value is awaited runs the command of that name, and the value stays
  awaited (settings.go:551 says "Type /cancel to abort").
- A password sent before its wait is registered, or a second one, is taken for a text: a
  name or the names of a batch, and the job goes on without. A click after a prompt has
  timed out is answered "Selected". A double click on Apply enqueues twice.

## 7. Not modelled, and what is left

Not modelled: the status card, the network guard, telegraph, the tools and the torrent
scraper (layout, I/O, a filter without state, a sidecar in JavaScript). Of the modelled
parts: layout of messages, names of files, templates of renames, the protocols of cloud
services and hosts, ffmpeg and the conversion of media, the contents of files of
credentials, TLS and proxies, the ranges of a parallel download, encryption of secrets.
`PROJECT.json` gives the reason for each component, and names the hazards no property
covers.

Left, in this order:

1. Volumes of split archives, truncated parts and errors of the store in `Pipeline` and
   `JobLifecycle`; `Reset` of a job.
2. The parallel ranges of the direct download, the heavy gate, the adaptive limiter of
   downloads, the cache and the health of providers in the scraper.
