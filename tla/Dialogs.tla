------------------------------- MODULE Dialogs -------------------------------
(***************************************************************************)
(* What the bot makes of messages and buttons (src/internal/bot/app.go):   *)
(* the owner's input for a setting (settings.go), renames and batches of   *)
(* renames (rename_session.go, cmd_rename.go), the password a job has      *)
(* asked for (jobs/sessions.go, pipeline.go) and the limit on jobs of a    *)
(* chat.  Every update has a goroutine of its own, so that two handlers    *)
(* meet between their critical sections: an action is one of them.         *)
(*                                                                         *)
(* All updates are of users who are authorised.  A text and a file are     *)
(* known by the number of the update that brought them.                    *)
(***************************************************************************)
EXTENDS Integers, Sequences, FiniteSets

CONSTANTS
  Places,     \* pairs of a chat and a user
  Private,    \* those that are the owner's private chat
  Keys,       \* settings
  Dangerous,  \* keys that settings.IsDangerous asks about
  Handlers,   \* bound: updates handled at a time
  MaxBatch,   \* RENAME_MAX_BATCH
  MaxJobs,    \* MAX_JOBS_PER_CHAT; all places count as one chat here
  Scenes,     \* bound: the kinds of updates that come together, and the places
  MaxUpdates, \* bound
  MaxAsks     \* bound: how often a password is asked for

ASSUME DialogsAssumption ==
  /\ Places # {} /\ Private \subseteq Places /\ Dangerous \subseteq Keys /\ "" \notin Keys
  /\ \A s \in Scenes : s.places \subseteq Places
  /\ Handlers \subseteq Nat /\ IsFiniteSet(Handlers) /\ {MaxBatch, MaxJobs} \subseteq Nat \ {0} /\ {MaxUpdates, MaxAsks} \subseteq Nat

VARIABLES
  scene,     \* which updates come, and where
  sent,      \* updates so far
  hs,        \* the handlers
  input,     \* inputState: the key whose value is awaited, or ""
  changes,   \* pendingChanges: the token is the number of the text
  values,    \* settings: the text each key has its value from, or 0: the value is
             \* a default, or one that a button offers
  batches,   \* all RenameSessions ever made
  sessions,  \* m.sessions: the batch of each place, or 0
  pending,   \* m.pendingSingle: the file of each place, or NoFile
  active,    \* jobs of the chat that are queued or run
  job,       \* history: the latest rename job
  wait,      \* extract: "off", "asked", "waiting", "got" or "over"
  asks,      \* how often it has asked
  used,      \* history: the text taken last, and what for
  agreed,    \* history: tokens whose change was made, with how often
  declined   \* history: tokens that were cancelled

settingVars == <<input, changes, values, agreed, declined>>
renameVars == <<batches, sessions, pending>>
jobVars == <<active, job>>
waitVars == <<wait, asks>>
dialogVars == <<scene, sent, hs, settingVars, renameVars, jobVars, waitVars, used>>

Ids == 0..MaxUpdates
NoFile == <<>>
NoJob == [files |-> <<>>, names |-> 0, lines |-> 0]
Idle == [pc |-> "idle", at |-> CHOOSE p \in Places : TRUE, id |-> 0, text |-> FALSE, file |-> FALSE,
         reply |-> FALSE, lines |-> 0, key |-> "", batch |-> 0, job |-> NoJob]
Steps == {"idle", "input", "clear", "value", "set", "media", "add", "password", "single", "take", "names",
          "preview", "start", "check", "files", "remove", "drop", "count", "create"}

DialogsType ==
  /\ scene \in Scenes /\ sent \in Ids /\ input \in Keys \cup {""} /\ active \in Nat
  /\ \A h \in Handlers : hs[h].pc \in Steps /\ hs[h].at \in Places /\ hs[h].id \in Ids
  /\ \A c \in changes : c.token \in Ids /\ c.key \in Dangerous
  /\ values \in [Keys -> Ids]
  /\ \A i \in 1..Len(batches) : Len(batches[i].files) <= MaxBatch
  /\ sessions \in [Places -> 0..Len(batches)] /\ pending \in [Places -> Places \X Ids \cup {NoFile}]
  /\ wait \in {"off", "asked", "waiting", "got", "over"} /\ asks \in 0..MaxAsks
  /\ DOMAIN agreed \subseteq Ids /\ declined \subseteq Ids

DialogsInit ==
  /\ scene \in Scenes /\ sent = 0 /\ hs = [h \in Handlers |-> Idle]
  /\ input = "" /\ changes = {} /\ values = [k \in Keys |-> 0]
  /\ batches = <<>> /\ sessions = [p \in Places |-> 0] /\ pending = [p \in Places |-> NoFile]
  /\ active = 0 /\ job = [at |-> Idle.at, of |-> NoJob] /\ wait = "off" /\ asks = 0
  /\ used = [id |-> 0, as |-> {}] /\ agreed = [t \in {} |-> 0] /\ declined = {}

----------------------------------------------------------------------------
(* Updates: Dispatch *)

\* The handler goes on at pc, or is done.
Goes(h, pc) == hs' = [hs EXCEPT ![h].pc = pc]
Done(h) == hs' = [hs EXCEPT ![h] = Idle]
UsedAs(id, what) == used' = [id |-> id, as |-> {what} \cup IF used.id = id THEN used.as ELSE {}]
Uses(h, what) == UsedAs(hs[h].id, what)

\* A free handler gets an update of place p and starts at pc.
Gets(h, p, pc, m) ==
  /\ hs[h].pc = "idle" /\ \A g \in Handlers : g < h => hs[g].pc # "idle"
  /\ sent < MaxUpdates /\ sent' = sent + 1
  /\ hs' = [hs EXCEPT ![h] = [m EXCEPT !.pc = pc, !.at = p, !.id = sent + 1]]

\* sessionKey; the wrong one has no chat.
UserKey(p) == Idle.at
Key(p) == p

\* A text, or a file with or without a caption: convertMessage takes the caption for
\* the text.  Only a private chat can be asked for a value.
Message(h, p, text, file, reply, lines) ==
  /\ reply => wait # "off"
  /\ Gets(h, p, IF p \in Private /\ text THEN "input" ELSE "media",
          [Idle EXCEPT !.text = text, !.file = file, !.reply = reply, !.lines = lines])
  /\ UNCHANGED <<scene, settingVars, renameVars, jobVars, waitVars, used>>

\* "/rename" in reply to a file, or as its caption.
RenameCommand(p) ==
  /\ sent < MaxUpdates /\ sent' = sent + 1
  /\ pending' = [pending EXCEPT ![Key(p)] = <<p, sent + 1>>]
  /\ UNCHANGED <<scene, hs, settingVars, batches, sessions, jobVars, waitVars, used>>

\* "/rename" with a name.
RenameNow(h, p) ==
  /\ Gets(h, p, "count", [Idle EXCEPT !.job = [files |-> <<<<p, sent + 1>>>>, names |-> sent + 1, lines |-> 0]])
  /\ UsedAs(sent + 1, "name")
  /\ UNCHANGED <<scene, settingVars, renameVars, jobVars, waitVars>>

\* "/rename batch": the card is sent first.
BatchCommand(h, p) ==
  /\ Gets(h, p, "start", Idle)
  /\ UNCHANGED <<scene, settingVars, renameVars, jobVars, waitVars, used>>

\* "/cancel" is a command wherever it is typed: the only job of the chat is cancelled.
CancelCommand(p) ==
  /\ sent < MaxUpdates /\ sent' = sent + 1
  /\ active' = IF active = 1 THEN 0 ELSE active
  /\ UNCHANGED <<scene, hs, settingVars, renameVars, job, waitVars, used>>

\* The button "Edit" of a key.
EditButton(p, k) ==
  /\ p \in Private /\ sent < MaxUpdates /\ sent' = sent + 1
  /\ input' = k
  /\ UNCHANGED <<scene, hs, changes, values, agreed, declined, renameVars, jobVars, waitVars, used>>

\* The buttons of a key that set it at once, dangerous or not: "Toggle" of a boolean,
\* the choices of an enum, and "Reset to default".
ButtonSets(p, k) ==
  /\ p \in Private /\ sent < MaxUpdates /\ sent' = sent + 1
  /\ values' = [values EXCEPT ![k] = 0]
  /\ UNCHANGED <<scene, hs, input, changes, agreed, declined, renameVars, jobVars, waitVars, used>>

\* Wrong: the token is good for another click.
ConfirmKept(h, p, c) ==
  /\ p \in Private /\ c \in changes
  /\ Gets(h, p, "set", [Idle EXCEPT !.key = c.key, !.batch = c.token])
  /\ UNCHANGED <<scene, settingVars, renameVars, jobVars, waitVars, used>>

\* "Confirm": the token is taken, and the value set afterwards.  A click on a card
\* whose token is gone is answered and changes nothing.
ConfirmButton(h, p, c) ==
  /\ p \in Private /\ c \in changes
  /\ Gets(h, p, "set", [Idle EXCEPT !.key = c.key, !.batch = c.token])
  /\ changes' = changes \ {c}
  /\ UNCHANGED <<scene, input, values, agreed, declined, renameVars, jobVars, waitVars, used>>

RefuseButton(p, c) ==
  /\ p \in Private /\ c \in changes /\ sent < MaxUpdates /\ sent' = sent + 1
  /\ changes' = changes \ {c} /\ declined' = declined \cup {c.token}
  /\ UNCHANGED <<scene, hs, input, values, agreed, renameVars, jobVars, waitVars, used>>

\* "Apply" and "Cancel" of a batch: Get finds the session of the user who clicks.
BatchButton(h, p, pc) ==
  /\ sessions[Key(p)] # 0
  /\ Gets(h, p, pc, [Idle EXCEPT !.batch = sessions[Key(p)]])
  /\ UNCHANGED <<scene, settingVars, renameVars, jobVars, waitVars, used>>

----------------------------------------------------------------------------
(* handleSettingsInput *)

InputGet(h) ==
  /\ hs[h].pc = "input"
  /\ IF input # "" THEN hs' = [hs EXCEPT ![h].pc = "clear", ![h].key = input] ELSE Goes(h, "media")
  /\ UNCHANGED <<scene, sent, settingVars, renameVars, jobVars, waitVars, used>>

InputClear(h) ==
  /\ hs[h].pc = "clear" /\ input' = "" /\ Goes(h, "value")
  /\ UNCHANGED <<scene, sent, changes, values, agreed, declined, renameVars, jobVars, waitVars, used>>

\* Set, or a card that asks for confirmation.
InputValue(h) ==
  /\ hs[h].pc = "value" /\ Uses(h, "value") /\ Done(h)
  /\ IF hs[h].key \in Dangerous
     THEN changes' = changes \cup {[token |-> hs[h].id, key |-> hs[h].key]} /\ UNCHANGED values
     ELSE values' = [values EXCEPT ![hs[h].key] = hs[h].id] /\ UNCHANGED changes
  /\ UNCHANGED <<scene, sent, input, agreed, declined, renameVars, jobVars, waitVars>>

ConfirmedSet(h) ==
  /\ hs[h].pc = "set" /\ Done(h)
  /\ values' = [values EXCEPT ![hs[h].key] = hs[h].batch]
  /\ LET t == hs[h].batch IN
       agreed' = [u \in DOMAIN agreed \cup {t} |->
                   IF u # t THEN agreed[u] ELSE IF t \in DOMAIN agreed THEN agreed[t] + 1 ELSE 1]
  /\ UNCHANGED <<scene, sent, input, changes, declined, renameVars, jobVars, waitVars, used>>

\* 60 seconds; a token that has expired is as good as gone.
InputExpires ==
  /\ input # "" /\ input' = ""
  /\ UNCHANGED <<scene, sent, hs, changes, values, agreed, declined, renameVars, jobVars, waitVars, used>>

ChangeExpires(c) ==
  /\ c \in changes /\ changes' = changes \ {c}
  /\ UNCHANGED <<scene, sent, hs, input, values, agreed, declined, renameVars, jobVars, waitVars, used>>

----------------------------------------------------------------------------
(* Default: a file for a batch, a password, a name, the names of a batch *)

Media(h) ==
  /\ hs[h].pc = "media"
  /\ IF hs[h].file /\ sessions[Key(hs[h].at)] # 0 THEN Goes(h, "add")
     ELSE IF hs[h].reply THEN Goes(h, "password")
     ELSE IF hs[h].text THEN Goes(h, "single") ELSE Done(h)
  /\ UNCHANGED <<scene, sent, settingVars, renameVars, jobVars, waitVars, used>>

\* The session may be gone; then the file is dropped without a word.
AddFile(h) ==
  LET b == sessions[Key(hs[h].at)] IN
  /\ hs[h].pc = "add" /\ Done(h)
  /\ batches' = IF b = 0 \/ (b > 0 /\ Len(batches[b].files) >= MaxBatch) THEN batches
                ELSE [batches EXCEPT ![b].files = Append(@, <<hs[h].at, hs[h].id>>)]
  /\ UNCHANGED <<scene, sent, settingVars, sessions, pending, jobVars, waitVars, used>>

\* DeliverPassword: the reply that fills the channel; others go on.
Password(h) ==
  /\ hs[h].pc = "password"
  /\ IF wait = "waiting" THEN wait' = "got" /\ Uses(h, "password") /\ Done(h)
     ELSE Goes(h, "single") /\ UNCHANGED <<wait, used>>
  /\ UNCHANGED <<scene, sent, settingVars, renameVars, jobVars, asks>>

SingleGet(h) ==
  /\ hs[h].pc = "single"
  /\ LET f == pending[Key(hs[h].at)] IN
       IF f # NoFile
       THEN hs' = [hs EXCEPT ![h].pc = "take", ![h].job = [files |-> <<f>>, names |-> hs[h].id, lines |-> 0]]
       ELSE Goes(h, "names")
  /\ UNCHANGED <<scene, sent, settingVars, renameVars, jobVars, waitVars, used>>

\* RemovePendingSingle comes before the name is looked at: one that is refused ends it.
SingleRemove(h) ==
  /\ hs[h].pc = "take" /\ Uses(h, "name")
  /\ pending' = [pending EXCEPT ![Key(hs[h].at)] = NoFile]
  /\ (Goes(h, "count") \/ Done(h))
  /\ UNCHANGED <<scene, sent, settingVars, batches, sessions, jobVars, waitVars>>

NamesGet(h) ==
  /\ hs[h].pc = "names"
  /\ IF sessions[Key(hs[h].at)] # 0 THEN Goes(h, "preview") ELSE Done(h)
  /\ UNCHANGED <<scene, sent, settingVars, renameVars, jobVars, waitVars, used>>

\* SetNames finds the session of now; the preview changes nothing.
NamesSet(h) ==
  LET b == sessions[Key(hs[h].at)] IN
  /\ hs[h].pc = "preview" /\ Uses(h, "names") /\ Done(h)
  /\ batches' = IF b = 0 THEN batches
                ELSE [batches EXCEPT ![b].names = hs[h].id, ![b].lines = hs[h].lines]
  /\ UNCHANGED <<scene, sent, settingVars, sessions, pending, jobVars, waitVars>>

----------------------------------------------------------------------------
(* Batches *)

BatchStart(h) ==
  /\ hs[h].pc = "start" /\ Done(h)
  /\ batches' = Append(batches, [files |-> <<>>, names |-> 0, lines |-> 0])
  /\ sessions' = [sessions EXCEPT ![Key(hs[h].at)] = Len(batches) + 1]
  /\ UNCHANGED <<scene, sent, settingVars, pending, jobVars, waitVars, used>>

\* The session that Get returned is read without the lock: names first, then the files.
ApplyCheck(h) ==
  LET b == batches[hs[h].batch] IN
  /\ hs[h].pc = "check"
  /\ IF b.files = <<>> \/ b.lines # Len(b.files) THEN Done(h)
     ELSE hs' = [hs EXCEPT ![h].pc = "files", ![h].job = [NoJob EXCEPT !.names = b.names, !.lines = b.lines]]
  /\ UNCHANGED <<scene, sent, settingVars, renameVars, jobVars, waitVars, used>>

ApplyFiles(h) ==
  /\ hs[h].pc = "files"
  /\ hs' = [hs EXCEPT ![h].pc = "remove", ![h].job.files = batches[hs[h].batch].files]
  /\ UNCHANGED <<scene, sent, settingVars, renameVars, jobVars, waitVars, used>>

\* Remove takes whatever session the user has by now, also for "Cancel".
SessionRemove(h) ==
  /\ hs[h].pc \in {"remove", "drop"}
  /\ sessions' = [sessions EXCEPT ![Key(hs[h].at)] = 0]
  /\ IF hs[h].pc = "remove" THEN Goes(h, "count") ELSE Done(h)
  /\ UNCHANGED <<scene, sent, settingVars, batches, pending, jobVars, waitVars, used>>

\* Wrong: only batches are swept.
SweptBatches(p) ==
  /\ sessions[p] # 0 /\ sessions' = [sessions EXCEPT ![p] = 0] /\ UNCHANGED pending
  /\ UNCHANGED <<scene, sent, hs, settingVars, batches, jobVars, waitVars, used>>

\* The sweeper, or Get, after RENAME_SESSION_TTL without a change.
Swept(p) ==
  /\ \/ sessions[p] # 0 /\ sessions' = [sessions EXCEPT ![p] = 0] /\ UNCHANGED pending
     \/ pending[p] # NoFile /\ pending' = [pending EXCEPT ![p] = NoFile] /\ UNCHANGED sessions
  /\ UNCHANGED <<scene, sent, hs, settingVars, batches, jobVars, waitVars, used>>

----------------------------------------------------------------------------
(* enqueue, and the job that extracts an archive *)

\* Wrong: one job more than the limit.
CountOneMore(h) ==
  /\ hs[h].pc = "count"
  /\ IF active > MaxJobs THEN Done(h) ELSE Goes(h, "create")
  /\ UNCHANGED <<scene, sent, settingVars, renameVars, jobVars, waitVars, used>>

EnqueueCount(h) ==
  /\ hs[h].pc = "count"
  /\ IF active >= MaxJobs THEN Done(h) ELSE Goes(h, "create")
  /\ UNCHANGED <<scene, sent, settingVars, renameVars, jobVars, waitVars, used>>

EnqueueCreate(h) ==
  /\ hs[h].pc = "create" /\ Done(h)
  /\ active' = active + 1
  /\ job' = [at |-> hs[h].at, of |-> hs[h].job]
  /\ UNCHANGED <<scene, sent, settingVars, renameVars, waitVars, used>>

JobEnds ==
  /\ active > 0 /\ active' = active - 1
  /\ UNCHANGED <<scene, sent, hs, settingVars, renameVars, job, waitVars, used>>

\* extract has sent its question, and then waits for the reply.
Ask ==
  /\ "reply" \in scene.kinds
  /\ wait = "off" /\ asks < MaxAsks /\ wait' = "asked" /\ asks' = asks + 1
  /\ UNCHANGED <<scene, sent, hs, settingVars, renameVars, jobVars, used>>

AwaitPassword ==
  /\ wait = "asked" /\ wait' = "waiting"
  /\ UNCHANGED <<scene, sent, hs, settingVars, renameVars, jobVars, asks, used>>

\* The password is right, or it is asked for again.
TryPassword ==
  /\ wait = "got" /\ wait' \in {"over", "off"}
  /\ UNCHANGED <<scene, sent, hs, settingVars, renameVars, jobVars, asks, used>>

\* Five minutes, or the job is cancelled.
PasswordTimeout ==
  /\ wait = "waiting" /\ wait' = "over"
  /\ UNCHANGED <<scene, sent, hs, settingVars, renameVars, jobVars, asks, used>>

----------------------------------------------------------------------------
Updates(h) == \E p \in scene.places :
  \/ "text" \in scene.kinds /\ \E lines \in 1..2 : Message(h, p, TRUE, FALSE, FALSE, lines)
  \/ "reply" \in scene.kinds /\ Message(h, p, TRUE, FALSE, TRUE, 1)
  \/ "file" \in scene.kinds /\ \E caption \in BOOLEAN : Message(h, p, caption, TRUE, FALSE, 1)
  \/ "rename" \in scene.kinds /\ RenameCommand(p)
  \/ "now" \in scene.kinds /\ RenameNow(h, p)
  \/ "cancel" \in scene.kinds /\ CancelCommand(p)
  \/ "edit" \in scene.kinds /\ \E k \in Keys : EditButton(p, k) \/ ButtonSets(p, k)
  \/ "edit" \in scene.kinds /\ \E c \in changes : ConfirmButton(h, p, c) \/ RefuseButton(p, c)
  \/ "batch" \in scene.kinds /\ BatchCommand(h, p)
  \/ "batch" \in scene.kinds /\ \E pc \in {"check", "drop"} : BatchButton(h, p, pc)

Handle(h) ==
  \/ InputGet(h) \/ InputClear(h) \/ InputValue(h) \/ ConfirmedSet(h)
  \/ Media(h) \/ AddFile(h) \/ Password(h) \/ SingleGet(h) \/ SingleRemove(h) \/ NamesGet(h) \/ NamesSet(h)
  \/ BatchStart(h) \/ ApplyCheck(h) \/ ApplyFiles(h) \/ SessionRemove(h)
  \/ EnqueueCount(h) \/ EnqueueCreate(h)

Sweep == \E p \in Places : Swept(p)
Expire == InputExpires \/ \E c \in changes : ChangeExpires(c)
Extract == Ask \/ AwaitPassword \/ TryPassword

DialogsNext == (\E h \in Handlers : Updates(h) \/ Handle(h)) \/ Sweep \/ Expire \/ JobEnds \/ Extract \/ PasswordTimeout

\* Handlers run, the sweeper and the timers of extract tick.
DialogsSpec ==
  /\ DialogsInit /\ [][DialogsNext]_dialogVars
  /\ \A h \in Handlers : WF_dialogVars(Handle(h))
  /\ WF_dialogVars(Sweep) /\ WF_dialogVars(Extract) /\ WF_dialogVars(PasswordTimeout)

----------------------------------------------------------------------------
(* Properties *)

\* What a user sends in one chat is never renamed by a batch or an answer in another
\* one: the files and the names of a job come from its own chat and user
\* (rename_session.go:15-18, cmd_rename.go:152).  The names of a batch were counted
\* against its files, though the session is read outside the lock while files arrive:
\* there is a file for every name, and the files beyond them came while the button was
\* handled (cmd_rename.go:209-246).
RenamesWhatWasSent ==
  /\ DialogsType
  /\ \A i \in 1..Len(job.of.files) : job.of.files[i][1] = job.at
  /\ job.of.lines <= Len(job.of.files)

\* A text typed for a dangerous key becomes its value only by the card that showed it,
\* once, however often its buttons are clicked and by whatever handlers at the same
\* time (settings.go:95-107).  The values a button offers are no texts: those are set
\* without a card, also in the group Security (settings.go:569-576, 820-832).  And a
\* text has one meaning: a value, a password, a name or the names of a batch,
\* even when all of them are awaited (app.go:508-589).
TakenOnce ==
  /\ \A t \in DOMAIN agreed : agreed[t] = 1 /\ t \notin declined
  /\ \A k \in Dangerous : values[k] \in DOMAIN agreed \cup {0}
  /\ Cardinality(used.as) <= 1

\* The jobs of a chat are counted before a new one is created; what updates handled at
\* the same time can add is one job each (app.go:694-709).
JobsBounded == active <= MaxJobs + Cardinality(Handlers) - 1

\* A rename that is begun and left does not swallow the texts and files of its chat
\* for ever (rename_session.go:73-95), and a job that needs a password goes on, with a
\* reply or without (pipeline.go:552-571).
DialogsEnd ==
  /\ \A p \in Places : sessions[p] # 0 \/ pending[p] # NoFile ~> sessions[p] = 0 /\ pending[p] = NoFile
  /\ wait = "asked" ~> wait \in {"off", "over"}
=============================================================================
