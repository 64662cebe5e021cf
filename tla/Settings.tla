------------------------------ MODULE Settings ------------------------------
(***************************************************************************)
(* The settings that the owner changes while the bot runs:                 *)
(* settings.Manager and settings.Store (src/internal/settings), the hooks  *)
(* that cmd/tgdl/main.go registers, and what config.Load makes of the      *)
(* environment at the next start.                                          *)
(*                                                                         *)
(* The methods of Manager hold m.mu, so each is one action up to the save, *)
(* and SyncEnv, the last thing Set and Reset do under m.mu, is another:    *)
(* the process may end between the two.  A value is what its text means;   *)
(* Invalid says what the checks make of it, IdList whom it names.  The     *)
(* owner is OWNER_ID or, without it, the first of the list of users that   *)
(* config.Load finds; .env is where the next start finds it.               *)
(***************************************************************************)
EXTENDS Integers, Sequences, SequencesExt

CONSTANTS
  Keys,           \* settings that may be changed, those that are not read-only
  Values,
  Empty,          \* the value ""
  None,           \* no value
  Hooked,         \* keys of registerLiveSettingsHooks
  Remote,         \* hooks that call the aria2 daemon after changing the config
  Default,        \* Spec.Default, which is also what config.Load falls back to
  ProcessEnv,     \* environment the container gives to the process
  InitialDotenv,  \* .env before the first start
  Invalid,        \* <<key, value>> that Spec.Validate and the hook refuse
  UserList,       \* AUTHORIZED_USER_IDS
  People,
  Nobody,
  IdList,         \* parseIDList: the people that a value names, in their order
  ExplicitOwner,  \* OWNER_ID, which is read-only, or Nobody
  WriteEnv,       \* SETTINGS_WRITE_ENV
  Files,          \* documents that are imported
  EditLimit,      \* edits per minute
  HistoryLimit,   \* records that Save keeps
  MaxHistory,     \* bound: records in memory
  MaxRestarts     \* bound: how often the process ends

Maybe == Values \cup {None}

\* Import documents and what is left of them.
PartialValues == UNION {[K -> Values] : K \in SUBSET Keys}

ASSUME ValuesAssumption == Empty \in Values /\ None \notin Values
ASSUME KeysAssumption == Remote \subseteq Hooked /\ Hooked \subseteq Keys /\ "ALL" \notin Keys
ASSUME EnvironmentAssumption ==
  /\ Default \in [Keys -> Values]
  /\ ProcessEnv \in [Keys -> Maybe]
  /\ InitialDotenv \in [Keys -> Maybe]
  /\ WriteEnv \in BOOLEAN
ASSUME OwnerAssumption ==
  /\ UserList \in Keys
  /\ Nobody \notin People
  /\ IdList \in [Values -> Seq(People)]
  /\ ExplicitOwner \in People \cup {Nobody}
ASSUME FilesAssumption == Files \subseteq PartialValues
ASSUME BoundsAssumption ==
  {EditLimit, HistoryLimit, MaxHistory} \subseteq Nat \ {0} /\ MaxRestarts \in Nat

VARIABLES
  \* on disk
  disk,       \* settings.json
  dotenv,     \* .env
  \* the process
  up,
  restarts,
  environ,    \* os.LookupEnv
  owner,      \* cfg.OwnerID, Nobody without cfg.HasOwner
  values,     \* m.data.Values
  history,    \* m.data.History
  live,       \* the fields of config.Config
  recent,     \* timestamps of the EditRateLimiter inside its window
  unsynced,   \* what SyncEnv is about to write, while m.mu is held
  pending,    \* the import that waits for its confirmation
  applying,   \* the rest of the import that is being applied
  \* history
  said,       \* how the latest call ended
  trusted,    \* whom .env may make the owner: the first owner, and whomever an
              \* owner put before himself in a list that was written to .env; Nobody
              \* once an owner had the list taken out of .env
  applied,    \* keys whose shown value was given to their hook since the start
  lost        \* an undo took away what the earlier records build on, or was
              \* made in another environment than one of them

envfile == <<dotenv, trusted>>
durable == <<disk, envfile>>
process == <<up, restarts, environ, owner>>
imports == <<pending, applying>>
vars == <<durable, process, values, history, live, recent, unsynced, imports,
          said, applied, lost>>

-----------------------------------------------------------------------------
NoValues == [k \in Keys |-> None]
NoImport == <<>>
NoSync == <<>>

\* getLocked: a value comes from the overrides, the environment or the registry.
Fallback(k) == IF environ[k] # None THEN environ[k] ELSE Default[k]
Effective(k) == IF values[k] # None THEN values[k] ELSE Fallback(k)
Shown == [k \in Keys |-> Effective(k)]

\* Wrong: the owner is not looked for in the list.
AcceptsAnyList(k, v) == <<k, v>> \notin Invalid

\* Without OWNER_ID, a list of users has to name the owner, at any place.
KeepsOwner(v) == ExplicitOwner # Nobody \/ Contains(IdList[v], owner)

\* Set refuses the values that Validate refuses and lists without the owner.
Accepts(k, v) == <<k, v>> \notin Invalid /\ (k = UserList => KeepsOwner(v))

\* What the hook of a key leaves in the config, and how it may end.
Hooking(k, v) == IF k \in Hooked /\ <<k, v>> \notin Invalid THEN v ELSE live[k]
HookMaySucceed(k, v) == k \in Hooked => <<k, v>> \notin Invalid
HookMayFail(k, v) == k \in Hooked /\ (k \in Remote \/ <<k, v>> \in Invalid)

\* What config.Load makes of an environment.
Loaded(env, k) ==
  IF env[k] \in {None, Empty} \/ (k # UserList /\ <<k, env[k]>> \in Invalid)
  THEN Default[k] ELSE env[k]

\* What a start finds: godotenv leaves what the container has set.
Environment == [k \in Keys |-> IF ProcessEnv[k] # None THEN ProcessEnv[k] ELSE dotenv[k]]

IdsIn(env) == IF env[UserList] = None THEN <<>> ELSE IdList[env[UserList]]

\* Whom config.Load takes for the owner.
OwnerOf(env) ==
  IF ExplicitOwner # Nobody THEN ExplicitOwner
  ELSE IF IdsIn(env) = <<>> THEN Nobody ELSE Head(IdsIn(env))

\* Whom a line that is written to .env makes the next owner with the owner's consent.
Heirs(k, v) ==
  IF k # UserList THEN {}
  ELSE IF v = None THEN {Nobody}
  ELSE IF Contains(IdList[v], owner) THEN {Head(IdList[v])} ELSE {}

\* A change as the history keeps it, with what was shown and set at that time.
Record(k, old) == [key |-> k, old |-> old, shown |-> Shown, env |-> environ]

Recent(h) == IF Len(h) > HistoryLimit THEN SubSeq(h, Len(h) - HistoryLimit + 1, Len(h)) ELSE h

\* checkOwnerPrivate: without an owner nobody may use the commands.
HasOwner == owner # Nobody

\* All records were made in the environment of this process.
Comparable == \A i \in 1..Len(history) : history[i].env = environ

\* m.mu can be taken for somebody who may use the commands.
Free == up /\ unsynced = NoSync /\ HasOwner

Allow == recent < EditLimit /\ recent' = recent + 1

-----------------------------------------------------------------------------
(* Wrong versions of ResetAll and Save below.                               *)

\* The overrides are forgotten, the program goes on with them.
ResetAllWithoutHooks ==
  /\ Free /\ Allow
  /\ Len(history) < MaxHistory
  /\ values' = NoValues
  /\ history' = Append(history, Record("ALL", None))
  /\ disk' = [values |-> values', history |-> Recent(history')]
  /\ said' = "ok"
  /\ UNCHANGED <<envfile, process, imports, live, unsynced, applied, lost>>

\* No record tells an undo that all was reset.
ResetAllUnrecorded ==
  /\ Free /\ Allow
  /\ values' = NoValues
  /\ live' = [k \in Keys |-> IF values[k] # None THEN Hooking(k, Fallback(k)) ELSE live[k]]
  /\ disk' = [values |-> values', history |-> Recent(history)]
  /\ said' = "ok"
  /\ applied' = {k \in applied : values[k] = None}
  /\ UNCHANGED <<envfile, process, imports, history, unsynced, lost>>

\* The error of Save is thrown away.
SaveUnchecked ==
  /\ disk' \in {disk, [values |-> values', history |-> Recent(history')]}
  /\ said' = "ok"

-----------------------------------------------------------------------------
Init ==
  /\ disk = [values |-> NoValues, history |-> <<>>]
  /\ dotenv = InitialDotenv
  /\ up = FALSE
  /\ restarts = 0
  /\ environ = NoValues
  /\ owner = Nobody
  /\ trusted = {OwnerOf(Environment)}
  /\ values = NoValues
  /\ history = <<>>
  /\ live = Default
  /\ recent = 0
  /\ unsynced = NoSync
  /\ pending = NoImport /\ applying = NoImport
  /\ said = "none"
  /\ applied = {}
  /\ lost = FALSE

\* Store.Save: the file is replaced as a whole, or not at all and the memory
\* stays as it was changed.
Save ==
  \/ disk' = [values |-> values', history |-> Recent(history')] /\ said' = "ok"
  \/ UNCHANGED disk /\ said' = "error"

Refuse ==
  /\ said' = "error"
  /\ UNCHANGED <<disk, values, history, live, unsynced, applied, lost>>

\* EditRateLimiter.Allow comes first in every call.
Limited == recent = EditLimit /\ UNCHANGED recent /\ Refuse

\* The hook failed: what it changed in the config stays.
HookError(k, v) ==
  /\ HookMayFail(k, v)
  /\ live' = [live EXCEPT ![k] = Hooking(k, v)]
  /\ applied' = IF k \in Remote THEN applied \ {k} ELSE applied
  /\ said' = "error"
  /\ UNCHANGED <<disk, values, history, unsynced, lost>>

\* Manager.Set, called by /set, the buttons, a reply with a value, an import.
SetCall(k, v) ==
  /\ Free
  /\ \/ Limited
     \/ Allow /\ ~Accepts(k, v) /\ Refuse
     \/ Allow /\ Accepts(k, v) /\ HookError(k, v)
     \/ /\ Allow /\ Accepts(k, v) /\ HookMaySucceed(k, v)
        /\ Len(history) < MaxHistory
        /\ live' = [live EXCEPT ![k] = Hooking(k, v)]
        /\ values' = [values EXCEPT ![k] = v]
        /\ history' = Append(history, Record(k, Effective(k)))
        /\ Save
        /\ unsynced' = IF said' = "ok" /\ WriteEnv THEN <<k, v>> ELSE NoSync
        /\ applied' = applied \cup {k}
        /\ UNCHANGED lost
  /\ UNCHANGED <<envfile, process>>

Set(k, v) == SetCall(k, v) /\ UNCHANGED imports

\* Manager.Reset: the override is put back when the hook fails.  The check for the
\* owner (manager.go:258-266) looks at the list that the owner was taken from at the
\* start, so it refuses nothing; SyncEnv then takes that list out of .env.
Reset(k) ==
  /\ Free
  /\ \/ Limited
     \/ /\ Allow /\ values[k] = None
        /\ UNCHANGED <<disk, values, history, live, unsynced, said, applied, lost>>
     \/ Allow /\ values[k] # None /\ HookError(k, Fallback(k))
     \/ /\ Allow /\ values[k] # None /\ HookMaySucceed(k, Fallback(k))
        /\ Len(history) < MaxHistory
        /\ live' = [live EXCEPT ![k] = Hooking(k, Fallback(k))]
        /\ values' = [values EXCEPT ![k] = None]
        /\ history' = Append(history, Record(k, values[k]))
        /\ Save
        /\ unsynced' = IF said' = "ok" /\ WriteEnv THEN <<k, None>> ELSE NoSync
        /\ applied' = applied \cup {k}
        /\ UNCHANGED lost
  /\ UNCHANGED <<envfile, process, imports>>

\* Manager.ResetAll: hooks that fail are passed over, .env is not written.
ResetAll ==
  LET overridden == {k \in Keys : values[k] # None}
      refused == {k \in overridden : <<k, Fallback(k)>> \in Invalid}
  IN /\ Free
     /\ \/ Limited
        \/ /\ Allow
           /\ Len(history) < MaxHistory
           /\ live' = [k \in Keys |-> IF k \in overridden THEN Hooking(k, Fallback(k)) ELSE live[k]]
           /\ values' = NoValues
           /\ history' = Append(history, Record("ALL", None))
           /\ Save
           /\ applied' = (applied \cup overridden) \ refused
           /\ UNCHANGED <<unsynced, lost>>
     /\ UNCHANGED <<envfile, process, imports>>

\* Manager.Undo: the record is gone whatever comes of it; .env is not written.
Undo ==
  LET last == history[Len(history)]
      k == last.key
      active == IF last.old = Empty THEN Fallback(k) ELSE last.old
  IN /\ Free
     /\ \/ Limited
        \/ Allow /\ history = <<>> /\ Refuse
        \/ /\ Allow /\ history # <<>>
           /\ k = "ALL"
           /\ history' = SubSeq(history, 1, Len(history) - 1)
           /\ lost' = TRUE
           /\ said' = "error"
           /\ UNCHANGED <<disk, values, live, unsynced, applied>>
        \/ /\ Allow /\ history # <<>>
           /\ k # "ALL"
           /\ history' = SubSeq(history, 1, Len(history) - 1)
           /\ values' = [values EXCEPT ![k] = IF last.old = Empty THEN None ELSE last.old]
           /\ live' = [live EXCEPT ![k] = Hooking(k, active)]
           /\ Save
           /\ applied' = IF <<k, active>> \in Invalid THEN applied \ {k} ELSE applied \cup {k}
           /\ lost' = (lost \/ (last.old = Empty /\ Fallback(k) # Empty) \/ ~Comparable)
           /\ UNCHANGED unsynced
     /\ UNCHANGED <<envfile, process, imports>>

\* Store.SyncEnv, and m.mu is released: the line of the key is replaced, or commented
\* out after a reset.  A file that cannot be written is left.
SyncEnv ==
  /\ up
  /\ unsynced # NoSync
  /\ \/ /\ dotenv' = [dotenv EXCEPT ![unsynced[1]] = unsynced[2]]
        /\ trusted' = trusted \cup Heirs(unsynced[1], unsynced[2])
     \/ UNCHANGED envfile
  /\ unsynced' = NoSync
  /\ UNCHANGED <<disk, process, values, history, live, recent, imports, said, applied, lost>>

-----------------------------------------------------------------------------
\* Manager.Import: the differences are shown and kept for their confirmation.
\* An empty list of users passes here and is refused by Set.
Import(f) ==
  LET diffs == {k \in DOMAIN f : f[k] # Effective(k)}
  IN /\ Free
     /\ pending = NoImport /\ applying = NoImport
     /\ \A k \in DOMAIN f :
          /\ <<k, f[k]>> \notin Invalid
          /\ k = UserList => IdList[f[k]] = <<>> \/ KeepsOwner(f[k])
     /\ diffs # {}
     /\ pending' = [k \in diffs |-> f[k]]
     /\ UNCHANGED <<durable, process, values, history, live, recent, unsynced, applying,
                    said, applied, lost>>

\* The buttons under the differences; the token is good for one press.
ConfirmImport ==
  /\ up
  /\ pending # NoImport
  /\ applying' = pending
  /\ pending' = NoImport
  /\ UNCHANGED <<durable, process, values, history, live, recent, unsynced, said, applied, lost>>

CancelImport ==
  /\ up
  /\ pending # NoImport
  /\ pending' = NoImport
  /\ UNCHANGED <<durable, process, values, history, live, recent, unsynced, applying,
                 said, applied, lost>>

\* applyFn sets one key after the other, in any order, up to the first error.
ApplyImport(k) ==
  /\ k \in DOMAIN applying
  /\ SetCall(k, applying[k])
  /\ applying' = IF said' = "ok" THEN [l \in DOMAIN applying \ {k} |-> applying[l]] ELSE NoImport
  /\ UNCHANGED pending

-----------------------------------------------------------------------------
\* Timestamps leave the window.
WindowMoves ==
  /\ up
  /\ recent' \in 0..(recent - 1)
  /\ UNCHANGED <<durable, process, values, history, live, unsynced, imports, said, applied, lost>>

\* A stop, /restart, a kill or a crash.
Exit ==
  /\ up
  /\ restarts < MaxRestarts
  /\ up' = FALSE
  /\ restarts' = restarts + 1
  /\ environ' = NoValues
  /\ owner' = Nobody
  /\ values' = NoValues
  /\ history' = <<>>
  /\ live' = Default
  /\ recent' = 0
  /\ unsynced' = NoSync
  /\ pending' = NoImport /\ applying' = NoImport
  /\ said' = "none"
  /\ applied' = {}
  /\ UNCHANGED <<durable, lost>>

\* config.Load, then NewManager.  Only Spec.OnChange is called for the overrides,
\* which no setting of the registry has; the hooks are registered afterwards.
Start ==
  /\ ~up
  /\ up' = TRUE
  /\ environ' = Environment
  /\ owner' = OwnerOf(environ')
  /\ live' = [k \in Keys |-> Loaded(environ', k)]
  /\ values' = [k \in Keys |-> IF <<k, disk.values[k]>> \in Invalid THEN None ELSE disk.values[k]]
  /\ history' = disk.history
  /\ UNCHANGED <<durable, restarts, recent, unsynced, imports, said, applied, lost>>

Next ==
  \/ \E k \in Keys, v \in Values \ {Empty} : Set(k, v)
  \/ \E k \in Keys : Reset(k)
  \/ ResetAll
  \/ Undo
  \/ SyncEnv
  \/ \E f \in Files : Import(f)
  \/ ConfirmImport
  \/ CancelImport
  \/ \E k \in Keys : ApplyImport(k)
  \/ WindowMoves
  \/ Exit
  \/ Start

Spec == Init /\ [][Next]_vars

-----------------------------------------------------------------------------
\* What was shown and set goes with each change; a reset of all has no old value.
Records ==
  [key : Keys, old : Values, shown : [Keys -> Values], env : [Keys -> Maybe]] \cup
  [key : {"ALL"}, old : {None}, shown : [Keys -> Values], env : [Keys -> Maybe]]

\* Every variable keeps to its type and Save keeps to its limit.
TypeOK ==
  /\ disk \in [values : [Keys -> Maybe], history : Seq(Records)]
  /\ Len(disk.history) <= HistoryLimit
  /\ dotenv \in [Keys -> Maybe]
  /\ up \in BOOLEAN
  /\ restarts \in 0..MaxRestarts
  /\ environ \in [Keys -> Maybe]
  /\ owner \in People \cup {Nobody}
  /\ trusted \in SUBSET (People \cup {Nobody})
  /\ values \in [Keys -> Maybe]
  /\ history \in Seq(Records)
  /\ live \in [Keys -> Values]
  /\ recent \in 0..EditLimit
  /\ unsynced \in (Keys \X Maybe) \cup {NoSync}
  /\ pending \in PartialValues
  /\ applying \in PartialValues
  /\ said \in {"none", "ok", "error"}
  /\ applied \in SUBSET Keys
  /\ lost \in BOOLEAN

\* What the program uses is what it shows, for every live setting that was
\* changed since the start and given to its hook without an error, whichever of
\* Set, Reset, ResetAll, Undo and an import came last.
LiveIsShown ==
  up => \A k \in applied \cap Hooked : live[k] = Effective(k)

\* Whoever was told that a change was made finds it after a crash: the file
\* holds the overrides and the latest records of the history.
SavedWhenConfirmed ==
  said = "ok" => disk = [values |-> values, history |-> Recent(history)]

\* An undo brings back everything that was shown before the change it undoes
\* (docs/settings.md:83), as long as the environment of the records is the same and
\* no earlier undo took away a reset-all or took an explicit "" for no value.
UndoRestores ==
  [][ (up /\ up' /\ Len(history') < Len(history) /\ ~lost') =>
        Shown' = history[Len(history)].shown ]_vars

\* No sequence of edits, resets, undos, imports, failed writes and restarts takes the
\* bot from its owner (manager.go:165-178, config.go:204-216).  Whom the next start
\* makes the owner is the first owner or somebody whom an owner put before himself in
\* a list, and the list it finds still has the present owner.  Nobody is left as the
\* owner only where an owner has reset the list: its line in .env is commented out.
OwnerKept ==
  LET next == OwnerOf(Environment)
  IN /\ next \in trusted
     /\ up /\ HasOwner /\ ExplicitOwner = Nobody /\ next # Nobody =>
          Contains(IdsIn(Environment), owner)

=============================================================================
