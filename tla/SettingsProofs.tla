--------------------------- MODULE SettingsProofs ---------------------------
(***************************************************************************)
(* Proofs about Settings for any settings, values, documents, limits and   *)
(* number of restarts: typing, that what is used is what is shown, that    *)
(* what is confirmed is on disk, that undos restore, and who may become    *)
(* the owner.                                                              *)
(*                                                                         *)
(* And about what users store with Commands, for any users, messages and   *)
(* hosts: keys are not lost, jobs use what their own user has sent, files  *)
(* go to the hosts that were asked for, and links are downloaded by the    *)
(* source their command is for.                                            *)
(***************************************************************************)
EXTENDS Settings, Commands, SequenceTheorems, WellFoundedInduction, TLAPS

USE DEF durable, envfile, process, imports

-----------------------------------------------------------------------------
(***************************************************************************)
(* Values.                                                                 *)
(***************************************************************************)
Histories == Seq(Records)
SavedFiles == [values : [Keys -> Maybe], history : Histories]

LEMMA FallbackType ==
  ASSUME environ \in [Keys -> Maybe], NEW k \in Keys
  PROVE  Fallback(k) \in Values
BY EnvironmentAssumption DEF Fallback, Maybe

LEMMA ShownType ==
  ASSUME environ \in [Keys -> Maybe], values \in [Keys -> Maybe]
  PROVE  /\ \A k \in Keys : Effective(k) \in Values
         /\ Shown \in [Keys -> Values]
BY FallbackType DEF Effective, Shown, Maybe

LEMMA HookingType ==
  ASSUME live \in [Keys -> Values], NEW k \in Keys, NEW v \in Values
  PROVE  Hooking(k, v) \in Values
BY DEF Hooking

\* Shown stands for its value, so that the backends need not look into it.
LEMMA RecordTypes ==
  ASSUME NEW s \in [Keys -> Values], NEW e \in [Keys -> Maybe], NEW k \in Keys, NEW v \in Values
  PROVE  /\ [key |-> k, old |-> v, shown |-> s, env |-> e] \in Records
         /\ [key |-> "ALL", old |-> None, shown |-> s, env |-> e] \in Records
BY DEF Records

LEMMA RecordType ==
  ASSUME TypeOK
  PROVE  /\ \A k \in Keys, v \in Values : Record(k, v) \in Records
         /\ Record("ALL", None) \in Records
<1>1. Shown \in [Keys -> Values] /\ environ \in [Keys -> Maybe]
  BY ShownType DEF TypeOK
<1>2. ASSUME NEW k \in Keys, NEW v \in Values PROVE Record(k, v) \in Records
  BY <1>1, RecordTypes DEF Record
<1>3. Record("ALL", None) \in Records
  <2>1. ASSUME Keys # {} PROVE Record("ALL", None) \in Records
    <3>1. PICK k \in Keys : TRUE
      BY <2>1
    <3>2. Default[k] \in Values
      BY <3>1, EnvironmentAssumption
    <3>3. QED  BY <1>1, <3>1, <3>2, RecordTypes DEF Record
  <2>2. ASSUME Keys = {} PROVE Record("ALL", None) \in Records
    BY <1>1, <2>2 DEF Record, Records
  <2>3. QED  BY <2>1, <2>2
<1>4. QED  BY <1>2, <1>3

\* What a record of a setting and a record of a reset of all hold.
LEMMA RecordFields ==
  ASSUME NEW r \in Records
  PROVE  IF r.key = "ALL" THEN r.old = None ELSE r.key \in Keys /\ r.old \in Values
BY KeysAssumption DEF Records

LEMMA RecentType ==
  ASSUME NEW h \in Histories
  PROVE  Recent(h) \in Histories /\ Len(Recent(h)) <= HistoryLimit
BY BoundsAssumption DEF Recent, Histories

LEMMA AppendType ==
  ASSUME NEW h \in Histories, NEW r \in Records
  PROVE  Append(h, r) \in Histories
BY DEF Histories

LEMMA ShorterType ==
  ASSUME NEW h \in Histories, h # <<>>
  PROVE  SubSeq(h, 1, Len(h) - 1) \in Histories /\ h[Len(h)] \in Records
BY DEF Histories

LEMMA PartsOfPartialValues ==
  ASSUME NEW p \in PartialValues, NEW K \in SUBSET DOMAIN p
  PROVE  [k \in K |-> p[k]] \in PartialValues
<1>1. PICK S \in SUBSET Keys : p \in [S -> Values]
  BY DEF PartialValues
<1>2. [k \in K |-> p[k]] \in [K -> Values] /\ K \in SUBSET Keys
  BY <1>1
<1>3. QED  BY <1>2 DEF PartialValues

LEMMA NothingToImport == NoImport \in PartialValues
<1>1. NoImport \in [{} -> Values]
  BY DEF NoImport
<1>2. QED  BY <1>1 DEF PartialValues

-----------------------------------------------------------------------------
(***************************************************************************)
(* Types.  An action of the manager writes what Memory names, and Save and *)
(* Refuse the rest.                                                        *)
(***************************************************************************)
Memory ==
  /\ values' \in [Keys -> Maybe]
  /\ history' \in Histories
  /\ live' \in [Keys -> Values]

Disk == disk' \in SavedFiles /\ Len(disk'.history) <= HistoryLimit

LEMMA SaveType ==
  ASSUME TypeOK, Memory, Save
  PROVE  Disk /\ said' \in {"ok", "error"}
<1>1. Recent(history') \in Histories /\ Len(Recent(history')) <= HistoryLimit
  BY RecentType DEF Memory
<1>2. QED  BY <1>1 DEF TypeOK, Memory, Save, Disk, SavedFiles, Histories

\* Memory as it was.
LEMMA SameMemory ==
  ASSUME TypeOK, UNCHANGED <<values, history, live>>
  PROVE  Memory
BY DEF TypeOK, Memory, Histories

LEMMA SameDisk ==
  ASSUME TypeOK, UNCHANGED disk
  PROVE  Disk
BY DEF TypeOK, Disk, SavedFiles, Histories

LEMMA LiveType ==
  ASSUME TypeOK, NEW k \in Keys, NEW v \in Values
  PROVE  [live EXCEPT ![k] = Hooking(k, v)] \in [Keys -> Values]
<1>1. Hooking(k, v) \in Values
  BY HookingType DEF TypeOK
<1>2. QED  BY <1>1 DEF TypeOK

LEMMA AllowType ==
  ASSUME TypeOK, Allow \/ Limited
  PROVE  recent' \in 0..EditLimit
<1>1. CASE Allow
  BY <1>1, BoundsAssumption DEF TypeOK, Allow
<1>2. CASE Limited
  BY <1>2 DEF TypeOK, Limited
<1>3. QED  BY <1>1, <1>2

\* What all calls of the manager keep to.
CallTypes ==
  /\ Memory
  /\ Disk
  /\ recent' \in 0..EditLimit
  /\ unsynced' \in (Keys \X Maybe) \cup {NoSync}
  /\ said' \in {"none", "ok", "error"}
  /\ applied' \in SUBSET Keys
  /\ lost' \in BOOLEAN

LEMMA RefuseTypes ==
  ASSUME TypeOK, Refuse, Allow \/ Limited
  PROVE  CallTypes
<1>1. Memory
  BY SameMemory DEF Refuse
<1>2. Disk
  BY SameDisk DEF Refuse
<1>3. recent' \in 0..EditLimit
  BY AllowType
<1>4. lost' \in BOOLEAN
  BY Zenon DEF TypeOK, Refuse
<1>5. QED  BY <1>1, <1>2, <1>3, <1>4 DEF CallTypes, TypeOK, Refuse

LEMMA HookErrorTypes ==
  ASSUME TypeOK, NEW k \in Keys, NEW v \in Values, HookError(k, v), Allow
  PROVE  CallTypes
<1>1. Memory
  BY LiveType DEF TypeOK, HookError, Memory, Histories
<1>2. Disk
  BY SameDisk DEF HookError
<1>3. recent' \in 0..EditLimit
  BY AllowType
<1>4. lost' \in BOOLEAN
  BY Zenon DEF TypeOK, HookError
<1>5. applied' \in SUBSET Keys
  BY DEF TypeOK, HookError
<1>6. QED  BY <1>1, <1>2, <1>3, <1>4, <1>5 DEF CallTypes, TypeOK, HookError

\* A change that is made and saved.
LEMMA ChangeTypes ==
  ASSUME TypeOK, Memory, Save, Allow,
         unsynced' \in (Keys \X Maybe) \cup {NoSync},
         applied' \in SUBSET Keys, lost' \in BOOLEAN
  PROVE  CallTypes
<1>1. Disk /\ said' \in {"ok", "error"}
  BY SaveType
<1>2. recent' \in 0..EditLimit
  BY AllowType
<1>3. QED  BY <1>1, <1>2 DEF CallTypes

LEMMA SetTypes ==
  ASSUME TypeOK, NEW k \in Keys, NEW v \in Values, SetCall(k, v)
  PROVE  CallTypes
<1>1. CASE Limited
  BY <1>1, RefuseTypes DEF Limited
<1>2. CASE Allow /\ Refuse
  BY <1>2, RefuseTypes
<1>3. CASE Allow /\ HookError(k, v)
  BY <1>3, HookErrorTypes
<1>4. CASE /\ Allow
           /\ live' = [live EXCEPT ![k] = Hooking(k, v)]
           /\ values' = [values EXCEPT ![k] = v]
           /\ history' = Append(history, Record(k, Effective(k)))
           /\ Save
           /\ unsynced' = IF said' = "ok" /\ WriteEnv THEN <<k, v>> ELSE NoSync
           /\ applied' = applied \cup {k}
           /\ UNCHANGED lost
  <2>1. Effective(k) \in Values
    BY ShownType DEF TypeOK
  <2>2. history' \in Histories
    BY <1>4, <2>1, RecordType, AppendType DEF TypeOK, Histories
  <2>3. values' \in [Keys -> Maybe]
    BY <1>4 DEF TypeOK, Maybe
  <2>4. Memory
    BY <1>4, <2>2, <2>3, LiveType DEF Memory
  <2>5. unsynced' \in (Keys \X Maybe) \cup {NoSync}
    BY <1>4 DEF Maybe
  <2>6. lost' \in BOOLEAN
    BY <1>4, Zenon DEF TypeOK
  <2>7. applied' \in SUBSET Keys
    BY <1>4 DEF TypeOK
  <2>8. QED  BY <1>4, <2>4, <2>5, <2>6, <2>7, ChangeTypes
<1>5. QED  BY <1>1, <1>2, <1>3, <1>4 DEF SetCall

LEMMA ResetTypes ==
  ASSUME TypeOK, NEW k \in Keys, Reset(k)
  PROVE  CallTypes
<1> Fallback(k) \in Values
  BY FallbackType DEF TypeOK
<1>1. CASE Limited
  BY <1>1, RefuseTypes DEF Limited
<1>2. CASE Allow /\ UNCHANGED <<disk, values, history, live, unsynced, said, applied, lost>>
  <2>1. Memory /\ Disk /\ recent' \in 0..EditLimit
    BY <1>2, SameMemory, SameDisk, AllowType
  <2>2. lost' \in BOOLEAN
    BY <1>2, Zenon DEF TypeOK
  <2>3. QED  BY <1>2, <2>1, <2>2 DEF CallTypes, TypeOK
<1>3. CASE Allow /\ HookError(k, Fallback(k))
  BY <1>3, HookErrorTypes
<1>4. CASE /\ Allow /\ values[k] # None
           /\ live' = [live EXCEPT ![k] = Hooking(k, Fallback(k))]
           /\ values' = [values EXCEPT ![k] = None]
           /\ history' = Append(history, Record(k, values[k]))
           /\ Save
           /\ unsynced' = IF said' = "ok" /\ WriteEnv THEN <<k, None>> ELSE NoSync
           /\ applied' = applied \cup {k}
           /\ UNCHANGED lost
  <2>1. values[k] \in Values
    BY <1>4 DEF TypeOK, Maybe
  <2>2. history' \in Histories
    BY <1>4, <2>1, RecordType, AppendType DEF TypeOK, Histories
  <2>3. values' \in [Keys -> Maybe]
    BY <1>4 DEF TypeOK, Maybe
  <2>4. Memory
    BY <1>4, <2>2, <2>3, LiveType DEF Memory
  <2>5. unsynced' \in (Keys \X Maybe) \cup {NoSync}
    BY <1>4 DEF Maybe
  <2>6. lost' \in BOOLEAN
    BY <1>4, Zenon DEF TypeOK
  <2>7. applied' \in SUBSET Keys
    BY <1>4 DEF TypeOK
  <2>8. QED  BY <1>4, <2>4, <2>5, <2>6, <2>7, ChangeTypes
<1>5. QED  BY <1>1, <1>2, <1>3, <1>4 DEF Reset

LEMMA ResetAllTypes ==
  ASSUME TypeOK, ResetAll
  PROVE  CallTypes
<1> DEFINE overridden == {k \in Keys : values[k] # None}
           refused == {k \in overridden : <<k, Fallback(k)>> \in Invalid}
<1>1. CASE Limited
  BY <1>1, RefuseTypes DEF Limited
<1>2. CASE /\ Allow
           /\ live' = [k \in Keys |-> IF k \in overridden THEN Hooking(k, Fallback(k)) ELSE live[k]]
           /\ values' = NoValues
           /\ history' = Append(history, Record("ALL", None))
           /\ Save
           /\ applied' = (applied \cup overridden) \ refused
           /\ UNCHANGED <<unsynced, lost>>
  <2>1. ASSUME NEW k \in Keys PROVE Hooking(k, Fallback(k)) \in Values /\ live[k] \in Values
    BY FallbackType, HookingType DEF TypeOK
  <2>2. live' \in [Keys -> Values]
    BY <1>2, <2>1
  <2>3. history' \in Histories
    BY <1>2, RecordType, AppendType DEF TypeOK, Histories
  <2>4. Memory
    BY <1>2, <2>2, <2>3 DEF Memory, NoValues, Maybe
  <2>5. applied' \in SUBSET Keys
    BY <1>2 DEF TypeOK
  <2>6. lost' \in BOOLEAN
    BY <1>2, Zenon DEF TypeOK
  <2>7. unsynced' \in (Keys \X Maybe) \cup {NoSync}
    BY <1>2 DEF TypeOK
  <2>8. QED  BY <1>2, <2>4, <2>5, <2>6, <2>7, ChangeTypes
<1>3. QED  BY <1>1, <1>2 DEF ResetAll

LEMMA UndoTypes ==
  ASSUME TypeOK, Undo
  PROVE  CallTypes
<1> DEFINE last == history[Len(history)]
           k == last.key
           active == IF last.old = Empty THEN Fallback(k) ELSE last.old
<1>1. CASE Limited
  BY <1>1, RefuseTypes DEF Limited
<1>2. CASE Allow /\ Refuse
  BY <1>2, RefuseTypes
<1>3. CASE /\ Allow /\ history # <<>>
           /\ history' = SubSeq(history, 1, Len(history) - 1)
           /\ lost' = TRUE
           /\ said' = "error"
           /\ UNCHANGED <<disk, values, live, unsynced, applied>>
  <2>1. history' \in Histories
    BY <1>3, ShorterType DEF TypeOK, Histories
  <2>2. Memory
    BY <1>3, <2>1 DEF TypeOK, Memory
  <2>3. Disk /\ recent' \in 0..EditLimit
    BY <1>3, SameDisk, AllowType
  <2>4. QED  BY <1>3, <2>2, <2>3 DEF CallTypes, TypeOK
<1>4. CASE /\ Allow /\ history # <<>>
           /\ k # "ALL"
           /\ history' = SubSeq(history, 1, Len(history) - 1)
           /\ values' = [values EXCEPT ![k] = IF last.old = Empty THEN None ELSE last.old]
           /\ live' = [live EXCEPT ![k] = Hooking(k, active)]
           /\ Save
           /\ applied' = IF <<k, active>> \in Invalid THEN applied \ {k} ELSE applied \cup {k}
           /\ lost' = (lost \/ (last.old = Empty /\ Fallback(k) # Empty) \/ ~Comparable)
           /\ UNCHANGED unsynced
  <2>1. history' \in Histories /\ last \in Records
    BY <1>4, ShorterType DEF TypeOK, Histories
  <2>2. k \in Keys /\ last.old \in Values
    BY <1>4, <2>1, RecordFields
  <2>3. active \in Values
    BY <2>2, FallbackType DEF TypeOK
  <2>4. live' \in [Keys -> Values]
    BY <1>4, <2>2, <2>3, LiveType
  <2>5. values' \in [Keys -> Maybe]
    BY <1>4, <2>2 DEF TypeOK, Maybe
  <2>6. Memory
    BY <2>1, <2>4, <2>5 DEF Memory
  <2>7. applied' \in SUBSET Keys
    BY <1>4, <2>2 DEF TypeOK
  <2>8. lost' \in BOOLEAN
    BY <1>4, Zenon DEF TypeOK
  <2>9. unsynced' \in (Keys \X Maybe) \cup {NoSync}
    BY <1>4 DEF TypeOK
  <2>10. QED  BY <1>4, <2>6, <2>7, <2>8, <2>9, ChangeTypes
<1>5. QED  BY <1>1, <1>2, <1>3, <1>4 DEF Undo

\* A call of the manager: from a command, a button or an import.
Call ==
  \/ \E k \in Keys : \E v \in Values : SetCall(k, v)
  \/ \E k \in Keys : Reset(k)
  \/ ResetAll
  \/ Undo

LEMMA CallsTypes ==
  ASSUME TypeOK, Call
  PROVE  CallTypes
BY SetTypes, ResetTypes, ResetAllTypes, UndoTypes DEF Call

\* The calls leave the process and .env alone.
LEMMA CallsLeave ==
  ASSUME Call
  PROVE  UNCHANGED <<dotenv, trusted, up, restarts, environ, owner>> /\ up
BY DEF Call, SetCall, Reset, ResetAll, Undo, Free

\* The actions by what they are.
Sync == SyncEnv \/ WindowMoves
Importing == (\E f \in Files : Import(f)) \/ ConfirmImport \/ CancelImport

LEMMA Steps ==
  ASSUME Next, applying \in PartialValues
  PROVE  \/ Call /\ UNCHANGED imports
         \/ Call /\ UNCHANGED pending
              /\ \E K \in SUBSET DOMAIN applying :
                    applying' = [l \in K |-> applying[l]] \/ applying' = NoImport
         \/ Sync \/ Importing \/ Exit \/ Start
<1>1. ASSUME NEW k \in Keys, NEW v \in Values \ {Empty}, Set(k, v) PROVE Call /\ UNCHANGED imports
  BY <1>1 DEF Set, Call
<1>2. ASSUME NEW k \in Keys, Reset(k) PROVE Call /\ UNCHANGED imports
  BY <1>2 DEF Reset, Call
<1>3. CASE ResetAll \/ Undo
  BY <1>3 DEF Call, ResetAll, Undo
<1>4. ASSUME NEW k \in Keys, ApplyImport(k)
      PROVE  /\ Call /\ UNCHANGED pending
             /\ \E K \in SUBSET DOMAIN applying :
                   applying' = [l \in K |-> applying[l]] \/ applying' = NoImport
  <2>1. PICK S \in SUBSET Keys : applying \in [S -> Values]
    BY DEF PartialValues
  <2>2. applying[k] \in Values
    BY <1>4, <2>1 DEF ApplyImport
  <2>3. Call /\ UNCHANGED pending
    BY <1>4, <2>2 DEF ApplyImport, Call
  <2>4. DOMAIN applying \ {k} \in SUBSET DOMAIN applying
    OBVIOUS
  <2>5. QED  BY <1>4, <2>3, <2>4 DEF ApplyImport
<1>5. QED  BY <1>1, <1>2, <1>3, <1>4 DEF Next, Sync, Importing

LEMMA HeirsType ==
  ASSUME NEW k \in Keys, NEW v \in Maybe
  PROVE  Heirs(k, v) \subseteq People \cup {Nobody}
<1>1. ASSUME v # None, Contains(IdList[v], owner) PROVE Head(IdList[v]) \in People
  <2>1. IdList[v] \in Seq(People)
    BY <1>1, OwnerAssumption DEF Maybe
  <2>2. IdList[v] # <<>>
    BY <1>1 DEF Contains
  <2>3. QED  BY <2>1, <2>2
<1>2. QED  BY <1>1 DEF Heirs

LEMMA OwnerType ==
  ASSUME NEW e \in [Keys -> Maybe]
  PROVE  OwnerOf(e) \in People \cup {Nobody}
<1>1. IdsIn(e) \in Seq(People)
  BY OwnerAssumption DEF IdsIn, Maybe
<1>2. IdsIn(e) # <<>> => Head(IdsIn(e)) \in People
  BY <1>1
<1>3. QED  BY <1>2, OwnerAssumption DEF OwnerOf

LEMMA SyncTypes ==
  ASSUME TypeOK, Sync
  PROVE  TypeOK'
<1>1. CASE SyncEnv
  <2>1. dotenv' \in [Keys -> Maybe]
    <3>1. unsynced \in Keys \X Maybe
      BY <1>1 DEF TypeOK, SyncEnv
    <3>2. QED  BY <1>1, <3>1 DEF TypeOK, SyncEnv
  <2>2. up' \in BOOLEAN /\ lost' \in BOOLEAN
    BY <1>1, Zenon DEF TypeOK, SyncEnv
  <2>3. trusted' \in SUBSET (People \cup {Nobody})
    <3>1. unsynced \in Keys \X Maybe
      BY <1>1 DEF TypeOK, SyncEnv
    <3>2. Heirs(unsynced[1], unsynced[2]) \subseteq People \cup {Nobody}
      BY <3>1, HeirsType
    <3>3. QED  BY <1>1, <3>2 DEF TypeOK, SyncEnv
  <2>4. QED  BY <1>1, <2>1, <2>2, <2>3 DEF TypeOK, SyncEnv
<1>2. CASE WindowMoves
  <2>1. recent' \in 0..EditLimit
    BY <1>2, BoundsAssumption DEF TypeOK, WindowMoves
  <2>2. up' \in BOOLEAN /\ lost' \in BOOLEAN
    BY <1>2, Zenon DEF TypeOK, WindowMoves
  <2>3. QED  BY <1>2, <2>1, <2>2 DEF TypeOK, WindowMoves
<1>3. QED  BY <1>1, <1>2 DEF Sync

LEMMA ImportingTypes ==
  ASSUME TypeOK, Importing
  PROVE  TypeOK'
<1>1. pending' \in PartialValues /\ applying' \in PartialValues
  <2>1. ASSUME NEW f \in Files, Import(f) PROVE pending' \in PartialValues /\ UNCHANGED applying
    <3>1. f \in PartialValues
      BY FilesAssumption
    <3>2. QED  BY <2>1, <3>1, PartsOfPartialValues DEF Import
  <2>2. CASE ConfirmImport \/ CancelImport
    BY <2>2, NothingToImport DEF TypeOK, ConfirmImport, CancelImport
  <2>3. QED  BY <2>1, <2>2 DEF TypeOK, Importing
<1>2. UNCHANGED <<durable, process, values, history, live, recent, unsynced, said, applied, lost>>
  BY DEF Importing, Import, ConfirmImport, CancelImport
<1>3. up' \in BOOLEAN /\ lost' \in BOOLEAN
  BY <1>2, Zenon DEF TypeOK
<1>4. QED  BY <1>1, <1>2, <1>3 DEF TypeOK

LEMMA CallingTypes ==
  ASSUME TypeOK, Call, pending' \in PartialValues, applying' \in PartialValues
  PROVE  TypeOK'
<1>1. CallTypes
  BY CallsTypes
<1>2. UNCHANGED <<dotenv, trusted, up, restarts, environ, owner>>
  BY CallsLeave
<1>3. up' \in BOOLEAN
  BY <1>2, Zenon DEF TypeOK
<1>4. QED  BY <1>1, <1>2, <1>3 DEF TypeOK, CallTypes, Memory, Disk, Histories, SavedFiles

LEMMA ExitTypes ==
  ASSUME TypeOK, Exit
  PROVE  TypeOK'
<1>1. restarts' \in 0..MaxRestarts
  BY BoundsAssumption DEF TypeOK, Exit
<1>2. up' \in BOOLEAN /\ lost' \in BOOLEAN
  BY Zenon DEF TypeOK, Exit
<1>3. values' \in [Keys -> Maybe] /\ environ' \in [Keys -> Maybe] /\ live' \in [Keys -> Values]
  BY EnvironmentAssumption DEF Exit, NoValues, Maybe
<1>4. recent' \in 0..EditLimit
  BY BoundsAssumption DEF Exit
<1>5. pending' \in PartialValues /\ applying' \in PartialValues
  BY NothingToImport DEF Exit
<1>6. QED  BY <1>1, <1>2, <1>3, <1>4, <1>5 DEF TypeOK, Exit

LEMMA StartTypes ==
  ASSUME TypeOK, Start
  PROVE  TypeOK'
<1>1. environ' \in [Keys -> Maybe]
  BY EnvironmentAssumption DEF TypeOK, Start, Environment
<1>1a. owner' \in People \cup {Nobody}
  BY <1>1, OwnerType DEF Start
<1>2. live' \in [Keys -> Values]
  <2>1. \A k \in Keys : Loaded(environ', k) \in Values
    BY <1>1, EnvironmentAssumption DEF Loaded, Maybe
  <2>2. QED  BY <2>1 DEF Start
<1>3. values' \in [Keys -> Maybe]
  BY DEF TypeOK, Start, Maybe
<1>4. up' \in BOOLEAN /\ lost' \in BOOLEAN
  BY Zenon DEF TypeOK, Start
<1>5. history' \in Seq(Records)
  BY DEF TypeOK, Start
<1>6. QED  BY <1>1, <1>1a, <1>2, <1>3, <1>4, <1>5 DEF TypeOK, Start

LEMMA InitTypes == Init => TypeOK
<1> SUFFICES ASSUME Init PROVE TypeOK
  OBVIOUS
<1>1. NoValues \in [Keys -> Maybe]
  BY DEF NoValues, Maybe
<1>2. disk \in [values : [Keys -> Maybe], history : Seq(Records)] /\ Len(disk.history) <= HistoryLimit
  BY <1>1, BoundsAssumption DEF Init
<1>3. up \in BOOLEAN /\ lost \in BOOLEAN
  BY Zenon DEF Init
<1>4. pending \in PartialValues /\ applying \in PartialValues
  BY NothingToImport DEF Init
<1>5. owner \in People \cup {Nobody} /\ trusted \in SUBSET (People \cup {Nobody})
  <2>1. Environment \in [Keys -> Maybe]
    BY EnvironmentAssumption DEF Init, Environment
  <2>2. QED  BY <2>1, OwnerType DEF Init
<1>6. QED  BY <1>1, <1>2, <1>3, <1>4, <1>5, BoundsAssumption, EnvironmentAssumption DEF Init, TypeOK

LEMMA NextTypes == TypeOK /\ [Next]_vars => TypeOK'
<1> SUFFICES ASSUME TypeOK, [Next]_vars PROVE TypeOK'
  OBVIOUS
<1> applying \in PartialValues /\ pending \in PartialValues
  BY DEF TypeOK
<1>1. CASE Call /\ UNCHANGED imports
  BY <1>1, CallingTypes
<1>2. CASE /\ Call /\ UNCHANGED pending
           /\ \E K \in SUBSET DOMAIN applying :
                 applying' = [l \in K |-> applying[l]] \/ applying' = NoImport
  BY <1>2, CallingTypes, PartsOfPartialValues, NothingToImport
<1>3. CASE Sync \/ Importing \/ Exit \/ Start
  BY <1>3, SyncTypes, ImportingTypes, ExitTypes, StartTypes
<1>4. CASE UNCHANGED vars
  <2>1. up' \in BOOLEAN /\ lost' \in BOOLEAN
    BY <1>4, Zenon DEF TypeOK, vars
  <2>2. QED  BY <1>4, <2>1 DEF TypeOK, vars
<1>5. QED  BY <1>1, <1>2, <1>3, <1>4, Steps

\* The types hold for any settings, documents, limits and number of restarts.
THEOREM TypeCorrect == Spec => []TypeOK
BY InitTypes, NextTypes, PTL DEF Spec

-----------------------------------------------------------------------------
(***************************************************************************)
(* A process that is not up has said and applied nothing.                  *)
(***************************************************************************)
Quiet == ~up => said = "none" /\ applied = {}

LEMMA InitQuiet == Init => Quiet
BY DEF Init, Quiet

LEMMA NextQuiet == TypeOK /\ Quiet /\ [Next]_vars => Quiet'
<1> SUFFICES ASSUME TypeOK, Quiet, [Next]_vars PROVE Quiet'
  OBVIOUS
<1> applying \in PartialValues
  BY DEF TypeOK
<1>1. CASE Call
  BY <1>1, CallsLeave DEF Quiet
<1>2. CASE Sync \/ Importing
  BY <1>2 DEF Quiet, Sync, SyncEnv, WindowMoves, Importing, Import, ConfirmImport, CancelImport, Free
<1>3. CASE Exit \/ Start
  BY <1>3 DEF Quiet, Exit, Start
<1>4. CASE UNCHANGED vars
  BY <1>4 DEF Quiet, vars
<1>5. QED  BY <1>1, <1>2, <1>3, <1>4, Steps

-----------------------------------------------------------------------------
(***************************************************************************)
(* What is confirmed is on disk.                                           *)
(***************************************************************************)
\* Every call ends with a save or says that it failed, or changes nothing.
LEMMA CallsSave ==
  ASSUME SavedWhenConfirmed, Call
  PROVE  SavedWhenConfirmed'
<1>1. CASE Refuse
  BY <1>1 DEF Refuse, SavedWhenConfirmed
<1>2. CASE Save
  BY <1>2 DEF Save, SavedWhenConfirmed
<1>3. ASSUME NEW k \in Keys, NEW v \in Values, SetCall(k, v) PROVE SavedWhenConfirmed'
  BY <1>1, <1>2, <1>3 DEF SetCall, Limited, HookError, SavedWhenConfirmed
<1>4. ASSUME NEW k \in Keys, Reset(k) PROVE SavedWhenConfirmed'
  BY <1>1, <1>2, <1>4 DEF Reset, Limited, HookError, SavedWhenConfirmed
<1>5. CASE ResetAll
  BY <1>1, <1>2, <1>5 DEF ResetAll, Limited
<1>6. CASE Undo
  BY <1>1, <1>2, <1>6 DEF Undo, Limited, SavedWhenConfirmed
<1>7. QED  BY <1>3, <1>4, <1>5, <1>6 DEF Call

LEMMA NextSaved == TypeOK /\ Quiet /\ SavedWhenConfirmed /\ [Next]_vars => SavedWhenConfirmed'
<1> SUFFICES ASSUME TypeOK, Quiet, SavedWhenConfirmed, [Next]_vars PROVE SavedWhenConfirmed'
  OBVIOUS
<1> applying \in PartialValues
  BY DEF TypeOK
<1>1. CASE Call
  BY <1>1, CallsSave
<1>2. CASE Sync \/ Importing
  BY <1>2 DEF SavedWhenConfirmed, Sync, SyncEnv, WindowMoves, Importing, Import, ConfirmImport, CancelImport
<1>3. CASE Exit
  BY <1>3 DEF SavedWhenConfirmed, Exit
<1>4. CASE Start
  BY <1>4 DEF SavedWhenConfirmed, Start, Quiet
<1>5. CASE UNCHANGED vars
  BY <1>5 DEF SavedWhenConfirmed, vars
<1>6. QED  BY <1>1, <1>2, <1>3, <1>4, <1>5, Steps

\* Whatever fails and whenever the process ends, a change that was confirmed is
\* in settings.json with the latest records of the history.
THEOREM ConfirmedIsSaved == Spec => []SavedWhenConfirmed
<1>1. Init => SavedWhenConfirmed
  BY DEF Init, SavedWhenConfirmed
<1>2. QED  BY InitTypes, NextTypes, InitQuiet, NextQuiet, <1>1, NextSaved, PTL DEF Spec

-----------------------------------------------------------------------------
(***************************************************************************)
(* What is used is what is shown.                                          *)
(***************************************************************************)
\* A hook that failed leaves the config as it was or takes the key out of applied.
LEMMA HookErrorLive ==
  ASSUME LiveIsShown, NEW k \in Keys, NEW v \in Values, HookError(k, v), up, UNCHANGED environ
  PROVE  LiveIsShown'
<1> SUFFICES ASSUME NEW l \in applied' \cap Hooked PROVE live'[l] = Effective(l)'
  BY DEF LiveIsShown
<1>1. Effective(l)' = Effective(l) /\ l \in applied
  BY DEF HookError, Effective, Fallback
<1>2. live[l] = Effective(l)
  BY <1>1 DEF LiveIsShown
<1>3. live'[l] = live[l]
  BY DEF HookError, HookMayFail, Hooking
<1>4. QED  BY <1>1, <1>2, <1>3

\* One key is set to a value or to its fallback, and its hook is called.
LEMMA OneKeyLive ==
  ASSUME TypeOK, LiveIsShown, up, UNCHANGED environ,
         NEW k \in Keys, NEW v \in Values, NEW o \in Maybe,
         v = IF o = None THEN Fallback(k) ELSE o,
         values' = [values EXCEPT ![k] = o],
         live' = [live EXCEPT ![k] = Hooking(k, v)],
         applied' \in {applied \cup {k}, applied \ {k}},
         k \in applied' => HookMaySucceed(k, v)
  PROVE  LiveIsShown'
<1> SUFFICES ASSUME NEW l \in applied' \cap Hooked PROVE live'[l] = Effective(l)'
  BY DEF LiveIsShown
<1> l \in Keys
  BY KeysAssumption
<1>1. CASE l = k
  <2>1. live'[k] = v
    BY <1>1 DEF TypeOK, HookMaySucceed, Hooking
  <2>2. Effective(k)' = v
    BY DEF TypeOK, Effective, Fallback
  <2>3. QED  BY <1>1, <2>1, <2>2
<1>2. CASE l # k
  <2>1. l \in applied /\ live'[l] = live[l]
    BY <1>2 DEF TypeOK
  <2>2. Effective(l)' = Effective(l)
    BY <1>2 DEF TypeOK, Effective, Fallback
  <2>3. QED  BY <2>1, <2>2 DEF LiveIsShown
<1>3. QED  BY <1>1, <1>2

LEMMA SameLive ==
  ASSUME LiveIsShown, up, UNCHANGED <<environ, values, live, applied>>
  PROVE  LiveIsShown'
BY DEF LiveIsShown, Effective, Fallback

LEMMA ResetAllLive ==
  ASSUME TypeOK, LiveIsShown, ResetAll, UNCHANGED environ
  PROVE  LiveIsShown'
<1> DEFINE overridden == {k \in Keys : values[k] # None}
           refused == {k \in overridden : <<k, Fallback(k)>> \in Invalid}
<1>1. CASE Limited
  BY <1>1, SameLive DEF ResetAll, Free, Limited, Refuse
<1>2. CASE /\ live' = [k \in Keys |-> IF k \in overridden THEN Hooking(k, Fallback(k)) ELSE live[k]]
           /\ values' = NoValues
           /\ applied' = (applied \cup overridden) \ refused
  <2> SUFFICES ASSUME NEW l \in applied' \cap Hooked PROVE live'[l] = Effective(l)'
    BY DEF LiveIsShown
  <2> l \in Keys
    BY KeysAssumption
  <2>1. Effective(l)' = Fallback(l)
    BY <1>2 DEF Effective, Fallback, NoValues
  <2>2. CASE l \in overridden
    BY <1>2, <2>1, <2>2 DEF Hooking
  <2>3. CASE l \notin overridden
    BY <1>2, <2>1, <2>3 DEF ResetAll, Free, LiveIsShown, Effective
  <2>4. QED  BY <2>2, <2>3
<1>3. QED  BY <1>1, <1>2 DEF ResetAll

LEMMA UndoLive ==
  ASSUME TypeOK, LiveIsShown, Undo, UNCHANGED environ
  PROVE  LiveIsShown'
<1> DEFINE last == history[Len(history)]
           k == last.key
           o == IF last.old = Empty THEN None ELSE last.old
           active == IF last.old = Empty THEN Fallback(k) ELSE last.old
<1>1. CASE UNCHANGED <<values, live, applied>>
  BY <1>1, SameLive DEF Undo, Free
<1>2. CASE /\ history # <<>>
           /\ k # "ALL"
           /\ values' = [values EXCEPT ![k] = o]
           /\ live' = [live EXCEPT ![k] = Hooking(k, active)]
           /\ applied' = IF <<k, active>> \in Invalid THEN applied \ {k} ELSE applied \cup {k}
  <2>1. last \in Records
    BY <1>2, ShorterType DEF TypeOK, Histories
  <2>2. k \in Keys /\ last.old \in Values
    BY <1>2, <2>1, RecordFields
  <2>3. active \in Values /\ o \in Maybe
    BY <2>2, FallbackType DEF TypeOK, Maybe
  <2>4. active = IF o = None THEN Fallback(k) ELSE o
    BY <2>2, ValuesAssumption
  <2>5. applied' \in {applied \cup {k}, applied \ {k}} /\ (k \in applied' => HookMaySucceed(k, active))
    BY <1>2 DEF HookMaySucceed
  <2>6. up
    BY DEF Undo, Free
  <2> HIDE DEF k, o, active
  <2>7. values' = [values EXCEPT ![k] = o] /\ live' = [live EXCEPT ![k] = Hooking(k, active)]
    BY <1>2
  <2>8. QED  BY <2>2, <2>3, <2>4, <2>5, <2>6, <2>7, OneKeyLive
<1>3. QED  BY <1>1, <1>2 DEF Undo, Limited, Refuse

LEMMA CallsLive ==
  ASSUME TypeOK, LiveIsShown, Call
  PROVE  LiveIsShown'
<1> up /\ UNCHANGED environ
  BY CallsLeave
<1>1. ASSUME NEW k \in Keys, NEW v \in Values, SetCall(k, v) PROVE LiveIsShown'
  <2>1. CASE Refuse
    BY <2>1, SameLive DEF Refuse
  <2>2. CASE HookError(k, v)
    BY <2>2, HookErrorLive
  <2>3. CASE /\ HookMaySucceed(k, v)
             /\ live' = [live EXCEPT ![k] = Hooking(k, v)]
             /\ values' = [values EXCEPT ![k] = v]
             /\ applied' = applied \cup {k}
    <3>1. v \in Maybe /\ v # None
      BY ValuesAssumption DEF Maybe
    <3>2. QED  BY <2>3, <3>1, OneKeyLive
  <2>4. QED  BY <1>1, <2>1, <2>2, <2>3 DEF SetCall, Limited
<1>2. ASSUME NEW k \in Keys, Reset(k) PROVE LiveIsShown'
  <2>1. CASE UNCHANGED <<values, live, applied>>
    BY <2>1, SameLive
  <2>2. CASE HookError(k, Fallback(k))
    BY <2>2, HookErrorLive, FallbackType DEF TypeOK
  <2>3. CASE /\ HookMaySucceed(k, Fallback(k))
             /\ live' = [live EXCEPT ![k] = Hooking(k, Fallback(k))]
             /\ values' = [values EXCEPT ![k] = None]
             /\ applied' = applied \cup {k}
    <3>1. Fallback(k) \in Values /\ None \in Maybe
      BY FallbackType DEF TypeOK, Maybe
    <3>2. QED  BY <2>3, <3>1, OneKeyLive
  <2>4. QED  BY <1>2, <2>1, <2>2, <2>3 DEF Reset, Limited, Refuse
<1>3. CASE ResetAll \/ Undo
  BY <1>3, ResetAllLive, UndoLive
<1>4. QED  BY <1>1, <1>2, <1>3 DEF Call

LEMMA NextLive == TypeOK /\ Quiet /\ LiveIsShown /\ [Next]_vars => LiveIsShown'
<1> SUFFICES ASSUME TypeOK, Quiet, LiveIsShown, [Next]_vars PROVE LiveIsShown'
  OBVIOUS
<1> applying \in PartialValues
  BY DEF TypeOK
<1>1. CASE Call
  BY <1>1, CallsLive
<1>2. CASE UNCHANGED <<up, environ, values, live, applied>>
  BY <1>2 DEF LiveIsShown, Effective, Fallback
<1>3. CASE Sync \/ Importing
  BY <1>2, <1>3 DEF Sync, SyncEnv, WindowMoves, Importing, Import, ConfirmImport, CancelImport
<1>4. CASE Exit \/ Start
  BY <1>4 DEF LiveIsShown, Exit, Start, Quiet
<1>5. CASE UNCHANGED vars
  BY <1>2, <1>5 DEF vars
<1>6. QED  BY <1>1, <1>3, <1>4, <1>5, Steps

\* Every setting that was given to its hook has in the config the value that the
\* manager shows, whatever the calls, their failures and their order.
THEOREM ShownIsUsed == Spec => []LiveIsShown
<1>1. Init => LiveIsShown
  BY DEF Init, LiveIsShown
<1>2. QED  BY InitTypes, NextTypes, InitQuiet, NextQuiet, <1>1, NextLive, PTL DEF Spec

-----------------------------------------------------------------------------
(***************************************************************************)
(* The owner.  Whom a start makes the owner depends on one line of the     *)
(* environment, which only SyncEnv changes.                                *)
(***************************************************************************)
\* Where OWNER_ID names nobody, the present owner is in the list of the next start,
\* unless that list is empty.
InNextList == \/ IdsIn(Environment) = <<>>
         \/ Contains(IdsIn(Environment), owner)

\* What SyncEnv is about to write was accepted for this owner.
Vetted == unsynced # NoSync /\ unsynced[1] = UserList /\ unsynced[2] # None =>
             KeepsOwner(unsynced[2])

OwnerInv ==
  /\ OwnerOf(Environment) \in trusted
  /\ up /\ owner # Nobody /\ ExplicitOwner = Nobody => InNextList
  /\ Vetted
  /\ ~up => unsynced = NoSync

LEMMA OwnerFromInv ==
  ASSUME OwnerInv
  PROVE  OwnerKept
BY DEF OwnerInv, OwnerKept, HasOwner, InNextList, OwnerOf

LEMMA EnvironmentType ==
  ASSUME TypeOK
  PROVE  IdsIn(Environment) \in Seq(People)
<1>1. Environment \in [Keys -> Maybe]
  BY EnvironmentAssumption DEF TypeOK, Environment
<1>2. QED  BY <1>1, OwnerAssumption DEF IdsIn, Maybe

\* Steps that leave .env and the owner alone.
LEMMA OwnerStays ==
  ASSUME OwnerInv, UNCHANGED <<envfile, owner>>, up' => up,
         Vetted', ~up' => unsynced' = NoSync
  PROVE  OwnerInv'
<1>1. Environment' = Environment
  BY DEF envfile, Environment
<1>2. IdsIn(Environment)' = IdsIn(Environment) /\ OwnerOf(Environment)' = OwnerOf(Environment)
  BY <1>1 DEF IdsIn, OwnerOf
<1>3. InNextList' = InNextList
  BY <1>2 DEF InNextList
<1>4. QED  BY <1>2, <1>3 DEF OwnerInv, envfile

LEMMA CallsVetted ==
  ASSUME Vetted, Call
  PROVE  Vetted'
<1>1. UNCHANGED owner
  BY CallsLeave
<1>2. CASE UNCHANGED unsynced
  BY <1>1, <1>2 DEF Vetted, KeepsOwner
<1>3. CASE unsynced' = NoSync
  BY <1>3 DEF Vetted
<1>4. ASSUME NEW k \in Keys, NEW v \in Values, Accepts(k, v), unsynced' = <<k, v>>
      PROVE  Vetted'
  BY <1>1, <1>4 DEF Vetted, Accepts, KeepsOwner
<1>5. ASSUME NEW k \in Keys, unsynced' = <<k, None>>
      PROVE  Vetted'
  BY <1>5 DEF Vetted
<1>6. ASSUME NEW k \in Keys, NEW v \in Values, SetCall(k, v) PROVE Vetted'
  BY <1>2, <1>3, <1>4, <1>6 DEF SetCall, Limited, Refuse, HookError
<1>7. ASSUME NEW k \in Keys, Reset(k) PROVE Vetted'
  BY <1>2, <1>3, <1>5, <1>7 DEF Reset, Limited, Refuse, HookError
<1>8. CASE ResetAll
  BY <1>2, <1>8 DEF ResetAll, Limited, Refuse
<1>9. CASE Undo
  BY <1>2, <1>9 DEF Undo, Limited, Refuse
<1>10. QED  BY <1>6, <1>7, <1>8, <1>9 DEF Call

\* The line of the list is replaced by one that has the owner, or commented out.
LEMMA SyncOwner ==
  ASSUME TypeOK, TypeOK', OwnerInv, SyncEnv
  PROVE  OwnerInv'
<1> DEFINE k == unsynced[1]
           v == unsynced[2]
<1>1. up /\ up' /\ unsynced # NoSync /\ unsynced' = NoSync /\ UNCHANGED owner
  BY DEF SyncEnv
<1>2. k \in Keys /\ v \in Maybe
  BY <1>1 DEF TypeOK
<1>3. Vetted' /\ (~up' => unsynced' = NoSync)
  BY <1>1 DEF Vetted
<1>4. CASE UNCHANGED envfile
  BY <1>1, <1>3, <1>4, OwnerStays
<1>5. CASE dotenv' = [dotenv EXCEPT ![k] = v] /\ trusted' = trusted \cup Heirs(k, v)
  <2>1. dotenv \in [Keys -> Maybe] /\ UserList \in Keys
    BY OwnerAssumption DEF TypeOK
  <2>2. CASE Environment'[UserList] = Environment[UserList]
    <3>1. IdsIn(Environment)' = IdsIn(Environment) /\ OwnerOf(Environment)' = OwnerOf(Environment)
      BY <2>2 DEF IdsIn, OwnerOf
    <3>2. QED  BY <1>1, <1>3, <1>5, <3>1 DEF OwnerInv, InNextList
  <2>3. CASE Environment'[UserList] # Environment[UserList]
    <3>1. k = UserList /\ Environment'[UserList] = v
      BY <1>2, <1>5, <2>1, <2>3 DEF Environment
    <3>2. CASE ExplicitOwner # Nobody
      BY <1>1, <1>3, <1>5, <3>2 DEF OwnerInv, OwnerOf
    <3>3. CASE ExplicitOwner = Nobody /\ v = None
      <4>1. IdsIn(Environment)' = <<>>
        BY <3>1, <3>3 DEF IdsIn
      <4>2. OwnerOf(Environment)' = Nobody /\ InNextList'
        BY <3>3, <4>1 DEF OwnerOf, InNextList
      <4>3. Nobody \in trusted'
        BY <1>5, <3>1, <3>3 DEF Heirs
      <4>4. QED  BY <1>3, <4>2, <4>3 DEF OwnerInv
    <3>4. CASE ExplicitOwner = Nobody /\ v # None
      <4>1. Contains(IdList[v], owner)
        BY <1>1, <3>1, <3>4 DEF OwnerInv, Vetted, KeepsOwner
      <4>2. IdsIn(Environment)' = IdList[v]
        BY <3>1, <3>4 DEF IdsIn
      <4>3. IdList[v] # <<>>
        BY <4>1 DEF Contains
      <4>4. OwnerOf(Environment)' = Head(IdList[v])
        BY <3>4, <4>2, <4>3 DEF OwnerOf
      <4>5. Head(IdList[v]) \in trusted'
        BY <1>5, <3>1, <3>4, <4>1 DEF Heirs
      <4>6. InNextList'
        BY <1>1, <4>1, <4>2 DEF InNextList
      <4>7. QED  BY <1>3, <4>4, <4>5, <4>6 DEF OwnerInv
    <3>5. QED  BY <3>2, <3>3, <3>4
  <2>4. QED  BY <2>2, <2>3
<1>6. QED  BY <1>4, <1>5 DEF SyncEnv

LEMMA StartOwner ==
  ASSUME TypeOK, OwnerInv, Start
  PROVE  OwnerInv'
<1>1. Environment' = Environment /\ UNCHANGED trusted
  BY DEF Start, Environment
<1>2. owner' = OwnerOf(Environment)
  BY DEF Start
<1>3. IdsIn(Environment)' = IdsIn(Environment) /\ OwnerOf(Environment)' = OwnerOf(Environment)
  BY <1>1 DEF IdsIn, OwnerOf
<1>4. unsynced' = NoSync
  BY DEF Start, OwnerInv
<1>5. ASSUME ExplicitOwner = Nobody, IdsIn(Environment) # <<>>
      PROVE  Contains(IdsIn(Environment), owner')
  <2>1. owner' = IdsIn(Environment)[1]
    BY <1>2, <1>5 DEF OwnerOf
  <2>2. Len(IdsIn(Environment)) \in Nat /\ Len(IdsIn(Environment)) # 0
    BY <1>5, EnvironmentType
  <2>3. QED  BY <2>1, <2>2 DEF Contains
<1>6. ExplicitOwner = Nobody => InNextList'
  BY <1>3, <1>5 DEF InNextList
<1>7. QED  BY <1>1, <1>3, <1>4, <1>6 DEF OwnerInv, Vetted

LEMMA NextOwner == TypeOK /\ TypeOK' /\ OwnerInv /\ [Next]_vars => OwnerInv'
<1> SUFFICES ASSUME TypeOK, TypeOK', OwnerInv, [Next]_vars PROVE OwnerInv'
  OBVIOUS
<1> applying \in PartialValues
  BY DEF TypeOK
<1>1. CASE Call
  <2>1. UNCHANGED <<envfile, up, owner>> /\ up
    BY <1>1, CallsLeave
  <2>2. QED  BY <1>1, <2>1, CallsVetted, OwnerStays DEF OwnerInv
<1>2. CASE UNCHANGED <<envfile, up, owner, unsynced>>
  <2>1. Vetted'
    BY <1>2 DEF OwnerInv, Vetted, KeepsOwner
  <2>2. QED  BY <1>2, <2>1, OwnerStays DEF OwnerInv
<1>3. CASE Importing \/ WindowMoves \/ UNCHANGED vars
  BY <1>2, <1>3 DEF WindowMoves, Importing, Import, ConfirmImport, CancelImport, vars
<1>4. CASE Exit
  <2>1. Environment' = Environment /\ UNCHANGED trusted /\ unsynced' = NoSync /\ ~up'
    BY <1>4 DEF Exit, Environment
  <2>2. OwnerOf(Environment)' = OwnerOf(Environment)
    BY <2>1 DEF OwnerOf, IdsIn
  <2>3. QED  BY <2>1, <2>2 DEF OwnerInv, Vetted
<1>5. QED  BY <1>1, <1>3, <1>4, SyncOwner, StartOwner, Steps DEF Sync

LEMMA InitOwner == Init => OwnerInv
BY DEF Init, OwnerInv, Vetted

\* For any lists of people, any environment and whatever part of .env is rewritten:
\* nobody becomes the owner whom no owner put first, and the present owner stays in
\* the list that the next start reads, unless that list was reset.
THEOREM OwnerIsKept == Spec => []OwnerKept
<1>1. TypeOK /\ TypeOK' /\ OwnerInv /\ [Next]_vars => OwnerInv'
  BY NextOwner
<1>2. QED  BY InitTypes, NextTypes, InitOwner, OwnerFromInv, <1>1, PTL DEF Spec

-----------------------------------------------------------------------------
(***************************************************************************)
(* Undo restores.  Each record differs from what follows it in one setting *)
(* only, as seen in the environment in which it was made.                  *)
(***************************************************************************)
FallbackIn(e, k) == IF e[k] # None THEN e[k] ELSE Default[k]
ShownIn(vals, e) == [k \in Keys |-> IF vals[k] # None THEN vals[k] ELSE FallbackIn(e, k)]

\* After the change r, s is shown; r has the old value of its setting.
Follows(s, r) ==
  r.key # "ALL" => r.old = r.shown[r.key] /\ \A k \in Keys \ {r.key} : s[k] = r.shown[k]

Linked(h) == \A i \in 1..(Len(h) - 1) : h[i].env = h[i + 1].env => Follows(h[i + 1].shown, h[i])
Ended(h, vals) == h # <<>> => Follows(ShownIn(vals, h[Len(h)].env), h[Len(h)])

\* A value that Validate refuses can only come from the environment; an undo makes
\* it an override, which the next start drops.
Refused(k, v) == v # None /\ <<k, v>> \in Invalid
Explained(r) == r.key # "ALL" /\ Refused(r.key, r.old) => r.old = FallbackIn(r.env, r.key)
AllExplained(h) == \A i \in 1..Len(h) : Explained(h[i])
Borrowed(vals, h) ==
  \A k \in Keys : Refused(k, vals[k]) => \A i \in 1..Len(h) : FallbackIn(h[i].env, k) = vals[k]
Standing == \A k \in Keys : Refused(k, values[k]) => values[k] = Fallback(k)

Chained(h, vals) == Linked(h) /\ Ended(h, vals) /\ AllExplained(h) /\ Borrowed(vals, h)

UndoInv ==
  ~lost => /\ Chained(disk.history, disk.values)
           /\ Chained(history, values)
           /\ up => Standing

LEMMA ShownHere == Shown = ShownIn(values, environ) /\ \A k : Fallback(k) = FallbackIn(environ, k)
BY DEF Shown, Effective, Fallback, ShownIn, FallbackIn

\* What Save keeps is the end of the history.
LEMMA RecentShift ==
  ASSUME NEW h \in Histories
  PROVE  \E n \in Nat : /\ n + Len(Recent(h)) = Len(h)
                        /\ \A i \in 1..Len(Recent(h)) : Recent(h)[i] = h[n + i]
                        /\ h # <<>> => Len(Recent(h)) > 0
<1>1. Len(h) \in Nat /\ (h # <<>> => Len(h) > 0) /\ HistoryLimit \in Nat /\ HistoryLimit > 0
  BY BoundsAssumption DEF Histories
<1>2. CASE Len(h) <= HistoryLimit
  <2>1. Recent(h) = h
    BY <1>1, <1>2 DEF Recent
  <2>2. 0 + Len(h) = Len(h) /\ \A i \in 1..Len(h) : h[i] = h[0 + i]
    BY <1>1
  <2>3. QED  BY <1>1, <2>1, <2>2
<1>3. CASE Len(h) > HistoryLimit
  <2> DEFINE n == Len(h) - HistoryLimit
             r == SubSeq(h, n + 1, Len(h))
  <2>1. Recent(h) = r
    BY <1>3 DEF Recent
  <2>2. Len(r) = HistoryLimit /\ \A i \in 1..Len(r) : r[i] = h[n + i]
    BY <1>1, <1>3 DEF Histories
  <2>3. n \in Nat /\ n + HistoryLimit = Len(h)
    BY <1>1, <1>3
  <2> HIDE DEF r, n
  <2>4. QED  BY <1>1, <2>1, <2>2, <2>3
<1>4. QED  BY <1>1, <1>2, <1>3

LEMMA RecentChained ==
  ASSUME NEW h \in Histories, NEW vals, Chained(h, vals)
  PROVE  Chained(Recent(h), vals)
<1> DEFINE r == Recent(h)
<1>1. PICK n \in Nat : /\ n + Len(r) = Len(h)
                       /\ \A i \in 1..Len(r) : r[i] = h[n + i]
                       /\ h # <<>> => Len(r) > 0
  BY RecentShift
<1>2. Len(r) \in Nat /\ (r # <<>> => Len(r) > 0)
  BY RecentType DEF Histories
<1>3. r # <<>> => h # <<>>
  BY <1>1, <1>2 DEF Histories
<1> HIDE DEF r
<1>4. \A i \in 1..Len(r) : n + i \in 1..Len(h)
  BY <1>1, <1>2
<1>5. Linked(r)
  <2> SUFFICES ASSUME NEW i \in 1..(Len(r) - 1), r[i].env = r[i + 1].env
               PROVE  Follows(r[i + 1].shown, r[i])
    BY DEF Linked
  <2>1. r[i] = h[n + i] /\ r[i + 1] = h[n + i + 1] /\ n + i \in 1..(Len(h) - 1)
    BY <1>1, <1>2
  <2>2. QED  BY <2>1 DEF Chained, Linked
<1>6. Ended(r, vals)
  <2>1. ASSUME r # <<>> PROVE r[Len(r)] = h[Len(h)]
    BY <1>1, <1>2, <2>1
  <2>2. QED  BY <1>3, <2>1 DEF Chained, Ended
<1>7. AllExplained(r) /\ Borrowed(vals, r)
  BY <1>1, <1>4 DEF Chained, AllExplained, Borrowed
<1>8. QED  BY <1>5, <1>6, <1>7 DEF Chained, r

\* A change is recorded.
LEMMA AppendChained ==
  ASSUME TypeOK, Chained(history, values), Standing,
         NEW r \in Records, r.shown = Shown, r.env = environ, Explained(r),
         NEW vals, Follows(ShownIn(vals, environ), r),
         \A k \in Keys : Refused(k, vals[k]) => vals[k] = values[k]
  PROVE  Chained(Append(history, r), vals)
<1> DEFINE h == history
           a == Append(h, r)
           n == Len(h)
<1>1. n \in Nat /\ (n > 0 => h # <<>>)
  BY DEF TypeOK
<1>2. Len(a) = n + 1 /\ a[n + 1] = r /\ \A i \in 1..n : a[i] = h[i]
  BY DEF TypeOK
<1> HIDE DEF a, n, h
<1>3. Linked(a)
  <2> SUFFICES ASSUME NEW i \in 1..n, a[i].env = a[i + 1].env
               PROVE  Follows(a[i + 1].shown, a[i])
    BY <1>1, <1>2 DEF Linked
  <2>1. CASE i < n
    <3>1. a[i] = h[i] /\ a[i + 1] = h[i + 1] /\ i \in 1..(n - 1)
      BY <1>1, <1>2, <2>1
    <3>2. QED  BY <3>1 DEF Chained, Linked, h, n
  <2>2. CASE i = n
    <3>1. a[i] = h[n] /\ a[i + 1] = r /\ h # <<>>
      BY <1>1, <1>2, <2>2
    <3>2. Follows(ShownIn(values, h[n].env), h[n])
      BY <3>1 DEF Chained, Ended, h, n
    <3>3. QED  BY <3>1, <3>2, ShownHere
  <2>3. QED  BY <1>1, <2>1, <2>2
<1>4. Ended(a, vals)
  BY <1>1, <1>2 DEF Ended
<1>5. AllExplained(a)
  BY <1>1, <1>2 DEF AllExplained, Chained, h, n
<1>6. Borrowed(vals, a)
  <2> SUFFICES ASSUME NEW k \in Keys, Refused(k, vals[k]), NEW i \in 1..(n + 1)
               PROVE  FallbackIn(a[i].env, k) = vals[k]
    BY <1>2 DEF Borrowed
  <2>1. vals[k] = values[k] /\ values[k] = FallbackIn(environ, k) /\ Refused(k, values[k])
    BY ShownHere DEF Standing
  <2>2. CASE i \in 1..n
    BY <1>2, <2>1, <2>2 DEF Chained, Borrowed, h, n
  <2>3. CASE i = n + 1
    BY <1>2, <2>1, <2>3
  <2>4. QED  BY <1>1, <2>2, <2>3
<1>7. QED  BY <1>3, <1>4, <1>5, <1>6 DEF Chained, a, h

\* An undo that takes nothing away.
Restoring ==
  LET r == history[Len(history)]
  IN /\ history # <<>>
     /\ r.key # "ALL"
     /\ history' = SubSeq(history, 1, Len(history) - 1)
     /\ values' = [values EXCEPT ![r.key] = IF r.old = Empty THEN None ELSE r.old]
     /\ r.old = Empty => Fallback(r.key) = Empty
     /\ Comparable
     /\ UNCHANGED environ

LEMMA RestoringShown ==
  ASSUME TypeOK, Chained(history, values), Restoring
  PROVE  Shown' = history[Len(history)].shown
<1> DEFINE r == history[Len(history)]
<1>1. r \in Records /\ Len(history) \in 1..Len(history)
  BY ShorterType DEF Restoring, TypeOK, Histories
<1>2. r.key \in Keys /\ r.old \in Values /\ r.shown \in [Keys -> Values] /\ r.env = environ
  BY <1>1, RecordFields DEF Restoring, Comparable, Records
<1>3. Follows(Shown, r)
  BY <1>2, ShownHere DEF Chained, Ended, Restoring
<1>4. Shown' = [k \in Keys |-> IF values'[k] # None THEN values'[k] ELSE Fallback(k)]
  BY DEF Restoring, Shown, Effective, Fallback
<1>5. ASSUME NEW k \in Keys PROVE Shown'[k] = r.shown[k]
  <2>1. CASE k = r.key
    <3>1. values'[k] = IF r.old = Empty THEN None ELSE r.old
      BY <2>1 DEF Restoring, TypeOK
    <3>2. Shown'[k] = r.old
      BY <1>2, <1>4, <2>1, <3>1, ValuesAssumption DEF Restoring
    <3>3. QED  BY <1>3, <2>1, <3>2 DEF Follows, Restoring
  <2>2. CASE k # r.key
    <3>1. values'[k] = values[k]
      BY <2>2 DEF Restoring, TypeOK
    <3>2. Shown'[k] = Shown[k]
      BY <1>4, <3>1 DEF Shown, Effective
    <3>3. QED  BY <1>3, <2>2, <3>2 DEF Follows, Restoring
  <2>3. QED  BY <2>1, <2>2
<1> HIDE DEF r
<1>6. Shown' = [k \in Keys |-> Shown'[k]]
  BY <1>4
<1>7. r.shown = [k \in Keys |-> r.shown[k]]
  BY <1>2
<1>8. Shown' = r.shown
  BY <1>5, <1>6, <1>7
<1>9. QED  BY <1>8 DEF r

LEMMA RestoringChained ==
  ASSUME TypeOK, Chained(history, values), Standing, Restoring
  PROVE  Chained(history', values') /\ Standing'
<1> DEFINE h == history
           s == history'
           n == Len(h) - 1
           r == h[Len(h)]
<1>1. Len(h) \in Nat /\ Len(h) > 0 /\ \A i \in 1..(Len(h) - 1) : h[i] \in Records
  BY DEF Restoring, TypeOK
<1>2. /\ n \in Nat /\ Len(h) = n + 1 /\ Len(s) = n /\ (s # <<>> => n > 0)
      /\ \A i \in 1..n : s[i] = h[i] /\ h[i].env = environ
      /\ r \in Records /\ r.env = environ /\ Explained(r)
  <2>1. n \in Nat /\ Len(h) = n + 1
    BY <1>1
  <2>2. /\ Len(SubSeq(h, 1, n)) = IF 1 <= n THEN n - 1 + 1 ELSE 0
        /\ \A i \in 1..(n - 1 + 1) : SubSeq(h, 1, n)[i] = h[1 + i - 1]
        /\ SubSeq(h, 1, n) \in Seq(Records)
    BY <1>1, <2>1, SubSeqProperties, n \in Int, 1 \in Int
  <2>3. n - 1 + 1 = n /\ \A i \in 1..n : 1 + i - 1 = i
    BY <2>1
  <2>4. Len(s) = n /\ \A i \in 1..n : s[i] = h[i]
    BY <2>1, <2>2, <2>3 DEF Restoring
  <2>5. s # <<>> => n > 0
    BY <2>1, <2>2, <2>4 DEF Restoring
  <2>6. r \in Records
    BY ShorterType DEF Restoring, TypeOK, Histories
  <2>7. Explained(r) /\ r.env = environ /\ \A i \in 1..n : h[i].env = environ
    BY <1>1, <2>1 DEF Chained, AllExplained, Restoring, Comparable
  <2>8. QED  BY <2>1, <2>4, <2>5, <2>6, <2>7
<1>3. r.key \in Keys /\ r.key # "ALL" /\ r.old \in Values
  BY <1>2, RecordFields DEF Restoring
<1>4. values'[r.key] \in {None, r.old} /\ \A k \in Keys \ {r.key} : values'[k] = values[k]
  BY <1>3 DEF Restoring, TypeOK
<1>5. Shown' = r.shown /\ Shown' = ShownIn(values', environ)
  BY RestoringShown, ShownHere DEF Restoring, Shown, Effective, Fallback, ShownIn, FallbackIn
<1> HIDE DEF h, s, n, r
<1>6. Linked(s)
  BY <1>2 DEF Linked, Chained, h
<1>7. Ended(s, values')
  <2> SUFFICES ASSUME s # <<>> PROVE Follows(ShownIn(values', s[n].env), s[n])
    BY <1>2 DEF Ended
  <2>1. n \in 1..(Len(h) - 1) /\ s[n] = h[n] /\ h[n].env = environ /\ h[n + 1] = r
    BY <1>2 DEF r
  <2>2. Follows(h[n + 1].shown, h[n])
    BY <1>2, <2>1 DEF Chained, Linked, h
  <2>3. QED  BY <1>5, <2>1, <2>2
<1>8. AllExplained(s)
  BY <1>2 DEF AllExplained, Chained, h
<1>9. ASSUME NEW k \in Keys, Refused(k, values'[k]) PROVE values'[k] = FallbackIn(environ, k)
  <2>1. CASE k = r.key
    BY <1>2, <1>3, <1>4, <1>9, <2>1 DEF Refused, Explained
  <2>2. CASE k # r.key
    BY <1>4, <1>9, <2>2, ShownHere DEF Standing
  <2>3. QED  BY <2>1, <2>2
<1>10. Borrowed(values', s)
  BY <1>2, <1>9 DEF Borrowed
<1>11. Standing'
  BY <1>9 DEF Standing, Fallback, FallbackIn, Restoring
<1>12. QED  BY <1>6, <1>7, <1>8, <1>10, <1>11 DEF Chained, s

\* A change with its record.
Recorded(r) ==
  /\ r \in Records /\ r.shown = Shown /\ r.env = environ
  /\ Explained(r)
  /\ history' = Append(history, r)
  /\ Follows(ShownIn(values', environ), r)
  /\ \A k \in Keys : Refused(k, values'[k]) => values'[k] = values[k]

\* What a call does to the overrides and their history.
Kept == UNCHANGED <<disk, values, history>>
Kinds == Kept \/ (Save /\ ((\E r : Recorded(r)) \/ Restoring))

LEMMA SetRecorded ==
  ASSUME TypeOK, Standing, NEW k \in Keys, NEW v \in Values, Accepts(k, v),
         values' = [values EXCEPT ![k] = v],
         history' = Append(history, Record(k, Effective(k)))
  PROVE  Recorded(Record(k, Effective(k)))
<1> DEFINE r == Record(k, Effective(k))
<1>1. r \in Records /\ r.shown = Shown /\ r.env = environ /\ r.key = k /\ r.old = Effective(k)
  BY ShownType, RecordType DEF TypeOK, Record
<1>2. Explained(r)
  BY <1>1, ShownHere DEF Explained, Refused, Standing, Effective
<1>3. Follows(ShownIn(values', environ), r)
  BY <1>1 DEF Follows, ShownIn, Shown, Effective, Fallback, FallbackIn, TypeOK
<1>4. \A l \in Keys : Refused(l, values'[l]) => values'[l] = values[l]
  BY DEF Refused, Accepts, TypeOK
<1>5. QED  BY <1>1, <1>2, <1>3, <1>4 DEF Recorded

LEMMA ResetRecorded ==
  ASSUME TypeOK, Standing, NEW k \in Keys, values[k] # None,
         values' = [values EXCEPT ![k] = None],
         history' = Append(history, Record(k, values[k]))
  PROVE  Recorded(Record(k, values[k]))
<1> DEFINE r == Record(k, values[k])
<1>1. values[k] \in Values
  BY DEF TypeOK, Maybe
<1>2. r \in Records /\ r.shown = Shown /\ r.env = environ /\ r.key = k /\ r.old = values[k]
  BY <1>1, RecordType DEF Record
<1>3. Explained(r)
  BY <1>2, ShownHere DEF Explained, Refused, Standing
<1>4. Follows(ShownIn(values', environ), r)
  BY <1>2 DEF Follows, ShownIn, Shown, Effective, Fallback, FallbackIn, TypeOK
<1>5. \A l \in Keys : Refused(l, values'[l]) => values'[l] = values[l]
  BY DEF Refused, TypeOK
<1>6. QED  BY <1>2, <1>3, <1>4, <1>5 DEF Recorded

LEMMA ResetAllRecorded ==
  ASSUME TypeOK, values' = NoValues, history' = Append(history, Record("ALL", None))
  PROVE  Recorded(Record("ALL", None))
<1>1. Record("ALL", None) \in Records
  BY RecordType
<1>2. QED  BY <1>1 DEF Recorded, Record, Explained, Follows, Refused, NoValues

LEMMA CallKinds ==
  ASSUME TypeOK, Standing, Call, ~lost'
  PROVE  Kinds
<1> UNCHANGED environ
  BY CallsLeave
<1>1. ASSUME NEW k \in Keys, NEW v \in Values, SetCall(k, v) PROVE Kinds
  BY <1>1, SetRecorded DEF SetCall, Limited, Refuse, HookError, Kinds, Kept
<1>2. ASSUME NEW k \in Keys, Reset(k) PROVE Kinds
  BY <1>2, ResetRecorded DEF Reset, Limited, Refuse, HookError, Kinds, Kept
<1>3. CASE ResetAll
  BY <1>3, ResetAllRecorded DEF ResetAll, Limited, Refuse, Kinds, Kept
<1>4. CASE Undo
  BY <1>4 DEF Undo, Limited, Refuse, Restoring, Kinds, Kept
<1>5. QED  BY <1>1, <1>2, <1>3, <1>4 DEF Call

\* Undos never find again what was lost.
LEMMA LostStays ==
  ASSUME Next, applying \in PartialValues, ~lost'
  PROVE  ~lost
<1>1. ASSUME NEW k \in Keys, NEW v \in Values, SetCall(k, v) PROVE ~lost
  BY <1>1 DEF SetCall, Limited, Refuse, HookError
<1>2. ASSUME NEW k \in Keys, Reset(k) PROVE ~lost
  BY <1>2 DEF Reset, Limited, Refuse, HookError
<1>3. CASE ResetAll
  BY <1>3 DEF ResetAll, Limited, Refuse
<1>4. CASE Undo
  BY <1>4 DEF Undo, Limited, Refuse
<1>5. CASE Call
  BY <1>1, <1>2, <1>3, <1>4, <1>5 DEF Call
<1>6. CASE Sync \/ Importing \/ Exit \/ Start
  BY <1>6 DEF Sync, SyncEnv, WindowMoves, Importing, Import, ConfirmImport, CancelImport, Exit, Start
<1>7. QED  BY <1>5, <1>6, Steps

LEMMA CallsUndo ==
  ASSUME TypeOK, TypeOK', UndoInv, Call, ~lost, ~lost'
  PROVE  /\ UndoInv'
         /\ Len(history') < Len(history) => Shown' = history[Len(history)].shown
<1> up /\ UNCHANGED <<up, environ>>
  BY CallsLeave
<1> Chained(history, values) /\ Chained(disk.history, disk.values) /\ Standing
  BY DEF UndoInv
<1>1. CASE Kept
  <2>1. Standing'
    BY <1>1 DEF Kept, Standing, Fallback
  <2>2. Len(history') = Len(history) /\ Len(history) \in Nat
    BY <1>1 DEF Kept, TypeOK
  <2>3. QED  BY <1>1, <2>1, <2>2 DEF Kept, UndoInv
<1>2. ASSUME NEW r, Recorded(r)
      PROVE  Chained(history', values') /\ Standing' /\ ~(Len(history') < Len(history))
  <2>1. Chained(history', values')
    BY <1>2, AppendChained DEF Recorded
  <2>2. Standing'
    BY <1>2 DEF Recorded, Standing, Fallback
  <2>3. Len(history') = Len(history) + 1 /\ Len(history) \in Nat
    BY <1>2 DEF Recorded, TypeOK
  <2>4. QED  BY <2>1, <2>2, <2>3
<1>3. ASSUME Restoring
      PROVE  Chained(history', values') /\ Standing' /\ Shown' = history[Len(history)].shown
  BY <1>3, RestoringChained, RestoringShown
<1>4. ASSUME Save, Chained(history', values'), Standing' PROVE UndoInv'
  <2>1. Chained(Recent(history'), values')
    BY <1>4, RecentChained DEF TypeOK, Histories
  <2>2. QED  BY <1>4, <2>1 DEF Save, UndoInv
<1>5. CASE Save /\ \E r : Recorded(r)
  <2>1. Chained(history', values') /\ Standing' /\ ~(Len(history') < Len(history))
    BY <1>2, <1>5
  <2>2. UndoInv'
    BY <1>4, <1>5, <2>1
  <2>3. QED  BY <2>1, <2>2
<1>6. CASE Save /\ Restoring
  <2>1. UndoInv'
    BY <1>3, <1>4, <1>6
  <2>2. QED  BY <1>3, <1>6, <2>1
<1>7. Kinds
  BY CallKinds
<1>8. QED  BY <1>1, <1>5, <1>6, <1>7 DEF Kinds

\* The next start reads the file and drops what Validate refuses.
LEMMA StartUndo ==
  ASSUME TypeOK, UndoInv, ~lost, Start
  PROVE  UndoInv'
<1> DEFINE h == disk.history
           r == h[Len(h)]
<1> Chained(h, disk.values)
  BY DEF UndoInv
<1>1. \A k \in Keys : ~Refused(k, values'[k])
  BY DEF Start, Refused
<1>2. Ended(h, values')
  <2> SUFFICES ASSUME h # <<>> PROVE Follows(ShownIn(values', r.env), r)
    BY DEF Ended
  <2>1. Len(h) \in 1..Len(h)
    BY DEF TypeOK
  <2>2. ASSUME NEW k \in Keys PROVE ShownIn(values', r.env)[k] = ShownIn(disk.values, r.env)[k]
    <3>1. CASE Refused(k, disk.values[k])
      BY <2>1, <3>1 DEF Start, Refused, Chained, Borrowed, ShownIn
    <3>2. CASE ~Refused(k, disk.values[k])
      BY <3>2 DEF Start, Refused, ShownIn
    <3>3. QED  BY <3>1, <3>2
  <2>3. Follows(ShownIn(disk.values, r.env), r)
    BY DEF Chained, Ended
  <2> HIDE DEF r, h
  <2>4. QED  BY <2>2, <2>3 DEF Follows
<1>3. Borrowed(values', h) /\ Standing'
  BY <1>1 DEF Borrowed, Standing
<1>4. Chained(h, values')
  BY <1>2, <1>3 DEF Chained
<1>5. QED  BY <1>3, <1>4 DEF UndoInv, Start

LEMMA EmptyChained == \A vals : Chained(<<>>, vals)
BY DEF Chained, Linked, Ended, AllExplained, Borrowed

LEMMA InitUndo == Init => UndoInv
BY EmptyChained DEF Init, UndoInv

LEMMA NextUndo == TypeOK /\ TypeOK' /\ UndoInv /\ [Next]_vars => UndoInv'
<1> SUFFICES ASSUME TypeOK, TypeOK', UndoInv, [Next]_vars, ~lost' PROVE UndoInv'
  BY DEF UndoInv
<1> applying \in PartialValues
  BY DEF TypeOK
<1>1. CASE UNCHANGED <<disk, up, environ, values, history, lost>>
  BY <1>1 DEF UndoInv, Standing, Fallback
<1>2. CASE UNCHANGED vars \/ Sync \/ Importing
  BY <1>1, <1>2 DEF vars, Sync, SyncEnv, WindowMoves, Importing, Import, ConfirmImport, CancelImport
<1>3. CASE Next
  <2>1. ~lost
    BY <1>3, LostStays
  <2>2. CASE Call
    BY <2>1, <2>2, CallsUndo
  <2>3. CASE Exit
    BY <2>1, <2>3, EmptyChained DEF Exit, UndoInv
  <2>4. CASE Start
    BY <2>1, <2>4, StartUndo
  <2>5. QED  BY <1>2, <1>3, <2>2, <2>3, <2>4, Steps
<1>4. QED  BY <1>2, <1>3

\* Any number of changes can be undone one by one, over restarts and failing saves,
\* and each undo brings back what was shown before its change.
THEOREM UndosRestore == Spec => UndoRestores
<1>1. TypeOK /\ TypeOK' /\ UndoInv /\ [Next]_vars =>
        ((up /\ up' /\ Len(history') < Len(history) /\ ~lost') =>
            Shown' = history[Len(history)].shown)
  <2> SUFFICES ASSUME TypeOK, TypeOK', UndoInv, [Next]_vars,
                      up, up', Len(history') < Len(history), ~lost'
               PROVE  Shown' = history[Len(history)].shown
    OBVIOUS
  <2> applying \in PartialValues
    BY DEF TypeOK
  <2>1. history' # history
    BY DEF TypeOK
  <2>2. Next
    BY <2>1 DEF vars
  <2>3. ~lost
    BY <2>2, LostStays
  <2>4. Call
    BY <2>1, <2>2, Steps DEF Sync, SyncEnv, WindowMoves, Importing, Import, ConfirmImport,
       CancelImport, Exit, Start
  <2>5. QED  BY <2>3, <2>4, CallsUndo
<1>2. QED  BY InitTypes, NextTypes, InitUndo, NextUndo, <1>1, PTL DEF Spec, UndoRestores

-----------------------------------------------------------------------------
(* Keys and credentials *)

\* What lies under the name of a user was sent by that user.
From(u, i) == u \in Users => i \in Requests /\ User(i) = u

Fields == DOMAIN New
Messages ==
  /\ \E n \in 0..MaxRequests : Requests = 1..n
  /\ \A r \in Requests :
       /\ DOMAIN reqs[r] = Fields
       /\ User(r) \in Users /\ reqs[r].m.host \in AllHosts /\ reqs[r].m.what \in Owned
Stored ==
  /\ files \in [Users \cup {Shared} -> [Owned -> Int]]
  /\ \A u \in Users \cup {Shared}, f \in Owned : files[u][f] > 0 => From(u, files[u][f])

\* A job that may still write a token has read it under the name it writes it to.
Tokens == \A r \in Requests : reqs[r].pc \in {"drive", "refresh"} =>
  reqs[r].token[1] \in Users \cup {Shared} /\ reqs[r].token[2] \in Int /\ From(reqs[r].token[1], reqs[r].token[2])

\* What Save has read is still there when it writes.
KeysSafe ==
  /\ keys = given /\ keys \in [Users -> [AllHosts -> Int]]
  /\ \A r \in Requests : reqs[r].pc = "keyput" => lock = r /\ reqs[r].old = keys[User(r)]

Fair(x) ==
  /\ x.r \in Requests /\ x.owner \in {User(x.r), Shared, "none"}
  /\ x.has => x.owner = User(x.r) \/ (x.what = "drive" /\ x.writing)
  /\ x.what = "key" /\ x.owner = Shared => x.allowed
Owners == \A x \in uses : Fair(x)

AccountInv == Messages /\ Stored /\ Tokens /\ KeysSafe /\ Owners

LEMMA FieldNames ==
  {"pc", "m", "job", "source", "got", "token", "old", "host", "tries", "stop", "telegram"} = Fields
BY DEF Fields, New

\* A request goes on, and its message and the other requests stay as they are.
Moves(r) ==
  /\ Requests' = Requests /\ \A q \in Requests : q # r => reqs'[q] = reqs[q]
  /\ DOMAIN reqs'[r] = Fields /\ reqs'[r].m = reqs[r].m

LEMMA MovesMessages ==
  ASSUME Messages, NEW r \in Requests, Moves(r)
  PROVE  /\ Messages' /\ \A q \in Requests : User(q)' = User(q)
         /\ \A u, i : From(u, i) => From(u, i)'
<1>1. \A q \in Requests : reqs'[q].m = reqs[q].m /\ DOMAIN reqs'[q] = Fields
  BY DEF Moves, Messages
<1>2. Requests' = Requests
  BY DEF Moves
<1>3. \A q \in Requests : User(q)' = User(q)
  BY <1>1 DEF User
<1>4. Messages'
  BY <1>1, <1>2, <1>3 DEF Messages
<1>5. QED  BY <1>2, <1>3, <1>4 DEF From

\* Steps that touch neither keys nor files.
LEMMA QuietStep ==
  ASSUME AccountInv, NEW r \in Requests, Moves(r), reqs'[r].pc \notin {"keyput", "drive", "refresh"},
         UNCHANGED <<keys, lock, files, given>>, \A x \in uses' : x \in uses \/ Fair(x)
  PROVE  AccountInv'
<1>1. Messages /\ Messages' /\ \A q \in Requests : User(q)' = User(q)
  BY MovesMessages DEF AccountInv
<1>2. Requests' = Requests /\ \A u, i : From(u, i) => From(u, i)'
  BY MovesMessages DEF AccountInv, Moves
<1>3. Stored'
  BY <1>2 DEF AccountInv, Stored
<1>4. Tokens'
  BY <1>2 DEF AccountInv, Tokens, Moves
<1>5. KeysSafe'
  BY <1>1, <1>2 DEF AccountInv, KeysSafe, Moves
<1>6. Owners'
  <2>1. \A x \in uses' : Fair(x)
    BY DEF AccountInv, Owners
  <2>2. QED  BY <1>1, <1>2, <2>1 DEF Owners, Fair
<1>7. QED  BY <1>1, <1>3, <1>4, <1>5, <1>6 DEF AccountInv

LEMMA GoesMoves ==
  ASSUME Messages, NEW r \in Requests, NEW p, Goes(r, p)
  PROVE  Moves(r) /\ reqs'[r].pc = p /\ reqs'[r].token = reqs[r].token /\ reqs'[r].old = reqs[r].old
<1>1. DOMAIN reqs[r] = Fields /\ {"pc", "m", "token", "old"} \subseteq Fields
  BY FieldNames DEF Messages
<1> DEFINE to == [reqs[r] EXCEPT !.pc = p]
<1>2. reqs' = [reqs EXCEPT ![r] = to]
  BY DEF Goes
<1>3. DOMAIN to = Fields /\ to.m = reqs[r].m /\ to.pc = p /\ to.token = reqs[r].token /\ to.old = reqs[r].old
  BY <1>1
<1> HIDE DEF to
<1>4. Requests' = Requests /\ reqs'[r] = to /\ \A q \in Requests : q # r => reqs'[q] = reqs[q]
  BY <1>2 DEF Requests
<1>5. QED  BY <1>3, <1>4 DEF Moves

\* A record of reqs with several new fields, none of them the message.
LEMMA MovesTo ==
  ASSUME Messages, NEW r \in Requests, NEW to, reqs' = [reqs EXCEPT ![r] = to],
         DOMAIN to = Fields, to.m = reqs[r].m
  PROVE  Moves(r) /\ reqs'[r] = to
BY DEF Moves, Requests

LEMMA InitAccount == CommandsInit => AccountInv
<1> SUFFICES ASSUME CommandsInit PROVE AccountInv
  OBVIOUS
<1>1. PICK ms \in Scenes :
        reqs = [r \in DOMAIN ms |->
                 [New EXCEPT !.m = ms[r], !.pc = IF ms[r].cmd \in {"key", "file"} THEN ms[r].cmd ELSE "new"]]
  BY DEF CommandsInit
<1>2. PICK n \in 0..MaxRequests : DOMAIN ms = 1..n
  BY CommandsAssumption
<1>3. Requests = DOMAIN ms /\ Requests = 1..n
  BY <1>1, <1>2 DEF Requests
<1>4. \A r \in Requests :
        DOMAIN reqs[r] = Fields /\ reqs[r].m = ms[r] /\ reqs[r].pc \in {"key", "file", "new"}
  BY <1>1, <1>3 DEF New, Fields
<1>5. \A r \in Requests : ms[r].user \in Users /\ ms[r].host \in AllHosts /\ ms[r].what \in Owned
  BY <1>3, CommandsAssumption
<1>6. Messages
  BY <1>2, <1>3, <1>4, <1>5 DEF Messages, User
<1>7. files = [u \in Users \cup {Shared} |-> [f \in Owned |-> IF u = Shared /\ f \in SharedFiles THEN OfOwner ELSE 0]]
  BY DEF CommandsInit
<1>8. OfOwner \in Int /\ Shared \notin Users
  <2>1. {"", "shared", "none"} \cap Users = {} /\ {Retries, MaxRequests} \subseteq Nat
    BY CommandsAssumption
  <2>2. "shared" \notin Users /\ MaxRequests \in Nat
    BY <2>1
  <2>3. QED  BY <2>2 DEF OfOwner, Shared
<1>9. Stored
  <2>1. files \in [Users \cup {Shared} -> [Owned -> Int]]
    BY <1>7, <1>8
  <2>2. \A u \in Users, f \in Owned : files[u][f] = 0
    BY <1>7, <1>8
  <2>3. QED  BY <2>1, <2>2 DEF Stored, From
<1>10. Tokens
  BY <1>4 DEF Tokens
<1>11. KeysSafe
  <2>1. keys = [u \in Users |-> [h \in AllHosts |-> 0]] /\ given = keys
    BY DEF CommandsInit
  <2>2. QED  BY <1>4, <2>1 DEF KeysSafe
<1>12. Owners
  BY DEF CommandsInit, Owners
<1>13. QED  BY <1>6, <1>9, <1>10, <1>11, <1>12 DEF AccountInv

LEMMA KeyAccount ==
  ASSUME AccountInv, NEW r \in Requests, KeyRead(r) \/ KeyWrite(r)
  PROVE  AccountInv'
<1>1. Messages /\ Stored /\ Tokens /\ KeysSafe /\ Owners
  BY DEF AccountInv
<1>2. CASE KeyRead(r)
  <2> DEFINE one == [reqs[r] EXCEPT !.old = keys[User(r)]]
             to == [one EXCEPT !.pc = "keyput"]
  <2>1. reqs' = [reqs EXCEPT ![r] = to]
    BY <1>2 DEF KeyRead
  <2>2. DOMAIN one = Fields /\ one.m = reqs[r].m /\ one.old = keys[User(r)]
    BY <1>1, FieldNames DEF Messages
  <2> HIDE DEF one
  <2>3. DOMAIN to = Fields /\ to.m = reqs[r].m /\ to.pc = "keyput" /\ to.old = keys[User(r)]
    BY <2>2, FieldNames
  <2> HIDE DEF to
  <2>4. Moves(r) /\ reqs'[r] = to
    BY <1>1, <2>1, <2>3, MovesTo
  <2>5. /\ Messages' /\ \A q \in Requests : User(q)' = User(q)
        /\ \A u, i : From(u, i) => From(u, i)'
    BY <1>1, <2>4, MovesMessages
  <2>6. Requests' = Requests
    BY <2>4 DEF Moves
  <2>7. UNCHANGED <<keys, files, uses, given>> /\ lock = 0 /\ lock' = r
    BY <1>2 DEF KeyRead
  <2>8. \A q \in Requests : reqs[q].pc # "keyput"
    <3>1. \A q \in Requests : q # 0
      BY <1>1 DEF Messages
    <3>2. QED  BY <1>1, <2>7, <3>1 DEF KeysSafe
  <2>9. Stored' /\ Owners'
    BY <1>1, <2>5, <2>6, <2>7 DEF Stored, Owners, Fair
  <2>10. Tokens'
    BY <1>1, <2>3, <2>4, <2>5, <2>6 DEF Tokens, Moves
  <2>11. KeysSafe'
    BY <1>1, <2>3, <2>4, <2>5, <2>6, <2>7, <2>8 DEF KeysSafe, Moves
  <2>12. QED  BY <2>5, <2>9, <2>10, <2>11 DEF AccountInv
<1>3. CASE KeyWrite(r)
  <2> DEFINE u == reqs[r].m.user  g == reqs[r].m.host  key == IF reqs[r].m.delete THEN 0 ELSE r
  <2>1. Goes(r, "done") /\ lock' = 0 /\ UNCHANGED <<files, uses>> /\ reqs[r].pc = "keyput"
    BY <1>3 DEF KeyWrite
  <2>2. /\ keys' = [keys EXCEPT ![u] = [reqs[r].old EXCEPT ![g] = key]]
        /\ given' = [given EXCEPT ![u] = [given[u] EXCEPT ![g] = key]]
    BY <1>3 DEF KeyWrite
  <2>3. reqs[r].old = keys[u] /\ keys = given /\ u \in Users /\ g \in AllHosts /\ keys[u] \in [AllHosts -> Int]
    BY <1>1, <2>1 DEF KeysSafe, User, Messages
  <2>4. keys' = given'
    BY <2>2, <2>3
  <2>5. key \in Int
    BY <1>1 DEF Messages
  <2>6. keys' \in [Users -> [AllHosts -> Int]]
    <3> HIDE DEF key
    <3>1. [reqs[r].old EXCEPT ![g] = key] \in [AllHosts -> Int]
      BY <2>3, <2>5
    <3>2. keys \in [Users -> [AllHosts -> Int]]
      BY <1>1 DEF KeysSafe
    <3>3. QED  BY <2>2, <3>1, <3>2
  <2>7. Moves(r) /\ reqs'[r].pc = "done"
    BY <1>1, <2>1, GoesMoves
  <2>8. /\ Messages' /\ \A q \in Requests : User(q)' = User(q)
        /\ \A v, i : From(v, i) => From(v, i)'
    BY <1>1, <2>7, MovesMessages
  <2>9. Requests' = Requests
    BY <2>7 DEF Moves
  <2>10. Stored' /\ Owners'
    BY <1>1, <2>1, <2>8, <2>9 DEF Stored, Owners, Fair
  <2>11. Tokens'
    BY <1>1, <2>7, <2>8, <2>9 DEF Tokens, Moves
  <2>12. \A q \in Requests : reqs'[q].pc # "keyput"
    BY <1>1, <2>1, <2>7 DEF KeysSafe, Moves
  <2>13. KeysSafe'
    BY <2>4, <2>6, <2>9, <2>12 DEF KeysSafe
  <2>14. QED  BY <2>8, <2>10, <2>11, <2>13 DEF AccountInv
<1>4. QED  BY <1>2, <1>3

\* Files change for one user, to what that user has sent or to nothing.
LEMMA FileStep ==
  ASSUME AccountInv, NEW r \in Requests, NEW u \in Users \cup {Shared}, NEW f \in Owned, NEW v \in Int,
         Goes(r, "done") \/ Goes(r, "fileput") \/ Goes(r, "fetched") \/ (reqs[r].pc = "drive" /\ Goes(r, "refresh")),
         files' = [files EXCEPT ![u][f] = v], v > 0 => From(u, v), UNCHANGED <<keys, lock, uses, given>>
  PROVE  AccountInv'
<1>1. Messages /\ Stored /\ Tokens /\ KeysSafe /\ Owners
  BY DEF AccountInv
<1>2. /\ Moves(r) /\ reqs'[r].token = reqs[r].token
      /\ reqs'[r].pc \in {"done", "fileput", "fetched"} \/ (reqs[r].pc = "drive" /\ reqs'[r].pc = "refresh")
  BY <1>1, GoesMoves
<1>3. /\ Messages' /\ \A q \in Requests : User(q)' = User(q)
      /\ \A w, i : From(w, i) => From(w, i)'
  BY <1>1, <1>2, MovesMessages
<1>4. Requests' = Requests
  BY <1>2 DEF Moves
<1>5. Stored'
  <2>1. files' = [files EXCEPT ![u] = [files[u] EXCEPT ![f] = v]] /\ files \in [Users \cup {Shared} -> [Owned -> Int]]
    BY <1>1 DEF Stored
  <2>2. files' \in [Users \cup {Shared} -> [Owned -> Int]]
    BY <2>1
  <2>3. \A w \in Users \cup {Shared}, g \in Owned : files'[w][g] = files[w][g] \/ (w = u /\ files'[w][g] = v)
    BY <2>1
  <2>4. \A w \in Users \cup {Shared}, g \in Owned : files'[w][g] > 0 => From(w, files'[w][g])
    BY <1>1, <2>3 DEF Stored
  <2>5. QED  BY <1>3, <2>2, <2>4 DEF Stored
<1>6. Tokens'
  BY <1>1, <1>2, <1>3, <1>4 DEF Tokens, Moves
<1>7. KeysSafe'
  BY <1>1, <1>2, <1>3, <1>4 DEF KeysSafe, Moves
<1>8. Owners'
  BY <1>1, <1>3, <1>4 DEF Owners, Fair
<1>9. QED  BY <1>3, <1>5, <1>6, <1>7, <1>8 DEF AccountInv

LEMMA FileAccount ==
  ASSUME AccountInv, NEW r \in Requests, FileBegin(r) \/ FileEnd(r) \/ Refresh(r) \/ Refreshed(r)
  PROVE  AccountInv'
<1>1. Messages /\ Tokens /\ User(r) \in Users /\ reqs[r].m.what \in Owned /\ "token" \in Owned
  BY DEF AccountInv, Messages, Owned
<1>2. User(r) = reqs[r].m.user
  BY DEF User
<1>3. CASE FileBegin(r)
  <2> DEFINE v == IF reqs[r].m.delete THEN 0 ELSE -1
  <2>1. /\ Goes(r, "done") \/ Goes(r, "fileput")
        /\ files' = [files EXCEPT ![reqs[r].m.user][reqs[r].m.what] = v] /\ UNCHANGED <<keys, lock, uses, given>>
    BY <1>3 DEF FileBegin
  <2>2. v \in Int /\ ~(v > 0)
    OBVIOUS
  <2> HIDE DEF v
  <2>3. QED  BY <1>1, <1>2, <2>1, <2>2, FileStep
<1>4. CASE FileEnd(r)
  <2>1. /\ Goes(r, "done") /\ files' = [files EXCEPT ![User(r)][reqs[r].m.what] = r]
        /\ UNCHANGED <<keys, lock, uses, given>>
    BY <1>4 DEF FileEnd
  <2>2. r \in Int /\ From(User(r), r)
    BY <1>1 DEF Messages, From
  <2>3. QED  BY <1>1, <2>1, <2>2, FileStep
<1>5. CASE Refresh(r)
  <2>1. /\ Goes(r, "refresh") /\ reqs[r].pc = "drive" /\ files' = [files EXCEPT ![reqs[r].token[1]]["token"] = -1]
        /\ UNCHANGED <<keys, lock, uses, given>>
    BY <1>5 DEF Refresh
  <2>2. reqs[r].token[1] \in Users \cup {Shared} /\ -1 \in Int /\ ~(-1 > 0)
    BY <1>1, <2>1 DEF Tokens
  <2>3. QED  BY <1>1, <2>1, <2>2, FileStep
<1>6. CASE Refreshed(r)
  <2>1. /\ Goes(r, "fetched") /\ reqs[r].pc = "refresh"
        /\ files' = [files EXCEPT ![reqs[r].token[1]]["token"] = reqs[r].token[2]]
        /\ UNCHANGED <<keys, lock, uses, given>>
    BY <1>6 DEF Refreshed
  <2>2. reqs[r].token[1] \in Users \cup {Shared} /\ reqs[r].token[2] \in Int /\ From(reqs[r].token[1], reqs[r].token[2])
    BY <1>1, <2>1 DEF Tokens
  <2>3. QED  BY <1>1, <2>1, <2>2, FileStep
<1>7. QED  BY <1>3, <1>4, <1>5, <1>6

LEMMA UsesFair ==
  ASSUME NEW r \in Requests, NEW what, NEW whose, NEW has, NEW writing, NEW allowed, Use(r, what, whose, has, writing, allowed),
         whose \in {User(r), Shared, "none"}, has => whose = User(r) \/ (what = "drive" /\ writing),
         what = "key" /\ whose = Shared => allowed
  PROVE  \A x \in uses' : x \in uses \/ Fair(x)
<1>1. Fair([r |-> r, what |-> what, owner |-> whose, has |-> has, writing |-> writing, allowed |-> allowed])
  BY DEF Fair
<1>2. QED  BY <1>1 DEF Use

\* The account a job gets: the user's own, if there is one that can be read.
LEMMA AccountFacts ==
  ASSUME NEW u, NEW accounts, NEW a \in Account(u, accounts)
  PROVE  /\ a[1] \in {u, Shared} /\ a[2] \in {"accounts", "token"} /\ files[a[1]][a[2]] > 0
         /\ (\E f \in Credentials(accounts) : files[u][f] > 0) => a[1] = u
<1> DEFINE order == <<<<u, "accounts">>, <<u, "token">>, <<Shared, "accounts">>, <<Shared, "token">>>>
           readable == {i \in 1..4 : order[i][2] \in Credentials(accounts) /\ files[order[i][1]][order[i][2]] > 0}
<1>1. PICK i \in readable : a = order[i] /\ \A k \in readable : i <= k
  BY DEF Account
<1>2. i \in {1, 2, 3, 4}
  OBVIOUS
<1>3. "accounts" \in Credentials(accounts) /\ files[u]["accounts"] > 0 => 1 \in readable
  OBVIOUS
<1>4. files[u]["token"] > 0 => 2 \in readable
  BY DEF Credentials
<1>5. (\E f \in Credentials(accounts) : files[u][f] > 0) => i \in {1, 2}
  <2>1. \A f \in Credentials(accounts) : f = "accounts" \/ f = "token"
    BY DEF Credentials
  <2> HIDE DEF readable
  <2>2. QED  BY <1>1, <1>2, <1>3, <1>4, <2>1
<1>6. a[1] \in {u, Shared} /\ a[2] \in {"accounts", "token"} /\ (i \in {1, 2} => a[1] = u)
  BY <1>1, <1>2
<1>7. files[a[1]][a[2]] > 0
  BY <1>1
<1>8. QED  BY <1>5, <1>6, <1>7

LEMMA DownloadAccount ==
  ASSUME AccountInv, NEW r \in Requests, Download(r)
  PROVE  AccountInv'
<1> DEFINE job == reqs[r].job  s == PickSource(job)
           goesOn(pc, got, token) == reqs' = [reqs EXCEPT ![r].source = s, ![r].pc = pc, ![r].got = got, ![r].token = token]
<1>1. Messages /\ Stored /\ Tokens /\ KeysSafe /\ Owners
  BY DEF AccountInv
<1>2. ASSUME NEW pc, NEW got, NEW token, goesOn(pc, got, token)
      PROVE  Moves(r) /\ reqs'[r].pc = pc /\ reqs'[r].token = token
  <2> HIDE DEF s
  <2> DEFINE a == [reqs[r] EXCEPT !.source = s]
             b == [a EXCEPT !.pc = pc]
             c == [b EXCEPT !.got = got]
             to == [c EXCEPT !.token = token]
  <2>1. reqs' = [reqs EXCEPT ![r] = to]
    BY <1>2
  <2>2. DOMAIN a = Fields /\ a.m = reqs[r].m
    BY <1>1, FieldNames DEF Messages
  <2> HIDE DEF a
  <2>3. DOMAIN b = Fields /\ b.m = reqs[r].m /\ b.pc = pc
    BY <2>2, FieldNames
  <2> HIDE DEF b
  <2>4. DOMAIN c = Fields /\ c.m = reqs[r].m /\ c.pc = pc
    BY <2>3, FieldNames
  <2> HIDE DEF c
  <2>5. DOMAIN to = Fields /\ to.m = reqs[r].m /\ to.pc = pc /\ to.token = token
    BY <2>4, FieldNames
  <2> HIDE DEF to
  <2>6. QED  BY <1>1, <2>1, <2>5, MovesTo
<1>3. UNCHANGED <<keys, lock, files, given>>
  BY DEF Download
<1>4. CASE s # "google-drive"
  <2>1. /\ goesOn("fetched", Fetched(s, job), <<>>)
        /\ \/ Use(r, "cookies", CookiesPath(User(r)), files[User(r)]["cookies"] # 0, FALSE, TRUE)
           \/ UNCHANGED uses
    BY <1>4 DEF Download
  <2>2. Moves(r) /\ reqs'[r].pc = "fetched"
    <3> HIDE DEF goesOn
    <3>1. QED  BY <1>2, <2>1
  <2>3. \A x \in uses' : x \in uses \/ Fair(x)
    <3>1. CASE UNCHANGED uses
      BY <3>1
    <3>2. CASE Use(r, "cookies", CookiesPath(User(r)), files[User(r)]["cookies"] # 0, FALSE, TRUE)
      <4>1. CookiesPath(User(r)) \in {User(r), Shared} /\ (files[User(r)]["cookies"] # 0 => CookiesPath(User(r)) = User(r))
        BY DEF CookiesPath
      <4>2. QED  BY <3>2, <4>1, UsesFair
    <3>3. QED  BY <2>1, <3>1, <3>2
  <2>4. QED  BY <1>3, <2>2, <2>3, QuietStep
<1> DEFINE without(accounts) == Account(User(r), accounts) = {} /\ goesOn("fetched", {}, <<>>) /\ UNCHANGED uses
           with(accounts, a) ==
             /\ goesOn(IF a[2] = "token" THEN "drive" ELSE "fetched", Fetched(s, job), <<a[1], files[a[1]][a[2]]>>)
             /\ Use(r, "drive", a[1], \E f \in Credentials(accounts) : files[User(r)][f] # 0,
                    \A f \in Credentials(accounts) : files[User(r)][f] <= 0, TRUE)
<1>5. CASE s = "google-drive" /\ \E accounts \in UseServiceAccts : without(accounts)
  <2>1. goesOn("fetched", {}, <<>>) /\ UNCHANGED uses
    BY <1>5
  <2>2. Moves(r) /\ reqs'[r].pc = "fetched"
    <3> HIDE DEF goesOn
    <3>1. QED  BY <1>2, <2>1
  <2>3. QED  BY <1>3, <2>1, <2>2, QuietStep
<1>6. CASE s = "google-drive" /\ \E accounts \in UseServiceAccts : \E a \in Account(User(r), accounts) : with(accounts, a)
  <2>0. PICK accounts \in UseServiceAccts : \E a \in Account(User(r), accounts) : with(accounts, a)
    BY <1>6
  <2>1. PICK a \in Account(User(r), accounts) : with(accounts, a)
    BY <2>0
  <2>2. /\ a[1] \in {User(r), Shared} /\ a[2] \in {"accounts", "token"} /\ files[a[1]][a[2]] > 0
        /\ (\E f \in Credentials(accounts) : files[User(r)][f] > 0) => a[1] = User(r)
    BY AccountFacts
  <2>3. Moves(r) /\ reqs'[r].pc \in {"drive", "fetched"} /\ reqs'[r].token = <<a[1], files[a[1]][a[2]]>>
    <3> HIDE DEF goesOn
    <3>1. QED  BY <1>2, <2>1
  <2>4. \A x \in uses' : x \in uses \/ Fair(x)
    <3> DEFINE has == \E f \in Credentials(accounts) : files[User(r)][f] # 0
               writing == \A f \in Credentials(accounts) : files[User(r)][f] <= 0
    <3>1. \A f \in Credentials(accounts) : files[User(r)][f] \in Int
      BY <1>1 DEF Stored, Messages, Credentials, Owned
    <3>2. a[1] = User(r) \/ writing
      BY <2>2, <3>1
    <3>3. Use(r, "drive", a[1], has, writing, TRUE)
      BY <2>1
    <3> HIDE DEF has, writing
    <3>4. QED  BY <2>2, <3>2, <3>3, UsesFair
  <2>5. /\ Messages' /\ \A q \in Requests : User(q)' = User(q)
        /\ \A w, i : From(w, i) => From(w, i)'
    BY <1>1, <2>3, MovesMessages
  <2>6. Requests' = Requests
    BY <2>3 DEF Moves
  <2>7. Stored'
    BY <1>1, <1>3, <2>5 DEF Stored
  <2>8. Tokens'
    <3>1. User(r) \in Users /\ {"accounts", "token"} \subseteq Owned
      BY <1>1 DEF Messages, Owned
    <3>2. files[a[1]][a[2]] \in Int /\ From(a[1], files[a[1]][a[2]]) /\ a[1] \in Users \cup {Shared}
      BY <1>1, <2>2, <3>1 DEF Stored
    <3>3. QED  BY <1>1, <2>3, <2>5, <2>6, <3>2 DEF Tokens, Moves
  <2>9. KeysSafe'
    BY <1>1, <1>3, <2>3, <2>5, <2>6 DEF KeysSafe, Moves
  <2>10. Owners'
    <3>1. \A x \in uses' : Fair(x)
      BY <1>1, <2>4 DEF Owners
    <3>2. QED  BY <2>5, <2>6, <3>1 DEF Owners, Fair
  <2>11. QED  BY <2>5, <2>7, <2>8, <2>9, <2>10 DEF AccountInv
<1>7. QED
  <2>1. s = "google-drive" => \E accounts \in UseServiceAccts : without(accounts) \/ \E a \in Account(User(r), accounts) : with(accounts, a)
    BY DEF Download
  <2> HIDE DEF s, with, without
  <2>2. QED  BY <1>4, <1>5, <1>6, <2>1

LEMMA GoesQuiet ==
  ASSUME AccountInv, NEW r \in Requests, NEW p \in {"done", "fetched", "telegram"}, Goes(r, p),
         UNCHANGED <<keys, lock, files, uses, given>>
  PROVE  AccountInv'
<1>1. Moves(r) /\ reqs'[r].pc = p
  BY GoesMoves DEF AccountInv
<1>2. QED  BY <1>1, QuietStep

LEMMA HandleAccount ==
  ASSUME AccountInv, NEW r \in Requests, Handle(r)
  PROVE  AccountInv'
<1> DEFINE job == Handler(reqs[r].m)
           p == IF job = NoJob THEN "done" ELSE "queued"
           a == [reqs[r] EXCEPT !.job = job]
           to == [a EXCEPT !.pc = p]
<1>1. reqs' = [reqs EXCEPT ![r] = to] /\ UNCHANGED <<keys, lock, files, uses, given>>
  <2>1. reqs' = [reqs EXCEPT ![r].job = job, ![r].pc = p] /\ UNCHANGED <<keys, lock, files, uses, given>>
    BY DEF Handle
  <2> HIDE DEF job, p
  <2>2. QED  BY <2>1
<1>2. p \in {"done", "queued"}
  OBVIOUS
<1> HIDE DEF job, p
<1>3. DOMAIN a = Fields /\ a.m = reqs[r].m
  BY FieldNames DEF AccountInv, Messages
<1> HIDE DEF a
<1>4. DOMAIN to = Fields /\ to.m = reqs[r].m /\ to.pc = p
  BY <1>3, FieldNames
<1> HIDE DEF to
<1>5. Moves(r) /\ reqs'[r] = to
  BY <1>1, <1>4, MovesTo DEF AccountInv
<1>6. QED  BY <1>1, <1>2, <1>4, <1>5, QuietStep

LEMMA UploadAccount ==
  ASSUME AccountInv, NEW r \in Requests, Upload(r)
  PROVE  AccountInv'
<1> DEFINE job == reqs[r].job
           p == IF reqs[r].got = {} THEN "done" ELSE IF job.mirror THEN "mirror" ELSE "telegram"
           a == [reqs[r] EXCEPT !.pc = p]
           hosts == IF ~job.mirror \/ reqs[r].got = {} THEN a.host
                    ELSE [h \in SelectedHosts(job) |-> IF reqs[r].m.large /\ h \in SmallHosts THEN "skipped" ELSE "up"]
           b == [a EXCEPT !.host = hosts]
           none == [h \in SelectedHosts(job) |-> 0]
           to == [b EXCEPT !.tries = none]
<1>1. p \in {"done", "mirror", "telegram"}
  OBVIOUS
<1>2. DOMAIN a = Fields /\ a.m = reqs[r].m /\ a.pc = p /\ a.host = reqs[r].host
  <2> HIDE DEF p
  <2>1. QED  BY FieldNames DEF AccountInv, Messages
<1>3. reqs' = [reqs EXCEPT ![r] = to] /\ UNCHANGED <<keys, lock, files, uses, given>>
  BY <1>2 DEF Upload
<1> HIDE DEF p, a, hosts, none
<1>4. DOMAIN b = Fields /\ b.m = reqs[r].m /\ b.pc = p
  BY <1>2, FieldNames
<1> HIDE DEF b
<1>5. DOMAIN to = Fields /\ to.m = reqs[r].m /\ to.pc = p
  BY <1>4, FieldNames
<1> HIDE DEF to
<1>6. Moves(r) /\ reqs'[r] = to
  BY <1>3, <1>5, MovesTo DEF AccountInv
<1>7. QED  BY <1>1, <1>3, <1>5, <1>6, QuietStep

LEMMA AttemptAccount ==
  ASSUME AccountInv, NEW r \in Requests, NEW h \in DOMAIN reqs[r].host, Attempt(r, h)
  PROVE  AccountInv'
<1>0. PICK allowed \in AllowShared : Uses(r, h, allowed) /\ \E result \in Answers(r, h, allowed) :
        reqs' = [reqs EXCEPT
         ![r].host[h] = IF result # "again" THEN result ELSE IF reqs[r].tries[h] = Retries THEN "failed" ELSE @,
         ![r].tries[h] = IF result = "again" /\ @ < Retries THEN @ + 1 ELSE @]
  BY DEF Attempt
<1>1. PICK result \in Answers(r, h, allowed) :
        reqs' = [reqs EXCEPT
         ![r].host[h] = IF result # "again" THEN result ELSE IF reqs[r].tries[h] = Retries THEN "failed" ELSE @,
         ![r].tries[h] = IF result = "again" /\ @ < Retries THEN @ + 1 ELSE @]
  BY <1>0
<1>2. Moves(r) /\ reqs'[r].pc = reqs[r].pc
  BY <1>1, FieldNames DEF AccountInv, Messages, Moves, Requests
<1>3. /\ reqs[r].pc = "mirror" /\ UNCHANGED <<keys, lock, files, given>>
      /\ Use(r, "key", Resolve(User(r), h, allowed), given[User(r)][h] # 0, FALSE, allowed)
  BY <1>0 DEF Attempt, Uses
<1>4. given = keys
  BY DEF AccountInv, KeysSafe
<1>5. /\ Resolve(User(r), h, allowed) \in {User(r), Shared, "none"}
      /\ given[User(r)][h] # 0 => Resolve(User(r), h, allowed) = User(r)
      /\ Resolve(User(r), h, allowed) = Shared => allowed
  <2>1. User(r) # Shared /\ Shared # "none"
    BY CommandsAssumption DEF AccountInv, Messages, Shared
  <2>2. QED  BY <1>4, <2>1 DEF Resolve
<1>6. \A x \in uses' : x \in uses \/ Fair(x)
  BY <1>3, <1>5, UsesFair
<1>7. QED  BY <1>2, <1>3, <1>6, QuietStep

LEMMA HostAccount ==
  ASSUME AccountInv, NEW r \in Requests, Cancel(r) \/ \E h \in DOMAIN reqs[r].host : HostStops(r, h)
  PROVE  AccountInv'
<1>1. reqs[r].pc = "mirror" /\ UNCHANGED <<keys, lock, files, uses, given>>
  BY DEF Cancel, HostStops
<1>2. Moves(r) /\ reqs'[r].pc = reqs[r].pc
  <2>1. CASE Cancel(r)
    BY <2>1, FieldNames DEF Cancel, AccountInv, Messages, Moves, Requests
  <2>2. CASE \E h \in DOMAIN reqs[r].host : HostStops(r, h)
    <3>1. PICK h \in DOMAIN reqs[r].host, state \in {"failed", "unasked"} : reqs' = [reqs EXCEPT ![r].host[h] = state]
      BY <2>2 DEF HostStops
    <3>2. QED  BY <3>1, FieldNames DEF AccountInv, Messages, Moves, Requests
  <2>3. QED  BY <2>1, <2>2
<1>3. QED  BY <1>1, <1>2, QuietStep

LEMMA TelegramAccount ==
  ASSUME AccountInv, NEW r \in Requests, Telegram(r)
  PROVE  AccountInv'
<1>1. Moves(r) /\ reqs'[r].pc = "done" /\ UNCHANGED <<keys, lock, files, uses, given>>
  BY FieldNames DEF Telegram, AccountInv, Messages, Moves, Requests
<1>2. QED  BY <1>1, QuietStep

LEMMA WorksAccount ==
  ASSUME AccountInv, NEW r \in Requests, Works(r)
  PROVE  AccountInv'
<1>1. CASE KeyRead(r) \/ KeyWrite(r)
  BY <1>1, KeyAccount
<1>2. CASE FileBegin(r) \/ FileEnd(r) \/ Refresh(r) \/ Refreshed(r)
  BY <1>2, FileAccount
<1>3. CASE Handle(r) \/ Download(r) \/ Upload(r) \/ Telegram(r)
  BY <1>3, HandleAccount, DownloadAccount, UploadAccount, TelegramAccount
<1>4. CASE \E h \in DOMAIN reqs[r].host : Attempt(r, h) \/ HostStops(r, h)
  BY <1>4, AttemptAccount, HostAccount
<1>5. CASE DriveFetched(r) \/ Mirrored(r)
  <2>1. UNCHANGED <<keys, lock, files, uses, given>> /\ \E p \in {"done", "fetched", "telegram"} : Goes(r, p)
    BY <1>5 DEF DriveFetched, Mirrored
  <2>2. QED  BY <2>1, GoesQuiet
<1>6. QED  BY <1>1, <1>2, <1>3, <1>4, <1>5 DEF Works, Proceeds, Fetching, Attempting

LEMMA NextAccount == AccountInv /\ [CommandsNext]_commandVars => AccountInv'
<1> SUFFICES ASSUME AccountInv, [CommandsNext]_commandVars PROVE AccountInv'
  OBVIOUS
<1>1. CASE \E r \in Requests : Works(r) \/ Cancel(r)
  BY <1>1, WorksAccount, HostAccount
<1>2. CASE UNCHANGED commandVars
  BY <1>2 DEF commandVars, AccountInv, Messages, Stored, Tokens, KeysSafe, Owners, Fair, From, Requests, User
<1>3. QED  BY <1>1, <1>2 DEF CommandsNext, Done

\* Whatever messages come together, and whenever their jobs look keys, cookies and
\* accounts up or refresh a token: a job has what its user stored, or the owner's, and no
\* key is lost (keys.go, cookies and credentials of bot/cmd_misc.go and cmd_download.go,
\* gdrive.go's Service and persistSource).
THEOREM AccountsAreKept == CommandsSpec => []OwnAccounts
<1>1. AccountInv => OwnAccounts
  <2> SUFFICES ASSUME AccountInv PROVE OwnAccounts
    OBVIOUS
  <2>1. Messages /\ Stored /\ KeysSafe /\ Owners
    BY DEF AccountInv
  <2>2. \A u \in Users, f \in Owned : files[u][f] > 0 => files[u][f] # OfOwner /\ User(files[u][f]) = u
    <3>1. \A q \in Requests : q # OfOwner
      <4>1. {Retries, MaxRequests} \subseteq Nat
        BY CommandsAssumption
      <4>2. MaxRequests \in Nat
        BY <4>1
      <4>3. PICK n \in 0..MaxRequests : Requests = 1..n
        BY <2>1 DEF Messages
      <4>4. QED  BY <4>2, <4>3 DEF OfOwner
    <3>2. QED  BY <2>1, <3>1 DEF Stored, From
  <2>3. QED  BY <2>1, <2>2 DEF OwnAccounts, Owners, Fair, KeysSafe
<1>2. QED  BY <1>1, InitAccount, NextAccount, PTL DEF CommandsSpec

-----------------------------------------------------------------------------
(* Where files go *)

\* What the commands make of the flags and hosts of a message.
JobFits(m, job) ==
  /\ job.mirror \in BOOLEAN /\ job.tg \in BOOLEAN
  /\ job.mirror => HostsWanted(m) # {} /\ SelectedHosts(job) = HostsWanted(m) /\ (job.tg <=> m.tg)
  /\ ~job.mirror => HostsWanted(m) = {}

Understood(m) ==
  /\ m.cmd \in Downloads \cup AllHosts /\ m.mirror \in BOOLEAN /\ m.tg \in BOOLEAN
  /\ ~Mistaken(m) /\ (m.cmd = "gofile" => \A l \in ToSet(m.links) \cup ToSet(Urls(m)) : Plainly(l))

LEMMA WordKind == Word.kind = "word"
BY DEF Word

\* Another word is none of the links.
LEMMA WordFacts ==
  ASSUME NEW m
  PROVE  /\ m.word => IsGofileURL(Word) /\ ToSet(Words(m)) = {Word}
         /\ ~m.word => ToSet(Words(m)) = {}
<1>1. IsGofileURL(Word)
  BY DEF IsGofileURL, Word
<1>2. ToSet(<<Word>>) = {Word} /\ ToSet(<<>>) = {}
  BY DEF ToSet
<1>3. QED  BY <1>1, <1>2 DEF Words

LEMMA HostNames ==
  /\ AllHosts # {} /\ EnabledHosts # {}
  /\ \A h \in AllHosts : h \notin Downloads /\ h \notin {"key", "file"}
BY CommandsAssumption DEF EnabledHosts

LEMMA FlaggedFits ==
  ASSUME NEW m, m.mirror \in BOOLEAN, m.tg \in BOOLEAN, NEW links,
         HostsWanted(m) = IF m.mirror THEN EnabledHosts ELSE {}
  PROVE  JobFits(m, Flagged(m, links))
<1> DEFINE job == Flagged(m, links)
<1>1. job.mirror = m.mirror /\ job.tg = (m.tg \/ ~m.mirror) /\ job.hosts = {}
  BY DEF Flagged, Flags, Job, NoJob
<1> HIDE DEF job
<1>2. SelectedHosts(job) = EnabledHosts
  BY <1>1 DEF SelectedHosts
<1>3. JobFits(m, job)
  BY <1>1, <1>2, HostNames DEF JobFits
<1>4. QED  BY <1>3 DEF job

\* A GoFile link is told by its prefix or its address.
LEMMA GofileLinks ==
  ASSUME NEW m, Understood(m), m.cmd = "gofile"
  PROVE  (\E l \in ToSet(Urls(m)) \cup ToSet(m.links) \cup ToSet(Words(m)) : IsGofileURL(l))
         <=> (\E l \in ToSet(m.links) \cup ToSet(Urls(m)) : l.kind = "gofile")
<1>1. ASSUME NEW l, Plainly(l) PROVE IsGofileURL(l) <=> l.kind = "gofile"
  <2>0. Word.kind = "word" /\ l.kind # "word"
    BY <1>1 DEF Word, Plainly
  <2>1. CASE l.pre = <<"gofile:">>
    BY <1>1, <2>0, <2>1 DEF Plainly, IsGofileURL, Starts
  <2>2. CASE l.pre # <<"gofile:">>
    BY <1>1, <2>0, <2>2 DEF Plainly, IsGofileURL
  <2>3. QED  BY <2>1, <2>2
<1>2. \A l \in ToSet(m.links) \cup ToSet(Urls(m)) : IsGofileURL(l) <=> l.kind = "gofile"
  BY <1>1 DEF Understood
<1>3. CASE ~m.word
  BY <1>2, <1>3, WordFacts
<1>4. CASE m.word
  <2>1. \E l \in ToSet(m.links) \cup ToSet(Urls(m)) : l.kind = "gofile"
    BY <1>4, CommandsAssumption DEF Understood, Mistaken, Mirrors
  <2>2. QED  BY <1>2, <2>1
<1>5. QED  BY <1>3, <1>4

LEMMA PlainFits ==
  ASSUME NEW m, NEW job, job.mirror = FALSE, job.tg \in BOOLEAN, HostsWanted(m) = {}
  PROVE  JobFits(m, job)
BY DEF JobFits

LEMMA HandlerFits ==
  ASSUME NEW m, Understood(m), Handler(m) # NoJob
  PROVE  JobFits(m, Handler(m))
<1>1. m.cmd \in Downloads \cup AllHosts /\ m.mirror \in BOOLEAN /\ m.tg \in BOOLEAN
  BY DEF Understood
<1>2. ASSUME NEW job, NEW urls, OrUsage(urls, job) # NoJob PROVE OrUsage(urls, job) = job
  BY <1>2 DEF OrUsage
<1>3. CASE m.cmd = "m"
  <2>1. m.cmd \notin AllHosts /\ Handler(m) = MirrorTo(m)
    BY <1>3, HostNames DEF Downloads, Handler
  <2>2. HostsWanted(m) = IF m.to # {} THEN m.to ELSE EnabledHosts
    BY <1>3 DEF HostsWanted, Mirrors
  <2>3. Handler(m).mirror = TRUE /\ Handler(m).tg = m.tg /\ Handler(m).hosts = m.to
    BY <1>3, <2>1 DEF MirrorTo, Flags, Job, NoJob
  <2>4. QED  BY <1>1, <2>2, <2>3, HostNames DEF JobFits, SelectedHosts
<1>4. CASE m.cmd \in AllHosts
  <2>1. m.cmd \notin Downloads /\ Handler(m) = MirrorTo(m)
    <3>1. m.cmd \notin Downloads
      BY <1>4, HostNames
    <3>2. QED  BY <1>4, <3>1 DEF Handler, Downloads
  <2>2. CASE Mirrors(m)
    <3>1. HostsWanted(m) = {m.cmd}
      BY <2>1, <2>2 DEF HostsWanted, Downloads
    <3>2. ~(m.cmd = "gofile" /\ \E l \in ToSet(Urls(m)) \cup ToSet(m.links) \cup ToSet(Words(m)) : IsGofileURL(l))
      BY <2>1, <2>2, GofileLinks DEF Mirrors, Downloads
    <3>3. Handler(m).mirror = TRUE /\ Handler(m).tg = m.tg /\ Handler(m).hosts = {m.cmd}
      BY <1>4, <2>1, <3>2 DEF MirrorTo, Flags, Job, NoJob
    <3>4. QED  BY <1>1, <3>1, <3>3 DEF JobFits, SelectedHosts
  <2>3. CASE ~Mirrors(m)
    <3>1. m.cmd = "gofile" /\ \E l \in ToSet(Urls(m)) \cup ToSet(m.links) \cup ToSet(Words(m)) : IsGofileURL(l)
      BY <1>4, <2>3, GofileLinks DEF Mirrors
    <3>2. Handler(m) = GofileDL(m)
      BY <2>1, <3>1 DEF MirrorTo
    <3>3. \E links : Handler(m) = Flagged(m, links)
      BY <1>2, <3>2 DEF GofileDL
    <3>4. HostsWanted(m) = IF m.mirror THEN EnabledHosts ELSE {}
      BY <2>3, <3>1 DEF HostsWanted
    <3>5. QED  BY <1>1, <3>3, <3>4, FlaggedFits
  <2>4. QED  BY <2>2, <2>3
<1>5. CASE m.cmd \in {"tor", "aria", "unzip"}
  <2>1. m.cmd \notin AllHosts /\ m.cmd # "m"
    BY <1>5, HostNames DEF Downloads
  <2>2. HostsWanted(m) = {}
    BY <1>5, <2>1 DEF HostsWanted, Mirrors
  <2>3. Handler(m).mirror = FALSE /\ Handler(m).tg = FALSE
    <3>1. CASE m.cmd = "tor"
      BY <2>1, <3>1 DEF Handler, Torrent, Job, NoJob
    <3>2. CASE m.cmd = "aria"
      BY <2>1, <3>2 DEF Handler, Aria, Job, NoJob
    <3>3. CASE m.cmd = "unzip"
      BY <2>1, <3>3 DEF Handler, Unzip, OrUsage, Job, NoJob
    <3>4. QED  BY <1>5, <3>1, <3>2, <3>3
  <2>4. QED  BY <2>2, <2>3, PlainFits
<1>6. CASE m.cmd \in {"dl", "gdl", "cdl", "gfdl", "mega", "gd"}
  <2>1. m.cmd \notin AllHosts /\ m.cmd # "m"
    BY <1>6, HostNames DEF Downloads
  <2>2. HostsWanted(m) = IF m.mirror THEN EnabledHosts ELSE {}
    BY <1>6, <2>1 DEF HostsWanted, Mirrors
  <2>3. CASE m.cmd \in {"gfdl", "mega", "gd"}
    <3>1. \E links : Handler(m) = Flagged(m, links)
      BY <1>2, <2>1, <2>3 DEF Handler, GofileDL, Mega, Drive
    <3>2. QED  BY <1>1, <2>2, <3>1, FlaggedFits
  <2>4. CASE m.cmd \in {"dl", "gdl", "cdl"}
    <3>1. \E links, engine : Handler(m) = [Flagged(m, links) EXCEPT !.engine = engine]
      BY <1>2, <2>1, <2>4 DEF Handler, Direct, Engine
    <3>2. PICK links, engine : Handler(m) = [Flagged(m, links) EXCEPT !.engine = engine]
      BY <3>1
    <3>3. JobFits(m, Flagged(m, links))
      BY <1>1, <2>2, FlaggedFits
    <3>4. /\ Handler(m).mirror = Flagged(m, links).mirror /\ Handler(m).tg = Flagged(m, links).tg
          /\ Handler(m).hosts = Flagged(m, links).hosts
      BY <3>2 DEF Flagged, Flags, Job, NoJob
    <3>5. QED  BY <3>3, <3>4 DEF JobFits, SelectedHosts
  <2>5. QED  BY <1>6, <2>3, <2>4
<1>7. QED  BY <1>1, <1>3, <1>4, <1>5, <1>6 DEF Downloads

\* How far a request is, and what its files have met.
Before == {"new", "key", "keyput", "file", "fileput"}
Served(q) == q.pc \notin Before /\ (q.pc = "done" => q.got # {})
Outcomes(q) == {"linked", "failed", "skipped"} \cup (IF q.pc = "mirror" THEN {"up"} ELSE {}) \cup (IF q.stop THEN {"unasked"} ELSE {})
Way(q) ==
  /\ q.pc \in Phases /\ (q.pc = "new" => q.m.cmd \notin {"key", "file"}) /\ (q.pc \in Before => q.got = {})
  /\ Served(q) => q.job = Handler(q.m) /\ q.job # NoJob /\ q.m.cmd \notin {"key", "file"}
  /\ q.stop \in BOOLEAN /\ (q.pc \notin {"mirror", "done"} => q.stop = FALSE)
  /\ q.pc # "done" => q.telegram = FALSE
  /\ q.pc \notin {"mirror", "telegram", "done"} => DOMAIN q.host = {}
  /\ q.pc \in {"mirror", "telegram", "done"} /\ Served(q) =>
       /\ DOMAIN q.host = IF q.job.mirror THEN SelectedHosts(q.job) ELSE {}
       /\ \A h \in DOMAIN q.host : q.host[h] \in Outcomes(q)
  /\ (q.pc = "mirror" => q.job.mirror) /\ (q.pc = "telegram" /\ q.job.mirror => q.job.tg)
  /\ q.pc = "done" /\ Served(q) => (q.telegram <=> (~q.job.mirror \/ (q.job.tg /\ ~q.stop)))

Clear == \A r \in Requests : LET m == reqs[r].m
  IN m.cmd \in Downloads \cup AllHosts \cup {"key", "file"} /\ m.mirror \in BOOLEAN /\ m.tg \in BOOLEAN
WayInv == Messages /\ Clear /\ \A r \in Requests : Way(reqs[r])

LEMMA InitWay == CommandsInit => WayInv
<1> SUFFICES ASSUME CommandsInit PROVE WayInv
  OBVIOUS
<1>1. PICK ms \in Scenes :
        reqs = [r \in DOMAIN ms |->
                 [New EXCEPT !.m = ms[r], !.pc = IF ms[r].cmd \in {"key", "file"} THEN ms[r].cmd ELSE "new"]]
  BY DEF CommandsInit
<1>2. Requests = DOMAIN ms
  BY <1>1 DEF Requests
<1>3. ASSUME NEW r \in Requests PROVE Way(reqs[r])
  <2> DEFINE q == reqs[r]
  <2>1. /\ q.m = ms[r] /\ q.pc = IF q.m.cmd \in {"key", "file"} THEN q.m.cmd ELSE "new"
        /\ q.got = {} /\ q.stop = FALSE /\ q.telegram = FALSE /\ DOMAIN q.host = {}
    BY <1>1, <1>2 DEF New
  <2> HIDE DEF q
  <2>2. Way(q)
    BY <2>1 DEF Way, Served, Before, Phases
  <2>3. QED  BY <2>2 DEF q
<1>4. Clear
  <2>1. \A r \in Requests : reqs[r].m = ms[r]
    BY <1>1, <1>2 DEF New
  <2>2. \A r \in DOMAIN ms : ms[r].cmd \in Downloads \cup AllHosts \cup {"key", "file"} /\ ms[r].mirror \in BOOLEAN /\ ms[r].tg \in BOOLEAN
    BY CommandsAssumption
  <2>3. QED  BY <1>2, <2>1, <2>2 DEF Clear
<1>5. Messages
  BY InitAccount DEF AccountInv
<1>6. QED  BY <1>3, <1>4, <1>5 DEF WayInv

LEMMA WayStep ==
  ASSUME WayInv, NEW r \in Requests, Moves(r), Way(reqs'[r])
  PROVE  WayInv'
<1>1. Messages /\ Messages' /\ Requests' = Requests
  BY MovesMessages DEF WayInv, Moves
<1>2. \A q \in Requests : reqs'[q].m = reqs[q].m /\ (q = r \/ reqs'[q] = reqs[q])
  BY DEF Moves
<1>3. Clear'
  BY <1>1, <1>2 DEF Clear, WayInv
<1>4. QED  BY <1>1, <1>2, <1>3 DEF WayInv

\* Only the place of a request changes.
LEMMA GoesWay ==
  ASSUME WayInv, NEW r \in Requests, NEW p, Goes(r, p),
         \/ reqs[r].pc \in Before /\ p \in {"keyput", "fileput", "done"}
         \/ reqs[r].pc = "drive" /\ p \in {"refresh", "fetched"}
         \/ reqs[r].pc = "refresh" /\ p = "fetched"
         \/ /\ Settled(r) /\ p = IF reqs[r].job.tg /\ ~reqs[r].stop THEN "telegram" ELSE "done"
            /\ reqs[r].stop \in BOOLEAN
  PROVE  WayInv'
<1> DEFINE q == reqs[r]
           to == [q EXCEPT !.pc = p]
<1>1. DOMAIN q = Fields /\ Messages /\ Way(q)
  BY DEF WayInv, Messages
<1>2. /\ DOMAIN to = Fields /\ to.pc = p /\ to.m = q.m /\ to.job = q.job /\ to.got = q.got /\ to.host = q.host
      /\ to.stop = q.stop /\ to.telegram = q.telegram
  BY <1>1, FieldNames
<1>3. reqs' = [reqs EXCEPT ![r] = to]
  BY DEF Goes
<1> HIDE DEF to
<1>4. Moves(r) /\ reqs'[r] = to
  BY <1>1, <1>2, <1>3, MovesTo
<1>5. Way(to)
  <2>1. CASE q.pc \in Before /\ p \in {"keyput", "fileput", "done"}
    BY <1>1, <1>2, <2>1 DEF Way, Served, Before, Phases
  <2>2. CASE q.pc \in {"drive", "refresh"} /\ p \in {"refresh", "fetched"}
    BY <1>1, <1>2, <2>2 DEF Way, Served, Before, Phases
  <2>3. CASE Settled(r) /\ p = (IF q.job.tg /\ ~q.stop THEN "telegram" ELSE "done") /\ q.stop \in BOOLEAN
    <3>1. q.pc = "mirror" /\ \A h \in DOMAIN q.host : q.host[h] # "up"
      BY <2>3 DEF Settled
    <3>2. Served(q) /\ p \in {"telegram", "done"}
      BY <2>3, <3>1 DEF Served, Before
    <3>3. \A h \in DOMAIN to.host : to.host[h] \in Outcomes(to)
      BY <1>1, <1>2, <3>1, <3>2 DEF Way, Outcomes
    <3> DEFINE hosts == IF q.job.mirror THEN SelectedHosts(q.job) ELSE {}
    <3>4. DOMAIN to.host = IF to.job.mirror THEN SelectedHosts(to.job) ELSE {}
      BY <1>1, <1>2, <3>1, <3>2 DEF Way
    <3>5. /\ q.job.mirror /\ q.telegram = FALSE
          /\ to.job = Handler(to.m) /\ to.job # NoJob /\ to.m.cmd \notin {"key", "file"}
      BY <1>1, <1>2, <3>1, <3>2 DEF Way
    <3>6. p = "telegram" => q.job.tg /\ q.stop = FALSE
      BY <2>3
    <3>7. p = "done" => ~(q.job.tg /\ ~q.stop)
      BY <2>3
    <3>8. QED  BY <1>2, <2>3, <3>2, <3>3, <3>4, <3>5, <3>6, <3>7 DEF Way, Phases, Before
  <2>4. QED  BY <2>1, <2>2, <2>3
<1>6. QED  BY <1>4, <1>5, WayStep

\* The other steps: what they make of the record of the request.
LEMMA MovedWay ==
  ASSUME WayInv, NEW r \in Requests, NEW to, reqs' = [reqs EXCEPT ![r] = to],
         DOMAIN to = Fields, to.m = reqs[r].m, Way(to)
  PROVE  WayInv'
<1>1. Moves(r) /\ reqs'[r] = to
  BY MovesTo DEF WayInv
<1>2. QED  BY <1>1, WayStep

LEMMA HandleWay ==
  ASSUME WayInv, NEW r \in Requests, Handle(r)
  PROVE  WayInv'
<1> DEFINE q == reqs[r]
           job == Handler(q.m)
           p == IF job = NoJob THEN "done" ELSE "queued"
           a == [q EXCEPT !.job = job]
           to == [a EXCEPT !.pc = p]
<1>1. DOMAIN q = Fields /\ Way(q) /\ q.pc = "new"
  BY DEF WayInv, Messages, Handle
<1>2. reqs' = [reqs EXCEPT ![r] = to]
  <2>1. reqs' = [reqs EXCEPT ![r].job = job, ![r].pc = p]
    BY DEF Handle
  <2> HIDE DEF job, p
  <2>2. QED  BY <2>1
<1>3. p = IF job = NoJob THEN "done" ELSE "queued"
  OBVIOUS
<1>4. job = Handler(q.m)
  OBVIOUS
<1> HIDE DEF job, p
<1>5. /\ DOMAIN a = Fields /\ a.m = q.m /\ a.job = job /\ a.got = q.got /\ a.host = q.host
      /\ a.stop = q.stop /\ a.telegram = q.telegram
  BY <1>1, FieldNames
<1> HIDE DEF a
<1>6. /\ DOMAIN to = Fields /\ to.pc = p /\ to.m = q.m /\ to.job = job /\ to.got = q.got /\ to.host = q.host
      /\ to.stop = q.stop /\ to.telegram = q.telegram
  BY <1>5, FieldNames
<1> HIDE DEF to
<1>7. Way(to)
  <2>1. /\ q.got = {} /\ q.stop = FALSE /\ q.telegram = FALSE /\ DOMAIN q.host = {} /\ q.m.cmd \notin {"key", "file"}
    BY <1>1 DEF Way, Before
  <2>2. QED  BY <1>3, <1>4, <1>6, <2>1 DEF Way, Served, Before, Phases
<1>8. QED  BY <1>2, <1>6, <1>7, MovedWay

LEMMA DownloadWay ==
  ASSUME WayInv, NEW r \in Requests, Download(r)
  PROVE  WayInv'
<1> DEFINE q == reqs[r]
           s == PickSource(q.job)
<1>1. DOMAIN q = Fields /\ Way(q) /\ q.pc = "queued"
  BY DEF WayInv, Messages, Download
<1>2. \E p \in {"drive", "fetched"} : \E got, token :
        reqs' = [reqs EXCEPT ![r].source = s, ![r].pc = p, ![r].got = got, ![r].token = token]
  <2>1. CASE s # "google-drive"
    BY <2>1 DEF Download
  <2>2. CASE s = "google-drive"
    BY <2>2 DEF Download
  <2>3. QED  BY <2>1, <2>2
<1>3. PICK p \in {"drive", "fetched"} : \E got, token :
        reqs' = [reqs EXCEPT ![r].source = s, ![r].pc = p, ![r].got = got, ![r].token = token]
  BY <1>2
<1>4. PICK got, token :
        reqs' = [reqs EXCEPT ![r].source = s, ![r].pc = p, ![r].got = got, ![r].token = token]
  BY <1>3
<1> HIDE DEF s
<1> DEFINE a == [q EXCEPT !.source = s]
           b == [a EXCEPT !.pc = p]
           c == [b EXCEPT !.got = got]
           to == [c EXCEPT !.token = token]
<1>5. reqs' = [reqs EXCEPT ![r] = to]
  BY <1>4
<1>6. /\ DOMAIN a = Fields /\ a.m = q.m /\ a.job = q.job /\ a.host = q.host
      /\ a.stop = q.stop /\ a.telegram = q.telegram
  BY <1>1, FieldNames
<1> HIDE DEF a
<1>7. /\ DOMAIN b = Fields /\ b.pc = p /\ b.m = q.m /\ b.job = q.job /\ b.host = q.host
      /\ b.stop = q.stop /\ b.telegram = q.telegram
  BY <1>6, FieldNames
<1> HIDE DEF b
<1>8. /\ DOMAIN c = Fields /\ c.pc = p /\ c.m = q.m /\ c.job = q.job /\ c.host = q.host
      /\ c.stop = q.stop /\ c.telegram = q.telegram
  BY <1>7, FieldNames
<1> HIDE DEF c
<1>9. /\ DOMAIN to = Fields /\ to.pc = p /\ to.m = q.m /\ to.job = q.job /\ to.host = q.host
      /\ to.stop = q.stop /\ to.telegram = q.telegram
  BY <1>8, FieldNames
<1> HIDE DEF to
<1>10. Way(to)
  BY <1>1, <1>9 DEF Way, Served, Before, Phases
<1>11. QED  BY <1>5, <1>9, <1>10, MovedWay

LEMMA UploadWay ==
  ASSUME WayInv, NEW r \in Requests, Upload(r)
  PROVE  WayInv'
<1> DEFINE q == reqs[r]
           p == IF q.got = {} THEN "done" ELSE IF q.job.mirror THEN "mirror" ELSE "telegram"
           a == [q EXCEPT !.pc = p]
           hosts == IF ~q.job.mirror \/ q.got = {} THEN a.host
                    ELSE [h \in SelectedHosts(q.job) |-> IF q.m.large /\ h \in SmallHosts THEN "skipped" ELSE "up"]
           b == [a EXCEPT !.host = hosts]
           none == [h \in SelectedHosts(q.job) |-> 0]
           to == [b EXCEPT !.tries = none]
<1>1. DOMAIN q = Fields /\ Way(q) /\ q.pc = "fetched"
  BY DEF WayInv, Messages, Upload
<1>2. p = IF q.got = {} THEN "done" ELSE IF q.job.mirror THEN "mirror" ELSE "telegram"
  OBVIOUS
<1>3. /\ DOMAIN a = Fields /\ a.pc = p /\ a.m = q.m /\ a.job = q.job /\ a.got = q.got /\ a.host = q.host
      /\ a.stop = q.stop /\ a.telegram = q.telegram
  <2> HIDE DEF p
  <2>1. QED  BY <1>1, FieldNames
<1>4. reqs' = [reqs EXCEPT ![r] = to]
  BY <1>3 DEF Upload
<1>5. /\ ~q.job.mirror \/ q.got = {} => hosts = q.host
      /\ q.job.mirror /\ q.got # {} => DOMAIN hosts = SelectedHosts(q.job) /\ \A h \in DOMAIN hosts : hosts[h] \in {"skipped", "up"}
  BY <1>3
<1> HIDE DEF p, a, hosts, none
<1>6. /\ DOMAIN b = Fields /\ b.pc = p /\ b.m = q.m /\ b.job = q.job /\ b.got = q.got /\ b.host = hosts
      /\ b.stop = q.stop /\ b.telegram = q.telegram
  BY <1>3, FieldNames
<1> HIDE DEF b
<1>7. /\ DOMAIN to = Fields /\ to.pc = p /\ to.m = q.m /\ to.job = q.job /\ to.got = q.got /\ to.host = hosts
      /\ to.stop = q.stop /\ to.telegram = q.telegram
  BY <1>6, FieldNames
<1> HIDE DEF to
<1>8. /\ q.stop = FALSE /\ q.telegram = FALSE /\ DOMAIN q.host = {} /\ q.m.cmd \notin {"key", "file"}
      /\ q.job = Handler(q.m) /\ q.job # NoJob
  BY <1>1 DEF Way, Served, Before
<1>9. Way(to)
  <2>1. CASE q.got = {}
    BY <1>2, <1>7, <1>8, <2>1 DEF Way, Served, Before, Phases
  <2>2. CASE q.got # {} /\ q.job.mirror
    <3>1. p = "mirror" /\ \A h \in DOMAIN to.host : to.host[h] \in Outcomes(to)
      BY <1>2, <1>5, <1>7, <2>2 DEF Outcomes
    <3>2. QED  BY <1>5, <1>7, <1>8, <2>2, <3>1 DEF Way, Served, Before, Phases
  <2>3. CASE q.got # {} /\ ~q.job.mirror
    <3>1. p = "telegram" /\ DOMAIN to.host = {}
      BY <1>2, <1>5, <1>7, <1>8, <2>3
    <3>2. QED  BY <1>7, <1>8, <2>3, <3>1 DEF Way, Served, Before, Phases
  <2>4. QED  BY <2>1, <2>2, <2>3
<1>10. QED  BY <1>4, <1>7, <1>9, MovedWay

\* A host answers, or is not asked any more.
LEMMA AnswerWay ==
  ASSUME WayInv, NEW r \in Requests, reqs[r].pc = "mirror", NEW h \in DOMAIN reqs[r].host, NEW v, NEW tries, NEW b,
         b = [reqs[r] EXCEPT !.host = [reqs[r].host EXCEPT ![h] = v]],
         reqs' = [reqs EXCEPT ![r] = [b EXCEPT !.tries = tries]],
         v \in {"linked", "failed", "up"} \cup (IF reqs[r].stop THEN {"unasked"} ELSE {})
  PROVE  WayInv'
<1> DEFINE q == reqs[r]
           hosts == [q.host EXCEPT ![h] = v]
           a == [q EXCEPT !.host = hosts]
           to == [a EXCEPT !.tries = tries]
<1>1. DOMAIN q = Fields /\ Way(q) /\ q.pc = "mirror"
  BY DEF WayInv, Messages
<1>2. reqs' = [reqs EXCEPT ![r] = to]
  OBVIOUS
<1>3. DOMAIN hosts = DOMAIN q.host /\ \A g \in DOMAIN q.host : hosts[g] = q.host[g] \/ hosts[g] = v
  OBVIOUS
<1> HIDE DEF hosts
<1>4. /\ DOMAIN a = Fields /\ a.pc = q.pc /\ a.m = q.m /\ a.job = q.job /\ a.got = q.got /\ a.host = hosts
      /\ a.stop = q.stop /\ a.telegram = q.telegram
  BY <1>1, FieldNames
<1> HIDE DEF a
<1>5. /\ DOMAIN to = Fields /\ to.pc = q.pc /\ to.m = q.m /\ to.job = q.job /\ to.got = q.got /\ to.host = hosts
      /\ to.stop = q.stop /\ to.telegram = q.telegram
  BY <1>4, FieldNames
<1> HIDE DEF to
<1>6. Served(q) /\ Served(to)
  BY <1>1, <1>5 DEF Served, Before
<1>7. \A g \in DOMAIN to.host : to.host[g] \in Outcomes(to)
  <2>1. Outcomes(to) = Outcomes(q) /\ v \in Outcomes(q)
    BY <1>1, <1>5 DEF Outcomes
  <2>2. \A g \in DOMAIN q.host : q.host[g] \in Outcomes(q)
    BY <1>1, <1>6 DEF Way
  <2>3. QED  BY <1>3, <1>5, <2>1, <2>2
<1>8. Way(to)
  BY <1>1, <1>3, <1>5, <1>6, <1>7 DEF Way, Before
<1>9. QED  BY <1>2, <1>5, <1>8, MovedWay

LEMMA AttemptWay ==
  ASSUME WayInv, NEW r \in Requests, NEW h \in DOMAIN reqs[r].host, Attempt(r, h)
  PROVE  WayInv'
<1> DEFINE q == reqs[r]
<1>0. PICK allowed \in AllowShared : \E result \in Answers(r, h, allowed) :
        reqs' = [reqs EXCEPT
         ![r].host[h] = IF result # "again" THEN result ELSE IF reqs[r].tries[h] = Retries THEN "failed" ELSE @,
         ![r].tries[h] = IF result = "again" /\ @ < Retries THEN @ + 1 ELSE @]
  BY DEF Attempt
<1>1. PICK result \in Answers(r, h, allowed) :
        reqs' = [reqs EXCEPT
         ![r].host[h] = IF result # "again" THEN result ELSE IF reqs[r].tries[h] = Retries THEN "failed" ELSE @,
         ![r].tries[h] = IF result = "again" /\ @ < Retries THEN @ + 1 ELSE @]
  BY <1>0
<1>2. q.pc = "mirror" /\ q.host[h] = "up" /\ DOMAIN q = Fields
  BY DEF Attempt, WayInv, Messages
<1> DEFINE v == IF result # "again" THEN result ELSE IF q.tries[h] = Retries THEN "failed" ELSE q.host[h]
           n == IF result = "again" /\ q.tries[h] < Retries THEN q.tries[h] + 1 ELSE q.tries[h]
           a == [q EXCEPT !.host = [q.host EXCEPT ![h] = v]]
           tries == [q.tries EXCEPT ![h] = n]
<1>3. v \in {"linked", "failed", "up"}
  BY <1>2 DEF Answers
<1>4. reqs' = [reqs EXCEPT ![r] = [a EXCEPT !.tries = tries]]
  <2>1. a.tries = q.tries
    <3> HIDE DEF v
    <3>1. QED  BY <1>2, FieldNames
  <2>2. reqs' = [reqs EXCEPT ![r] = [a EXCEPT !.tries = [a.tries EXCEPT ![h] = n]]]
    BY <1>1, <2>1
  <2> HIDE DEF a, n
  <2>3. QED  BY <2>1, <2>2
<1> HIDE DEF v, n, tries
<1>5. QED  BY <1>2, <1>3, <1>4, AnswerWay

LEMMA HostWay ==
  ASSUME WayInv, NEW r \in Requests, Cancel(r) \/ \E h \in DOMAIN reqs[r].host : HostStops(r, h)
  PROVE  WayInv'
<1> DEFINE q == reqs[r]
<1>1. DOMAIN q = Fields /\ Way(q) /\ q.pc = "mirror"
  BY DEF WayInv, Messages, Cancel, HostStops
<1>2. CASE Cancel(r)
  <2> DEFINE to == [q EXCEPT !.stop = TRUE]
  <2>1. reqs' = [reqs EXCEPT ![r] = to]
    BY <1>2 DEF Cancel
  <2>2. /\ DOMAIN to = Fields /\ to.pc = q.pc /\ to.m = q.m /\ to.job = q.job /\ to.got = q.got /\ to.host = q.host
        /\ to.stop = TRUE /\ to.telegram = q.telegram
    BY <1>1, FieldNames
  <2> HIDE DEF to
  <2>3. Served(q) /\ Served(to)
    BY <1>1, <2>2 DEF Served, Before
  <2>4. \A g \in DOMAIN to.host : to.host[g] \in Outcomes(to)
    BY <1>1, <2>2, <2>3 DEF Way, Outcomes
  <2>5. Way(to)
    BY <1>1, <2>2, <2>3, <2>4 DEF Way, Before
  <2>6. QED  BY <2>1, <2>2, <2>5, MovedWay
<1>3. CASE \E h \in DOMAIN q.host : HostStops(r, h)
  <2>1. PICK h \in DOMAIN q.host, state \in {"failed", "unasked"} : q.stop /\ reqs' = [reqs EXCEPT ![r].host[h] = state]
    BY <1>3 DEF HostStops
  <2> DEFINE a == [q EXCEPT !.host = [q.host EXCEPT ![h] = state]]
  <2>2. DOMAIN a = Fields /\ a = [x \in DOMAIN a |-> a[x]]
    BY <1>1
  <2>3. a = [a EXCEPT !.tries = a.tries]
    <3> HIDE DEF a
    <3>1. QED  BY <2>2, FieldNames
  <2>4. reqs' = [reqs EXCEPT ![r] = [a EXCEPT !.tries = a.tries]]
    <3>1. reqs' = [reqs EXCEPT ![r] = a]
      BY <2>1
    <3> HIDE DEF a
    <3>2. QED  BY <2>3, <3>1
  <2>5. PICK tries : reqs' = [reqs EXCEPT ![r] = [a EXCEPT !.tries = tries]]
    <3> HIDE DEF a
    <3>1. QED  BY <2>4
  <2>6. state \in {"linked", "failed", "up"} \cup (IF q.stop THEN {"unasked"} ELSE {})
    BY <2>1
  <2>7. QED  BY <1>1, <2>5, <2>6, AnswerWay
<1>4. QED  BY <1>2, <1>3

LEMMA TelegramWay ==
  ASSUME WayInv, NEW r \in Requests, Telegram(r)
  PROVE  WayInv'
<1> DEFINE q == reqs[r]
           a == [q EXCEPT !.pc = "done"]
           to == [a EXCEPT !.telegram = TRUE]
<1>1. DOMAIN q = Fields /\ Way(q) /\ q.pc = "telegram"
  BY DEF WayInv, Messages, Telegram
<1>2. reqs' = [reqs EXCEPT ![r] = to]
  BY DEF Telegram
<1>3. /\ DOMAIN a = Fields /\ a.pc = "done" /\ a.m = q.m /\ a.job = q.job /\ a.got = q.got /\ a.host = q.host
      /\ a.stop = q.stop
  BY <1>1, FieldNames
<1> HIDE DEF a
<1>4. /\ DOMAIN to = Fields /\ to.pc = "done" /\ to.m = q.m /\ to.job = q.job /\ to.got = q.got /\ to.host = q.host
      /\ to.stop = q.stop /\ to.telegram = TRUE
  BY <1>3, FieldNames
<1> HIDE DEF to
<1>5. Served(q) /\ q.stop = FALSE
  BY <1>1 DEF Way, Served, Before
<1>6. \A g \in DOMAIN to.host : to.host[g] \in Outcomes(to)
  BY <1>1, <1>4, <1>5 DEF Way, Outcomes
<1>7. Way(to)
  BY <1>1, <1>4, <1>5, <1>6 DEF Way, Before, Phases
<1>8. QED  BY <1>2, <1>4, <1>7, MovedWay

LEMMA WorksWay ==
  ASSUME WayInv, NEW r \in Requests, Works(r)
  PROVE  WayInv'
<1>1. CASE KeyRead(r)
  <2> DEFINE q == reqs[r]
             a == [q EXCEPT !.old = keys[User(r)]]
             to == [a EXCEPT !.pc = "keyput"]
  <2>1. DOMAIN q = Fields /\ Way(q) /\ q.pc = "key" /\ reqs' = [reqs EXCEPT ![r] = to]
    BY <1>1 DEF WayInv, Messages, KeyRead
  <2>2. /\ DOMAIN a = Fields /\ a.m = q.m /\ a.job = q.job /\ a.got = q.got /\ a.host = q.host
        /\ a.stop = q.stop /\ a.telegram = q.telegram
    BY <2>1, FieldNames
  <2> HIDE DEF a
  <2>3. /\ DOMAIN to = Fields /\ to.pc = "keyput" /\ to.m = q.m /\ to.job = q.job /\ to.got = q.got /\ to.host = q.host
        /\ to.stop = q.stop /\ to.telegram = q.telegram
    BY <2>2, FieldNames
  <2> HIDE DEF to
  <2>4. Way(to)
    BY <2>1, <2>3 DEF Way, Served, Before, Phases
  <2>5. QED  BY <2>1, <2>3, <2>4, MovedWay
<1>2. CASE KeyWrite(r) \/ FileBegin(r) \/ FileEnd(r)
  <2>1. reqs[r].pc \in Before /\ \E p \in {"keyput", "fileput", "done"} : Goes(r, p)
    BY <1>2 DEF KeyWrite, FileBegin, FileEnd, Before
  <2>2. QED  BY <2>1, GoesWay
<1>3. CASE Refresh(r) \/ DriveFetched(r)
  <2>1. reqs[r].pc = "drive" /\ \E p \in {"refresh", "fetched"} : Goes(r, p)
    BY <1>3 DEF Refresh, DriveFetched
  <2>2. QED  BY <2>1, GoesWay
<1>4. CASE Refreshed(r)
  <2>1. reqs[r].pc = "refresh" /\ Goes(r, "fetched")
    BY <1>4 DEF Refreshed
  <2>2. QED  BY <2>1, GoesWay
<1>5. CASE Handle(r) \/ Download(r) \/ Upload(r) \/ Telegram(r)
  BY <1>5, HandleWay, DownloadWay, UploadWay, TelegramWay
<1>6. CASE \E h \in DOMAIN reqs[r].host : Attempt(r, h) \/ HostStops(r, h)
  BY <1>6, AttemptWay, HostWay
<1>7. CASE Mirrored(r)
  <2> DEFINE p == IF reqs[r].job.tg /\ ~reqs[r].stop THEN "telegram" ELSE "done"
  <2>1. Settled(r) /\ Goes(r, p) /\ reqs[r].stop \in BOOLEAN
    BY <1>7 DEF Mirrored, WayInv, Way, Settled
  <2>2. QED  BY <2>1, GoesWay
<1>8. QED  BY <1>1, <1>2, <1>3, <1>4, <1>5, <1>6, <1>7 DEF Works, Proceeds, Fetching, Attempting

LEMMA NextWay == WayInv /\ [CommandsNext]_commandVars => WayInv'
<1> SUFFICES ASSUME WayInv, [CommandsNext]_commandVars PROVE WayInv'
  OBVIOUS
<1>1. CASE \E r \in Requests : Works(r) \/ Cancel(r)
  BY <1>1, WorksWay, HostWay
<1>2. CASE UNCHANGED commandVars
  BY <1>2 DEF commandVars, WayInv, Messages, Clear, Requests, User
<1>3. QED  BY <1>1, <1>2 DEF CommandsNext, Done

\* Whatever commands, flags, links and hosts a message names: its files go to the hosts
\* that were asked for and no others, and to Telegram if that was asked for or no host was,
\* whatever the hosts have said (parseFlags, cmdMirrorTo, selectedHosts, mirrorFile and
\* processFile).
THEOREM FilesGoWhereAsked == CommandsSpec => []GoesWhereAsked
<1>1. WayInv => GoesWhereAsked
  <2> SUFFICES ASSUME WayInv, NEW r \in Requests, reqs[r].pc = "done", reqs[r].got # {}, ~Mistaken(reqs[r].m),
                      reqs[r].m.cmd = "gofile" =>
                        \A l \in ToSet(reqs[r].m.links) \cup ToSet(Urls(reqs[r].m)) : Plainly(l)
               PROVE  /\ DOMAIN reqs[r].host = HostsWanted(reqs[r].m)
                      /\ ~reqs[r].stop =>
                           /\ (reqs[r].telegram <=> (HostsWanted(reqs[r].m) = {} \/ reqs[r].m.tg))
                           /\ \A h \in DOMAIN reqs[r].host : reqs[r].host[h] \in {"linked", "failed", "skipped"}
    BY DEF GoesWhereAsked
  <2> DEFINE q == reqs[r]  m == q.m
  <2>1. Way(q) /\ Served(q) /\ q.pc = "done"
    BY DEF WayInv, Served, Before
  <2>2. q.job = Handler(m) /\ q.job # NoJob /\ m.cmd \notin {"key", "file"}
    BY <2>1 DEF Way
  <2>3. Understood(m)
    BY <2>2 DEF WayInv, Clear, Understood
  <2>4. JobFits(m, q.job)
    BY <2>2, <2>3, HandlerFits
  <2> HIDE DEF m
  <2>5. /\ DOMAIN q.host = IF q.job.mirror THEN SelectedHosts(q.job) ELSE {}
        /\ \A h \in DOMAIN q.host : q.host[h] \in Outcomes(q)
        /\ q.telegram <=> (~q.job.mirror \/ (q.job.tg /\ ~q.stop))
    BY <2>1 DEF Way
  <2>6. DOMAIN q.host = HostsWanted(m)
    BY <2>4, <2>5 DEF JobFits
  <2>7. ASSUME ~q.stop PROVE q.telegram <=> (HostsWanted(m) = {} \/ m.tg)
    BY <2>4, <2>5, <2>7 DEF JobFits
  <2>8. ASSUME ~q.stop PROVE \A h \in DOMAIN q.host : q.host[h] \in {"linked", "failed", "skipped"}
    BY <2>1, <2>5, <2>8 DEF Outcomes
  <2>9. QED  BY <2>6, <2>7, <2>8 DEF m
<1>2. QED  BY <1>1, InitWay, NextWay, PTL DEF CommandsSpec

-----------------------------------------------------------------------------
(* Lists of links *)

LEMMA LeastOf ==
  ASSUME NEW T, T \subseteq Nat, T # {}
  PROVE  \E m \in T : \A n \in T : ~(n < m)
<1> DEFINE R == OpToRel(<, Nat)
<1>1. IsWellFoundedOn(R, Nat)
  BY NatLessThanWellFounded
<1>2. \A m, n \in Nat : n < m => <<n, m>> \in R
  BY DEF OpToRel
<1> HIDE DEF R
<1>3. PICK m \in T : \A n \in T : <<n, m>> \notin R
  BY <1>1, WFMin
<1>4. QED  BY <1>2, <1>3

Chosen(k, l, S, n) ==
  k = [i \in 0..n |-> IF i = 0 THEN <<>> ELSE IF l[i] \in S THEN Append(k[i - 1], l[i]) ELSE k[i - 1]]

LEMMA ChosenExists ==
  ASSUME NEW l, NEW S, NEW n \in Nat
  PROVE  \E k : Chosen(k, l, S, n)
<1> DEFINE Bad == {i \in Nat : ~\E k : Chosen(k, l, S, i)}
<1>1. SUFFICES ASSUME Bad # {} PROVE FALSE
  OBVIOUS
<1>2. Bad \subseteq Nat
  OBVIOUS
<1>3. PICK m \in Bad : \A i \in Bad : ~(i < m)
  BY <1>1, <1>2, LeastOf
<1>4. m # 0
  <2> DEFINE g == [i \in 0..0 |-> <<>>]
  <2>1. Chosen(g, l, S, 0)
    BY DEF Chosen
  <2>2. QED  BY <1>3, <2>1
<1>5. m \in Nat /\ m - 1 \in Nat /\ m - 1 < m /\ m - 1 \in 0..m - 1 /\ m \notin 0..m - 1
  BY <1>3, <1>4
<1>6. PICK g : Chosen(g, l, S, m - 1)
  BY <1>3, <1>5
<1> DEFINE next == IF l[m] \in S THEN Append(g[m - 1], l[m]) ELSE g[m - 1]
           h == [i \in 0..m |-> IF i = m THEN next ELSE g[i]]
<1>7. \A i \in 0..m : i # m => i \in 0..m - 1
  BY <1>5
<1>8. \A i \in 0..m - 1 : g[i] = IF i = 0 THEN <<>> ELSE IF l[i] \in S THEN Append(g[i - 1], l[i]) ELSE g[i - 1]
  BY <1>6 DEF Chosen
<1>9. \A i \in 0..m : i # 0 => i - 1 \in 0..m /\ i - 1 # m
  BY <1>5
<1>10. \A i \in 0..m : i # 0 => h[i - 1] = g[i - 1]
  BY <1>9
<1>11. \A i \in 0..m : h[i] = IF i = 0 THEN <<>> ELSE IF l[i] \in S THEN Append(h[i - 1], l[i]) ELSE h[i - 1]
  <2>1. ASSUME NEW i \in 0..m, i # m
        PROVE h[i] = IF i = 0 THEN <<>> ELSE IF l[i] \in S THEN Append(h[i - 1], l[i]) ELSE h[i - 1]
    <3>1. h[i] = g[i] /\ i \in 0..m - 1
      BY <1>7, <2>1
    <3> HIDE DEF h
    <3>2. QED  BY <1>8, <1>10, <3>1
  <2>2. h[m] = next /\ m \in 0..m /\ h[m - 1] = g[m - 1]
    BY <1>4, <1>5, <1>10
  <2> HIDE DEF h
  <2>3. QED  BY <1>4, <2>1, <2>2
<1>12. h = [i \in 0..m |-> h[i]]
  OBVIOUS
<1> HIDE DEF h
<1>13. Chosen(h, l, S, m)
  BY <1>11, <1>12 DEF Chosen
<1>14. QED  BY <1>3, <1>13

\* What is kept of a list: members of it in the set; all of it if all are.
LEMMA AmongFacts ==
  ASSUME NEW A, NEW l \in Seq(A), NEW S
  PROVE  /\ Among(l, S) \in Seq(A) /\ ToSet(Among(l, S)) = ToSet(l) \cap S
         /\ ToSet(l) \subseteq S => Among(l, S) = l
         /\ ToSet(l) \cap S = {} => Among(l, S) = <<>>
<1> DEFINE n == Len(l)
           k == CHOOSE c : Chosen(c, l, S, n)
           ok(i) == /\ k[i] \in Seq(A) /\ Range(k[i]) = {l[j] : j \in 1..i} \cap S
                    /\ (\A j \in 1..i : l[j] \in S) => Len(k[i]) = i /\ \A j \in 1..i : k[i][j] = l[j]
           Bad == {i \in 0..n : ~ok(i)}
<1>1. n \in Nat /\ DOMAIN l = 1..n /\ \A i \in 1..n : l[i] \in A
  BY LenProperties
<1>2. Among(l, S) = k[n]
  BY DEF Among, Chosen
<1>3. Chosen(k, l, S, n)
  BY <1>1, ChosenExists
<1> HIDE DEF k, n
<1>4. k[0] = <<>>
  BY <1>1, <1>3 DEF Chosen
<1>5. \A i \in 1..n : k[i] = IF l[i] \in S THEN Append(k[i - 1], l[i]) ELSE k[i - 1]
  <2>1. \A i \in 0..n : k[i] = IF i = 0 THEN <<>> ELSE IF l[i] \in S THEN Append(k[i - 1], l[i]) ELSE k[i - 1]
    BY <1>3 DEF Chosen
  <2>2. \A i \in 1..n : i \in 0..n /\ i # 0
    BY <1>1
  <2>3. QED  BY <2>1, <2>2
<1>6. ok(0)
  BY <1>4, EmptySeq DEF Range
<1>7. ASSUME NEW i \in 1..n, ok(i - 1) PROVE ok(i)
  <2> DEFINE t == k[i - 1]
  <2>1. /\ t \in Seq(A) /\ Range(t) = {l[j] : j \in 1..i - 1} \cap S
        /\ (\A j \in 1..i - 1 : l[j] \in S) => Len(t) = i - 1 /\ \A j \in 1..i - 1 : t[j] = l[j]
    BY <1>7
  <2>2. 1..i = (1..i - 1) \cup {i} /\ i \in Nat /\ l[i] \in A
    BY <1>1, <1>7
  <2>3. k[i] = IF l[i] \in S THEN Append(t, l[i]) ELSE t
    BY <1>5, <1>7
  <2> HIDE DEF t
  <2>4. CASE l[i] \notin S
    BY <2>1, <2>2, <2>3, <2>4
  <2>5. CASE l[i] \in S
    <3> DEFINE a == Append(t, l[i])
    <3>1. /\ a \in Seq(A) /\ Len(a) = Len(t) + 1 /\ \A j \in 1..Len(t) : a[j] = t[j]
          /\ a[Len(t) + 1] = l[i] /\ Len(t) \in Nat /\ DOMAIN t = 1..Len(t)
      BY <2>1, <2>2, AppendProperties, LenProperties
    <3>2. DOMAIN a = 1..Len(t) + 1
      BY <3>1, LenProperties
    <3> HIDE DEF a
    <3>3. 1..Len(t) + 1 = (1..Len(t)) \cup {Len(t) + 1}
      BY <3>1
    <3>4. Range(a) = Range(t) \cup {l[i]}
      BY <3>1, <3>2, <3>3 DEF Range
    <3>5. Range(a) = {l[j] : j \in 1..i} \cap S
      BY <2>1, <2>2, <2>5, <3>4
    <3>6. ASSUME \A j \in 1..i : l[j] \in S PROVE Len(a) = i /\ \A j \in 1..i : a[j] = l[j]
      <4>1. Len(t) = i - 1 /\ \A j \in 1..i - 1 : t[j] = l[j]
        BY <2>1, <2>2, <3>6
      <4>2. \A j \in 1..i : j \in 1..i - 1 \/ j = i
        BY <2>2
      <4>3. Len(t) + 1 = i
        BY <2>2, <4>1
      <4>4. QED  BY <3>1, <4>1, <4>2, <4>3
    <3>7. k[i] = a
      BY <2>3, <2>5 DEF a
    <3>8. QED  BY <3>1, <3>5, <3>6, <3>7
  <2>6. QED  BY <2>4, <2>5
<1> HIDE DEF ok
<1>8. Bad = {}
  <2>1. SUFFICES ASSUME Bad # {} PROVE FALSE
    OBVIOUS
  <2>2. Bad \subseteq Nat
    BY <1>1
  <2>3. PICK m \in Bad : \A i \in Bad : ~(i < m)
    BY <2>1, <2>2, LeastOf
  <2>4. m # 0 /\ m \in 0..n /\ ~ok(m)
    BY <1>6, <2>3
  <2>5. m \in 1..n /\ m - 1 \in 0..n /\ m - 1 < m
    BY <1>1, <2>4
  <2>6. ok(m - 1)
    BY <2>3, <2>5
  <2>7. QED  BY <1>7, <2>4, <2>5, <2>6
<1>9. n \in 0..n /\ ok(n)
  BY <1>1, <1>8
<1>10. ToSet(Among(l, S)) = Range(k[n]) /\ ToSet(l) = {l[j] : j \in 1..n}
  BY <1>1, <1>2 DEF ToSet, Range
<1>11. ASSUME ToSet(l) \subseteq S PROVE Among(l, S) = l
  
  <2>1. \A j \in 1..n : l[j] \in S
    BY <1>10, <1>11
  <2>2. k[n] \in Seq(A) /\ Len(k[n]) = n /\ \A j \in 1..n : k[n][j] = l[j]
    BY <1>9, <2>1 DEF ok
  <2>3. k[n] = l
    BY <2>2, SeqEqual DEF n
  <2>4. QED  BY <1>2, <2>3
<1>12. ASSUME ToSet(l) \cap S = {} PROVE Among(l, S) = <<>>
  <2>1. Range(k[n]) = {} /\ k[n] \in Seq(A)
    BY <1>9, <1>10, <1>12 DEF ok
  <2>2. DOMAIN k[n] = 1..Len(k[n]) /\ Len(k[n]) \in Nat
    BY <2>1, LenProperties
  <2>3. DOMAIN k[n] = {}
    BY <2>1 DEF Range
  <2>4. Len(k[n]) = 0
    <3>1. \A m \in Nat : m # 0 => 1 \in 1..m
      OBVIOUS
    <3>2. QED  BY <2>2, <2>3, <3>1
  <2>5. QED  BY <1>2, <2>1, <2>4, EmptySeq
<1>13. QED  BY <1>2, <1>9, <1>10, <1>11, <1>12 DEF ok

\* What is in front of a link, and what is left when that is taken off.
LEMMA Bare ==
  ASSUME NEW l \in Links, l.pre = <<>>, NEW p
  PROVE  ~Starts(l, {p}) /\ Trim(l, p) = l
BY DEF Starts, Trim

LEMMA Called ==
  ASSUME NEW l \in Links, NEW p, l.pre = <<p>>
  PROVE  /\ Starts(l, {p}) /\ \A q : Starts(l, {q}) => q = p
         /\ Trim(l, p).pre = <<>> /\ Trim(l, p).kind = l.kind /\ Trim(l, p).n = l.n
<1>1. <<p>> # <<>> /\ Head(<<p>>) = p /\ Tail(<<p>>) = <<>>
  OBVIOUS
<1>2. Starts(l, {p}) /\ \A q : Starts(l, {q}) => q = p
  BY <1>1 DEF Starts
<1>3. Trim(l, p) = [l EXCEPT !.pre = <<>>]
  BY <1>1, <1>2 DEF Trim
<1>4. QED  BY <1>2, <1>3 DEF Links

Behind(p, l) == [l EXCEPT !.pre = <<p>> \o l.pre]

LEMMA Put ==
  ASSUME NEW l \in Links, NEW p
  PROVE  LET b == Behind(p, l)
         IN /\ b.kind = l.kind /\ b.n = l.n /\ b.pre # <<>> /\ (b.pre # <<"bare">> \/ p = "bare")
            /\ Starts(b, {p}) /\ \A q : Starts(b, {q}) => q = p
            /\ Trim(b, p).pre = l.pre /\ Trim(b, p).kind = l.kind /\ Trim(b, p).n = l.n
            /\ p \in LinkPrefixes => b \in Links
<1> DEFINE P == LinkPrefixes \cup {p}
           c == <<p>> \o l.pre
           b == Behind(p, l)
<1>1. l.pre \in Seq(P) /\ <<p>> \in Seq(P) /\ Len(<<p>>) = 1 /\ <<p>>[1] = p
  BY DEF Links
<1>2. /\ c \in Seq(P) /\ Len(c) = 1 + Len(l.pre) /\ \A i \in 1..Len(c) : c[i] = IF i <= 1 THEN <<p>>[i] ELSE l.pre[i - 1]
      /\ Len(l.pre) \in Nat
  BY <1>1, ConcatProperties, LenProperties
<1>3. c # <<>> /\ 1 \in 1..Len(c)
  BY <1>2, EmptySeq
<1>4. Head(c) = p /\ Tail(c) \in Seq(P) /\ Len(Tail(c)) = Len(l.pre) /\ \A i \in 1..Len(l.pre) : Tail(c)[i] = l.pre[i]
  <2>1. c[1] = p /\ Head(c) = c[1]
    BY <1>1, <1>2, <1>3
  <2>2. Tail(c) \in Seq(P) /\ Len(Tail(c)) = Len(l.pre) /\ \A i \in 1..Len(l.pre) : Tail(c)[i] = c[i + 1]
    BY <1>2, <1>3, HeadTailProperties
  <2>3. \A i \in 1..Len(l.pre) : i + 1 \in 1..Len(c) /\ ~(i + 1 <= 1) /\ i + 1 - 1 = i
    BY <1>2
  <2>4. QED  BY <1>2, <2>1, <2>2, <2>3
<1>5. Tail(c) = l.pre
  BY <1>1, <1>4, SeqEqual
<1> HIDE DEF c
<1>6. b = [l EXCEPT !.pre = c]
  BY DEF c, Behind
<1>7. b.pre = c /\ b.kind = l.kind /\ b.n = l.n /\ b = [pre |-> c, kind |-> l.kind, n |-> l.n]
  BY <1>6 DEF Links
<1> HIDE DEF b
<1>8. Starts(b, {p}) /\ \A q : Starts(b, {q}) => q = p
  BY <1>3, <1>4, <1>7 DEF Starts
<1>9. Trim(b, p) = [b EXCEPT !.pre = l.pre]
  BY <1>5, <1>7, <1>8 DEF Trim
<1>10. Trim(b, p).pre = l.pre /\ Trim(b, p).kind = l.kind /\ Trim(b, p).n = l.n
  BY <1>7, <1>9
<1>11. c # <<"bare">> \/ p = "bare"
  BY <1>4
<1>12. p \in LinkPrefixes => b \in Links
  <2>1. p \in LinkPrefixes => c \in Seq(LinkPrefixes)
    <3>1. p \in LinkPrefixes => P = LinkPrefixes
      OBVIOUS
    <3>2. QED  BY <1>2, <3>1
  <2>2. QED  BY <1>7, <2>1 DEF Links
<1>13. QED  BY <1>3, <1>7, <1>8, <1>10, <1>11, <1>12 DEF b

LEMMA Taken ==
  ASSUME NEW l \in Links, NEW p, l.pre \in {<<>>, <<p>>}
  PROVE  Trim(l, p).pre = <<>> /\ Trim(l, p).kind = l.kind /\ Trim(l, p).n = l.n
<1>1. CASE l.pre = <<>>
  BY <1>1, Bare
<1>2. CASE l.pre = <<p>>
  BY <1>2, Called
<1>3. QED  BY <1>1, <1>2

\* p is in front of each link, once.
Fronted(s, urls, p) ==
  /\ DOMAIN s = DOMAIN urls /\ (urls # <<>> => s # <<>>) /\ s \in Seq(Links)
  /\ \A i \in DOMAIN urls :
       /\ s[i].kind = urls[i].kind /\ s[i].n = urls[i].n
       /\ s[i].pre # <<>> /\ s[i].pre # <<"bare">> /\ Starts(s[i], {p}) /\ \A q : Starts(s[i], {q}) => q = p
       /\ Trim(s[i], p).kind = urls[i].kind /\ Trim(s[i], p).n = urls[i].n
       /\ Trim(s[i], p).pre = IF urls[i].pre = <<"bare">> THEN <<"bare">> ELSE <<>>

LEMMA PrefixedFacts ==
  ASSUME NEW urls \in Seq(Links), NEW p \in LinkPrefixes, p # "bare",
         \A l \in ToSet(urls) : l.pre \in {<<>>, <<p>>, <<"bare">>}
  PROVE  Fronted(Prefixed(p, urls), urls, p)
<1> DEFINE s == Prefixed(p, urls)
<1>1. DOMAIN urls = 1..Len(urls) /\ \A i \in DOMAIN urls : urls[i] \in Links /\ urls[i] \in ToSet(urls)
  BY LenProperties DEF ToSet
<1>2. DOMAIN s = DOMAIN urls /\ \A i \in DOMAIN urls : s[i] = IF Starts(urls[i], {p}) THEN urls[i] ELSE Behind(p, urls[i])
  BY <1>1 DEF Prefixed, Behind
<1>3. ASSUME urls # <<>> PROVE s # <<>>
  <2>1. 1 \in DOMAIN s
    BY <1>1, <1>2, <1>3, EmptySeq
  <2>2. QED  BY <2>1
<1> HIDE DEF s
<1>4. ASSUME NEW i \in DOMAIN urls
      PROVE  /\ s[i].kind = urls[i].kind /\ s[i].n = urls[i].n
             /\ s[i].pre # <<>> /\ s[i].pre # <<"bare">> /\ Starts(s[i], {p}) /\ \A q : Starts(s[i], {q}) => q = p
             /\ Trim(s[i], p).kind = urls[i].kind /\ Trim(s[i], p).n = urls[i].n
             /\ Trim(s[i], p).pre = IF urls[i].pre = <<"bare">> THEN <<"bare">> ELSE <<>>
  <2> DEFINE l == urls[i]
  <2>1. l \in Links /\ l.pre \in {<<>>, <<p>>, <<"bare">>} /\ s[i] = IF Starts(l, {p}) THEN l ELSE Behind(p, l)
    BY <1>1, <1>2, <1>4
  <2> HIDE DEF l
  <2>2. CASE l.pre = <<p>>
    <3>1. Starts(l, {p}) /\ s[i] = l
      BY <2>1, <2>2, Called
    <3>2. l.pre # <<>> /\ l.pre # <<"bare">>
      BY <2>2
    <3>3. /\ Starts(l, {p}) /\ \A q : Starts(l, {q}) => q = p
          /\ Trim(l, p).pre = <<>> /\ Trim(l, p).kind = l.kind /\ Trim(l, p).n = l.n
      BY <2>1, <2>2, Called
    <3>4. QED  BY <2>2, <3>1, <3>2, <3>3 DEF l
  <2>3. CASE l.pre # <<p>>
    <3>1. ~Starts(l, {p})
      <4>1. CASE l.pre = <<>>
        BY <2>1, <4>1, Bare
      <4>2. CASE l.pre = <<"bare">>
        BY <2>1, <4>2, Called
      <4>3. QED  BY <2>1, <2>3, <4>1, <4>2
    <3>2. s[i] = Behind(p, l)
      BY <2>1, <3>1
    <3>3. LET b == Behind(p, l)
          IN /\ b.kind = l.kind /\ b.n = l.n /\ b.pre # <<>> /\ b.pre # <<"bare">>
             /\ Starts(b, {p}) /\ \A q : Starts(b, {q}) => q = p
             /\ Trim(b, p).pre = l.pre /\ Trim(b, p).kind = l.kind /\ Trim(b, p).n = l.n
      BY <2>1, Put
    <3>4. l.pre = IF l.pre = <<"bare">> THEN <<"bare">> ELSE <<>>
      BY <2>1, <2>3
    <3>5. QED  BY <3>2, <3>3, <3>4 DEF l
  <2>4. QED  BY <2>2, <2>3
<1>5. s \in Seq(Links)
  <2>1. \A i \in DOMAIN urls : s[i] \in Links
    BY <1>1, <1>2, Put
  <2>2. s = [i \in 1..Len(urls) |-> s[i]]
    BY DEF s, Prefixed
  <2>3. Len(urls) \in Nat
    BY LenProperties
  <2>4. QED  BY <1>1, <2>1, <2>2, <2>3, IsASeq
<1>6. Fronted(s, urls, p)
  BY <1>2, <1>3, <1>4, <1>5 DEF Fronted
<1>7. QED  BY <1>6 DEF s

LEMMA Earlier ==
  /\ \A i, c \in 1..10 : i # c => c \in 1..i - 1 \/ i \in 1..c - 1
  /\ \A k \in 1..2 - 1 : k = 1
  /\ \A k \in 1..3 - 1 : k = 1 \/ k = 2
  /\ \A k \in 1..4 - 1 : k = 1 \/ k = 2 \/ k = 3
  /\ \A k \in 1..7 - 1 : k = 1 \/ k = 2 \/ k = 3 \/ k = 4 \/ k = 5 \/ k = 6
  /\ \A k \in 1..9 - 1 : k = 1 \/ k = 2 \/ k = 3 \/ k = 4 \/ k = 5 \/ k = 6 \/ k = 7 \/ k = 8
  /\ \A k \in 1..10 - 1 : k = 1 \/ k = 2 \/ k = 3 \/ k = 4 \/ k = 5 \/ k = 6 \/ k = 7 \/ k = 8 \/ k = 9
  /\ \A i \in {2, 3, 4, 7, 9, 10} : i \in 1..10
OBVIOUS

\* pickSource: the first of the sources that match.
LEMMA Picks ==
  ASSUME NEW job, job.engine = "", NEW i \in 1..10, Match(Sources[i], job), \A k \in 1..i - 1 : ~Match(Sources[k], job)
  PROVE  PickSource(job) = Sources[i]
<1> DEFINE first(j) == Match(Sources[j], job) /\ \A k \in 1..j - 1 : ~Match(Sources[k], job)
           c == CHOOSE j \in 1..Len(Sources) : first(j)
<1>1. Len(Sources) = 10
  BY DEF Sources
<1>2. i \in 1..Len(Sources) /\ first(i)
  BY <1>1
<1>3. c \in 1..Len(Sources) /\ first(c)
  BY <1>2
<1>4. PickSource(job) = Sources[c]
  BY DEF PickSource
<1> HIDE DEF c, first
<1>5. c = i
  <2>1. c \in 1..i - 1 => ~first(i)
    BY <1>3 DEF first
  <2>2. i \in 1..c - 1 => ~first(c)
    BY <1>2 DEF first
  <2>3. QED  BY <1>1, <1>2, <1>3, <2>1, <2>2, Earlier
<1>6. QED  BY <1>4, <1>5

LEMMA InOrder ==
  ASSUME NEW job, job.engine = "", job.file = FALSE
  PROVE  LET u == FirstURL(job)  unzip == Starts(u, {"unzip:"})
             aria == IsDriveURL(u) \/ IsMegaURL(u) \/ IsGofileURL(u) \/ IsTorrentURL(u)
         IN ~unzip =>
            /\ IsDriveURL(u) => PickSource(job) = "google-drive"
            /\ ~IsDriveURL(u) /\ IsMegaURL(u) => PickSource(job) = "mega"
            /\ ~IsDriveURL(u) /\ ~IsMegaURL(u) /\ IsGofileURL(u) => PickSource(job) = "gofile"
            /\ ~aria /\ Starts(u, {"mirror:"}) => PickSource(job) = "mirror"
            /\ ~aria /\ ~Starts(u, {"mirror:"}) /\ ~Starts(u, {"cdl:"}) =>
                 PickSource(job) = IF IsDirectURL(u) THEN "direct" ELSE "gallery-dl"
<1> DEFINE u == FirstURL(job)
<1>1. /\ Sources[1] = "unzip" /\ Sources[2] = "google-drive" /\ Sources[3] = "mega" /\ Sources[4] = "gofile"
      /\ Sources[5] = "aria2" /\ Sources[6] = "mirror-telegram" /\ Sources[7] = "mirror" /\ Sources[8] = "cyberdrop-dl"
      /\ Sources[9] = "direct" /\ Sources[10] = "gallery-dl"
  BY DEF Sources
<1>2. /\ Match("unzip", job) <=> Starts(u, {"unzip:"}) \/ (job.unzip /\ job.file)
      /\ Match("google-drive", job) <=> IsDriveURL(u)
      /\ Match("mega", job) <=> IsMegaURL(u)
      /\ Match("gofile", job) <=> IsGofileURL(u)
      /\ Match("aria2", job) <=> IsTorrentURL(u)
      /\ Match("mirror-telegram", job) <=> Starts(u, {"mirror_tg:"}) /\ job.file
      /\ Match("mirror", job) <=> Starts(u, {"mirror:"})
      /\ Match("cyberdrop-dl", job) <=> Starts(u, {"cdl:"})
      /\ Match("direct", job) <=> IsDirectURL(u)
      /\ Match("gallery-dl", job)
  BY DEF Match
<1> HIDE DEF u
<1>3. ASSUME ~Starts(u, {"unzip:"})
      PROVE /\ IsDriveURL(u) => PickSource(job) = "google-drive"
            /\ ~IsDriveURL(u) /\ IsMegaURL(u) => PickSource(job) = "mega"
            /\ ~IsDriveURL(u) /\ ~IsMegaURL(u) /\ IsGofileURL(u) => PickSource(job) = "gofile"
            /\ ~IsDriveURL(u) /\ ~IsMegaURL(u) /\ ~IsGofileURL(u) /\ ~IsTorrentURL(u) =>
                 /\ Starts(u, {"mirror:"}) => PickSource(job) = "mirror"
                 /\ ~Starts(u, {"mirror:"}) /\ ~Starts(u, {"cdl:"}) =>
                      PickSource(job) = IF IsDirectURL(u) THEN "direct" ELSE "gallery-dl"
  <2> DEFINE M(j) == Match(Sources[j], job)
  <2>1. ~M(1)
    BY <1>1, <1>2, <1>3
  <2>2. ASSUME M(2) PROVE PickSource(job) = Sources[2]
    BY <2>1, <2>2, Earlier, Picks
  <2>3. ASSUME ~M(2), M(3) PROVE PickSource(job) = Sources[3]
    BY <2>1, <2>3, Earlier, Picks
  <2>4. ASSUME ~M(2), ~M(3), M(4) PROVE PickSource(job) = Sources[4]
    BY <2>1, <2>4, Earlier, Picks
  <2>5. ASSUME ~M(2), ~M(3), ~M(4), ~M(5), ~M(6), M(7) PROVE PickSource(job) = Sources[7]
    BY <2>1, <2>5, Earlier, Picks
  <2>6. ASSUME ~M(2), ~M(3), ~M(4), ~M(5), ~M(6), ~M(7), ~M(8), M(9) PROVE PickSource(job) = Sources[9]
    BY <2>1, <2>6, Earlier, Picks
  <2>7. ASSUME ~M(2), ~M(3), ~M(4), ~M(5), ~M(6), ~M(7), ~M(8), ~M(9), M(10) PROVE PickSource(job) = Sources[10]
    BY <2>1, <2>7, Earlier, Picks
  <2>8. /\ (M(2) <=> IsDriveURL(u)) /\ (M(3) <=> IsMegaURL(u)) /\ (M(4) <=> IsGofileURL(u))
        /\ (M(5) <=> IsTorrentURL(u)) /\ ~M(6) /\ (M(7) <=> Starts(u, {"mirror:"}))
        /\ (M(8) <=> Starts(u, {"cdl:"})) /\ (M(9) <=> IsDirectURL(u)) /\ M(10)
    BY <1>1, <1>2
  <2> HIDE DEF M
  <2>9. QED  BY <1>1, <2>2, <2>3, <2>4, <2>5, <2>6, <2>7, <2>8
<1>4. QED  BY <1>3 DEF u

\* Lists that are all, or in nothing, links for downloads.
LEMMA AllOrNone ==
  ASSUME NEW l \in Seq(Links)
  PROVE  /\ (\A x \in ToSet(l) : IsURLToken(x)) => URLTokens(l) = l
         /\ (\A x \in ToSet(l) : ~IsURLToken(x)) => URLTokens(l) = <<>>
<1> DEFINE S == {x \in ToSet(l) : IsURLToken(x)}
<1>1. URLTokens(l) = Among(l, S)
  BY DEF URLTokens, Only
<1>2. (\A x \in ToSet(l) : IsURLToken(x)) => ToSet(l) \subseteq S
  OBVIOUS
<1>3. (\A x \in ToSet(l) : ~IsURLToken(x)) => ToSet(l) \cap S = {}
  OBVIOUS
<1> HIDE DEF S
<1>4. /\ ToSet(l) \subseteq S => Among(l, S) = l
      /\ ToSet(l) \cap S = {} => Among(l, S) = <<>>
  BY AmongFacts
<1>5. QED  BY <1>1, <1>2, <1>3, <1>4

LEMMA Listed ==
  ASSUME NEW l \in Seq(Links)
  PROVE  /\ DOMAIN l = 1..Len(l) /\ ToSet(l) = {l[i] : i \in DOMAIN l} /\ \A i \in DOMAIN l : l[i] \in Links
         /\ \A x \in ToSet(l) : x \in Links
         /\ l # <<>> => 1 \in DOMAIN l /\ l[1] \in ToSet(l)
<1>1. /\ DOMAIN l = 1..Len(l) /\ Len(l) \in Nat /\ \A i \in DOMAIN l : l[i] \in Links
  BY LenProperties
<1>2. l # <<>> => 1 \in 1..Len(l)
  BY EmptySeq
<1>3. QED  BY <1>1, <1>2 DEF ToSet

\* The links of a message that are for a command, in the form a source takes them in:
\* p in front of some or of all.
Ready(links, g, p) ==
  /\ links \in Seq(Links) /\ g \in Seq(Links) /\ g # <<>> /\ links # <<>> /\ DOMAIN links = DOMAIN g
  /\ \A i \in DOMAIN g :
       /\ links[i].kind = g[i].kind /\ links[i].n = g[i].n
       /\ (links[i].pre = <<>> \/ Starts(links[i], {p})) /\ (\A q : Starts(links[i], {q}) => q = p)
       /\ links[i].pre # <<"bare">>
       /\ Trim(links[i], p).kind = g[i].kind /\ Trim(links[i], p).n = g[i].n
       /\ Trim(links[i], p).pre = IF g[i].pre = <<"bare">> THEN <<"bare">> ELSE <<>>

LEMMA ReadyAsGiven ==
  ASSUME NEW g \in Seq(Links), g # <<>>, NEW p, p # "bare", \A l \in ToSet(g) : l.pre \in {<<>>, <<p>>}
  PROVE  Ready(g, g, p)
<1>1. ASSUME NEW i \in DOMAIN g
      PROVE  /\ g[i].pre = <<>> \/ Starts(g[i], {p})
             /\ (\A q : Starts(g[i], {q}) => q = p)
             /\ g[i].pre # <<"bare">>
             /\ Trim(g[i], p).kind = g[i].kind /\ Trim(g[i], p).n = g[i].n /\ Trim(g[i], p).pre = <<>>
  <2> DEFINE l == g[i]
  <2>1. l \in Links /\ l.pre \in {<<>>, <<p>>}
    BY <1>1, Listed
  <2> HIDE DEF l
  <2>2. Trim(l, p).kind = l.kind /\ Trim(l, p).n = l.n /\ Trim(l, p).pre = <<>>
    BY <2>1, Taken
  <2>3. CASE l.pre = <<>>
    <3>1. \A q : ~Starts(l, {q})
      BY <2>1, <2>3, Bare
    <3>2. l.pre # <<"bare">>
      BY <2>3
    <3>3. QED  BY <2>2, <2>3, <3>1, <3>2 DEF l
  <2>4. CASE l.pre = <<p>>
    <3>1. Starts(l, {p}) /\ \A q : Starts(l, {q}) => q = p
      BY <2>1, <2>4, Called
    <3>2. l.pre # <<"bare">>
      BY <2>4
    <3>3. QED  BY <2>2, <3>1, <3>2 DEF l
  <2>5. QED  BY <2>1, <2>3, <2>4
<1>2. \A i \in DOMAIN g : g[i].pre # <<"bare">>
  BY <1>1
<1>3. QED  BY <1>1, <1>2 DEF Ready

LEMMA ReadyPrefixed ==
  ASSUME NEW g \in Seq(Links), g # <<>>, NEW p \in LinkPrefixes, p # "bare",
         \A l \in ToSet(g) : l.pre \in {<<>>, <<p>>, <<"bare">>}
  PROVE  Ready(Prefixed(p, g), g, p)
<1> DEFINE s == Prefixed(p, g)
<1>1. Fronted(s, g, p)
  BY PrefixedFacts
<1> HIDE DEF s
<1>2. Ready(s, g, p)
  BY <1>1 DEF Fronted, Ready
<1>3. QED  BY <1>2 DEF s

\* The first link of a job with nothing in front, as pickSource sees it.
LEMMA Foremost ==
  ASSUME NEW job, job.outer = "", job.links \in Seq(Links), job.links # <<>>
  PROVE  FirstURL(job) = job.links[1] /\ job.links[1] \in Links /\ job.links[1] \in ToSet(job.links)
<1>1. job.links[1] \in Links /\ job.links[1] \in ToSet(job.links)
  BY Listed
<1>2. FirstURL(job) = [job.links[1] EXCEPT !.pre = job.links[1].pre]
  BY DEF FirstURL
<1>3. QED  BY <1>1, <1>2 DEF Links

Numbers(S) == {l.n : l \in S}

Read(links, p) == {Trim(l, p) : l \in ToSet(links)}
HasLinks(job) == job.links # <<>>

\* All links of g, and nothing in front of them.
Found(read, g) ==
  /\ Numbers(read) = Numbers(ToSet(g))
  /\ \A l \in read : \E x \in ToSet(g) : l.kind = x.kind /\ l.pre = IF x.pre = <<"bare">> THEN <<"bare">> ELSE <<>>

LEMMA IsJob ==
  ASSUME NEW job, HasLinks(job)
  PROVE  job # NoJob
<1>1. NoJob.links = <<>>
  BY DEF NoJob
<1>2. QED  BY <1>1 DEF HasLinks

LEMMA Spelled ==
  \A pre : pre = <<>> \/ pre = <<"direct:">> \/ pre = <<"mega:">> \/ pre = <<"gdrive:">> \/ pre = <<"gofile:">> \/ pre = <<"cdl:">>
           => pre # <<"bare">>
OBVIOUS

\* Sources that take the links of a list one by one.
LEMMA Reads ==
  ASSUME NEW links, NEW g, NEW p, Ready(links, g, p)
  PROVE  Found(Read(links, p), g)
<1> DEFINE read == Read(links, p)
<1>1. ToSet(links) = {links[i] : i \in DOMAIN g} /\ ToSet(g) = {g[i] : i \in DOMAIN g}
  BY Listed DEF Ready
<1>2. read = {Trim(links[i], p) : i \in DOMAIN g}
  BY <1>1 DEF Read
<1>3. \A i \in DOMAIN g :
        /\ Trim(links[i], p).kind = g[i].kind /\ Trim(links[i], p).n = g[i].n
        /\ Trim(links[i], p).pre = IF g[i].pre = <<"bare">> THEN <<"bare">> ELSE <<>>
  BY DEF Ready
<1> HIDE DEF read
<1>4. Numbers(read) = Numbers(ToSet(g))
  BY <1>1, <1>2, <1>3 DEF Numbers
<1>5. \A l \in read : \E x \in ToSet(g) : l.kind = x.kind /\ l.pre = IF x.pre = <<"bare">> THEN <<"bare">> ELSE <<>>
  <2>1. ASSUME NEW l \in read
        PROVE  \E x \in ToSet(g) : l.kind = x.kind /\ l.pre = IF x.pre = <<"bare">> THEN <<"bare">> ELSE <<>>
    <3>1. PICK i \in DOMAIN g : l = Trim(links[i], p)
      BY <1>2, <2>1
    <3>2. g[i] \in ToSet(g)
      BY <1>1, <3>1
    <3>3. QED  BY <1>3, <3>1, <3>2
  <2>2. QED  BY <2>1
<1>6. Found(read, g)
  BY <1>4, <1>5 DEF Found
<1>7. QED  BY <1>6 DEF read

\* The source of a job finds every link of the list.
Gets(job, s, g) == job # NoJob /\ PickSource(job) = s /\ Numbers(Fetched(s, job)) = Numbers(ToSet(g))

LEMMA First ==
  ASSUME NEW job, NEW g, NEW p, job.outer = "", Ready(job.links, g, p)
  PROVE  LET u == FirstURL(job)
         IN /\ job # NoJob /\ g[1] \in ToSet(g) /\ u.kind = g[1].kind
            /\ (u.pre = <<>> \/ Starts(u, {p})) /\ (\A q : Starts(u, {q}) => q = p) /\ u.pre # <<"bare">>
<1>1. HasLinks(job)
  BY DEF Ready, HasLinks
<1>2. g[1] \in ToSet(g) /\ 1 \in DOMAIN g
  BY Listed DEF Ready
<1>3. FirstURL(job) = job.links[1]
  BY Foremost DEF Ready
<1>4. QED  BY <1>1, <1>2, <1>3, IsJob DEF Ready

LEMMA CloudGets ==
  ASSUME NEW job, NEW g, NEW p, NEW kind, NEW s, job.engine = "", job.outer = "", job.file = FALSE,
         \/ p = "gdrive:" /\ kind = "drive" /\ s = "google-drive"
         \/ p = "mega:" /\ kind = "mega" /\ s = "mega"
         \/ p = "gofile:" /\ kind = "gofile" /\ s = "gofile",
         Ready(job.links, g, p), \A l \in ToSet(g) : l.kind = kind /\ (l.pre = <<"bare">> => kind = "gofile")
  PROVE  Gets(job, s, g)
<1> DEFINE u == FirstURL(job)
           read == Read(job.links, p)
<1>1. /\ job # NoJob /\ u.kind = kind /\ (u.pre = <<>> \/ Starts(u, {p})) /\ (\A q : Starts(u, {q}) => q = p)
  BY First
<1>2. PickSource(job) = s
  <2>1. ~Starts(u, {"unzip:"})
    BY <1>1
  <2>2. ~Starts(u, {"gdrive:"}) \/ p = "gdrive:"
    BY <1>1
  <2>3. ~Starts(u, {"mega:"}) \/ p = "mega:"
    BY <1>1
  <2> HIDE DEF u
  <2>4. CASE s = "google-drive"
    <3>1. IsDriveURL(u)
      BY <1>1, <2>4 DEF IsDriveURL
    <3>2. QED  BY <2>1, <2>4, <3>1, InOrder DEF u
  <2>5. CASE s = "mega"
    <3>1. ~IsDriveURL(u) /\ IsMegaURL(u)
      BY <1>1, <2>2, <2>5 DEF IsDriveURL, IsMegaURL
    <3>2. QED  BY <2>1, <2>5, <3>1, InOrder DEF u
  <2>6. CASE s = "gofile"
    <3>1. ~IsDriveURL(u) /\ ~IsMegaURL(u) /\ IsGofileURL(u)
      BY <1>1, <2>2, <2>3, <2>6 DEF IsDriveURL, IsMegaURL, IsGofileURL
    <3>2. QED  BY <2>1, <2>6, <3>1, InOrder DEF u
  <2>7. QED  BY <2>4, <2>5, <2>6
<1>3. Found(read, g)
  BY Reads
<1> HIDE DEF u, read
<1>4. ASSUME NEW l \in read PROVE l.kind = kind /\ l.pre \in {<<>>, <<"bare">>} /\ (kind # "gofile" => l.pre = <<>>)
  BY <1>3, <1>4 DEF Found
<1>5. Fetched(s, job) = read
  <2>1. CASE s = "google-drive"
    <3>1. ReadDrive(job) = read
      BY <2>1 DEF ReadDrive, Read, read
    <3>2. Fetched(s, job) = {l \in read : l.pre \in {<<>>, <<"bare">>} /\ l.kind = "drive"}
      BY <2>1, <3>1 DEF Fetched
    <3>3. QED  BY <1>4, <2>1, <3>2
  <2>2. CASE s = "mega"
    <3>1. ReadMega(job) = read
      BY <2>2 DEF ReadMega, Read, read
    <3>2. Fetched(s, job) = {l \in read : l.pre = <<>> /\ l.kind \in {"mega"}}
      BY <2>2, <3>1 DEF Fetched
    <3>3. QED  BY <1>4, <2>2, <3>2
  <2>3. CASE s = "gofile"
    <3>1. ReadGofile(job) = read
      BY <2>3 DEF ReadGofile, Read, read
    <3>2. Fetched(s, job) = {l \in read : l.pre \in {<<>>, <<"bare">>} /\ l.kind \in {"page", "gofile", "file"}}
      BY <2>3, <3>1 DEF Fetched
    <3>3. QED  BY <1>4, <2>3, <3>2
  <2>4. QED  BY <2>1, <2>2, <2>3
<1>6. QED  BY <1>1, <1>2, <1>3, <1>5 DEF Gets, Found

\* A job of links for one engine, or for the one pickSource finds.
Engined(job, engine) == job.engine \in {"", engine} /\ job.outer = "" /\ job.file = FALSE

LEMMA DirectGets ==
  ASSUME NEW job, NEW g, Engined(job, "direct"),
         Ready(job.links, g, "direct:"), \A l \in ToSet(g) : l.kind \in {"file", "stream"} /\ l.pre # <<"bare">>
  PROVE  Gets(job, "direct", g)
<1> DEFINE u == FirstURL(job)
           read == Read(job.links, "direct:")
<1>1. /\ job # NoJob /\ u.kind \in {"file", "stream"} /\ (u.pre = <<>> \/ Starts(u, {"direct:"}))
      /\ (\A q : Starts(u, {q}) => q = "direct:") /\ u.pre # <<"bare">>
  BY First DEF Engined
<1>2. PickSource(job) = "direct"
  <2>1. CASE job.engine = "direct"
    BY <2>1 DEF PickSource
  <2>2. CASE job.engine = ""
    <3>1. \A q \in {"unzip:", "gdrive:", "mega:", "gofile:", "torrent:", "mirror:", "cdl:"} : ~Starts(u, {q})
      BY <1>1
    <3> HIDE DEF u
    <3>2. ~IsDriveURL(u) /\ ~IsMegaURL(u) /\ ~IsGofileURL(u) /\ ~IsTorrentURL(u) /\ IsDirectURL(u)
      BY <1>1, <3>1, WordKind DEF IsDriveURL, IsMegaURL, IsGofileURL, IsTorrentURL, IsDirectURL
    <3>3. QED  BY <2>2, <3>1, <3>2, InOrder DEF u, Engined
  <2>3. QED  BY <2>1, <2>2 DEF Engined
<1>3. Found(read, g)
  BY Reads
<1> HIDE DEF u, read
<1>4. ASSUME NEW l \in read PROVE l.kind \in {"file", "stream"} /\ l.pre = <<>>
  BY <1>3, <1>4 DEF Found
<1>5. ReadDirect(job) = read
  BY DEF ReadDirect, Read, read
<1>6. Fetched("direct", job) = {l \in read : l.pre = <<>> /\ l.kind \in {"file", "stream"}}
  BY <1>5 DEF Fetched
<1>7. Fetched("direct", job) = read
  BY <1>4, <1>6
<1>8. QED  BY <1>1, <1>2, <1>3, <1>7 DEF Gets, Found

LEMMA PageGets ==
  ASSUME NEW job, NEW g \in Seq(Links), g # <<>>, job.engine \in {"", "gallery-dl"}, job.outer = "", job.file = FALSE,
         job.links = g, \A l \in ToSet(g) : l.kind = "page" /\ l.pre = <<>>
  PROVE  Gets(job, "gallery-dl", g)
<1> DEFINE u == FirstURL(job)
           read == Read(job.links, "cdl:")
<1>1. Ready(job.links, g, "cdl:")
  BY ReadyAsGiven
<1>2. job # NoJob /\ u = g[1] /\ u \in Links /\ u.kind = "page" /\ u.pre = <<>>
  BY <1>1, First, Foremost
<1>3. PickSource(job) = "gallery-dl"
  <2>1. CASE job.engine = "gallery-dl"
    BY <2>1 DEF PickSource
  <2>2. CASE job.engine = ""
    <3>1. \A q : ~Starts(u, {q})
      BY <1>2, Bare
    <3> HIDE DEF u
    <3>2. ~IsDriveURL(u) /\ ~IsMegaURL(u) /\ ~IsGofileURL(u) /\ ~IsTorrentURL(u) /\ ~IsDirectURL(u)
      BY <1>2, <3>1, WordKind DEF IsDriveURL, IsMegaURL, IsGofileURL, IsTorrentURL, IsDirectURL
    <3>3. QED  BY <2>2, <3>1, <3>2, InOrder DEF u
  <2>3. QED  BY <2>1, <2>2
<1>4. Found(read, g)
  BY <1>1, Reads
<1>5. \A x \in ToSet(g) : x.pre # <<"bare">>
  BY Spelled
<1> HIDE DEF u, read
<1>6. ASSUME NEW l \in read PROVE l.kind = "page" /\ l.pre = <<>>
  BY <1>4, <1>5, <1>6 DEF Found
<1>7. ReadGallery(job) = read
  BY DEF ReadGallery, Read, read
<1>8. Fetched("gallery-dl", job) = {l \in read : l.pre = <<>> /\ l.kind \in {"page", "gofile", "file"}}
  BY <1>7 DEF Fetched
<1>9. Fetched("gallery-dl", job) = read
  BY <1>6, <1>8
<1>10. QED  BY <1>2, <1>3, <1>4, <1>9 DEF Gets, Found

LEMMA MirrorGets ==
  ASSUME NEW job, NEW g \in Seq(Links), g # <<>>, job.engine = "", job.outer = "mirror:", job.file = FALSE, job.links = g,
         \/ \A l \in ToSet(g) : l.kind \in {"file", "stream"} /\ l.pre \in {<<>>, <<"direct:">>}
         \/ \A l \in ToSet(g) : l.kind = "page" /\ l.pre = <<>>
  PROVE  Gets(job, "mirror", g)
<1> DEFINE u == FirstURL(job)
           direct == Read(job.links, "direct:")
           gallery == Read(job.links, "cdl:")
<1>1. job # NoJob
  BY IsJob DEF HasLinks
<1>2. g[1] \in ToSet(g) /\ g[1] \in Links
  BY Listed
<1>3. u = Behind("mirror:", g[1])
  BY DEF FirstURL, Behind
<1>4. u.kind = g[1].kind /\ u.pre # <<>> /\ u.pre # <<"bare">> /\ Starts(u, {"mirror:"}) /\ (\A q : Starts(u, {q}) => q = "mirror:")
  <2> DEFINE p == "mirror:"
             x == g[1]
  <2>1. x \in Links /\ p # "bare" /\ u = Behind(p, x)
    BY <1>2, <1>3
  <2> HIDE DEF p, x, u
  <2>2. LET b == Behind(p, x)
        IN /\ b.kind = x.kind /\ b.pre # <<>> /\ (b.pre # <<"bare">> \/ p = "bare")
           /\ Starts(b, {p}) /\ \A q : Starts(b, {q}) => q = p
    BY <2>1, Put
  <2>3. u.kind = x.kind /\ u.pre # <<>> /\ u.pre # <<"bare">> /\ Starts(u, {p}) /\ (\A q : Starts(u, {q}) => q = p)
    BY <2>1, <2>2
  <2>4. QED  BY <2>3 DEF p, x
<1>5. g[1].kind \in {"file", "stream", "page"}
  BY <1>2
<1>6. PickSource(job) = "mirror"
  <2>1. \A q \in {"unzip:", "gdrive:", "mega:", "gofile:", "torrent:"} : ~Starts(u, {q})
    BY <1>4
  <2>2. Starts(u, {"mirror:"})
    BY <1>4
  <2> HIDE DEF u
  <2>3. ~IsDriveURL(u) /\ ~IsMegaURL(u) /\ ~IsGofileURL(u) /\ ~IsTorrentURL(u)
    BY <1>4, <1>5, <2>1, WordKind DEF IsDriveURL, IsMegaURL, IsGofileURL, IsTorrentURL
  <2>4. QED  BY <2>1, <2>2, <2>3, InOrder DEF u
<1>7. ReadDirect(job) = direct /\ ReadGallery(job) = gallery
  BY DEF ReadDirect, ReadGallery, Read
<1> HIDE DEF u, direct, gallery
<1>8. Fetched("mirror", job) = {l \in direct : l.pre = <<>> /\ l.kind \in {"file", "stream"}}
                               \cup {l \in gallery : l.pre = <<>> /\ l.kind \in {"page", "gofile", "file"}}
  BY <1>7 DEF Fetched
<1>9. CASE \A l \in ToSet(g) : l.kind = "page" /\ l.pre = <<>>
  <2>1. Ready(job.links, g, "cdl:") /\ \A x \in ToSet(g) : x \in Links /\ x.pre = <<>>
    BY <1>9, ReadyAsGiven, Listed
  <2>2. \A x \in ToSet(g) : Trim(x, "cdl:") = x /\ Trim(x, "direct:") = x
    BY <2>1, Bare
  <2>3. direct = ToSet(g) /\ gallery = ToSet(g)
    BY <2>2 DEF direct, gallery, Read
  <2>4. Fetched("mirror", job) = ToSet(g)
    BY <1>8, <1>9, <2>3
  <2>5. QED  BY <1>1, <1>6, <2>4 DEF Gets
<1>10. CASE \A l \in ToSet(g) : l.kind \in {"file", "stream"} /\ l.pre \in {<<>>, <<"direct:">>}
  <2>1. Ready(job.links, g, "direct:")
    BY <1>10, ReadyAsGiven
  <2>2. Found(direct, g)
    BY <2>1, Reads DEF direct
  <2>3. \A x \in ToSet(g) : x.pre # <<"bare">>
    BY <1>10, Spelled
  <2>4. ASSUME NEW l \in direct PROVE l.kind \in {"file", "stream"} /\ l.pre = <<>>
    BY <1>10, <2>2, <2>3, <2>4 DEF Found
  <2>5. ASSUME NEW l \in gallery PROVE l.n \in Numbers(ToSet(g))
    <3>1. PICK x \in ToSet(g) : l = Trim(x, "cdl:")
      BY <2>5 DEF gallery, Read
    <3>2. l.n = x.n
      <4>1. x \in Links
        BY <3>1, Listed
      <4>2. CASE x.pre = <<>>
        BY <3>1, <4>1, <4>2, Bare
      <4>3. CASE x.pre = <<"direct:">>
        <5>1. \A q : Starts(x, {q}) => q = "direct:"
          BY <4>1, <4>3, Called
        <5>2. QED  BY <3>1, <5>1 DEF Trim
      <4>4. QED  BY <1>10, <3>1, <4>2, <4>3
    <3>3. QED  BY <3>1, <3>2 DEF Numbers
  <2>6. Numbers(Fetched("mirror", job)) = Numbers(ToSet(g))
    <3>1. {l \in direct : l.pre = <<>> /\ l.kind \in {"file", "stream"}} = direct
      BY <2>4
    <3> DEFINE more == {l \in gallery : l.pre = <<>> /\ l.kind \in {"page", "gofile", "file"}}
    <3>2. Fetched("mirror", job) = direct \cup more
      BY <1>8, <3>1
    <3>3. Numbers(direct \cup more) = Numbers(direct) \cup Numbers(more)
      BY DEF Numbers
    <3>4. \A l \in more : l.n \in Numbers(ToSet(g))
      BY <2>5
    <3>5. Numbers(more) \subseteq Numbers(ToSet(g))
      <4> HIDE DEF more
      <4>1. \A x \in Numbers(more) : \E l \in more : x = l.n
        BY DEF Numbers
      <4>2. QED  BY <3>4, <4>1
    <3>6. Numbers(direct) = Numbers(ToSet(g))
      BY <2>2 DEF Found
    <3>7. QED  BY <3>2, <3>3, <3>5, <3>6
  <2>7. QED  BY <1>1, <1>6, <2>6 DEF Gets
<1>11. QED  BY <1>9, <1>10

\* Sources that take one link.
LEMMA OneGets ==
  ASSUME NEW job, NEW l \in Links, job.outer = "", job.links \in Seq(Links), job.links # <<>>, job.links[1] = l,
         \/ job.engine = "cyberdrop-dl" /\ l.pre \in {<<>>, <<"cdl:">>} /\ l.kind = "page"
         \/ job.engine = "aria2" /\ l.pre = <<>> /\ l.kind \in {"magnet", "torrent", "file"}
  PROVE  job # NoJob /\ PickSource(job) = job.engine /\ Numbers(Fetched(job.engine, job)) = {l.n}
<1>1. job # NoJob /\ PickSource(job) = job.engine
  <2>1. job # NoJob
    BY IsJob DEF HasLinks
  <2>2. job.engine # ""
    OBVIOUS
  <2>3. QED  BY <2>1, <2>2 DEF PickSource
<1>2. FirstURL(job) = l
  BY Foremost
<1>3. CASE job.engine = "cyberdrop-dl"
  <2>1. Trim(l, "cdl:").pre = <<>> /\ Trim(l, "cdl:").kind = "page" /\ Trim(l, "cdl:").n = l.n
    <3>1. l.pre \in {<<>>, <<"cdl:">>} /\ l.kind = "page"
      BY <1>3
    <3>2. CASE l.pre = <<>>
      BY <3>1, <3>2, Bare
    <3>3. CASE l.pre = <<"cdl:">>
      BY <3>1, <3>3, Called
    <3>4. QED  BY <3>1, <3>2, <3>3
  <2>2. ReadCyberdrop(job) = {Trim(l, "cdl:")}
    BY <1>2 DEF ReadCyberdrop
  <2> DEFINE t == Trim(l, "cdl:")
  <2>3. Fetched("cyberdrop-dl", job) = {x \in {t} : x.pre = <<>> /\ x.kind \in {"page", "gofile", "file"}}
    BY <2>2 DEF Fetched
  <2>4. t.pre = <<>> /\ t.kind = "page" /\ t.n = l.n
    BY <2>1
  <2> HIDE DEF t
  <2>5. Fetched("cyberdrop-dl", job) = {t}
    BY <2>3, <2>4
  <2>6. Numbers({t}) = {l.n}
    BY <2>4 DEF Numbers
  <2>7. QED  BY <1>1, <1>3, <2>5, <2>6
<1>4. CASE job.engine = "aria2"
  <2>1. Trim(l, "mirror:") = l /\ Trim(l, "direct:") = l /\ Trim(l, "torrent:") = l
    BY <1>4, Bare
  <2>2. ReadAria(job) = {l}
    BY <1>2, <2>1 DEF ReadAria
  <2>3. Fetched("aria2", job) = {x \in {l} : x.pre = <<>> /\ x.kind \in {"magnet", "torrent", "file"}}
    BY <2>2 DEF Fetched
  <2>4. QED  BY <1>1, <1>4, <2>3 DEF Numbers
<1>5. QED  BY <1>3, <1>4 DEF Found

-----------------------------------------------------------------------------
(* What the commands make of links *)

LEMMA Named ==
  ASSUME NEW m, m.cmd \in Downloads \cup AllHosts
  PROVE  /\ m.cmd \in AllHosts <=> m.cmd \notin Downloads
         /\ m.cmd \in Downloads /\ m.cmd # "m" => ~Mirrors(m)
         /\ ~Mirrors(m) /\ m.cmd \in AllHosts => m.cmd = "gofile"
<1>1. m.cmd \in AllHosts <=> m.cmd \notin Downloads
  BY HostNames
<1>2. QED  BY <1>1 DEF Mirrors

\* The prefixes and kinds of what a command is for.
LEMMA Asked ==
  ASSUME NEW m, m.cmd \in Downloads \cup AllHosts, NEW pre, NEW kind, <<pre, kind>> \in For(m)
  PROVE  /\ Mirrors(m) => \/ pre \in {<<>>, <<"direct:">>} /\ kind \in {"file", "stream"}
                          \/ pre = <<>> /\ kind = "page"
         /\ m.cmd = "dl" => pre \in {<<>>, <<"direct:">>} /\ kind \in {"file", "stream"}
         /\ m.cmd = "gdl" => pre = <<>> /\ kind = "page"
         /\ m.cmd = "cdl" => pre \in {<<>>, <<"cdl:">>} /\ kind = "page"
         /\ m.cmd = "mega" => pre \in {<<>>, <<"mega:">>} /\ kind = "mega"
         /\ m.cmd = "gd" => pre \in {<<>>, <<"gdrive:">>} /\ kind = "drive"
         /\ m.cmd = "gfdl" \/ (m.cmd \in AllHosts /\ ~Mirrors(m)) =>
              pre \in {<<>>, <<"gofile:">>, <<"bare">>} /\ kind = "gofile"
         /\ m.cmd = "tor" => pre = <<>> /\ kind \in {"magnet", "torrent"}
         /\ m.cmd = "aria" => pre = <<>> /\ kind \in {"magnet", "torrent", "file"}
         /\ m.cmd = "unzip" => \/ pre \in {<<>>, <<"direct:">>} /\ kind \in {"file", "stream"}
                               \/ pre \in {<<>>, <<"mega:">>} /\ kind = "mega"
                               \/ pre \in {<<>>, <<"gdrive:">>} /\ kind = "drive"
                               \/ pre \in {<<>>, <<"gofile:">>} /\ kind = "gofile"
                               \/ pre = <<>> /\ kind = "page"
<1>1. \A p, kinds : <<pre, kind>> \in Pre(p, kinds) => pre \in {<<>>, <<p>>} /\ kind \in kinds
  BY DEF Pre
<1>2. \A kinds : <<pre, kind>> \in Plain(kinds) => pre = <<>> /\ kind \in kinds
  BY DEF Plain
<1>3. CASE Mirrors(m)
  <2>1. m.cmd \in AllHosts \/ m.cmd = "m"
    BY <1>3, Named
  <2>2. m.cmd \notin {"dl", "gdl", "cdl", "mega", "gd", "gfdl", "tor", "aria", "unzip"}
    BY <2>1, Named DEF Downloads
  <2>3. For(m) = Pre("direct:", {"file", "stream"}) \cup Plain({"page"})
    BY <1>3, <2>2 DEF For
  <2>4. \/ pre \in {<<>>, <<"direct:">>} /\ kind \in {"file", "stream"}
        \/ pre = <<>> /\ kind \in {"page"}
    BY <1>1, <1>2, <2>3
  <2>5. QED  BY <1>3, <2>2, <2>4
<1>4. CASE m.cmd \in AllHosts /\ ~Mirrors(m)
  <2>1. m.cmd \notin {"dl", "gdl", "cdl", "mega", "gd", "gfdl", "tor", "aria", "unzip"}
    BY <1>4, Named DEF Downloads
  <2>2. For(m) = Pre("gofile:", {"gofile"}) \cup {<<<<"bare">>, "gofile">>}
    BY <1>4, <2>1 DEF For
  <2>3. QED  BY <1>1, <1>4, <2>1, <2>2
<1>5. CASE m.cmd \notin AllHosts /\ ~Mirrors(m)
  <2>1. m.cmd \in Downloads /\ m.cmd # "m"
    BY <1>5, Named DEF Mirrors
  <2>2. ASSUME m.cmd = "dl" PROVE pre \in {<<>>, <<"direct:">>} /\ kind \in {"file", "stream"}
    <3>1. For(m) = Pre("direct:", {"file", "stream"})
      BY <1>5, <2>2 DEF For
    <3>2. QED  BY <1>1, <3>1
  <2>3. ASSUME m.cmd = "gdl" PROVE pre = <<>> /\ kind = "page"
    <3>1. For(m) = Plain({"page"})
      BY <1>5, <2>3 DEF For
    <3>2. QED  BY <1>2, <3>1
  <2>4. ASSUME m.cmd = "cdl" PROVE pre \in {<<>>, <<"cdl:">>} /\ kind = "page"
    <3>1. For(m) = Pre("cdl:", {"page"})
      BY <1>5, <2>4 DEF For
    <3>2. QED  BY <1>1, <3>1
  <2>5. ASSUME m.cmd = "mega" PROVE pre \in {<<>>, <<"mega:">>} /\ kind = "mega"
    <3>1. For(m) = Pre("mega:", {"mega"})
      BY <1>5, <2>5 DEF For
    <3>2. QED  BY <1>1, <3>1
  <2>6. ASSUME m.cmd = "gd" PROVE pre \in {<<>>, <<"gdrive:">>} /\ kind = "drive"
    <3>1. For(m) = Pre("gdrive:", {"drive"})
      BY <1>5, <2>6 DEF For
    <3>2. QED  BY <1>1, <3>1
  <2>7. ASSUME m.cmd = "gfdl" PROVE pre \in {<<>>, <<"gofile:">>, <<"bare">>} /\ kind = "gofile"
    <3>1. For(m) = Pre("gofile:", {"gofile"}) \cup {<<<<"bare">>, "gofile">>}
      BY <1>5, <2>7 DEF For
    <3>2. QED  BY <1>1, <3>1
  <2>8. ASSUME m.cmd = "tor" PROVE pre = <<>> /\ kind \in {"magnet", "torrent"}
    <3>1. For(m) = Plain({"magnet", "torrent"})
      BY <1>5, <2>8 DEF For
    <3>2. QED  BY <1>2, <3>1
  <2>9. ASSUME m.cmd = "aria" PROVE pre = <<>> /\ kind \in {"magnet", "torrent", "file"}
    <3>1. For(m) = Plain({"magnet", "torrent", "file"})
      BY <1>5, <2>9 DEF For
    <3>2. QED  BY <1>2, <3>1
  <2>10. ASSUME m.cmd = "unzip"
         PROVE  \/ pre \in {<<>>, <<"direct:">>} /\ kind \in {"file", "stream"}
                \/ pre \in {<<>>, <<"mega:">>} /\ kind = "mega"
                \/ pre \in {<<>>, <<"gdrive:">>} /\ kind = "drive"
                \/ pre \in {<<>>, <<"gofile:">>} /\ kind = "gofile"
                \/ pre = <<>> /\ kind = "page"
    <3>1. For(m) = Pre("direct:", {"file", "stream"}) \cup Pre("mega:", {"mega"}) \cup Pre("gdrive:", {"drive"})
                   \cup Pre("gofile:", {"gofile"}) \cup Plain({"page"})
      BY <1>5, <2>10 DEF For
    <3>2. \/ <<pre, kind>> \in Pre("direct:", {"file", "stream"})
          \/ <<pre, kind>> \in Pre("mega:", {"mega"})
          \/ <<pre, kind>> \in Pre("gdrive:", {"drive"})
          \/ <<pre, kind>> \in Pre("gofile:", {"gofile"})
          \/ <<pre, kind>> \in Plain({"page"})
      BY <3>1
    <3>3. QED  BY <1>1, <1>2, <3>2
  <2>11. QED  BY <1>5, <2>1, <2>2, <2>3, <2>4, <2>5, <2>6, <2>7, <2>8, <2>9, <2>10
<1>6. QED  BY <1>3, <1>4, <1>5

Sent(m) == m.links \in Seq(Links) /\ m.replied \in Seq(Links) /\ m.cmd \in Downloads \cup AllHosts

LEMMA Magnets ==
  ASSUME NEW l \in Seq(Links)
  PROVE  Only(l, LAMBDA x : x.kind = "magnet") \in Seq(Links)
BY AmongFacts DEF Only

LEMMA GivenFacts ==
  ASSUME NEW m, Sent(m), Suits(m)
  PROVE  /\ Given(m) \in Seq(Links) /\ Given(m) # <<>> /\ Given(m)[1] \in ToSet(Given(m))
         /\ \A l \in ToSet(Given(m)) : l \in Links /\ <<l.pre, l.kind>> \in For(m) /\ l.kind = Given(m)[1].kind
         /\ m.cmd # "tor" => \/ (\A l \in ToSet(Given(m)) : IsURLToken(l)) /\ Urls(m) = Given(m)
                             \/ (\A l \in ToSet(Given(m)) : ~IsURLToken(l)) /\ Urls(m) = <<>> /\ Given(m) = m.links
<1> DEFINE g == Given(m)
<1>1. g # <<>> /\ \A l \in ToSet(g) : <<l.pre, l.kind>> \in For(m) /\ l.kind = g[1].kind
  BY DEF Suits
<1>2. g \in Seq(Links)
  <2>1. CASE m.links # <<>>
    BY <2>1 DEF Given, Sent
  <2>2. CASE m.links = <<>> /\ m.cmd = "tor"
    <3>1. g = Only(m.replied, LAMBDA x : x.kind = "magnet")
      BY <2>2 DEF Given
    <3>2. QED  BY <3>1, Magnets DEF Sent
  <2>3. CASE m.links = <<>> /\ m.cmd # "tor"
    BY <2>3 DEF Given, Sent
  <2>4. QED  BY <2>1, <2>2, <2>3
<1> HIDE DEF g
<1>3. g[1] \in ToSet(g) /\ \A l \in ToSet(g) : l \in Links
  BY <1>1, <1>2, Listed
<1>4. ASSUME m.cmd # "tor"
      PROVE  \/ (\A l \in ToSet(g) : IsURLToken(l)) /\ Urls(m) = g
             \/ (\A l \in ToSet(g) : ~IsURLToken(l)) /\ Urls(m) = <<>> /\ g = m.links
  <2>1. g = IF m.links # <<>> THEN m.links ELSE m.replied
    BY <1>4 DEF g, Given
  <2>2. \/ \A l \in ToSet(g) : IsURLToken(l)
        \/ m.links # <<>> /\ Urls(m) = <<>> /\ \A l \in ToSet(m.links) : ~IsURLToken(l)
    BY DEF Suits, g
  <2>3. Urls(m) = IF URLTokens(m.links) # <<>> THEN URLTokens(m.links) ELSE URLTokens(m.replied)
    BY DEF Suits, Urls, CollectURLs, Flags
  <2>4. CASE \A l \in ToSet(g) : IsURLToken(l)
    <3>1. URLTokens(g) = g
      BY <1>2, <2>4, AllOrNone
    <3>2. CASE m.links # <<>>
      BY <1>1, <2>1, <2>3, <2>4, <3>1, <3>2
    <3>3. CASE m.links = <<>>
      <4>1. ToSet(m.links) = {}
        BY <3>3 DEF ToSet
      <4>2. URLTokens(m.links) = m.links
        BY <4>1, AllOrNone DEF Sent
      <4>3. QED  BY <2>1, <2>3, <2>4, <3>1, <3>3, <4>2
    <3>4. QED  BY <3>2, <3>3
  <2>5. CASE m.links # <<>> /\ Urls(m) = <<>> /\ \A l \in ToSet(m.links) : ~IsURLToken(l)
    BY <2>1, <2>5
  <2>6. QED  BY <2>2, <2>4, <2>5
<1>5. QED  BY <1>1, <1>2, <1>3, <1>4 DEF g

\* A job does what its message asks.
Suited(m, job) ==
  LET g == Given(m)  s == SourceOf(m, g[1].kind)
  IN /\ job # NoJob /\ PickSource(job) = s
     /\ Numbers(Fetched(s, job)) = IF s \in {"aria2", "cyberdrop-dl"} THEN {g[1].n} ELSE Numbers(ToSet(g))

LEMMA Whole ==
  ASSUME NEW m, NEW job, NEW s, s = SourceOf(m, Given(m)[1].kind), s # "aria2", s # "cyberdrop-dl", Gets(job, s, Given(m))
  PROVE  Suited(m, job)
BY DEF Suited, Gets

LEMMA Unbare ==
  ASSUME NEW l \in Links, NEW p, p # "bare", l.pre \in {<<>>, <<p>>}
  PROVE  IsURLToken(l) /\ l.pre # <<"bare">>
<1>1. CASE l.pre = <<>>
  <2>1. ~Starts(l, {"bare"})
    BY <1>1, Bare
  <2>2. QED  BY <1>1, <2>1 DEF IsURLToken
<1>2. CASE l.pre = <<p>>
  <2>1. \A q : Starts(l, {q}) => q = p
    BY <1>2, Called
  <2>2. QED  BY <1>2, <2>1 DEF IsURLToken
<1>3. QED  BY <1>1, <1>2

\* Links that begin with "https://", and commands that take them all.
LEMMA AllUrls ==
  ASSUME NEW m, Sent(m), Suits(m), m.cmd # "tor", \A l \in ToSet(Given(m)) : IsURLToken(l)
  PROVE  Urls(m) = Given(m) /\ ToSet(m.links) \subseteq ToSet(Given(m))
<1>1. Given(m)[1] \in ToSet(Given(m)) /\ Urls(m) = Given(m)
  BY GivenFacts
<1>2. CASE m.links # <<>>
  BY <1>1, <1>2 DEF Given
<1>3. CASE m.links = <<>>
  <2>1. ToSet(m.links) = {}
    BY <1>3 DEF ToSet
  <2>2. QED  BY <1>1, <2>1
<1>4. QED  BY <1>2, <1>3

LEMMA MirrorSuits ==
  ASSUME NEW m, Sent(m), Suits(m), Mirrors(m)
  PROVE  Suited(m, Handler(m))
<1> DEFINE g == Given(m)
           job == Handler(m)
<1>1. g \in Seq(Links) /\ g # <<>> /\ g[1] \in ToSet(g)
  BY GivenFacts
<1>2. \A l \in ToSet(g) : /\ l \in Links /\ l.kind = g[1].kind
                          /\ \/ l.pre \in {<<>>, <<"direct:">>} /\ l.kind \in {"file", "stream"}
                             \/ l.pre = <<>> /\ l.kind = "page"
  <2>1. ASSUME NEW l \in ToSet(g)
        PROVE  /\ l \in Links /\ l.kind = g[1].kind
               /\ \/ l.pre \in {<<>>, <<"direct:">>} /\ l.kind \in {"file", "stream"}
                  \/ l.pre = <<>> /\ l.kind = "page"
    <3>1. l \in Links /\ <<l.pre, l.kind>> \in For(m) /\ l.kind = g[1].kind
      BY <2>1, GivenFacts
    <3>2. m.cmd \in Downloads \cup AllHosts
      BY DEF Sent
    <3>3. QED  BY <3>1, <3>2, Asked
  <2>2. QED  BY <2>1
<1>3. m.cmd # "tor" /\ (m.cmd = "m" \/ m.cmd \in AllHosts)
  BY Named DEF Sent, Mirrors, Downloads
<1> HIDE DEF g
<1>4. ASSUME NEW l \in ToSet(g) PROVE IsURLToken(l) /\ ~IsGofileURL(l)
  <2>1. l \in Links /\ l.pre \in {<<>>, <<"direct:">>} /\ l.kind # "gofile"
    BY <1>2, <1>4
  <2>2. IsURLToken(l)
    BY <2>1, Unbare
  <2>3. ~Starts(l, {"gofile:"})
    <3>1. CASE l.pre = <<>>
      BY <2>1, <3>1, Bare
    <3>2. CASE l.pre = <<"direct:">>
      <4>1. \A q : Starts(l, {q}) => q = "direct:"
        BY <2>1, <3>2, Called
      <4>2. QED  BY <4>1
    <3>3. QED  BY <2>1, <3>1, <3>2
  <2>4. l.kind # Word.kind
    <3>1. l.kind \in {"file", "stream", "page"}
      BY <1>2, <1>4
    <3>2. QED  BY <3>1, WordKind
  <2>5. QED  BY <2>1, <2>2, <2>3, <2>4 DEF IsGofileURL
<1>5. Urls(m) = g /\ ToSet(m.links) \subseteq ToSet(g)
  BY <1>3, <1>4, AllUrls DEF g
<1>6. ~(m.cmd = "gofile" /\ \E l \in ToSet(Urls(m)) \cup ToSet(m.links) \cup ToSet(Words(m)) : IsGofileURL(l))
  <2>1. m.cmd = "gofile" => ~m.word
    BY DEF Suits, Mistaken
  <2>2. QED  BY <1>4, <1>5, <2>1, WordFacts
<1>7. ~(m.cmd \in AllHosts /\ m.to # {})
  BY DEF Suits
<1>8. job = MirrorTo(m)
  <2>1. m.cmd \notin {"dl", "gdl", "cdl", "mega", "gd", "gfdl", "tor", "aria", "unzip"}
    BY <1>3, Named DEF Sent, Downloads
  <2>2. QED  BY <1>3, <2>1 DEF Handler
<1>9. job.links = g /\ job.engine = "" /\ job.outer = "mirror:" /\ job.file = FALSE
  BY <1>1, <1>5, <1>6, <1>7, <1>8 DEF MirrorTo, Flags, Job, NoJob
<1>10. SourceOf(m, g[1].kind) = "mirror"
  <2>1. m.cmd \notin {"dl", "gdl", "cdl", "tor", "aria"}
    BY <1>3, Named DEF Sent, Downloads
  <2>2. QED  BY <2>1 DEF SourceOf
<1>11. \/ \A l \in ToSet(g) : l.kind \in {"file", "stream"} /\ l.pre \in {<<>>, <<"direct:">>}
       \/ \A l \in ToSet(g) : l.kind = "page" /\ l.pre = <<>>
  <2>1. CASE g[1].kind = "page"
    BY <1>2, <2>1
  <2>2. CASE g[1].kind # "page"
    BY <1>2, <2>2
  <2>3. QED  BY <2>1, <2>2
<1> HIDE DEF job
<1>12. Gets(job, "mirror", g)
  BY <1>1, <1>9, <1>11, MirrorGets
<1>13. QED  BY <1>10, <1>12, Whole DEF g, job

\* The handler of each command, and the source that is asked for.
LEMMA Dispatched ==
  ASSUME NEW m, Sent(m), m.cmd \in Downloads, m.cmd # "m"
  PROVE  /\ m.cmd = "dl" => Handler(m) = Direct(m) /\ \A k : SourceOf(m, k) = "direct"
         /\ m.cmd = "gdl" => Handler(m) = Engine(m, "gallery-dl") /\ \A k : SourceOf(m, k) = "gallery-dl"
         /\ m.cmd = "cdl" => Handler(m) = Engine(m, "cyberdrop-dl") /\ \A k : SourceOf(m, k) = "cyberdrop-dl"
         /\ m.cmd = "gfdl" => Handler(m) = GofileDL(m) /\ SourceOf(m, "gofile") = "gofile"
         /\ m.cmd = "mega" => Handler(m) = Mega(m) /\ SourceOf(m, "mega") = "mega"
         /\ m.cmd = "gd" => Handler(m) = Drive(m) /\ SourceOf(m, "drive") = "google-drive"
         /\ m.cmd = "tor" => Handler(m) = Torrent(m) /\ \A k : SourceOf(m, k) = "aria2"
         /\ m.cmd = "aria" => Handler(m) = Aria(m) /\ \A k : SourceOf(m, k) = "aria2"
         /\ m.cmd = "unzip" => /\ Handler(m) = Unzip(m)
                               /\ SourceOf(m, "drive") = "google-drive" /\ SourceOf(m, "mega") = "mega"
                               /\ SourceOf(m, "gofile") = "gofile" /\ SourceOf(m, "page") = "gallery-dl"
                               /\ \A k \in {"file", "stream"} : SourceOf(m, k) = "direct"
<1>1. m.cmd \notin AllHosts /\ ~Mirrors(m)
  BY Named
<1>2. QED  BY <1>1 DEF Handler, SourceOf

\* Links with one prefix, or with none, are all taken.
LEMMA AsGiven ==
  ASSUME NEW m, Sent(m), Suits(m), m.cmd # "tor", NEW p, p # "bare", \A l \in ToSet(Given(m)) : l.pre \in {<<>>, <<p>>}
  PROVE  /\ Urls(m) = Given(m) /\ Ready(Given(m), Given(m), p) /\ Given(m) # <<>>
         /\ \A l \in ToSet(Given(m)) : l.pre # <<"bare">>
<1>1. Given(m) \in Seq(Links) /\ Given(m) # <<>> /\ \A l \in ToSet(Given(m)) : l \in Links
  BY GivenFacts
<1>2. \A l \in ToSet(Given(m)) : IsURLToken(l) /\ l.pre # <<"bare">>
  BY <1>1, Unbare
<1>3. Urls(m) = Given(m)
  BY <1>2, AllUrls
<1>4. Ready(Given(m), Given(m), p)
  BY <1>1, ReadyAsGiven
<1>5. QED  BY <1>1, <1>2, <1>3, <1>4

\* What is known of a link of a message that suits its command.
LEMMA Each ==
  ASSUME NEW m, Sent(m), Suits(m), NEW l \in ToSet(Given(m))
  PROVE  /\ m.cmd \in Downloads \cup AllHosts /\ <<l.pre, l.kind>> \in For(m)
         /\ l \in Links /\ l.kind = Given(m)[1].kind
BY GivenFacts DEF Sent

LEMMA DirectSuits ==
  ASSUME NEW m, Sent(m), Suits(m), m.cmd = "dl"
  PROVE  Suited(m, Handler(m))
<1> DEFINE g == Given(m)
<1>1. \A l \in ToSet(g) : l.pre \in {<<>>, <<"direct:">>} /\ l.kind \in {"file", "stream"}
  BY Each, Asked
<1>2. Urls(m) = g /\ Ready(g, g, "direct:") /\ g # <<>> /\ \A l \in ToSet(g) : l.pre # <<"bare">>
  BY <1>1, AsGiven
<1> HIDE DEF g
<1>3. m.cmd \in Downloads
  BY DEF Downloads
<1>4. Handler(m) = Direct(m) /\ SourceOf(m, g[1].kind) = "direct"
  BY <1>3, Dispatched
<1> DEFINE job == Handler(m)
<1>5. job = [Flagged(m, g) EXCEPT !.engine = "direct"]
  BY <1>2, <1>4 DEF Direct, OrUsage
<1>6. job.links = g /\ job.engine = "direct" /\ job.outer = "" /\ job.file = FALSE
  BY <1>5 DEF Flagged, Job, NoJob
<1> HIDE DEF job
<1>7. Gets(job, "direct", g)
  <2>1. \A l \in ToSet(g) : l.kind \in {"file", "stream"} /\ l.pre # <<"bare">>
    BY <1>1, <1>2
  <2>2. Engined(job, "direct") /\ Ready(job.links, g, "direct:")
    BY <1>2, <1>6 DEF Engined
  <2>3. QED  BY <2>1, <2>2, DirectGets
<1>8. QED  BY <1>4, <1>7, Whole DEF g, job

LEMMA PageSuits ==
  ASSUME NEW m, Sent(m), Suits(m), m.cmd = "gdl"
  PROVE  Suited(m, Handler(m))
<1> DEFINE g == Given(m)
<1>1. \A l \in ToSet(g) : l.pre = <<>> /\ l.kind = "page"
  BY Each, Asked
<1>2. Urls(m) = g /\ g # <<>> /\ g \in Seq(Links)
  BY <1>1, AsGiven, GivenFacts
<1> HIDE DEF g
<1>3. m.cmd \in Downloads
  BY DEF Downloads
<1>4. Handler(m) = Engine(m, "gallery-dl") /\ SourceOf(m, g[1].kind) = "gallery-dl"
  BY <1>3, Dispatched
<1> DEFINE job == Handler(m)
<1>5. job = [Flagged(m, g) EXCEPT !.engine = "gallery-dl"]
  BY <1>2, <1>4 DEF Engine, OrUsage
<1>6. job.links = g /\ job.engine = "gallery-dl" /\ job.outer = "" /\ job.file = FALSE
  BY <1>5 DEF Flagged, Job, NoJob
<1> HIDE DEF job
<1>7. Gets(job, "gallery-dl", g)
  BY <1>1, <1>2, <1>6, PageGets
<1>8. QED  BY <1>4, <1>7, Whole DEF g, job

LEMMA CyberdropSuits ==
  ASSUME NEW m, Sent(m), Suits(m), m.cmd = "cdl"
  PROVE  Suited(m, Handler(m))
<1> DEFINE g == Given(m)
<1>1. \A l \in ToSet(g) : l.pre \in {<<>>, <<"cdl:">>} /\ l.kind = "page"
  BY Each, Asked
<1>2. Urls(m) = g /\ g # <<>> /\ g \in Seq(Links) /\ g[1] \in ToSet(g) /\ g[1] \in Links
  BY <1>1, AsGiven, GivenFacts
<1> HIDE DEF g
<1>3. m.cmd \in Downloads
  BY DEF Downloads
<1>4. Handler(m) = Engine(m, "cyberdrop-dl") /\ SourceOf(m, g[1].kind) = "cyberdrop-dl"
  BY <1>3, Dispatched
<1> DEFINE job == Handler(m)
<1>5. job = [Flagged(m, g) EXCEPT !.engine = "cyberdrop-dl"]
  BY <1>2, <1>4 DEF Engine, OrUsage
<1>6. job.links = g /\ job.engine = "cyberdrop-dl" /\ job.outer = ""
  BY <1>5 DEF Flagged, Job, NoJob
<1> HIDE DEF job
<1>7. job # NoJob /\ PickSource(job) = "cyberdrop-dl" /\ Numbers(Fetched("cyberdrop-dl", job)) = {g[1].n}
  BY <1>1, <1>2, <1>6, OneGets
<1>8. QED  BY <1>4, <1>7 DEF Suited, g, job

\* Commands that put a prefix of their own in front of what they take.
LEMMA CloudSuits ==
  ASSUME NEW m, Sent(m), Suits(m), NEW p, NEW s, NEW links, NEW job,
         \/ p = "gdrive:" /\ s = "google-drive" /\ \A l \in ToSet(Given(m)) : l.pre \in {<<>>, <<p>>} /\ l.kind = "drive"
         \/ p = "mega:" /\ s = "mega" /\ \A l \in ToSet(Given(m)) : l.pre \in {<<>>, <<p>>} /\ l.kind = "mega"
         \/ p = "gofile:" /\ s = "gofile" /\ \A l \in ToSet(Given(m)) : l.pre \in {<<>>, <<p>>, <<"bare">>} /\ l.kind = "gofile",
         s = SourceOf(m, Given(m)[1].kind),
         job.links = Prefixed(p, Given(m)), job.engine = "", job.outer = "", job.file = FALSE
  PROVE  Suited(m, job)
<1> DEFINE g == Given(m)
           kind == IF s = "google-drive" THEN "drive" ELSE s
<1>1. g \in Seq(Links) /\ g # <<>> /\ \A l \in ToSet(g) : l \in Links
  BY GivenFacts
<1>2. p \in LinkPrefixes /\ p # "bare" /\ s # "aria2" /\ s # "cyberdrop-dl"
  BY DEF LinkPrefixes
<1>3. \A l \in ToSet(g) : l.pre \in {<<>>, <<p>>, <<"bare">>}
  OBVIOUS
<1>4. \A l \in ToSet(g) : l.kind = kind /\ (l.pre = <<"bare">> => kind = "gofile")
  <2>1. ASSUME NEW l \in ToSet(g), l.pre \in {<<>>, <<p>>} PROVE l.pre # <<"bare">>
    BY <1>1, <1>2, <2>1, Unbare
  <2>2. QED  BY <2>1
<1> HIDE DEF g
<1>5. Ready(job.links, g, p)
  BY <1>1, <1>2, <1>3, ReadyPrefixed DEF g
<1>6. Gets(job, s, g)
  BY <1>4, <1>5, CloudGets
<1>7. QED  BY <1>2, <1>6, Whole DEF g

LEMMA MegaSuits ==
  ASSUME NEW m, Sent(m), Suits(m), m.cmd = "mega"
  PROVE  Suited(m, Handler(m))
<1> DEFINE g == Given(m)
           job == Handler(m)
<1>1. \A l \in ToSet(g) : l.pre \in {<<>>, <<"mega:">>} /\ l.kind = "mega"
  BY Each, Asked
<1>2. Urls(m) = g /\ g # <<>> /\ g[1] \in ToSet(g)
  BY <1>1, AsGiven, GivenFacts
<1> HIDE DEF g
<1>3. m.cmd \in Downloads
  BY DEF Downloads
<1>4. Handler(m) = Mega(m) /\ SourceOf(m, g[1].kind) = "mega"
  BY <1>1, <1>2, <1>3, Dispatched
<1>5. job = Flagged(m, Prefixed("mega:", g))
  BY <1>2, <1>4 DEF Mega, OrUsage
<1>6. job.links = Prefixed("mega:", g) /\ job.engine = "" /\ job.outer = "" /\ job.file = FALSE
  BY <1>5 DEF Flagged, Job, NoJob
<1> HIDE DEF job
<1>7. Suited(m, job)
  BY <1>1, <1>4, <1>6, CloudSuits DEF g
<1>8. QED  BY <1>7 DEF job

LEMMA DriveSuits ==
  ASSUME NEW m, Sent(m), Suits(m), m.cmd = "gd"
  PROVE  Suited(m, Handler(m))
<1> DEFINE g == Given(m)
           job == Handler(m)
<1>1. \A l \in ToSet(g) : l.pre \in {<<>>, <<"gdrive:">>} /\ l.kind = "drive"
  BY Each, Asked
<1>2. Urls(m) = g /\ g # <<>> /\ g[1] \in ToSet(g)
  BY <1>1, AsGiven, GivenFacts
<1> HIDE DEF g
<1>3. m.cmd \in Downloads
  BY DEF Downloads
<1>4. Handler(m) = Drive(m) /\ SourceOf(m, g[1].kind) = "google-drive"
  BY <1>1, <1>2, <1>3, Dispatched
<1>5. job = Flagged(m, Prefixed("gdrive:", g))
  BY <1>2, <1>4 DEF Drive, OrUsage
<1>6. job.links = Prefixed("gdrive:", g) /\ job.engine = "" /\ job.outer = "" /\ job.file = FALSE
  BY <1>5 DEF Flagged, Job, NoJob
<1> HIDE DEF job
<1>7. Suited(m, job)
  BY <1>1, <1>4, <1>6, CloudSuits DEF g
<1>8. QED  BY <1>7 DEF job

\* cmdGofileDL, which "/gofile" of a GoFile link is too.
LEMMA GofileJob ==
  ASSUME NEW m, Sent(m), Suits(m), m.cmd \in {"gfdl", "gofile"},
         \A l \in ToSet(Given(m)) : l.pre \in {<<>>, <<"gofile:">>, <<"bare">>} /\ l.kind = "gofile"
  PROVE  GofileDL(m) = Flagged(m, Prefixed("gofile:", Given(m)))
<1> DEFINE g == Given(m)
           S == {l \in ToSet(m.links) : IsGofileURL(l)}
<1>1. g # <<>> /\ g \in Seq(Links) /\ \A l \in ToSet(g) : l \in Links
  BY GivenFacts
<1>2. \/ Urls(m) = g
      \/ Urls(m) = <<>> /\ g = m.links
  BY GivenFacts
<1>3. \A l \in ToSet(g) : IsGofileURL(l)
  <2>1. ASSUME NEW l \in ToSet(g) PROVE IsGofileURL(l)
    <3>1. CASE l.pre = <<"gofile:">>
      <4>1. Starts(l, {"gofile:"})
        BY <1>1, <3>1, Called
      <4>2. QED  BY <4>1 DEF IsGofileURL
    <3>2. CASE l.pre \in {<<>>, <<"bare">>}
      BY <3>2 DEF IsGofileURL
    <3>3. QED  BY <3>1, <3>2
  <2>2. QED  BY <2>1
<1> HIDE DEF g
<1>4. ASSUME g = m.links PROVE Among(m.links, S) = g
  <2>1. ToSet(m.links) \subseteq S
    BY <1>3, <1>4
  <2> HIDE DEF S
  <2>2. QED  BY <1>1, <1>4, <2>1, AmongFacts
<1>5. GofileDL(m) = LET urls == IF Urls(m) # <<>> THEN Urls(m) ELSE Among(m.links, S) \o Words(m)
                    IN OrUsage(urls, Flagged(m, Prefixed("gofile:", urls)))
  BY DEF GofileDL, Only
<1> HIDE DEF S
<1>6. (IF Urls(m) # <<>> THEN Urls(m) ELSE Among(m.links, S) \o Words(m)) = g
  <2>1. CASE Urls(m) # <<>>
    BY <1>2, <2>1
  <2>2. CASE Urls(m) = <<>>
    <3>1. g = m.links /\ Among(m.links, S) = g
      BY <1>1, <1>2, <1>4, <2>2
    <3>2. ~m.word
      <4>1. ~\A l \in ToSet(g) : IsURLToken(l)
        BY <1>1, <2>2, AllUrls DEF g
      <4>2. QED  BY <4>1 DEF Suits, g
    <3>3. g \o <<>> = g
      BY <1>1
    <3>4. QED  BY <2>2, <3>1, <3>2, <3>3 DEF Words
  <2>3. QED  BY <2>1, <2>2
<1>7. QED  BY <1>1, <1>5, <1>6 DEF OrUsage, g

LEMMA GofileSuits ==
  ASSUME NEW m, Sent(m), Suits(m), m.cmd = "gfdl" \/ (m.cmd \in AllHosts /\ ~Mirrors(m))
  PROVE  Suited(m, Handler(m))
<1> DEFINE g == Given(m)
           job == Handler(m)
<1>1. \A l \in ToSet(g) : l.pre \in {<<>>, <<"gofile:">>, <<"bare">>} /\ l.kind = "gofile"
  BY Each, Asked
<1>2. /\ m.cmd \in {"gfdl", "gofile"} /\ (m.cmd = "gofile" => m.cmd \in AllHosts /\ m.cmd \notin Downloads /\ ~Mirrors(m))
      /\ m.cmd = "gfdl" => m.cmd \in Downloads
  BY Named DEF Sent, Downloads
<1>3. g # <<>> /\ g[1] \in ToSet(g)
  BY GivenFacts
<1>4. SourceOf(m, g[1].kind) = "gofile"
  <2>1. g[1].kind = "gofile"
    BY <1>1, <1>3
  <2>2. CASE m.cmd = "gfdl"
    BY <1>2, <2>1, <2>2, Dispatched
  <2>3. CASE m.cmd = "gofile"
    BY <1>2, <2>1, <2>3 DEF SourceOf
  <2>4. QED  BY <1>2, <2>2, <2>3
<1>5. job = GofileDL(m)
  <2>1. CASE m.cmd = "gfdl"
    BY <1>2, <2>1, Dispatched
  <2>2. CASE m.cmd = "gofile"
    <3>1. job = MirrorTo(m)
      BY <1>2, <2>2 DEF Handler
    <3>2. ~(m.cmd \in AllHosts /\ m.to # {})
      BY DEF Suits
    <3>3. \E l \in ToSet(Urls(m)) \cup ToSet(m.links) \cup ToSet(Words(m)) : IsGofileURL(l)
      <4>1. g = Urls(m) \/ g = m.links
        BY <2>2, GivenFacts
      <4>2. g[1] \in ToSet(Urls(m)) \cup ToSet(m.links)
        BY <1>3, <4>1
      <4>3. g[1] \in Links /\ g[1].pre \in {<<>>, <<"gofile:">>, <<"bare">>} /\ g[1].kind = "gofile"
        BY <1>1, <1>3, GivenFacts
      <4>4. g[1].pre = <<"gofile:">> => Starts(g[1], {"gofile:"})
        BY <4>3, Called
      <4>5. IsGofileURL(g[1])
        BY <4>3, <4>4 DEF IsGofileURL
      <4>6. QED  BY <4>2, <4>5
    <3>4. m.cmd \in AllHosts /\ m.to = {}
      BY <1>2, <2>2, <3>2
    <3> HIDE DEF job
    <3>5. MirrorTo(m) = GofileDL(m)
      BY <2>2, <3>3, <3>4 DEF MirrorTo, Flags
    <3>6. QED  BY <3>1, <3>5
  <2>3. QED  BY <1>2, <2>1, <2>2
<1>6. job = Flagged(m, Prefixed("gofile:", g))
  BY <1>1, <1>2, <1>5, GofileJob
<1>7. job.links = Prefixed("gofile:", g) /\ job.engine = "" /\ job.outer = "" /\ job.file = FALSE
  BY <1>6 DEF Flagged, Job, NoJob
<1> HIDE DEF job
<1>8. Suited(m, job)
  BY <1>1, <1>4, <1>7, CloudSuits
<1>9. QED  BY <1>8 DEF job

\* The first link alone, for aria2.
FirstOf(m, links) == [Job(m, <<links[1]>>) EXCEPT !.engine = "aria2", !.outer = ""]

LEMMA OneSuits ==
  ASSUME NEW m, Sent(m), Suits(m), NEW job, job = FirstOf(m, Given(m)), SourceOf(m, Given(m)[1].kind) = "aria2",
         Given(m)[1].pre = <<>>, Given(m)[1].kind \in {"magnet", "torrent", "file"}
  PROVE  Suited(m, job)
<1> DEFINE l == Given(m)[1]
<1>1. l \in Links
  BY GivenFacts
<1>2. SourceOf(m, l.kind) = "aria2" /\ l.pre = <<>> /\ l.kind \in {"magnet", "torrent", "file"}
  OBVIOUS
<1>3. job = [Job(m, <<l>>) EXCEPT !.engine = "aria2", !.outer = ""]
  BY DEF FirstOf
<1> HIDE DEF l
<1>4. job.links = <<l>> /\ job.engine = "aria2" /\ job.outer = ""
  BY <1>3 DEF Job, NoJob
<1>5. <<l>> \in Seq(Links) /\ <<l>> # <<>> /\ <<l>>[1] = l
  BY <1>1
<1>6. job # NoJob /\ PickSource(job) = "aria2" /\ Numbers(Fetched("aria2", job)) = {l.n}
  BY <1>1, <1>2, <1>4, <1>5, OneGets
<1>7. QED  BY <1>2, <1>6 DEF Suited, l

LEMMA TorrentSuits ==
  ASSUME NEW m, Sent(m), Suits(m), m.cmd = "tor"
  PROVE  Suited(m, Handler(m))
<1> DEFINE g == Given(m)
           job == Handler(m)
           S == {l \in ToSet(m.links) : l.pre = <<>>}
           T == {l \in ToSet(m.replied) : l.pre = <<>> /\ l.kind = "magnet"}
           U == {l \in ToSet(m.replied) : l.kind = "magnet"}
           ours == Among(m.links, S)
           theirs == Among(m.replied, T)
<1>1. \A l \in ToSet(g) : l.pre = <<>> /\ l.kind \in {"magnet", "torrent"}
  BY Each, Asked
<1>2. g # <<>> /\ g \in Seq(Links) /\ g[1] \in ToSet(g) /\ g[1] \in Links /\ m.links \in Seq(Links) /\ m.replied \in Seq(Links)
  BY GivenFacts DEF Sent
<1>3. m.cmd \in Downloads /\ m.file = "none"
  BY DEF Downloads, Suits
<1>4. Handler(m) = Torrent(m) /\ SourceOf(m, g[1].kind) = "aria2"
  BY <1>3, Dispatched
<1>5. ASSUME m.links # <<>> PROVE job = FirstOf(m, g)
  <2>1. g = m.links
    BY <1>5 DEF Given
  <2>2. ToSet(m.links) \subseteq S
    BY <1>1, <2>1
  <2> HIDE DEF S, g
  <2>3. ours = g
    BY <1>2, <2>1, <2>2, AmongFacts
  <2>4. Torrent(m) = FirstOf(m, g)
    BY <1>2, <2>3 DEF Torrent, Only, FirstOf, S
  <2>5. QED  BY <1>4, <2>4
<1>6. ASSUME m.links = <<>> PROVE job = FirstOf(m, g)
  <2>1. g = Among(m.replied, U)
    BY <1>6 DEF Given, Only
  <2>2. ToSet(g) = ToSet(m.replied) \cap U
    <3> HIDE DEF U, g
    <3>1. QED  BY <1>2, <2>1, AmongFacts
  <2>3. T = U
    BY <1>1, <2>2
  <2>4. ToSet(m.links) \cap S = {}
    BY <1>6 DEF ToSet
  <2>5. ours = <<>>
    <3> HIDE DEF S
    <3>1. QED  BY <1>2, <2>4, AmongFacts
  <2>6. theirs = g
    BY <2>1, <2>3
  <2> HIDE DEF g
  <2>7. Torrent(m) = FirstOf(m, g)
    BY <1>2, <1>3, <2>5, <2>6 DEF Torrent, Only, FirstOf
  <2>8. QED  BY <1>4, <2>7
<1>7. job = FirstOf(m, g)
  BY <1>5, <1>6
<1>8. g[1].pre = <<>> /\ g[1].kind \in {"magnet", "torrent", "file"}
  BY <1>1, <1>2
<1> HIDE DEF job
<1>9. Suited(m, job)
  BY <1>4, <1>7, <1>8, OneSuits
<1>10. QED  BY <1>9 DEF job

LEMMA AriaSuits ==
  ASSUME NEW m, Sent(m), Suits(m), m.cmd = "aria"
  PROVE  Suited(m, Handler(m))
<1> DEFINE g == Given(m)
           job == Handler(m)
<1>1. \A l \in ToSet(g) : l.pre = <<>> /\ l.kind \in {"magnet", "torrent", "file"}
  BY Each, Asked
<1>2. g # <<>> /\ g \in Seq(Links) /\ g[1] \in ToSet(g) /\ g[1] \in Links /\ m.links \in Seq(Links) /\ m.replied \in Seq(Links)
  BY GivenFacts DEF Sent
<1>3. m.cmd \in Downloads /\ m.file = "none"
  BY DEF Downloads, Suits
<1>4. Handler(m) = Aria(m) /\ SourceOf(m, g[1].kind) = "aria2"
  BY <1>3, Dispatched
<1>5. g = IF m.links # <<>> THEN m.links ELSE m.replied
  BY DEF Given
<1> HIDE DEF g
<1>6. \A l \in ToSet(g) : IsURLToken(l)
  <2>1. \A l \in ToSet(g) : l \in Links /\ l.pre \in {<<>>, <<"direct:">>}
    BY <1>1, <1>2, Listed
  <2>2. QED  BY <2>1, Unbare
<1>7. URLTokens(g) = g
  BY <1>2, <1>6, AllOrNone
<1>8. m.links = <<>> => URLTokens(m.links) = <<>>
  <2>1. m.links = <<>> => ToSet(m.links) = {}
    BY DEF ToSet
  <2>2. QED  BY <1>2, <2>1, AllOrNone
<1>9. Aria(m) = FirstOf(m, g)
  BY <1>2, <1>3, <1>5, <1>7, <1>8 DEF Aria, FirstOf
<1>10. g[1].pre = <<>> /\ g[1].kind \in {"magnet", "torrent", "file"}
  BY <1>1, <1>2
<1>11. job = FirstOf(m, g)
  BY <1>4, <1>9
<1> HIDE DEF job
<1>12. Suited(m, job)
  BY <1>4, <1>10, <1>11, OneSuits DEF g
<1>13. QED  BY <1>12 DEF job

\* cmdUnzip takes links of every kind, each for the source that it is of.
LEMMA UnzipSuits ==
  ASSUME NEW m, Sent(m), Suits(m), m.cmd = "unzip"
  PROVE  Suited(m, Handler(m))
<1> DEFINE g == Given(m)
           job == Handler(m)
           all(p, kinds) == \A l \in ToSet(g) : l.pre \in {<<>>, <<p>>} /\ l.kind \in kinds
<1>1. \A l \in ToSet(g) : /\ l.kind = g[1].kind
                          /\ \/ l.pre \in {<<>>, <<"direct:">>} /\ l.kind \in {"file", "stream"}
                             \/ l.pre \in {<<>>, <<"mega:">>} /\ l.kind = "mega"
                             \/ l.pre \in {<<>>, <<"gdrive:">>} /\ l.kind = "drive"
                             \/ l.pre \in {<<>>, <<"gofile:">>} /\ l.kind = "gofile"
                             \/ l.pre = <<>> /\ l.kind = "page"
  BY Each, Asked
<1>2. g # <<>> /\ g \in Seq(Links) /\ g[1] \in ToSet(g)
  BY GivenFacts
<1>3. \/ all("direct:", {"file", "stream"}) /\ g[1].kind \in {"file", "stream"}
      \/ all("mega:", {"mega"}) /\ g[1].kind = "mega"
      \/ all("gdrive:", {"drive"}) /\ g[1].kind = "drive"
      \/ all("gofile:", {"gofile"}) /\ g[1].kind = "gofile"
      \/ (\A l \in ToSet(g) : l.pre = <<>> /\ l.kind = "page") /\ g[1].kind = "page"
  <2> HIDE DEF g
  <2>1. g[1].kind \in {"file", "stream", "mega", "drive", "gofile", "page"}
    BY <1>1, <1>2
  <2>2. CASE g[1].kind \in {"file", "stream"}
    BY <1>1, <2>2
  <2>3. CASE g[1].kind = "mega"
    BY <1>1, <2>3
  <2>4. CASE g[1].kind = "drive"
    BY <1>1, <2>4
  <2>5. CASE g[1].kind = "gofile"
    BY <1>1, <2>5
  <2>6. CASE g[1].kind = "page"
    BY <1>1, <2>6
  <2>7. QED  BY <2>1, <2>2, <2>3, <2>4, <2>5, <2>6
<1>4. m.cmd \in Downloads /\ m.file = "none"
  BY DEF Downloads, Suits
<1>5. /\ Handler(m) = Unzip(m)
      /\ SourceOf(m, "drive") = "google-drive" /\ SourceOf(m, "mega") = "mega"
      /\ SourceOf(m, "gofile") = "gofile" /\ SourceOf(m, "page") = "gallery-dl"
      /\ \A k \in {"file", "stream"} : SourceOf(m, k) = "direct"
  BY <1>4, Dispatched
<1> HIDE DEF g
<1>6. Urls(m) = g
  <2>1. \E p \in {"direct:", "mega:", "gdrive:", "gofile:", "cdl:"} : \A l \in ToSet(g) : l.pre \in {<<>>, <<p>>}
    BY <1>3
  <2>2. PICK p \in {"direct:", "mega:", "gdrive:", "gofile:", "cdl:"} : \A l \in ToSet(g) : l.pre \in {<<>>, <<p>>}
    BY <2>1
  <2>3. p # "bare"
    OBVIOUS
  <2>4. QED  BY <1>4, <2>2, <2>3, AsGiven DEF g
<1>7. job = [Job(m, g) EXCEPT !.unzip = TRUE]
  BY <1>2, <1>4, <1>5, <1>6 DEF Unzip, OrUsage
<1>8. job.links = g /\ job.engine = "" /\ job.outer = "" /\ job.file = FALSE
  BY <1>7 DEF Job, NoJob
<1> HIDE DEF job
<1>9. ASSUME NEW p, p # "bare", \A l \in ToSet(g) : l.pre \in {<<>>, <<p>>}
      PROVE  Ready(job.links, g, p) /\ \A l \in ToSet(g) : l.pre # <<"bare">>
  BY <1>4, <1>8, <1>9, AsGiven DEF g
<1>10. CASE all("direct:", {"file", "stream"}) /\ g[1].kind \in {"file", "stream"}
  <2>1. Ready(job.links, g, "direct:") /\ \A l \in ToSet(g) : l.kind \in {"file", "stream"} /\ l.pre # <<"bare">>
    BY <1>9, <1>10
  <2>2. Engined(job, "direct")
    BY <1>8 DEF Engined
  <2>3. Gets(job, "direct", g)
    BY <2>1, <2>2, DirectGets
  <2>4. SourceOf(m, g[1].kind) = "direct"
    BY <1>5, <1>10
  <2>5. QED  BY <2>3, <2>4, Whole DEF g, job
<1>11. CASE all("mega:", {"mega"}) /\ g[1].kind = "mega"
  <2>1. Ready(job.links, g, "mega:") /\ \A l \in ToSet(g) : l.kind = "mega" /\ l.pre # <<"bare">>
    BY <1>9, <1>11
  <2>2. Gets(job, "mega", g)
    BY <1>8, <2>1, CloudGets
  <2>3. SourceOf(m, g[1].kind) = "mega"
    BY <1>5, <1>11
  <2>4. QED  BY <2>2, <2>3, Whole DEF g, job
<1>12. CASE all("gdrive:", {"drive"}) /\ g[1].kind = "drive"
  <2>1. Ready(job.links, g, "gdrive:") /\ \A l \in ToSet(g) : l.kind = "drive" /\ l.pre # <<"bare">>
    BY <1>9, <1>12
  <2>2. Gets(job, "google-drive", g)
    BY <1>8, <2>1, CloudGets
  <2>3. SourceOf(m, g[1].kind) = "google-drive"
    BY <1>5, <1>12
  <2>4. QED  BY <2>2, <2>3, Whole DEF g, job
<1>13. CASE all("gofile:", {"gofile"}) /\ g[1].kind = "gofile"
  <2>1. Ready(job.links, g, "gofile:") /\ \A l \in ToSet(g) : l.kind = "gofile" /\ l.pre # <<"bare">>
    BY <1>9, <1>13
  <2>2. Gets(job, "gofile", g)
    BY <1>8, <2>1, CloudGets
  <2>3. SourceOf(m, g[1].kind) = "gofile"
    BY <1>5, <1>13
  <2>4. QED  BY <2>2, <2>3, Whole DEF g, job
<1>14. CASE (\A l \in ToSet(g) : l.pre = <<>> /\ l.kind = "page") /\ g[1].kind = "page"
  <2>1. Gets(job, "gallery-dl", g)
    BY <1>2, <1>8, <1>14, PageGets
  <2>2. SourceOf(m, g[1].kind) = "gallery-dl"
    BY <1>5, <1>14
  <2>3. QED  BY <2>1, <2>2, Whole DEF g, job
<1>15. QED  BY <1>3, <1>10, <1>11, <1>12, <1>13, <1>14

\* What each command makes of the links it is for, however many there are.
LEMMA HandlerSuits ==
  ASSUME NEW m, Sent(m), Suits(m)
  PROVE  Suited(m, Handler(m))
<1>1. CASE Mirrors(m)
  BY <1>1, MirrorSuits
<1>2. CASE m.cmd \in AllHosts /\ ~Mirrors(m)
  BY <1>2, GofileSuits
<1>3. CASE m.cmd \in {"dl", "gdl", "cdl", "gfdl", "mega", "gd", "tor", "aria", "unzip"}
  BY <1>3, DirectSuits, PageSuits, CyberdropSuits, GofileSuits, MegaSuits, DriveSuits, TorrentSuits, AriaSuits, UnzipSuits
<1>4. Mirrors(m) \/ (m.cmd \in AllHosts /\ ~Mirrors(m)) \/ m.cmd \in {"dl", "gdl", "cdl", "gfdl", "mega", "gd", "tor", "aria", "unzip"}
  BY DEF Sent, Mirrors, Downloads
<1>5. QED  BY <1>1, <1>2, <1>3, <1>4

-----------------------------------------------------------------------------
(* From a message to its files *)

\* Under way: the source has been picked, and has been read.
UnderWay == {"drive", "refresh", "fetched", "mirror", "telegram"}
Storing == {"key", "keyput", "file", "fileput"}

\* The job is what the command has made of the message, and its files are those that the
\* source pickSource finds makes of it, unless it had no account to read Drive with.
Course(q) == q.m.cmd \notin {"key", "file"} =>
  /\ q.pc \in {"new", "queued", "done"} \cup UnderWay
  /\ q.pc # "new" => q.job = Handler(q.m) /\ (q.job = NoJob => q.pc = "done")
  /\ q.pc \notin {"new", "queued"} /\ q.job # NoJob =>
       /\ q.source = PickSource(q.job)
       /\ q.got = Fetched(q.source, q.job) \/ (q.source = "google-drive" /\ q.token = <<>>)

Worded == \A r \in Requests : LET m == reqs[r].m
  IN m.links \in Seq(Links) /\ m.replied \in Seq(Links) /\ m.cmd \in Downloads \cup AllHosts \cup {"key", "file"}
CourseInv == Messages /\ Worded /\ \A r \in Requests : Course(reqs[r])

LEMMA InitCourse == CommandsInit => CourseInv
<1> SUFFICES ASSUME CommandsInit PROVE CourseInv
  OBVIOUS
<1>1. PICK ms \in Scenes :
        reqs = [r \in DOMAIN ms |->
                 [New EXCEPT !.m = ms[r], !.pc = IF ms[r].cmd \in {"key", "file"} THEN ms[r].cmd ELSE "new"]]
  BY DEF CommandsInit
<1>2. Requests = DOMAIN ms
  BY <1>1 DEF Requests
<1>3. ASSUME NEW r \in Requests PROVE Course(reqs[r])
  <2>1. reqs[r].m = ms[r] /\ reqs[r].pc = IF ms[r].cmd \in {"key", "file"} THEN ms[r].cmd ELSE "new"
    BY <1>1, <1>2 DEF New
  <2>2. QED  BY <2>1 DEF Course
<1>4. Worded
  <2>1. \A r \in Requests : reqs[r].m = ms[r]
    BY <1>1, <1>2 DEF New
  <2>2. \A r \in Requests : {ms[r].links, ms[r].replied} \subseteq Seq(Links) /\ ms[r].cmd \in Downloads \cup AllHosts \cup {"key", "file"}
    BY <1>2, CommandsAssumption
  <2>3. QED  BY <2>1, <2>2 DEF Worded
<1>5. Messages
  BY InitAccount DEF AccountInv
<1>6. QED  BY <1>3, <1>4, <1>5 DEF CourseInv

LEMMA CourseStep ==
  ASSUME CourseInv, NEW r \in Requests, NEW to, reqs' = [reqs EXCEPT ![r] = to],
         DOMAIN to = Fields, to.m = reqs[r].m, Course(to)
  PROVE  CourseInv'
<1>1. Messages
  BY DEF CourseInv
<1>2. Moves(r) /\ reqs'[r] = to
  BY <1>1, MovesTo
<1>3. Messages' /\ Requests' = Requests
  BY <1>1, <1>2, MovesMessages DEF Moves
<1>4. \A q \in Requests : reqs'[q].m = reqs[q].m /\ (q = r \/ reqs'[q] = reqs[q])
  BY <1>2 DEF Moves
<1>5. Worded'
  BY <1>3, <1>4 DEF CourseInv, Worded
<1>6. QED  BY <1>2, <1>3, <1>4, <1>5 DEF CourseInv

\* What comes of the job after its files have been fetched changes nothing in them.
Steady(q, to) == /\ DOMAIN to = Fields /\ to.m = q.m /\ to.job = q.job /\ to.source = q.source
                 /\ to.got = q.got /\ to.token = q.token

LEMMA SetField ==
  ASSUME NEW q, DOMAIN q = Fields, NEW v
  PROVE  /\ Steady(q, [q EXCEPT !.pc = v]) /\ [q EXCEPT !.pc = v].pc = v
         /\ Steady(q, [q EXCEPT !.old = v]) /\ [q EXCEPT !.old = v].pc = q.pc
         /\ Steady(q, [q EXCEPT !.host = v]) /\ [q EXCEPT !.host = v].pc = q.pc
         /\ Steady(q, [q EXCEPT !.tries = v]) /\ [q EXCEPT !.tries = v].pc = q.pc
         /\ Steady(q, [q EXCEPT !.stop = v]) /\ [q EXCEPT !.stop = v].pc = q.pc
         /\ Steady(q, [q EXCEPT !.telegram = v]) /\ [q EXCEPT !.telegram = v].pc = q.pc
<1>1. Steady(q, [q EXCEPT !.pc = v]) /\ [q EXCEPT !.pc = v].pc = v
  BY FieldNames DEF Steady
<1>2. Steady(q, [q EXCEPT !.old = v]) /\ [q EXCEPT !.old = v].pc = q.pc
  BY FieldNames DEF Steady
<1>3. Steady(q, [q EXCEPT !.host = v]) /\ [q EXCEPT !.host = v].pc = q.pc
  BY FieldNames DEF Steady
<1>4. Steady(q, [q EXCEPT !.tries = v]) /\ [q EXCEPT !.tries = v].pc = q.pc
  BY FieldNames DEF Steady
<1>5. Steady(q, [q EXCEPT !.stop = v]) /\ [q EXCEPT !.stop = v].pc = q.pc
  BY FieldNames DEF Steady
<1>6. Steady(q, [q EXCEPT !.telegram = v]) /\ [q EXCEPT !.telegram = v].pc = q.pc
  BY FieldNames DEF Steady
<1>7. QED  BY <1>1, <1>2, <1>3, <1>4, <1>5, <1>6

LEMMA SteadyCourse ==
  ASSUME CourseInv, NEW r \in Requests, NEW to, reqs' = [reqs EXCEPT ![r] = to], Steady(reqs[r], to),
         \/ reqs[r].pc \in UnderWay /\ to.pc \in UnderWay \cup {"done"}
         \/ reqs[r].pc \in Storing
  PROVE  CourseInv'
<1> DEFINE q == reqs[r]
<1>1. Course(q) /\ DOMAIN to = Fields /\ to.m = q.m /\ to.job = q.job /\ to.source = q.source
      /\ to.got = q.got /\ to.token = q.token
  BY DEF CourseInv, Steady
<1>2. \/ q.pc \in UnderWay /\ to.pc \in UnderWay \cup {"done"}
      \/ q.pc \in Storing
  OBVIOUS
<1> HIDE DEF q
<1>3. Course(to)
  <2>1. CASE q.pc \in Storing
    BY <1>1, <2>1 DEF Course, Storing, UnderWay
  <2>2. CASE q.pc \in UnderWay /\ to.pc \in UnderWay \cup {"done"}
    BY <1>1, <2>2 DEF Course, UnderWay
  <2>3. QED  BY <1>2, <2>1, <2>2
<1>4. QED  BY <1>1, <1>3, CourseStep DEF q

LEMMA GoesCourse ==
  ASSUME CourseInv, NEW r \in Requests, NEW p, Goes(r, p),
         reqs[r].pc \in Storing \/ (reqs[r].pc \in UnderWay /\ p \in UnderWay \cup {"done"})
  PROVE  CourseInv'
<1> DEFINE q == reqs[r]
           to == [q EXCEPT !.pc = p]
<1>1. DOMAIN q = Fields
  BY DEF CourseInv, Messages
<1>2. reqs' = [reqs EXCEPT ![r] = to]
  BY DEF Goes
<1>3. Steady(q, to) /\ to.pc = p
  <2> HIDE DEF q
  <2>1. to.pc = p
    BY <1>1, FieldNames
  <2>2. Steady(q, to)
    BY <1>1, FieldNames DEF Steady
  <2>3. QED  BY <2>1, <2>2
<1> HIDE DEF to
<1>4. QED  BY <1>2, <1>3, SteadyCourse

LEMMA HandleCourse ==
  ASSUME CourseInv, NEW r \in Requests, Handle(r)
  PROVE  CourseInv'
<1> DEFINE q == reqs[r]
           job == Handler(q.m)
           p == IF job = NoJob THEN "done" ELSE "queued"
           a == [q EXCEPT !.job = job]
           to == [a EXCEPT !.pc = p]
<1>1. DOMAIN q = Fields
  BY DEF CourseInv, Messages
<1>2. reqs' = [reqs EXCEPT ![r] = to]
  <2>1. reqs' = [reqs EXCEPT ![r].job = job, ![r].pc = p]
    BY DEF Handle
  <2> HIDE DEF job, p
  <2>2. QED  BY <2>1
<1>3. p = IF job = NoJob THEN "done" ELSE "queued"
  OBVIOUS
<1>4. job = Handler(q.m)
  OBVIOUS
<1> HIDE DEF job, p
<1>5. DOMAIN a = Fields /\ a.m = q.m /\ a.job = job
  BY <1>1, FieldNames
<1> HIDE DEF a
<1>6. DOMAIN to = Fields /\ to.m = q.m /\ to.job = job /\ to.pc = p
  BY <1>5, FieldNames
<1> HIDE DEF to
<1>7. Course(to)
  BY <1>3, <1>4, <1>6 DEF Course
<1>8. QED  BY <1>2, <1>6, <1>7, CourseStep

LEMMA DownloadCourse ==
  ASSUME CourseInv, NEW r \in Requests, Download(r)
  PROVE  CourseInv'
<1> DEFINE q == reqs[r]
           s == PickSource(q.job)
           read(got, token) == got = Fetched(s, q.job) \/ (s = "google-drive" /\ token = <<>>)
<1>1. DOMAIN q = Fields /\ Course(q) /\ q.pc = "queued"
  BY DEF CourseInv, Messages, Download
<1>2. \E p \in {"drive", "fetched"} : \E got, token : read(got, token) /\
        reqs' = [reqs EXCEPT ![r].source = s, ![r].pc = p, ![r].got = got, ![r].token = token]
  <2>1. CASE s # "google-drive"
    BY <2>1 DEF Download
  <2>2. CASE s = "google-drive"
    BY <2>2 DEF Download
  <2>3. QED  BY <2>1, <2>2
<1>3. PICK p \in {"drive", "fetched"} : \E got, token : read(got, token) /\
        reqs' = [reqs EXCEPT ![r].source = s, ![r].pc = p, ![r].got = got, ![r].token = token]
  BY <1>2
<1>4. PICK got, token : read(got, token) /\
        reqs' = [reqs EXCEPT ![r].source = s, ![r].pc = p, ![r].got = got, ![r].token = token]
  BY <1>3
<1>5. s = PickSource(q.job) /\ (got = Fetched(s, q.job) \/ (s = "google-drive" /\ token = <<>>))
  BY <1>4
<1> HIDE DEF s, read
<1> DEFINE a == [q EXCEPT !.source = s]
           b == [a EXCEPT !.pc = p]
           c == [b EXCEPT !.got = got]
           to == [c EXCEPT !.token = token]
<1>6. reqs' = [reqs EXCEPT ![r] = to]
  BY <1>4
<1>7. DOMAIN a = Fields /\ a.m = q.m /\ a.job = q.job /\ a.source = s
  BY <1>1, FieldNames
<1> HIDE DEF a
<1>8. DOMAIN b = Fields /\ b.m = q.m /\ b.job = q.job /\ b.source = s /\ b.pc = p
  BY <1>7, FieldNames
<1> HIDE DEF b
<1>9. DOMAIN c = Fields /\ c.m = q.m /\ c.job = q.job /\ c.source = s /\ c.pc = p /\ c.got = got
  BY <1>8, FieldNames
<1> HIDE DEF c
<1>10. DOMAIN to = Fields /\ to.m = q.m /\ to.job = q.job /\ to.source = s /\ to.pc = p /\ to.got = got /\ to.token = token
  BY <1>9, FieldNames
<1> HIDE DEF to
<1>11. Course(to)
  BY <1>1, <1>5, <1>10 DEF Course, UnderWay
<1>12. QED  BY <1>6, <1>10, <1>11, CourseStep

\* Uploads, whatever becomes of them.
LEMMA UploadCourse ==
  ASSUME CourseInv, NEW r \in Requests, Upload(r) \/ Telegram(r) \/ KeyRead(r) \/ Cancel(r)
  PROVE  CourseInv'
<1> DEFINE q == reqs[r]
<1>1. DOMAIN q = Fields
  BY DEF CourseInv, Messages
<1>2. ASSUME NEW a, NEW b, NEW c, Steady(a, b), Steady(b, c) PROVE Steady(a, c)
  BY <1>2 DEF Steady
<1>3. CASE Upload(r)
  <2> DEFINE p == IF q.got = {} THEN "done" ELSE IF q.job.mirror THEN "mirror" ELSE "telegram"
             a == [q EXCEPT !.pc = p]
             hosts == IF ~q.job.mirror \/ q.got = {} THEN a.host
                      ELSE [h \in SelectedHosts(q.job) |-> IF q.m.large /\ h \in SmallHosts THEN "skipped" ELSE "up"]
             b == [a EXCEPT !.host = hosts]
             none == [h \in SelectedHosts(q.job) |-> 0]
             to == [b EXCEPT !.tries = none]
  <2>1. p \in UnderWay \cup {"done"} /\ q.pc \in UnderWay
    BY <1>3 DEF UnderWay, Upload
  <2>2. a.host = q.host
    <3> HIDE DEF p
    <3>1. QED  BY <1>1, FieldNames
  <2>3. reqs' = [reqs EXCEPT ![r] = to]
    BY <1>3, <2>2 DEF Upload
  <2> HIDE DEF p, hosts, none
  <2>4. Steady(q, a) /\ a.pc = p /\ DOMAIN a = Fields
    BY <1>1, SetField DEF Steady
  <2> HIDE DEF a
  <2>5. Steady(a, b) /\ b.pc = p /\ DOMAIN b = Fields
    BY <2>4, SetField DEF Steady
  <2> HIDE DEF b
  <2>6. Steady(b, to) /\ to.pc = p
    BY <2>5, SetField
  <2> HIDE DEF to
  <2>7. Steady(q, to)
    BY <1>2, <2>4, <2>5, <2>6
  <2>8. QED  BY <2>1, <2>3, <2>6, <2>7, SteadyCourse
<1>4. CASE Telegram(r)
  <2> DEFINE a == [q EXCEPT !.pc = "done"]
             to == [a EXCEPT !.telegram = TRUE]
  <2>1. reqs' = [reqs EXCEPT ![r] = to] /\ q.pc \in UnderWay
    BY <1>4 DEF Telegram, UnderWay
  <2>2. Steady(q, a) /\ a.pc = "done" /\ DOMAIN a = Fields
    BY <1>1, SetField DEF Steady
  <2> HIDE DEF a
  <2>3. Steady(a, to) /\ to.pc = "done"
    BY <2>2, SetField
  <2> HIDE DEF to
  <2>4. Steady(q, to)
    BY <1>2, <2>2, <2>3
  <2>5. QED  BY <2>1, <2>3, <2>4, SteadyCourse
<1>5. CASE KeyRead(r)
  <2> DEFINE a == [q EXCEPT !.old = keys[User(r)]]
             to == [a EXCEPT !.pc = "keyput"]
  <2>1. reqs' = [reqs EXCEPT ![r] = to] /\ q.pc \in Storing
    BY <1>5 DEF KeyRead, Storing
  <2>2. Steady(q, a) /\ DOMAIN a = Fields
    BY <1>1, SetField DEF Steady
  <2> HIDE DEF a
  <2>3. Steady(a, to)
    BY <2>2, SetField
  <2> HIDE DEF to
  <2>4. Steady(q, to)
    BY <1>2, <2>2, <2>3
  <2>5. QED  BY <2>1, <2>4, SteadyCourse
<1>6. CASE Cancel(r)
  <2> DEFINE to == [q EXCEPT !.stop = TRUE]
  <2>1. reqs' = [reqs EXCEPT ![r] = to] /\ q.pc = "mirror"
    BY <1>6 DEF Cancel
  <2>2. Steady(q, to) /\ to.pc = q.pc
    BY <1>1, SetField
  <2> HIDE DEF to
  <2>3. q.pc \in UnderWay
    BY <2>1 DEF UnderWay
  <2>4. QED  BY <2>1, <2>2, <2>3, SteadyCourse
<1>7. QED  BY <1>3, <1>4, <1>5, <1>6

LEMMA HostCourse ==
  ASSUME CourseInv, NEW r \in Requests, NEW h \in DOMAIN reqs[r].host, Attempt(r, h) \/ HostStops(r, h)
  PROVE  CourseInv'
<1> DEFINE q == reqs[r]
<1>1. DOMAIN q = Fields /\ q.pc = "mirror" /\ q.pc \in UnderWay
  BY DEF CourseInv, Messages, Attempt, HostStops, UnderWay
<1>2. CASE Attempt(r, h)
  <2>0. PICK allowed \in AllowShared : \E result \in Answers(r, h, allowed) :
        reqs' = [reqs EXCEPT
         ![r].host[h] = IF result # "again" THEN result ELSE IF reqs[r].tries[h] = Retries THEN "failed" ELSE @,
         ![r].tries[h] = IF result = "again" /\ @ < Retries THEN @ + 1 ELSE @]
    BY <1>2 DEF Attempt
  <2>1. PICK result \in Answers(r, h, allowed) :
        reqs' = [reqs EXCEPT
         ![r].host[h] = IF result # "again" THEN result ELSE IF reqs[r].tries[h] = Retries THEN "failed" ELSE @,
         ![r].tries[h] = IF result = "again" /\ @ < Retries THEN @ + 1 ELSE @]
    BY <2>0
  <2> DEFINE v == IF result # "again" THEN result ELSE IF q.tries[h] = Retries THEN "failed" ELSE q.host[h]
             hosts == [q.host EXCEPT ![h] = v]
             a == [q EXCEPT !.host = hosts]
             n == IF result = "again" /\ a.tries[h] < Retries THEN a.tries[h] + 1 ELSE a.tries[h]
             tries == [a.tries EXCEPT ![h] = n]
             to == [a EXCEPT !.tries = tries]
  <2>2. reqs' = [reqs EXCEPT ![r] = to]
    BY <2>1
  <2> HIDE DEF hosts, tries
  <2>3. Steady(q, a) /\ a.pc = q.pc /\ DOMAIN a = Fields
    BY <1>1, SetField DEF Steady
  <2> HIDE DEF a
  <2>4. Steady(a, to) /\ to.pc = a.pc
    BY <2>3, SetField
  <2> HIDE DEF to
  <2>5. Steady(q, to) /\ to.pc \in UnderWay
    BY <1>1, <2>3, <2>4 DEF Steady
  <2>6. QED  BY <1>1, <2>2, <2>5, SteadyCourse
<1>3. CASE HostStops(r, h)
  <2>1. PICK v : reqs' = [reqs EXCEPT ![r].host[h] = v]
    BY <1>3 DEF HostStops
  <2> DEFINE hosts == [q.host EXCEPT ![h] = v]
             to == [q EXCEPT !.host = hosts]
  <2>2. reqs' = [reqs EXCEPT ![r] = to]
    BY <2>1
  <2> HIDE DEF hosts
  <2>3. Steady(q, to) /\ to.pc = q.pc
    BY <1>1, SetField
  <2> HIDE DEF to
  <2>4. QED  BY <1>1, <2>2, <2>3, SteadyCourse
<1>4. QED  BY <1>2, <1>3

LEMMA NextCourse == CourseInv /\ [CommandsNext]_commandVars => CourseInv'
<1> SUFFICES ASSUME CourseInv, [CommandsNext]_commandVars PROVE CourseInv'
  OBVIOUS
<1>1. ASSUME NEW r \in Requests, Works(r) PROVE CourseInv'
  <2>1. CASE KeyWrite(r) \/ FileBegin(r) \/ FileEnd(r)
    <3>1. reqs[r].pc \in Storing /\ \E p : Goes(r, p)
      BY <2>1 DEF KeyWrite, FileBegin, FileEnd, Storing
    <3>2. QED  BY <3>1, GoesCourse
  <2>2. CASE Refresh(r) \/ Refreshed(r) \/ DriveFetched(r) \/ Mirrored(r)
    <3>1. reqs[r].pc \in UnderWay /\ \E p \in UnderWay \cup {"done"} : Goes(r, p)
      BY <2>2 DEF Refresh, Refreshed, DriveFetched, Mirrored, Settled, UnderWay
    <3>2. QED  BY <3>1, GoesCourse
  <2>3. CASE Handle(r) \/ Download(r) \/ Upload(r) \/ Telegram(r) \/ KeyRead(r)
    BY <2>3, HandleCourse, DownloadCourse, UploadCourse
  <2>4. CASE \E h \in DOMAIN reqs[r].host : Attempt(r, h) \/ HostStops(r, h)
    BY <2>4, HostCourse
  <2>5. QED  BY <1>1, <2>1, <2>2, <2>3, <2>4 DEF Works, Proceeds, Fetching, Attempting
<1>2. ASSUME NEW r \in Requests, Cancel(r) PROVE CourseInv'
  BY <1>2, UploadCourse
<1>3. CASE UNCHANGED commandVars
  BY <1>3 DEF commandVars, CourseInv, Messages, Worded, Requests, User
<1>4. QED  BY <1>1, <1>2, <1>3 DEF CommandsNext, Done

\* Whatever links a message has, and however many: if they are for its command, there is a
\* job, the source of that command runs it and finds every one of them, or the first where
\* it takes only one (register, the handlers of cmd_download.go, pickSource, and every
\* Match and Fetch of sources.go with the prefixes the layers before have put on).
THEOREM LinksAreServed == CommandsSpec => []ServedAsAsked
<1>1. CourseInv => ServedAsAsked
  <2> SUFFICES ASSUME CourseInv, NEW r \in Requests,
                      reqs[r].pc \in Phases \ {"new", "key", "keyput", "file", "fileput", "queued"},
                      reqs[r].m.cmd \notin {"key", "file"}, Suits(reqs[r].m)
               PROVE  LET q == reqs[r]  m == q.m
                      IN /\ q.job # NoJob /\ q.source = SourceOf(m, Given(m)[1].kind)
                         /\ \/ (q.source = "google-drive" /\ q.token = <<>>)
                            \/ {l.n : l \in q.got} = IF q.source \in {"aria2", "cyberdrop-dl"} THEN {Given(m)[1].n}
                                                     ELSE {l.n : l \in ToSet(Given(m))}
    BY DEF ServedAsAsked
  <2> DEFINE q == reqs[r]
             m == q.m
             s == SourceOf(m, Given(m)[1].kind)
  <2>1. Course(q) /\ q.pc \notin {"new", "queued"} /\ m.cmd \notin {"key", "file"}
    BY DEF CourseInv
  <2>2. Sent(m) /\ Suits(m)
    BY DEF CourseInv, Worded, Sent
  <2>3. Suited(m, Handler(m))
    BY <2>2, HandlerSuits
  <2>4. q.job = Handler(m)
    BY <2>1 DEF Course
  <2>5. /\ q.job # NoJob /\ PickSource(q.job) = s
        /\ Numbers(Fetched(s, q.job)) = IF s \in {"aria2", "cyberdrop-dl"} THEN {Given(m)[1].n} ELSE Numbers(ToSet(Given(m)))
    BY <2>3, <2>4 DEF Suited
  <2>6. q.source = s /\ (q.got = Fetched(s, q.job) \/ (q.source = "google-drive" /\ q.token = <<>>))
    BY <2>1, <2>5 DEF Course
  <2> HIDE DEF q, m, s
  <2>7. \/ q.source = "google-drive" /\ q.token = <<>>
        \/ Numbers(q.got) = IF q.source \in {"aria2", "cyberdrop-dl"} THEN {Given(m)[1].n} ELSE Numbers(ToSet(Given(m)))
    BY <2>5, <2>6
  <2>8. QED  BY <2>5, <2>6, <2>7 DEF Numbers, q, m, s
<1>2. QED  BY <1>1, InitCourse, NextCourse, PTL DEF CommandsSpec
=============================================================================
