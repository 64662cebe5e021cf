---------------------------- MODULE RenameProofs ----------------------------
(***************************************************************************)
(* Proofs about renames, for any number of chats, users, updates and       *)
(* files.                                                                  *)
(*                                                                         *)
(* RenameJob: a batch streams through the disk, one file at a time and one *)
(* more after a kill, and every file of it is accounted for.               *)
(*                                                                         *)
(* Dialogs, where the jobs come from and whose handlers also serve the     *)
(* settings and the passwords: a job has only files of its own chat and    *)
(* user, a text is used once, one typed for a dangerous key is set once    *)
(* and only by its own card, and the limit on jobs is passed by one for each handler   *)
(* at most.                                                                *)
(***************************************************************************)
EXTENDS RenameJob, Dialogs, FiniteSetTheorems, SequenceTheorems, TLAPS

\* What is left on the disk for the upload stage, or for its successor after a kill.
Left == OnDisk \ (refused \cup marked)

\* The file that is downloaded and one more.
Two ==
  /\ \E m, n \in Names : Left \subseteq {m, n}
  /\ fetch \in {"get", "rename"} => \E n \in Names : Left \subseteq {Old(i), n}

\* Before the first kill the other one is in upload.
One == kills = 0 /\ phase = "run" =>
  /\ \E n \in Names : Left \ InUpload \subseteq {n}
  /\ fetch \in {"get", "rename"} => Left \ InUpload \subseteq {Old(i)}

DiskInv == TypeOK /\ Two /\ One

-----------------------------------------------------------------------------
LEMMA Constants ==
  /\ N \in Nat \ {0} /\ MaxKills \in Nat /\ 1 \in Batch
  /\ \A k \in Batch : Old(k) \in Names /\ Target(k) \in Names
  /\ \A k \in Batch, w \in BOOLEAN : <<k, w>> \in Contents /\ <<k, w>> # Absent
  /\ Absent \in Contents
<1>1. N \in Nat \ {0} /\ MaxKills \in Nat
  BY RenameAssumption
<1>2. 1 \in Batch
  BY <1>1 DEF Batch
<1>3. \A k \in Batch : Old(k) \in Names /\ Target(k) \in Names
  BY DEF Names
<1>4. \A k \in Batch, w \in BOOLEAN : <<k, w>> \in Contents /\ <<k, w>> # Absent
  <2>1. \A k \in Batch : k # 0
    BY <1>1 DEF Batch
  <2>2. QED  BY <2>1 DEF Contents, Absent
<1>5. Absent \in Contents
  BY DEF Contents
<1>6. QED  BY <1>1, <1>2, <1>3, <1>4, <1>5

LEMMA AtMostTwo ==
  ASSUME NEW S, NEW m, NEW n, S \subseteq {m, n}
  PROVE  Cardinality(S) <= 2 /\ (S \subseteq {m} => Cardinality(S) <= 1)
<1>1. IsFiniteSet({m}) /\ Cardinality({m}) = 1
  BY FS_Singleton
<1>2. IsFiniteSet({m} \cup {n}) /\ Cardinality({m} \cup {n}) <= 2
  <2>1. CASE n \in {m}
    <3>1. {m} \cup {n} = {m}
      BY <2>1
    <3>2. QED  BY <1>1, <3>1
  <2>2. CASE n \notin {m}
    BY <1>1, <2>2, FS_AddElement
  <2>3. QED  BY <2>1, <2>2
<1>3. S \subseteq {m} \cup {n}
  OBVIOUS
<1>4. Cardinality(S) <= Cardinality({m} \cup {n}) /\ IsFiniteSet(S)
  BY <1>2, <1>3, FS_Subset
<1>5. S \subseteq {m} => Cardinality(S) <= Cardinality({m})
  BY <1>1, FS_Subset
<1>6. Cardinality(S) \in Nat /\ Cardinality({m} \cup {n}) \in Nat
  BY <1>2, <1>4, FS_CardinalityType
<1>7. QED  BY <1>1, <1>2, <1>4, <1>5, <1>6

LEMMA InitDisk == Init => DiskInv
<1> SUFFICES ASSUME Init PROVE DiskInv
  OBVIOUS
<1>1. Old(1) \in Names
  BY Constants
<1>2. TypeOK
  <2>1. 1 \in 1..N + 1 /\ 0 \in 0..MaxKills
    BY Constants
  <2>2. dir \in [Names -> Contents] /\ content \in Contents
    BY Constants DEF Init
  <2>3. QED  BY <1>1, <2>1, <2>2 DEF Init, TypeOK
<1>3. Left = {}
  BY DEF Init, Left, OnDisk
<1>4. QED  BY <1>1, <1>2, <1>3 DEF Init, DiskInv, Two, One

-----------------------------------------------------------------------------
(* What a step may do to the disk *)

\* A step that brings nothing to the disk, and leaves the upload stage as it is or
\* takes a file into it or out of it for good, keeps the bounds.
LEMMA Shrinks ==
  ASSUME DiskInv, Left' \subseteq Left, fetch' \in {"get", "rename"} => fetch \in {"get", "rename"} /\ i' = i,
         kills' = 0 /\ phase' = "run" =>
           kills = 0 /\ phase = "run" /\ Left' \cap InUpload \subseteq InUpload'
  PROVE  Two' /\ One'
<1>1. Two'
  <2>1. \E m, n \in Names : Left' \subseteq {m, n}
    BY DEF DiskInv, Two
  <2>2. fetch' \in {"get", "rename"} => \E n \in Names : Left' \subseteq {Old(i'), n}
    BY DEF DiskInv, Two
  <2>3. QED  BY <2>1, <2>2 DEF Two, Old
<1>2. One'
  <2>1. SUFFICES ASSUME kills' = 0, phase' = "run"
                 PROVE  /\ \E n \in Names : Left' \ InUpload' \subseteq {n}
                        /\ fetch' \in {"get", "rename"} => Left' \ InUpload' \subseteq {Old(i')}
    BY DEF One, Old
  <2>2. Left' \ InUpload' \subseteq Left \ InUpload
    BY <2>1
  <2>3. QED  BY <2>1, <2>2 DEF DiskInv, One
<1>3. QED  BY <1>1, <1>2

\* Of a function on the disk, what is there after a file is removed.
LEMMA Gone ==
  ASSUME TypeOK, NEW n \in Names, dir' = dir \/ dir' = [dir EXCEPT ![n] = Absent]
  PROVE  OnDisk' \subseteq OnDisk /\ dir' \in [Names -> Contents]
BY Constants DEF TypeOK, OnDisk

-----------------------------------------------------------------------------
(* Fetch *)

\* Steps of Fetch that leave the disk alone.
LEMMA PassKeeps ==
  ASSUME DiskInv, FetchPasses \/ FetchNoSpace
  PROVE  DiskInv'
<1>1. TypeOK'
  <2>1. i \in 1..N /\ i' = i + 1 /\ fetch' = "next" /\ N \in Nat
    BY Constants DEF DiskInv, TypeOK, FetchPasses, FetchNoSpace, NextFile, Batch
  <2>2. i' \in 1..N + 1 /\ i \in Batch
    BY <2>1 DEF Batch
  <2>3. UNCHANGED <<dir, phase, ended, kills, known, upVars>> /\ skipped' \in {skipped, skipped \cup {i}}
        /\ phase = "run"
    BY DEF FetchPasses, FetchNoSpace, Fetching
  <2>4. QED  BY <2>1, <2>2, <2>3 DEF DiskInv, TypeOK, upVars
<1>2. UNCHANGED <<dir, phase, kills, marked, refused, up, name>> /\ fetch' = "next"
  BY DEF FetchPasses, FetchNoSpace, upVars, NextFile
<1>3. Left' = Left /\ InUpload' = InUpload
  BY <1>2 DEF Left, OnDisk, InUpload
<1>4. Two' /\ One'
  BY <1>2, <1>3, Shrinks
<1>5. QED  BY <1>1, <1>4 DEF DiskInv

\* Fetch waits until nothing is pending: what is left then is in upload.
LEMMA StartKeeps ==
  ASSUME DiskInv, FetchStarts
  PROVE  DiskInv'
<1>1. /\ i \in Batch /\ Old(i) \in Names /\ phase = "run" /\ Waiting = {}
      /\ fetch' = "get" /\ dir' = [dir EXCEPT ![Old(i)] = <<i, FALSE>>]
      /\ content' \in {content, <<i, FALSE>>}
      /\ UNCHANGED <<phase, ended, kills, i, known, skipped, marked, failed, up, name, delivered, again, refused>>
  <2>1. i \in Batch
    BY Constants DEF DiskInv, TypeOK, FetchStarts, Fetching, Batch
  <2>2. content' \in {content, <<i, FALSE>>}
    BY DEF FetchStarts, Creates
  <2>3. QED  BY <2>1, <2>2, Constants DEF FetchStarts, Creates, Fetching
<1>2. <<i, FALSE>> \in Contents /\ <<i, FALSE>> # Absent
  BY <1>1, Constants
<1>3. TypeOK'
  BY <1>1, <1>2 DEF DiskInv, TypeOK
<1>4. OnDisk' \subseteq OnDisk \cup {Old(i)}
  BY <1>1 DEF DiskInv, TypeOK, OnDisk
<1>5. \A n \in OnDisk : n \in marked \cup failed \/ (up \in {"open", "send"} /\ n = name)
  BY <1>1 DEF Waiting, Pending
<1>6. Left' \subseteq {Old(i), name} /\ Left' \ InUpload' \subseteq {Old(i)}
  BY <1>1, <1>4, <1>5 DEF Left, InUpload, DiskInv, TypeOK
<1>7. name \in Names
  BY DEF DiskInv, TypeOK
<1>8. Two' /\ One'
  BY <1>1, <1>6, <1>7 DEF Two, One, Old
<1>9. QED  BY <1>3, <1>8 DEF DiskInv

LEMMA GetKeeps ==
  ASSUME DiskInv, FetchGets \/ FetchFails
  PROVE  DiskInv'
<1>1. /\ i \in Batch /\ Old(i) \in Names /\ phase = "run" /\ fetch = "get"
      /\ UNCHANGED <<phase, ended, kills, known, marked, failed, up, name, content, delivered, again, refused>>
      /\ skipped' \in {skipped, skipped \cup {i}}
      /\ \/ fetch' = "rename" /\ i' = i
         \/ fetch' = "next" /\ i' = i + 1
  BY Constants DEF DiskInv, TypeOK, FetchGets, FetchFails, Fetching, NextFile, upVars
<1>2. i' \in 1..N + 1
  BY <1>1, Constants DEF Batch
<1>3. dir' \in [Names -> Contents] /\ OnDisk' \subseteq OnDisk
  <2>1. <<i, TRUE>> \in Contents
    BY <1>1, Constants
  <2>2. \/ dir' = dir
        \/ dir' = [dir EXCEPT ![Old(i)] = Absent]
        \/ dir[Old(i)] # Absent /\ dir' = [dir EXCEPT ![Old(i)] = <<i, TRUE>>]
    BY DEF FetchGets, FetchFails
  <2>3. QED  BY <1>1, <2>1, <2>2, Constants DEF DiskInv, TypeOK, OnDisk
<1>4. TypeOK'
  BY <1>1, <1>2, <1>3 DEF DiskInv, TypeOK
<1>5. Left' \subseteq Left /\ InUpload' = InUpload
  BY <1>1, <1>3 DEF Left, InUpload
<1>6. Two' /\ One'
  BY <1>1, <1>5, Shrinks
<1>7. QED  BY <1>4, <1>6 DEF DiskInv

\* The new name takes the place of the old one.
LEMMA RenameKeeps ==
  ASSUME DiskInv, FetchRenames
  PROVE  DiskInv'
<1>1. /\ i \in Batch /\ Old(i) \in Names /\ Target(i) \in Names /\ phase = "run" /\ fetch = "rename"
      /\ fetch' = "next" /\ i' = i + 1
      /\ UNCHANGED <<phase, ended, kills, known, skipped, marked, failed, up, name, content, delivered, again, refused>>
  BY Constants DEF DiskInv, TypeOK, FetchRenames, Fetching, NextFile, upVars
<1>2. i' \in 1..N + 1
  BY <1>1, Constants DEF Batch
<1>3. \/ dir' = dir
      \/ dir' = [dir EXCEPT ![Old(i)] = Absent, ![Target(i)] = dir[Old(i)]]
  BY DEF FetchRenames
<1>4. dir \in [Names -> Contents] /\ Absent \in Contents
  BY Constants DEF DiskInv, TypeOK
<1>6. dir' \in [Names -> Contents] /\ (OnDisk' \subseteq OnDisk \/ OnDisk' \subseteq (OnDisk \ {Old(i)}) \cup {Target(i)})
  BY <1>1, <1>3, <1>4 DEF OnDisk
<1>7. TypeOK'
  BY <1>1, <1>2, <1>6 DEF DiskInv, TypeOK
<1>8. Left' \subseteq Left \/ Left' \subseteq (Left \ {Old(i)}) \cup {Target(i)}
  BY <1>1, <1>6 DEF Left
<1>9. InUpload' = InUpload
  BY <1>1 DEF InUpload
<1>10. CASE Left' \subseteq Left
  BY <1>1, <1>7, <1>9, <1>10, Shrinks DEF DiskInv
<1>11. CASE Left' \subseteq (Left \ {Old(i)}) \cup {Target(i)}
  <2>1. Two'
    <3>1. PICK n \in Names : Left \subseteq {Old(i), n}
      BY <1>1 DEF DiskInv, Two
    <3>2. Left' \subseteq {Target(i), n}
      BY <1>11, <3>1
    <3>3. QED  BY <1>1, <3>2 DEF Two
  <2>2. One'
    <3>1. kills = 0 => Left \ InUpload \subseteq {Old(i)}
      BY <1>1 DEF DiskInv, One
    <3>2. kills = 0 => Left' \ InUpload' \subseteq {Target(i)}
      BY <1>9, <1>11, <3>1
    <3>3. QED  BY <1>1, <3>2 DEF One
  <2>3. QED  BY <1>7, <2>1, <2>2 DEF DiskInv
<1>12. QED  BY <1>8, <1>10, <1>11

LEMMA FetchReturnKeeps ==
  ASSUME DiskInv, FetchReturns
  PROVE  DiskInv'
<1>1. /\ phase = "run" /\ fetch' = "done"
      /\ UNCHANGED <<phase, ended, kills, i, known, skipped, marked, failed, up, name, content, delivered, again, refused>>
      /\ dir' = IF fetch = "get" THEN [dir EXCEPT ![Old(i)] = Absent] ELSE dir
  BY DEF FetchReturns, upVars
<1>2. OnDisk' \subseteq OnDisk /\ dir' \in [Names -> Contents]
  <2>1. CASE fetch = "get"
    <3>1. Old(i) \in Names
      BY <2>1, Constants DEF DiskInv, TypeOK
    <3>2. QED  BY <1>1, <2>1, <3>1, Gone DEF DiskInv
  <2>2. CASE fetch # "get"
    BY <1>1, <2>2 DEF DiskInv, TypeOK, OnDisk
  <2>3. QED  BY <2>1, <2>2
<1>3. TypeOK'
  BY <1>1, <1>2 DEF DiskInv, TypeOK
<1>4. Left' \subseteq Left /\ InUpload' = InUpload
  BY <1>1, <1>2 DEF Left, InUpload
<1>5. Two' /\ One'
  BY <1>1, <1>4, Shrinks
<1>6. QED  BY <1>3, <1>5 DEF DiskInv

-----------------------------------------------------------------------------
(* The upload stage *)

LEMMA TakeKeeps ==
  ASSUME DiskInv, NEW n \in Names, UpTakes(n)
  PROVE  DiskInv'
<1>1. /\ phase = "run" /\ up = "scan" /\ up' = "open" /\ name' = n
      /\ UNCHANGED <<dir, phase, ended, kills, i, fetch, known, skipped, marked, failed, content, delivered, again, refused>>
  BY DEF UpTakes, fetchVars
<1>2. TypeOK'
  BY <1>1 DEF DiskInv, TypeOK
<1>3. Left' = Left /\ InUpload = {}
  BY <1>1 DEF Left, OnDisk, InUpload
<1>4. Two' /\ One'
  BY <1>1, <1>3, Shrinks
<1>5. QED  BY <1>2, <1>4 DEF DiskInv

\* A file that is refused is not counted any more.
LEMMA RefuseKeeps ==
  ASSUME DiskInv, Refuse, up # "scan", UNCHANGED <<dir, phase, ended, kills, fetchVars>>
  PROVE  DiskInv'
<1>1. /\ up' = "scan" /\ name' = Old(1) /\ content' = Absent
      /\ failed' = failed \cup {name} /\ refused' = refused \cup {name}
      /\ UNCHANGED <<marked, delivered, again, i, fetch, known, skipped>>
  BY DEF Refuse, Scans, fetchVars
<1>2. name' \in Names /\ content' \in Contents
  BY <1>1, Constants
<1>3. TypeOK'
  BY <1>1, <1>2 DEF DiskInv, TypeOK
<1>4. Left' \subseteq Left \ {name} /\ InUpload = {name}
  BY <1>1 DEF Left, OnDisk, InUpload
<1>5. Two' /\ One'
  BY <1>1, <1>4, Shrinks
<1>6. QED  BY <1>3, <1>5 DEF DiskInv

LEMMA SendKeeps ==
  ASSUME DiskInv, UpOpens \/ UpSends \/ UpFails
  PROVE  DiskInv'
<1>1. CASE UpOpens /\ dir[name] = Absent
  BY <1>1, RefuseKeeps DEF UpOpens
<1>2. CASE UpFails
  BY <1>2, RefuseKeeps DEF UpFails
<1>3. CASE (UpOpens /\ dir[name] # Absent) \/ UpSends
  <2>1. /\ phase = "run"
        /\ UNCHANGED <<dir, phase, ended, kills, i, fetch, known, skipped, marked, failed, name, refused>>
        /\ up \in {"open", "send"} /\ up' \in {"send", "record"}
    BY <1>3 DEF UpOpens, UpSends, fetchVars
  <2>2. content' \in Contents /\ (up' = "send" => content' # Absent)
    BY <1>3 DEF UpOpens, UpSends, DiskInv, TypeOK
  <2>3. delivered' \subseteq Names \X Contents /\ again' \subseteq Names
    <3>1. delivered' \in {delivered, delivered \cup {<<name, content>>}} /\ again' \in {again, again \cup {name}}
      BY <1>3 DEF UpOpens, UpSends
    <3>2. delivered \subseteq Names \X Contents /\ again \subseteq Names /\ name \in Names /\ content \in Contents
      BY DEF DiskInv, TypeOK
    <3>3. <<name, content>> \in Names \X Contents
      BY <3>2
    <3>4. QED  BY <3>1, <3>2, <3>3
  <2>4. TypeOK'
    BY <2>1, <2>2, <2>3 DEF DiskInv, TypeOK
  <2>5. Left' = Left /\ InUpload' = InUpload
    BY <2>1 DEF Left, OnDisk, InUpload
  <2>6. Two' /\ One'
    BY <2>1, <2>5, Shrinks
  <2>7. QED  BY <2>4, <2>6 DEF DiskInv
<1>4. QED  BY <1>1, <1>2, <1>3

LEMMA RecordKeeps ==
  ASSUME DiskInv, UpRecords
  PROVE  DiskInv'
<1>1. /\ up = "record" /\ up' = "scan" /\ name' = Old(1) /\ content' = Absent
      /\ dir' = [dir EXCEPT ![name] = Absent] /\ marked' = marked \cup {name}
      /\ UNCHANGED <<phase, ended, kills, i, fetch, known, skipped, failed, delivered, again, refused>>
  BY DEF UpRecords, Scans, fetchVars
<1>2. name \in Names /\ name' \in Names /\ content' \in Contents
  BY <1>1, Constants DEF DiskInv, TypeOK
<1>3. OnDisk' \subseteq OnDisk /\ dir' \in [Names -> Contents]
  BY <1>1, <1>2, Gone DEF DiskInv
<1>4. TypeOK'
  BY <1>1, <1>2, <1>3 DEF DiskInv, TypeOK
<1>5. Left' \subseteq Left \ {name} /\ InUpload = {name}
  BY <1>1, <1>3 DEF Left, InUpload
<1>6. Two' /\ One'
  BY <1>1, <1>5, Shrinks
<1>7. QED  BY <1>4, <1>6 DEF DiskInv

LEMMA UpReturnKeeps ==
  ASSUME DiskInv, UpReturns
  PROVE  DiskInv'
<1>1. /\ fetch = "done" /\ phase' = "over" /\ up' = "scan" /\ name' = Old(1) /\ content' = Absent
      /\ UNCHANGED <<dir, ended, kills, i, fetch, known, skipped, marked, failed, delivered, again, refused>>
  BY DEF UpReturns, Scans, fetchVars
<1>2. name' \in Names /\ content' \in Contents
  BY <1>1, Constants
<1>3. TypeOK'
  BY <1>1, <1>2 DEF DiskInv, TypeOK
<1>4. Left' = Left
  BY <1>1 DEF Left, OnDisk
<1>5. Two' /\ One'
  BY <1>1, <1>4, Shrinks
<1>6. QED  BY <1>3, <1>5 DEF DiskInv

-----------------------------------------------------------------------------
(* The context, the process and the theorem *)

LEMMA CancelKeeps ==
  ASSUME DiskInv, Cancel
  PROVE  DiskInv'
<1>1. /\ ended' = TRUE
      /\ UNCHANGED <<dir, phase, kills, i, fetch, known, skipped, marked, failed, up, name, content, delivered, again, refused>>
  BY DEF Cancel, fetchVars, upVars
<1>2. TypeOK'
  BY <1>1 DEF DiskInv, TypeOK
<1>3. Left' = Left /\ InUpload' = InUpload
  BY <1>1 DEF Left, OnDisk, InUpload
<1>4. Two' /\ One'
  BY <1>1, <1>3, Shrinks
<1>5. QED  BY <1>2, <1>4 DEF DiskInv

LEMMA KillKeeps ==
  ASSUME DiskInv, Kill
  PROVE  DiskInv'
<1>1. /\ kills' = kills + 1 /\ kills < MaxKills /\ phase = "run"
      /\ i' = 1 /\ fetch' = "next" /\ known' = marked
      /\ failed' = {} /\ up' = "scan" /\ name' = Old(1) /\ content' = Absent
      /\ UNCHANGED <<dir, phase, ended, marked, delivered, again, skipped, refused>>
  BY DEF Kill, Fresh
<1>2. name' \in Names /\ content' \in Contents /\ i' \in 1..N + 1
  BY <1>1, Constants
<1>3. kills' \in 0..MaxKills /\ kills' # 0
  <2>1. kills \in 0..MaxKills
    BY DEF DiskInv, TypeOK
  <2>2. QED  BY <1>1, <2>1, Constants
<1>4. TypeOK'
  BY <1>1, <1>2, <1>3 DEF DiskInv, TypeOK
<1>5. Left' = Left
  BY <1>1 DEF Left, OnDisk
<1>6. Two' /\ One'
  BY <1>1, <1>3, <1>5, Shrinks
<1>7. QED  BY <1>4, <1>6 DEF DiskInv

LEMMA NextDisk == DiskInv /\ [Next]_vars => DiskInv'
<1> SUFFICES ASSUME DiskInv, [Next]_vars PROVE DiskInv'
  OBVIOUS
<1>1. CASE UNCHANGED vars
  <2>1. UNCHANGED <<dir, phase, ended, kills, i, fetch, known, skipped, marked, failed, up, name, content, delivered, again, refused>>
    BY <1>1 DEF vars, fetchVars, upVars
  <2>2. TypeOK'
    BY <2>1 DEF DiskInv, TypeOK
  <2>3. Left' = Left /\ InUpload' = InUpload
    BY <2>1 DEF Left, OnDisk, InUpload
  <2>4. QED  BY <2>1, <2>2, <2>3, Shrinks DEF DiskInv
<1>2. CASE Fetch
  BY <1>2, PassKeeps, StartKeeps, GetKeeps, RenameKeeps, FetchReturnKeeps DEF Fetch
<1>3. CASE Upload
  BY <1>3, TakeKeeps, SendKeeps, RecordKeeps, UpReturnKeeps DEF Upload
<1>4. CASE Cancel \/ Kill
  BY <1>4, CancelKeeps, KillKeeps
<1>5. QED  BY <1>1, <1>2, <1>3, <1>4 DEF Next

\* A batch of any length streams through the disk: beside the file in upload, and
\* what was refused or uploaded before, there is one file on it, or two once the
\* process was killed (sources.go:186-213), whatever the names, the cap and the
\* order of the two stages.
THEOREM BatchStreams == Spec => []DiskBound
<1>1. DiskInv => DiskBound
  <2> SUFFICES ASSUME DiskInv, phase = "run"
               PROVE  Cardinality(OnDisk \ (refused \cup marked \cup InUpload)) <= IF kills = 0 THEN 1 ELSE 2
    BY DEF DiskInv, DiskBound
  <2> DEFINE S == OnDisk \ (refused \cup marked \cup InUpload)
  <2>1. S = Left \ InUpload
    BY DEF Left
  <2> HIDE DEF S
  <2>2. PICK m, n \in Names : Left \subseteq {m, n}
    BY DEF DiskInv, Two
  <2>3. Cardinality(S) <= 2
    BY <2>1, <2>2, AtMostTwo
  <2>4. CASE kills = 0
    <3>1. PICK k \in Names : S \subseteq {k}
      BY <2>1, <2>4 DEF DiskInv, One
    <3>2. Cardinality(S) <= 1
      BY <3>1, AtMostTwo
    <3>3. QED  BY <2>4, <3>2 DEF S
  <2>5. CASE kills # 0
    BY <2>3, <2>5 DEF S
  <2>6. QED  BY <2>4, <2>5
<1>2. QED  BY <1>1, InitDisk, NextDisk, PTL DEF Spec

-----------------------------------------------------------------------------
(* Every file is accounted for.  What has been dealt with, or is on the disk *)
(* still, is followed file by file; the files Fetch has passed are among it. *)

\* Under the names of a file that shares none with another lies what was downloaded
\* of it, and this lies nowhere else.
Belongs(n, c) == c # Absent =>
  \A k \in Batch : Apart(k) => (n \in {Old(k), Target(k)} <=> c[1] = k)

Settled(k) ==
  \/ \E n \in Names, w \in BOOLEAN : <<n, <<k, w>>>> \in delivered
  \/ k \in skipped
  \/ {Old(k), Target(k)} \cap refused # {}
  \/ ~Apart(k)
There(k) == dir[Old(k)] # Absent \/ dir[Target(k)] # Absent

\* Files this run of Fetch is through with.
Past == IF fetch = "done" THEN Batch
        ELSE {k \in Batch : k < i \/ (k = i /\ fetch \in {"get", "rename"})}

\* What Fetch is downloading lies under its old name, or has been removed.
InHand == fetch \in {"get", "rename"} => \E w \in BOOLEAN : dir[Old(i)] \in {Absent, <<i, w>>}

Sound ==
  /\ \A n \in Names : Belongs(n, dir[n])
  /\ up \in {"send", "record"} => Belongs(name, content) /\ content # Absent
  /\ \A n \in Names, c \in Contents : <<n, c>> \in delivered => Belongs(n, c) /\ c # Absent

Recorded ==
  /\ \A n \in marked : \E c \in Contents : <<n, c>> \in delivered
  /\ up = "record" => <<name, content>> \in delivered

Accounted == ~ended =>
  /\ phase = "run" => \A k \in Past : Settled(k) \/ There(k)
  /\ phase = "over" => \A k \in Batch : Settled(k)

\* Before the first kill a name that was sent is in the table, or about to be.
Once ==
  /\ up # "scan" => name \notin marked
  /\ kills = 0 => /\ again = {}
                  /\ \A n \in Names, c \in Contents : <<n, c>> \in delivered =>
                       n \in marked \/ (up = "record" /\ n = name)

AccountInv == DiskInv /\ InHand /\ Sound /\ Recorded /\ Accounted /\ Once

LEMMA SoundNext ==
  ASSUME \A n \in Names : Belongs(n, dir'[n]),
         up' \in {"send", "record"} => Belongs(name', content') /\ content' # Absent,
         \A n \in Names, c \in Contents : <<n, c>> \in delivered' => Belongs(n, c) /\ c # Absent
  PROVE  Sound'
BY DEF Sound

LEMMA InitAccount == Init => AccountInv
<1> SUFFICES ASSUME Init PROVE AccountInv
  OBVIOUS
<1>1. DiskInv
  BY InitDisk
<1>2. Past = {}
  <2>1. i = 1 /\ fetch = "next"
    BY DEF Init
  <2>2. \A k \in Batch : ~(k < 1)
    BY Constants DEF Batch
  <2>3. QED  BY <2>1, <2>2 DEF Past
<1>3. Sound
  BY DEF Init, Sound, Belongs
<1>4. InHand /\ Recorded /\ Once /\ Accounted
  BY <1>2 DEF Init, InHand, Recorded, Once, Accounted
<1>5. QED  BY <1>1, <1>3, <1>4 DEF AccountInv

\* What lies under a name of a file is of that file, or another has the name.
LEMMA Whose ==
  ASSUME NEW k \in Batch, NEW n \in {Old(k), Target(k)}, NEW c \in Contents, c # Absent, Belongs(n, c)
  PROVE  (\E w \in BOOLEAN : c = <<k, w>>) \/ ~Apart(k)
<1>1. PICK l \in Batch, w \in BOOLEAN : c = <<l, w>>
  BY DEF Contents
<1>2. c[1] = l
  BY <1>1
<1>3. QED  BY <1>1, <1>2 DEF Belongs

LEMMA OwnBelongs ==
  ASSUME NEW k \in Batch, NEW w \in BOOLEAN
  PROVE  Belongs(Old(k), <<k, w>>) /\ Belongs(Target(k), <<k, w>>)
BY DEF Belongs, Apart

LEMMA SentSettled ==
  ASSUME AccountInv, NEW k \in Batch, NEW n \in {Old(k), Target(k)}, NEW c \in Contents, <<n, c>> \in delivered
  PROVE  Settled(k)
<1>1. n \in Names
  BY Constants
<1>2. Belongs(n, c) /\ c # Absent
  BY <1>1 DEF AccountInv, Sound
<1>3. QED  BY <1>1, <1>2, Whose DEF Settled

LEMMA MarkedSettled ==
  ASSUME AccountInv, NEW k \in Batch, {Old(k), Target(k)} \cap marked # {}
  PROVE  Settled(k)
<1>1. PICK n \in {Old(k), Target(k)} : n \in marked
  OBVIOUS
<1>2. PICK c \in Contents : <<n, c>> \in delivered
  BY <1>1 DEF AccountInv, Recorded
<1>3. QED  BY <1>2, SentSettled

\* What is settled stays so.
LEMMA StaysSettled ==
  ASSUME NEW k \in Batch, Settled(k),
         delivered \subseteq delivered', skipped \subseteq skipped', refused \subseteq refused'
  PROVE  Settled(k)'
BY DEF Settled, Apart, Old, Target

\* A step of Fetch that is through with what it was through with, and with k.
LEMMA FetchAccounts ==
  ASSUME AccountInv, Fetch, ~ended,
         NEW k \in Batch, Past' \subseteq Past \cup {k}, k \in Past' => Settled(k)' \/ There(k)',
         \A l \in Batch : There(l) => There(l)' \/ Settled(l)'
  PROVE  Accounted'
<1>1. /\ UNCHANGED <<delivered, refused, phase, ended>> /\ skipped \subseteq skipped' /\ phase = "run"
  BY DEF Fetch, FetchPasses, FetchNoSpace, FetchStarts, FetchGets, FetchFails, FetchRenames, FetchReturns,
         Fetching, upVars
<1>2. \A l \in Batch : Settled(l) => Settled(l)'
  BY <1>1, StaysSettled
<1>3. ASSUME NEW l \in Past' PROVE Settled(l)' \/ There(l)'
  <2>1. CASE l = k
    BY <1>3, <2>1
  <2>2. CASE l # k
    <3>1. l \in Past /\ l \in Batch
      BY <1>3, <2>2 DEF Past
    <3>2. Settled(l) \/ There(l)
      BY <1>1, <3>1 DEF AccountInv, Accounted
    <3>3. QED  BY <1>2, <3>1, <3>2
  <2>3. QED  BY <2>1, <2>2
<1>4. QED  BY <1>1, <1>3 DEF Accounted

LEMMA FetchKeepsAccount ==
  ASSUME AccountInv, Fetch
  PROVE  AccountInv'
<1>1. DiskInv' /\ TypeOK /\ TypeOK'
  BY NextDisk DEF Next, AccountInv, DiskInv
<1>2. /\ UNCHANGED <<marked, failed, up, name, delivered, again, refused, phase, ended, kills>>
      /\ skipped \subseteq skipped' /\ phase = "run"
      /\ content' = content \/ (FetchStarts /\ up = "send" /\ content' = <<i, FALSE>>)
  BY DEF Fetch, FetchPasses, FetchNoSpace, FetchStarts, Creates, FetchGets, FetchFails, FetchRenames, FetchReturns,
         Fetching, upVars
<1>3. Recorded' /\ Once'
  BY <1>2 DEF AccountInv, Recorded, Once
<1>4. \A l \in Batch : Old(l) \in Names /\ Target(l) \in Names
  BY Constants
<1>5. \A l, m \in Batch : l # m /\ Apart(l) => {Old(l), Target(l)} \cap {Old(m), Target(m)} = {}
  BY DEF Apart
<1>6. dir \in [Names -> Contents] /\ i \in 1..N + 1 /\ N \in Nat
  BY <1>1, Constants DEF TypeOK
<1>7. ASSUME \A n \in Names : Belongs(n, dir'[n]), content' = content
      PROVE  Sound'
  BY <1>2, <1>7, SoundNext DEF AccountInv, Sound
<1>8. \A n \in Names : Belongs(n, dir[n])
  BY DEF AccountInv, Sound
<1>9. ASSUME ended PROVE Accounted'
  BY <1>2, <1>9 DEF Accounted
<1>10. CASE FetchPasses \/ FetchNoSpace
  <2>1. /\ i \in Batch /\ dir' = dir /\ i' = i + 1 /\ fetch = "next" /\ fetch' = "next"
        /\ content' = content /\ InHand'
    BY <1>6, <1>10 DEF FetchPasses, FetchNoSpace, Fetching, NextFile, Batch, upVars, InHand
  <2>2. PICK k \in Batch : k = i
    BY <2>1
  <2>3. Sound'
    BY <1>7, <1>8, <2>1
  <2>4. Past' \subseteq Past \cup {k}
    BY <1>6, <2>1, <2>2 DEF Past, Batch
  <2>5. Settled(k)'
    <3>1. CASE FetchPasses
      <4>1. {Old(k), Target(k)} \cap marked # {}
        BY <1>1, <2>2, <3>1 DEF FetchPasses, Uploaded, TypeOK
      <4>2. Settled(k)
        BY <4>1, MarkedSettled
      <4>3. QED  BY <1>2, <4>2, StaysSettled
    <3>2. CASE FetchNoSpace
      BY <2>2, <3>2 DEF FetchNoSpace, Settled
    <3>3. QED  BY <1>10, <3>1, <3>2
  <2>6. \A l \in Batch : There(l) => There(l)'
    BY <2>1 DEF There, Old, Target
  <2>7. ~ended => Accounted'
    BY <2>4, <2>5, <2>6, FetchAccounts
  <2>8. QED  BY <1>1, <1>3, <1>9, <2>1, <2>3, <2>7 DEF AccountInv
<1>11. CASE FetchStarts \/ FetchGets
  <2>1. /\ i \in Batch /\ i' = i /\ fetch' \in {"get", "rename"} /\ fetch \in {"next", "get"}
        /\ fetch = "get" => fetch' = "rename"
        /\ FetchGets => content' = content
    BY <1>1, <1>6, <1>11 DEF upVars, FetchStarts, FetchGets, Fetching, Batch, TypeOK
  <2>2. PICK k \in Batch : k = i
    BY <2>1
  <2>3. \/ dir' = [dir EXCEPT ![Old(k)] = <<k, FALSE>>]
        \/ dir' = dir /\ fetch = "get"
        \/ dir' = [dir EXCEPT ![Old(k)] = <<k, TRUE>>]
    BY <1>11, <2>2 DEF FetchStarts, Creates, FetchGets, Fetching
  <2>4. <<k, FALSE>> # Absent /\ <<k, TRUE>> # Absent
    BY Constants
  <2>5. Sound'
    <3>1. Belongs(Old(k), <<k, FALSE>>) /\ Belongs(Old(k), <<k, TRUE>>)
      BY OwnBelongs
    <3>2. \A n \in Names : Belongs(n, dir'[n])
      BY <1>4, <1>6, <1>8, <2>3, <3>1
    <3>3. CASE content' = content
      BY <1>7, <3>2, <3>3
    <3>4. CASE FetchStarts /\ up = "send" /\ content' = <<i, FALSE>>
      <4>1. content' = content \/ dir[Old(k)][1] = content[1]
        BY <2>2, <3>4 DEF FetchStarts, Creates
      <4>2. content # Absent /\ content \in Contents /\ Belongs(name, content)
        BY <1>1, <3>4 DEF AccountInv, Sound, TypeOK
      <4>3. ASSUME dir[Old(k)][1] = content[1] PROVE Belongs(name, <<k, FALSE>>)
        <5>1. dir[Old(k)] # Absent
          <6>1. PICK l \in Batch, w \in BOOLEAN : content = <<l, w>>
            BY <4>2 DEF Contents
          <6>2. content[1] # 0
            BY <6>1 DEF Batch
          <6>3. Absent[1] = 0
            BY DEF Absent
          <6>4. QED  BY <4>3, <6>2, <6>3
        <5>2. Belongs(Old(k), dir[Old(k)])
          BY <1>4, <1>8
        <5>3. \A l \in Batch : Apart(l) => (name \in {Old(l), Target(l)} <=> Old(k) \in {Old(l), Target(l)})
          BY <4>2, <4>3, <5>1, <5>2 DEF Belongs
        <5>4. QED  BY <3>1, <2>4, <5>3 DEF Belongs
      <4>4. Belongs(name, content')
        BY <2>2, <3>4, <4>1, <4>2, <4>3
      <4>5. content' # Absent
        BY <2>2, <2>4, <3>4
      <4>6. QED  BY <1>2, <3>2, <4>4, <4>5, SoundNext DEF AccountInv, Sound
    <3>5. QED  BY <1>2, <3>3, <3>4
  <2>5a. InHand'
    <3>1. CASE dir' = dir /\ fetch = "get"
      BY <1>4, <2>1, <3>1 DEF AccountInv, InHand, Old
    <3>2. CASE dir' # dir \/ fetch # "get"
      <4>1. dir'[Old(k)] \in {<<k, FALSE>>, <<k, TRUE>>}
        BY <1>4, <1>6, <2>3, <3>2
      <4>2. QED  BY <2>1, <2>2, <4>1 DEF InHand, Old
    <3>3. QED  BY <3>1, <3>2
  <2>6. \A l \in Batch : There(l) => There(l)'
    <3>1. \A n \in Names : dir[n] # Absent => dir'[n] # Absent
      BY <1>4, <1>6, <2>3, <2>4
    <3>2. QED  BY <1>4, <3>1 DEF There, Old, Target
  <2>7. Past' \subseteq Past \cup {k}
    BY <1>6, <2>1, <2>2 DEF Past, Batch
  <2>8. ASSUME ~ended PROVE Settled(k)' \/ There(k)'
    <3>1. CASE dir' = dir /\ fetch = "get"
      <4>1. k \in Past
        BY <2>2, <3>1 DEF Past
      <4>2. Settled(k) \/ There(k)
        BY <1>2, <2>8, <4>1 DEF AccountInv, Accounted
      <4>3. QED  BY <1>2, <2>6, <4>2, StaysSettled
    <3>2. CASE dir' # dir \/ fetch # "get"
      <4>1. dir'[Old(k)] # Absent
        BY <1>4, <1>6, <2>3, <2>4, <3>2
      <4>2. QED  BY <4>1 DEF There, Old
    <3>3. QED  BY <3>1, <3>2
  <2>9. ~ended => Accounted'
    BY <2>6, <2>7, <2>8, FetchAccounts
  <2>10. QED  BY <1>1, <1>3, <1>9, <2>5, <2>5a, <2>9 DEF AccountInv
<1>12. CASE FetchFails \/ FetchRenames
  <2>1. /\ i \in Batch /\ i' = i + 1 /\ fetch \in {"get", "rename"} /\ fetch' = "next"
        /\ content' = content /\ InHand'
    BY <1>1, <1>12 DEF FetchFails, FetchRenames, Fetching, NextFile, TypeOK, upVars, InHand
  <2>2. PICK k \in Batch : k = i
    BY <2>1
  <2>3. k \in Past
    BY <2>1, <2>2 DEF Past
  <2>4. Past' \subseteq Past \cup {k}
    BY <1>6, <2>1, <2>2 DEF Past, Batch
  <2>5. CASE FetchFails
    <3>1. dir' = [dir EXCEPT ![Old(k)] = Absent] /\ k \in skipped'
      BY <2>2, <2>5 DEF FetchFails
    <3>2. Sound'
      <4>1. Belongs(Old(k), Absent)
        BY DEF Belongs
      <4>2. QED  BY <1>4, <1>6, <1>7, <1>8, <2>1, <3>1, <4>1
    <3>3. Settled(k)'
      BY <3>1 DEF Settled
    <3>4. ASSUME NEW l \in Batch, There(l) PROVE There(l)' \/ Settled(l)'
      <4>1. CASE l = k
        BY <3>3, <4>1
      <4>2. CASE l # k
        <5>1. CASE Apart(l)
          <6>1. dir'[Old(l)] = dir[Old(l)] /\ dir'[Target(l)] = dir[Target(l)]
            BY <1>4, <1>5, <1>6, <3>1, <4>2, <5>1
          <6>2. QED  BY <3>4, <6>1 DEF There, Old, Target
        <5>2. CASE ~Apart(l)
          BY <5>2 DEF Settled, Apart, Old, Target
        <5>3. QED  BY <5>1, <5>2
      <4>3. QED  BY <4>1, <4>2
    <3>5. ~ended => Accounted'
      BY <2>4, <3>3, <3>4, FetchAccounts
    <3>6. QED  BY <1>1, <1>3, <1>9, <2>1, <3>2, <3>5 DEF AccountInv
  <2>6. CASE FetchRenames
    <3>1. \/ dir' = dir
          \/ dir[Old(k)] # Absent /\ dir' = [dir EXCEPT ![Old(k)] = Absent, ![Target(k)] = dir[Old(k)]]
      BY <2>2, <2>6 DEF FetchRenames
    <3>2. Sound'
      <4>1. Belongs(Old(k), Absent)
        BY DEF Belongs
      <4>2. Belongs(Target(k), dir[Old(k)])
        <5>1. CASE dir[Old(k)] = Absent
          BY <5>1 DEF Belongs
        <5>2. CASE dir[Old(k)] # Absent
          <6>1. PICK w \in BOOLEAN : dir[Old(k)] = <<k, w>>
            BY <2>1, <2>2, <5>2 DEF AccountInv, InHand
          <6>2. QED  BY <6>1, OwnBelongs
        <5>3. QED  BY <5>1, <5>2
      <4>3. \A n \in Names : Belongs(n, dir'[n])
        BY <1>4, <1>6, <1>8, <3>1, <4>1, <4>2
      <4>4. QED  BY <1>7, <2>1, <4>3
    <3>3. ASSUME NEW l \in Batch, There(l), Apart(l) \/ l = k PROVE There(l)'
      <4>1. CASE l = k
        <5>1. dir'[Old(k)] # Absent \/ dir'[Target(k)] # Absent
          BY <1>4, <1>6, <3>1, <3>3, <4>1 DEF There
        <5>2. QED  BY <4>1, <5>1 DEF There, Old, Target
      <4>2. CASE l # k
        <5>1. {Old(l), Target(l)} \cap {Old(k), Target(k)} = {}
          BY <1>5, <3>3, <4>2
        <5>2. dir'[Old(l)] = dir[Old(l)] /\ dir'[Target(l)] = dir[Target(l)]
          BY <1>4, <1>6, <3>1, <5>1
        <5>3. QED  BY <3>3, <5>2 DEF There, Old, Target
      <4>3. QED  BY <4>1, <4>2
    <3>3a. \A l \in Batch : There(l) => There(l)' \/ Settled(l)'
      BY <3>3 DEF Settled, Apart, Old, Target
    <3>4. ASSUME ~ended PROVE Settled(k)' \/ There(k)'
      <4>1. Settled(k) \/ There(k)
        BY <1>2, <2>3, <3>4 DEF AccountInv, Accounted
      <4>2. QED  BY <1>2, <3>3, <4>1, StaysSettled
    <3>5. ~ended => Accounted'
      BY <2>4, <3>3a, <3>4, FetchAccounts
    <3>6. QED  BY <1>1, <1>3, <1>9, <2>1, <3>2, <3>5 DEF AccountInv
  <2>7. QED  BY <1>12, <2>5, <2>6
<1>13. CASE FetchReturns
  <2>1. /\ fetch # "done" /\ fetch' = "done" /\ i' = i /\ (~ended => i > N)
        /\ dir' = IF fetch = "get" THEN [dir EXCEPT ![Old(i)] = Absent] ELSE dir
        /\ content' = content /\ InHand'
    BY <1>13 DEF FetchReturns, upVars, InHand
  <2>2. Sound'
    <3>1. \A n \in Names : dir'[n] \in {dir[n], Absent}
      BY <1>6, <2>1
    <3>2. QED  BY <1>7, <1>8, <2>1, <3>1 DEF Belongs
  <2>3. ASSUME ~ended PROVE Accounted'
    <3>1. i > N /\ fetch \notin {"get", "rename"}
      BY <1>1, <1>6, <2>1, <2>3 DEF TypeOK, Batch
    <3>2. dir' = dir
      BY <2>1, <3>1
    <3>3. Past = Batch
      BY <1>6, <2>1, <3>1 DEF Past, Batch
    <3>4. \A l \in Batch : There(l) => There(l)'
      BY <3>2 DEF There, Old, Target
    <3>5. Past' \subseteq Batch /\ 1 \in Batch
      BY Constants DEF Past
    <3>6. Settled(1)' \/ There(1)'
      <4>1. Settled(1) \/ There(1)
        BY <1>2, <2>3, <3>3, <3>5 DEF AccountInv, Accounted
      <4>2. QED  BY <1>2, <3>4, <3>5, <4>1, StaysSettled
    <3>7. QED  BY <2>3, <3>3, <3>4, <3>5, <3>6, FetchAccounts
  <2>4. QED  BY <1>1, <1>3, <1>9, <2>1, <2>2, <2>3 DEF AccountInv
<1>14. QED  BY <1>10, <1>11, <1>12, <1>13 DEF Fetch

\* A step of the upload stage that goes on with the job: what Fetch is through with
\* is settled, or there still.
LEMMA UploadAccounts ==
  ASSUME AccountInv, UNCHANGED <<i, fetch, skipped, ended, phase>>,
         delivered \subseteq delivered', refused \subseteq refused',
         \A l \in Batch : There(l) => There(l)' \/ Settled(l)'
  PROVE  Accounted'
<1>1. \A l \in Batch : Settled(l) => Settled(l)'
  BY StaysSettled
<1>2. Past' = Past /\ Past \subseteq Batch
  BY DEF Past
<1>3. QED  BY <1>1, <1>2 DEF AccountInv, Accounted

LEMMA UploadKeepsAccount ==
  ASSUME AccountInv, Upload, ~UpReturns
  PROVE  AccountInv'
<1>1. DiskInv' /\ TypeOK /\ TypeOK'
  BY NextDisk DEF Next, AccountInv, DiskInv
<1>2. UNCHANGED <<i, fetch, known, skipped, phase, ended, kills>>
  BY DEF Upload, UpTakes, UpOpens, UpSends, UpFails, UpRecords, fetchVars
<1>3. \A l \in Batch : Old(l) \in Names /\ Target(l) \in Names
  BY Constants
<1>3a. ASSUME NEW n, dir' = dir \/ dir' = [dir EXCEPT ![n] = Absent] PROVE InHand'
  BY <1>1, <1>2, <1>3, <1>3a DEF AccountInv, InHand, Old, TypeOK
<1>4. dir \in [Names -> Contents] /\ name \in Names /\ content \in Contents
  BY <1>1 DEF TypeOK
<1>5. CASE \E n \in Names : UpTakes(n)
  <2>1. PICK n \in Names : UpTakes(n)
    BY <1>5
  <2>2. /\ up = "scan" /\ up' = "open" /\ name' = n /\ n \notin marked
        /\ UNCHANGED <<dir, marked, failed, content, delivered, again, refused>>
    BY <2>1 DEF UpTakes, Waiting, Pending
  <2>3. Sound' /\ Recorded' /\ Once'
    BY <1>2, <2>2, SoundNext DEF AccountInv, Sound, Recorded, Once
  <2>4. Accounted'
    BY <1>2, <2>2, UploadAccounts DEF There, Old, Target
  <2>5. QED  BY <1>1, <1>3a, <2>2, <2>3, <2>4 DEF AccountInv
<1>6. ASSUME Refuse, dir' = dir, up # "record" PROVE AccountInv'
  <2>1. /\ up' = "scan" /\ refused \subseteq refused' /\ UNCHANGED <<dir, marked, delivered, again>>
    BY <1>6 DEF Refuse, Scans
  <2>2. Sound' /\ Recorded' /\ Once'
    BY <1>2, <1>6, <2>1, SoundNext DEF AccountInv, Sound, Recorded, Once
  <2>3. Accounted'
    BY <1>2, <2>1, UploadAccounts DEF There, Old, Target
  <2>4. QED  BY <1>1, <1>3a, <1>6, <2>2, <2>3 DEF AccountInv
<1>7. CASE UpOpens
  <2>1. up = "open" /\ dir' = dir
    BY <1>7 DEF UpOpens
  <2>2. CASE dir[name] = Absent
    BY <1>6, <1>7, <2>1, <2>2 DEF UpOpens
  <2>3. CASE dir[name] # Absent
    <3>1. up' = "send" /\ content' = dir[name] /\ UNCHANGED <<marked, failed, name, delivered, again, refused>>
      BY <1>7, <2>3 DEF UpOpens
    <3>2. Sound'
      BY <1>4, <2>1, <2>3, <3>1, SoundNext DEF AccountInv, Sound
    <3>3. Recorded' /\ Once'
      BY <1>2, <2>1, <3>1 DEF AccountInv, Recorded, Once
    <3>4. Accounted'
      BY <1>2, <2>1, <3>1, UploadAccounts DEF There, Old, Target
    <3>5. QED  BY <1>1, <1>3a, <2>1, <3>2, <3>3, <3>4 DEF AccountInv
  <2>4. QED  BY <2>2, <2>3
<1>8. CASE UpFails
  BY <1>6, <1>8 DEF UpFails
<1>9. CASE UpSends
  <2>1. /\ up = "send" /\ up' = "record" /\ delivered' = delivered \cup {<<name, content>>}
        /\ UNCHANGED <<dir, marked, failed, name, content, refused>>
    BY <1>9 DEF UpSends
  <2>2. Sound'
    <3>1. ASSUME NEW n \in Names, NEW c \in Contents, <<n, c>> \in delivered'
          PROVE  Belongs(n, c) /\ c # Absent
      BY <2>1, <3>1 DEF AccountInv, Sound
    <3>2. QED  BY <2>1, <3>1, SoundNext DEF AccountInv, Sound
  <2>3. Recorded'
    BY <2>1 DEF AccountInv, Recorded
  <2>4. Once'
    <3>1. ASSUME kills = 0 PROVE again' = {}
      <4>1. \A c \in Contents : <<name, c>> \notin delivered
        BY <1>4, <2>1, <3>1 DEF AccountInv, Once
      <4>2. QED  BY <1>9, <3>1, <4>1 DEF UpSends, AccountInv, Once
    <3>2. ASSUME kills = 0, NEW n \in Names, NEW c \in Contents, <<n, c>> \in delivered'
          PROVE  n \in marked \/ n = name
      BY <2>1, <3>2 DEF AccountInv, Once
    <3>3. QED  BY <1>2, <2>1, <3>1, <3>2 DEF AccountInv, Once
  <2>5. Accounted'
    BY <1>2, <2>1, UploadAccounts DEF There, Old, Target
  <2>6. QED  BY <1>1, <1>3a, <2>1, <2>2, <2>3, <2>4, <2>5 DEF AccountInv
<1>10. CASE UpRecords
  <2>1. /\ up = "record" /\ up' = "scan" /\ dir' = [dir EXCEPT ![name] = Absent]
        /\ marked' = marked \cup {name} /\ UNCHANGED <<failed, delivered, again, refused>>
    BY <1>10 DEF UpRecords, Scans
  <2>2. Sound'
    <3>1. \A n \in Names : dir'[n] \in {dir[n], Absent}
      BY <1>4, <2>1
    <3>2. \A n \in Names : Belongs(n, dir'[n])
      BY <3>1 DEF AccountInv, Sound, Belongs
    <3>3. QED  BY <2>1, <3>2, SoundNext DEF AccountInv, Sound
  <2>3. Recorded'
    BY <1>4, <2>1 DEF AccountInv, Recorded
  <2>4. Once'
    BY <1>2, <2>1 DEF AccountInv, Once
  <2>5. ASSUME NEW l \in Batch, There(l) PROVE There(l)' \/ Settled(l)'
    <3>1. CASE name \in {Old(l), Target(l)}
      <4>1. Settled(l)
        BY <1>4, <2>1, <3>1, SentSettled DEF AccountInv, Recorded
      <4>2. QED  BY <1>2, <2>1, <4>1, StaysSettled
    <3>2. CASE name \notin {Old(l), Target(l)}
      <4>1. dir'[Old(l)] = dir[Old(l)] /\ dir'[Target(l)] = dir[Target(l)]
        BY <1>3, <1>4, <2>1, <3>2
      <4>2. QED  BY <2>5, <4>1 DEF There, Old, Target
    <3>3. QED  BY <3>1, <3>2
  <2>6. Accounted'
    BY <1>2, <2>1, <2>5, UploadAccounts
  <2>7. QED  BY <1>1, <1>3a, <2>1, <2>2, <2>3, <2>4, <2>6 DEF AccountInv
<1>11. QED  BY <1>5, <1>7, <1>8, <1>9, <1>10 DEF Upload

\* The stage returns when Fetch is through with the batch and nothing waits: what is
\* there then was refused, or its name is in the table.
LEMMA ReturnKeepsAccount ==
  ASSUME AccountInv, UpReturns
  PROVE  AccountInv'
<1>1. DiskInv' /\ TypeOK
  BY NextDisk DEF Next, Upload, AccountInv, DiskInv
<1>2. /\ phase = "run" /\ fetch = "done" /\ phase' = "over" /\ up' = "scan"
      /\ ended \/ (up = "scan" /\ Waiting = {})
      /\ up # "record"
      /\ UNCHANGED <<dir, ended, kills, i, fetch, skipped, marked, failed, delivered, again, refused>>
  BY DEF UpReturns, Scans, fetchVars
<1>3. InHand' /\ Sound' /\ Recorded' /\ Once'
  BY <1>2, SoundNext DEF AccountInv, InHand, Sound, Recorded, Once
<1>4. ASSUME ~ended, NEW k \in Batch PROVE Settled(k)'
  <2>1. Settled(k) \/ There(k)
    BY <1>2, <1>4 DEF AccountInv, Accounted, Past
  <2>2. ASSUME There(k) PROVE Settled(k)
    <3>1. PICK n \in {Old(k), Target(k)} : dir[n] # Absent
      BY <2>2 DEF There
    <3>2. n \in marked \cup failed
      BY <1>2, <1>4, <3>1, Constants DEF Waiting, Pending, OnDisk
    <3>3. CASE n \in marked
      BY <3>1, <3>3, MarkedSettled
    <3>4. CASE n \in failed
      <4>1. n \in refused
        BY <1>1, <3>4 DEF TypeOK
      <4>2. QED  BY <3>1, <4>1 DEF Settled
    <3>5. QED  BY <3>2, <3>3, <3>4
  <2>3. QED  BY <1>2, <2>1, <2>2, StaysSettled
<1>5. Accounted'
  BY <1>2, <1>4 DEF Accounted
<1>6. QED  BY <1>1, <1>3, <1>5 DEF AccountInv

\* A process that is resumed has passed no file yet.
LEMMA KillKeepsAccount ==
  ASSUME AccountInv, Cancel \/ Kill
  PROVE  AccountInv'
<1>1. DiskInv' /\ TypeOK
  BY NextDisk DEF Next, AccountInv, DiskInv
<1>2. CASE Cancel
  <2>1. /\ ended' = TRUE
        /\ UNCHANGED <<dir, kills, i, fetch, marked, up, name, content, delivered, again>>
    BY <1>2 DEF Cancel, fetchVars, upVars
  <2>2. InHand' /\ Sound' /\ Recorded' /\ Once' /\ Accounted'
    BY <2>1, SoundNext DEF AccountInv, InHand, Old, Sound, Recorded, Once, Accounted
  <2>3. QED  BY <1>1, <2>2 DEF AccountInv
<1>3. CASE Kill
  <2>1. /\ kills' = kills + 1 /\ i' = 1 /\ fetch' = "next" /\ up' = "scan" /\ phase' = "run"
        /\ UNCHANGED <<dir, marked, delivered, again>>
    BY <1>3 DEF Kill, Fresh
  <2>2. kills' # 0
    BY <1>1, <2>1, Constants DEF TypeOK
  <2>3. Past' = {}
    <3>1. \A k \in Batch : ~(k < 1)
      BY Constants DEF Batch
    <3>2. QED  BY <2>1, <3>1 DEF Past
  <2>4. InHand' /\ Sound' /\ Recorded' /\ Once' /\ Accounted'
    BY <2>1, <2>2, <2>3, SoundNext DEF AccountInv, InHand, Sound, Recorded, Once, Accounted
  <2>5. QED  BY <1>1, <2>4 DEF AccountInv
<1>4. QED  BY <1>2, <1>3

LEMMA NextAccount == AccountInv /\ [Next]_vars => AccountInv'
<1> SUFFICES ASSUME AccountInv, [Next]_vars PROVE AccountInv'
  OBVIOUS
<1>1. CASE UNCHANGED vars
  <2>1. DiskInv'
    BY NextDisk DEF AccountInv
  <2>2. UNCHANGED <<dir, phase, ended, kills, i, fetch, skipped, marked, up, name, content, delivered, again, refused>>
    BY <1>1 DEF vars, fetchVars, upVars
  <2>3. InHand' /\ Sound' /\ Recorded' /\ Once'
    BY <2>2, SoundNext DEF AccountInv, InHand, Old, Sound, Recorded, Once
  <2>4. Accounted'
    <3>1. \A l \in Batch : There(l) => There(l)'
      BY <2>2 DEF There, Old, Target
    <3>2. QED  BY <2>2, <3>1, UploadAccounts
  <2>5. QED  BY <2>1, <2>3, <2>4 DEF AccountInv
<1>2. CASE Fetch
  BY <1>2, FetchKeepsAccount
<1>3. CASE Upload
  BY <1>3, UploadKeepsAccount, ReturnKeepsAccount
<1>4. CASE Cancel \/ Kill
  BY <1>4, KillKeepsAccount
<1>5. QED  BY <1>1, <1>2, <1>3, <1>4 DEF Next

\* A batch of any length that is not cancelled accounts for every file of it, across
\* kills, whatever the two stages do in between (sources.go:157-176,
\* pipeline.go:60-97); and until the first kill no name reaches the chat twice
\* (pipeline.go:359-374).
THEOREM NothingForgotten == Spec => []AccountedOnce
<1>1. AccountInv => AccountedOnce
  <2> SUFFICES ASSUME AccountInv PROVE AccountedOnce
    OBVIOUS
  <2>1. phase = "over" /\ ~ended => \A k \in Batch : Settled(k)
    BY DEF AccountInv, Accounted
  <2>2. kills = 0 => again = {}
    BY DEF AccountInv, Once
  <2>3. QED  BY <2>1, <2>2 DEF AccountedOnce, Settled
<1>2. QED  BY <1>1, InitAccount, NextAccount, PTL DEF Spec

-----------------------------------------------------------------------------
(* Dialogs: types and steps of the handlers *)

Fields == {"pc", "at", "id", "text", "file", "reply", "lines", "key", "batch", "job"}
FilesOf == Seq(Places \X Ids)

\* What a handler holds.
HandlerOk(r) ==
  /\ DOMAIN r = Fields
  /\ r.pc \in Steps /\ r.at \in Places /\ r.id \in Ids
  /\ r.lines \in Nat /\ r.batch \in Nat
  /\ r.pc \in {"clear", "value"} => r.key \in Keys
  /\ r.pc = "set" => r.key \in Dangerous /\ r.batch \in Ids
  /\ DOMAIN r.job = {"files", "names", "lines"}
  /\ r.job.files \in FilesOf /\ r.job.lines \in Nat

BatchOk(b) ==
  /\ DOMAIN b = {"files", "names", "lines"}
  /\ b.files \in FilesOf /\ Len(b.files) <= MaxBatch /\ b.lines \in Nat

HandlersOk == DOMAIN hs = Handlers /\ \A h \in Handlers : HandlerOk(hs[h])

LEMMA DialogConstants ==
  /\ MaxUpdates \in Nat /\ MaxAsks \in Nat /\ MaxJobs \in Nat \ {0} /\ MaxBatch \in Nat \ {0}
  /\ IsFiniteSet(Handlers) /\ Handlers \subseteq Nat /\ Private \subseteq Places /\ Dangerous \subseteq Keys
  /\ Places # {} /\ (\A s \in Scenes : s.places \subseteq Places) /\ "" \notin Keys
  /\ 0 \in Ids /\ \A n \in Ids : n < MaxUpdates => n + 1 \in Ids
<1>1. MaxUpdates \in Nat /\ MaxAsks \in Nat /\ MaxJobs \in Nat \ {0} /\ MaxBatch \in Nat \ {0}
  BY DialogsAssumption
<1>2. 0 \in Ids /\ \A n \in Ids : n < MaxUpdates => n + 1 \in Ids
  BY <1>1 DEF Ids
<1>3. QED  BY <1>1, <1>2, DialogsAssumption

LEMMA Transitive ==
  ASSUME NEW a \in Nat, NEW b \in Nat, NEW c \in Nat, a <= b, b <= c
  PROVE  a <= c
OBVIOUS

LEMMA NotFull ==
  ASSUME NEW a \in Nat, NEW b \in Nat, ~(a >= b)
  PROVE  a < b
OBVIOUS

LEMMA IdsNat == \A n \in Ids : n \in Nat /\ n <= MaxUpdates
<1>1. MaxUpdates \in Nat
  BY DialogConstants
<1>2. QED  BY <1>1 DEF Ids

LEMMA IdleOk ==
  /\ HandlerOk(Idle) /\ Idle.pc = "idle" /\ Idle.id = 0 /\ Idle.at \in Places
  /\ Idle.job = NoJob /\ Idle.lines = 0 /\ Idle.batch = 0
  /\ DOMAIN NoJob = {"files", "names", "lines"} /\ NoJob.files = <<>> /\ NoJob.lines = 0
<1>1. Idle.at \in Places
  BY DialogConstants DEF Idle
<1>2. DOMAIN NoJob = {"files", "names", "lines"} /\ NoJob.files = <<>> /\ NoJob.lines = 0
  BY DEF NoJob
<1>3. <<>> \in FilesOf
  BY DEF FilesOf
<1>4. /\ DOMAIN Idle = Fields /\ Idle.pc = "idle" /\ Idle.id = 0 /\ Idle.job = NoJob
      /\ Idle.lines = 0 /\ Idle.batch = 0
  BY DEF Idle, Fields
<1>5. HandlerOk(Idle)
  <2>1. 0 \in Ids /\ 0 \in Nat /\ "idle" \in Steps
    BY DialogConstants DEF Steps
  <2>2. Idle.job.files \in FilesOf /\ Idle.job.lines \in Nat /\ DOMAIN Idle.job = {"files", "names", "lines"}
    BY <1>2, <1>3, <1>4
  <2>3. QED  BY <1>1, <1>4, <2>1, <2>2 DEF HandlerOk
<1>6. QED  BY <1>1, <1>2, <1>4, <1>5

\* A handler goes on: only its place changes.
LEMMA GoesFacts ==
  ASSUME HandlersOk, NEW h \in Handlers, NEW pc, Goes(h, pc)
  PROVE  /\ DOMAIN hs' = Handlers /\ \A g \in Handlers \ {h} : hs'[g] = hs[g]
         /\ DOMAIN hs'[h] = Fields /\ hs'[h].pc = pc
         /\ hs'[h].at = hs[h].at /\ hs'[h].id = hs[h].id /\ hs'[h].lines = hs[h].lines
         /\ hs'[h].key = hs[h].key /\ hs'[h].batch = hs[h].batch /\ hs'[h].job = hs[h].job
<1>1. DOMAIN hs[h] = Fields
  BY DEF HandlersOk, HandlerOk
<1>2. hs' = [hs EXCEPT ![h] = [hs[h] EXCEPT !.pc = pc]]
  BY DEF Goes
<1>3. hs'[h] = [hs[h] EXCEPT !.pc = pc] /\ DOMAIN hs' = Handlers /\ \A g \in Handlers \ {h} : hs'[g] = hs[g]
  BY <1>2 DEF HandlersOk
<1>4. QED  BY <1>1, <1>3 DEF Fields

LEMMA DoneFacts ==
  ASSUME HandlersOk, NEW h \in Handlers, Done(h)
  PROVE  /\ DOMAIN hs' = Handlers /\ \A g \in Handlers \ {h} : hs'[g] = hs[g]
         /\ hs'[h] = Idle
BY DEF HandlersOk, Done

\* A handler starts with an update.
LEMMA GetsFacts ==
  ASSUME HandlersOk, NEW h \in Handlers, NEW p, NEW pc, NEW m, DOMAIN m = Fields, Gets(h, p, pc, m)
  PROVE  /\ DOMAIN hs' = Handlers /\ \A g \in Handlers \ {h} : hs'[g] = hs[g]
         /\ hs[h].pc = "idle" /\ sent < MaxUpdates /\ sent' = sent + 1
         /\ DOMAIN hs'[h] = Fields /\ hs'[h].pc = pc /\ hs'[h].at = p /\ hs'[h].id = sent + 1
         /\ hs'[h].lines = m.lines /\ hs'[h].key = m.key /\ hs'[h].batch = m.batch /\ hs'[h].job = m.job
<1>1. /\ hs' = [hs EXCEPT ![h] = [m EXCEPT !.pc = pc, !.at = p, !.id = sent + 1]]
      /\ hs[h].pc = "idle" /\ sent < MaxUpdates /\ sent' = sent + 1
  BY DEF Gets
<1>2. /\ hs'[h] = [m EXCEPT !.pc = pc, !.at = p, !.id = sent + 1]
      /\ DOMAIN hs' = Handlers /\ \A g \in Handlers \ {h} : hs'[g] = hs[g]
  BY <1>1 DEF HandlersOk
<1>3. QED  BY <1>1, <1>2 DEF Fields

BatchSet == [files : FilesOf, names : Ids, lines : Nat]

SettingsOk ==
  /\ input \in Keys \cup {""} /\ values \in [Keys -> Ids]
  /\ \A c \in changes : c.token \in Ids /\ c.key \in Dangerous
  /\ DOMAIN agreed \subseteq Ids /\ declined \subseteq Ids

BatchesOk ==
  /\ batches \in Seq(BatchSet)
  /\ \A n \in 1..Len(batches) : Len(batches[n].files) <= MaxBatch
  /\ sessions \in [Places -> 0..Len(batches)]
  /\ pending \in [Places -> Places \X Ids \cup {NoFile}]

OthersOk ==
  /\ scene \in Scenes /\ sent \in Ids /\ active \in Nat
  /\ wait \in {"off", "asked", "waiting", "got", "over"} /\ asks \in 0..MaxAsks

DialogTypes == HandlersOk /\ SettingsOk /\ BatchesOk /\ OthersOk

LEMMA DialogTypesGive == DialogTypes => DialogsType
BY DEF DialogTypes, DialogsType, HandlersOk, HandlerOk, SettingsOk, BatchesOk, OthersOk

LEMMA InitTyped == DialogsInit => DialogTypes
<1> SUFFICES ASSUME DialogsInit PROVE DialogTypes
  OBVIOUS
<1>1. HandlersOk
  BY IdleOk DEF DialogsInit, HandlersOk
<1>2. SettingsOk
  BY DialogConstants DEF DialogsInit, SettingsOk
<1>3. <<>> \in Seq(BatchSet) /\ Len(<<>>) = 0
  OBVIOUS
<1>4. BatchesOk
  <2>1. batches = <<>> /\ sessions = [p \in Places |-> 0] /\ pending = [p \in Places |-> NoFile]
    BY DEF DialogsInit
  <2>2. batches \in Seq(BatchSet) /\ Len(batches) = 0
    BY <1>3, <2>1
  <2>3. sessions \in [Places -> 0..Len(batches)]
    <3>1. 0 \in 0..Len(batches)
      BY <2>2
    <3>2. QED  BY <2>1, <3>1
  <2>4. \A n \in 1..Len(batches) : FALSE
    BY <2>2
  <2>5. pending \in [Places -> Places \X Ids \cup {NoFile}]
    BY <2>1
  <2>6. QED  BY <2>2, <2>3, <2>4, <2>5 DEF BatchesOk
<1>5. OthersOk
  <2>1. scene \in Scenes /\ sent = 0 /\ active = 0 /\ wait = "off" /\ asks = 0
    BY DEF DialogsInit
  <2>2. MaxAsks \in Nat /\ 0 \in Ids
    BY DialogConstants
  <2>4. 0 \in 0..MaxAsks /\ 0 \in Nat
    BY <2>2
  <2>3. QED  BY <2>1, <2>2, <2>4 DEF OthersOk
<1>6. QED  BY <1>1, <1>2, <1>4, <1>5 DEF DialogTypes

LEMMA HandlersKeep ==
  ASSUME HandlersOk, NEW h \in Handlers, DOMAIN hs' = Handlers,
         \A g \in Handlers \ {h} : hs'[g] = hs[g], HandlerOk(hs'[h])
  PROVE  HandlersOk'
<1>1. \A g \in Handlers : HandlerOk(hs'[g])
  BY DEF HandlersOk
<1>2. QED  BY <1>1 DEF HandlersOk

LEMMA BatchFacts ==
  ASSUME BatchesOk
  PROVE  /\ Len(batches) \in Nat
         /\ \A n \in 1..Len(batches) : /\ batches[n] \in BatchSet /\ Len(batches[n].files) \in Nat
                                       /\ batches[n].files \in FilesOf /\ batches[n].lines \in Nat
         /\ \A p \in Places : sessions[p] \in 0..Len(batches)
<1>1. Len(batches) \in Nat /\ \A n \in 1..Len(batches) : batches[n] \in BatchSet
  BY LenProperties, ElementOfSeq DEF BatchesOk
<1>2. \A n \in 1..Len(batches) : batches[n].files \in FilesOf /\ batches[n].lines \in Nat
  BY <1>1 DEF BatchSet
<1>3. \A n \in 1..Len(batches) : Len(batches[n].files) \in Nat
  BY <1>2, LenProperties DEF FilesOf
<1>4. QED  BY <1>1, <1>2, <1>3 DEF BatchesOk

\* An update of place p gets the handler h.
Begins(h, p) ==
  /\ HandlersOk' /\ OthersOk' /\ \A g \in Handlers \ {h} : hs'[g] = hs[g]
  /\ hs[h].pc = "idle" /\ sent' = sent + 1 /\ hs'[h].at = p /\ hs'[h].id = sent + 1
  /\ hs'[h].pc \in {"input", "media", "count", "start", "set", "check", "drop"}

LEMMA UpdateHandler ==
  ASSUME DialogTypes, NEW h \in Handlers, NEW p \in Places,
         \/ \E text, file, reply \in BOOLEAN, lines \in Nat : Message(h, p, text, file, reply, lines)
         \/ RenameNow(h, p)
         \/ BatchCommand(h, p)
         \/ \E c \in changes : ConfirmButton(h, p, c)
         \/ \E pc \in {"check", "drop"} : BatchButton(h, p, pc)
  PROVE  Begins(h, p)
<1> USE DEF DialogTypes
<1>1. sent \in Ids /\ DOMAIN Idle = Fields /\ HandlerOk(Idle)
  BY IdleOk DEF OthersOk, HandlerOk
<1>2. ASSUME NEW text \in BOOLEAN, NEW file \in BOOLEAN, NEW reply \in BOOLEAN, NEW lines \in Nat,
             Message(h, p, text, file, reply, lines)
      PROVE  Begins(h, p)
  <2> DEFINE m == [Idle EXCEPT !.text = text, !.file = file, !.reply = reply, !.lines = lines]
             pc == IF p \in Private /\ text THEN "input" ELSE "media"
  <2>1. Gets(h, p, pc, m) /\ UNCHANGED <<scene, active, wait, asks>>
    BY <1>2 DEF Message, jobVars, waitVars
  <2>2. DOMAIN m = Fields /\ m.lines = lines /\ m.batch = Idle.batch /\ m.job = Idle.job
    BY <1>1 DEF Fields
  <2> HIDE DEF m
  <2>3. pc \in {"input", "media"}
    OBVIOUS
  <2> HIDE DEF pc
  <2>4. /\ DOMAIN hs' = Handlers /\ \A g \in Handlers \ {h} : hs'[g] = hs[g]
        /\ hs[h].pc = "idle" /\ sent < MaxUpdates /\ sent' = sent + 1
        /\ DOMAIN hs'[h] = Fields /\ hs'[h].pc = pc /\ hs'[h].at = p /\ hs'[h].id = sent + 1
        /\ hs'[h].lines = lines /\ hs'[h].batch = Idle.batch /\ hs'[h].job = Idle.job
    BY <2>1, <2>2, GetsFacts
  <2>5. sent + 1 \in Ids
    BY <1>1, <2>4, DialogConstants
  <2>6. HandlerOk(hs'[h])
    BY <1>1, <2>3, <2>4, <2>5 DEF HandlerOk, Steps
  <2>7. HandlersOk'
    BY <2>4, <2>6, HandlersKeep
  <2>8. OthersOk'
    BY <2>1, <2>4, <2>5 DEF OthersOk
  <2>9. QED  BY <2>3, <2>4, <2>7, <2>8 DEF Begins
<1>3. CASE RenameNow(h, p)
  <2> DEFINE j == [files |-> <<<<p, sent + 1>>>>, names |-> sent + 1, lines |-> 0]
             m == [Idle EXCEPT !.job = j]
  <2>1. Gets(h, p, "count", m) /\ UNCHANGED <<scene, active, wait, asks>>
    BY <1>3 DEF RenameNow, jobVars, waitVars
  <2>2. DOMAIN m = Fields /\ m.lines = Idle.lines /\ m.batch = Idle.batch /\ m.job = j
    BY <1>1 DEF Fields
  <2> HIDE DEF m
  <2>3. /\ DOMAIN hs' = Handlers /\ \A g \in Handlers \ {h} : hs'[g] = hs[g]
        /\ hs[h].pc = "idle" /\ sent < MaxUpdates /\ sent' = sent + 1
        /\ DOMAIN hs'[h] = Fields /\ hs'[h].pc = "count" /\ hs'[h].at = p /\ hs'[h].id = sent + 1
        /\ hs'[h].lines = Idle.lines /\ hs'[h].batch = Idle.batch /\ hs'[h].job = j
    BY <2>1, <2>2, GetsFacts
  <2>4. sent + 1 \in Ids
    BY <1>1, <2>3, DialogConstants
  <2>5. j.files \in FilesOf /\ j.lines \in Nat /\ DOMAIN j = {"files", "names", "lines"}
    BY <2>4 DEF FilesOf
  <2> HIDE DEF j
  <2>6. HandlerOk(hs'[h])
    BY <1>1, <2>3, <2>4, <2>5 DEF HandlerOk, Steps
  <2>7. HandlersOk'
    BY <2>3, <2>6, HandlersKeep
  <2>8. OthersOk'
    BY <2>1, <2>3, <2>4 DEF OthersOk
  <2>9. QED  BY <2>3, <2>7, <2>8 DEF Begins
<1>4. CASE BatchCommand(h, p)
  <2>1. Gets(h, p, "start", Idle) /\ UNCHANGED <<scene, active, wait, asks>>
    BY <1>4 DEF BatchCommand, jobVars, waitVars
  <2>2. /\ DOMAIN hs' = Handlers /\ \A g \in Handlers \ {h} : hs'[g] = hs[g]
        /\ hs[h].pc = "idle" /\ sent < MaxUpdates /\ sent' = sent + 1
        /\ DOMAIN hs'[h] = Fields /\ hs'[h].pc = "start" /\ hs'[h].at = p /\ hs'[h].id = sent + 1
        /\ hs'[h].lines = Idle.lines /\ hs'[h].batch = Idle.batch /\ hs'[h].job = Idle.job
    BY <1>1, <2>1, GetsFacts
  <2>3. sent + 1 \in Ids
    BY <1>1, <2>2, DialogConstants
  <2>4. HandlerOk(hs'[h])
    BY <1>1, <2>2, <2>3 DEF HandlerOk, Steps
  <2>5. HandlersOk'
    BY <2>2, <2>4, HandlersKeep
  <2>6. OthersOk'
    BY <2>1, <2>2, <2>3 DEF OthersOk
  <2>7. QED  BY <2>2, <2>5, <2>6 DEF Begins
<1>5. ASSUME NEW c \in changes, ConfirmButton(h, p, c)
      PROVE  Begins(h, p)
  <2> DEFINE m == [Idle EXCEPT !.key = c.key, !.batch = c.token]
  <2>1. Gets(h, p, "set", m) /\ UNCHANGED <<scene, active, wait, asks>>
    BY <1>5 DEF ConfirmButton, jobVars, waitVars
  <2>2. DOMAIN m = Fields /\ m.lines = Idle.lines /\ m.batch = c.token /\ m.key = c.key /\ m.job = Idle.job
    BY <1>1 DEF Fields
  <2> HIDE DEF m
  <2>3. /\ DOMAIN hs' = Handlers /\ \A g \in Handlers \ {h} : hs'[g] = hs[g]
        /\ hs[h].pc = "idle" /\ sent < MaxUpdates /\ sent' = sent + 1
        /\ DOMAIN hs'[h] = Fields /\ hs'[h].pc = "set" /\ hs'[h].at = p /\ hs'[h].id = sent + 1
        /\ hs'[h].lines = Idle.lines /\ hs'[h].batch = c.token /\ hs'[h].key = c.key /\ hs'[h].job = Idle.job
    BY <2>1, <2>2, GetsFacts
  <2>4. sent + 1 \in Ids
    BY <1>1, <2>3, DialogConstants
  <2>10. c.token \in Ids /\ c.key \in Dangerous
    BY <1>5 DEF SettingsOk
  <2>11. c.token \in Nat
    BY <2>10, IdsNat
  <2>5. c.token \in Ids /\ c.token \in Nat /\ c.key \in Dangerous
    BY <2>10, <2>11
  <2>6. HandlerOk(hs'[h])
    BY <1>1, <2>3, <2>4, <2>5 DEF HandlerOk, Steps
  <2>7. HandlersOk'
    BY <2>3, <2>6, HandlersKeep
  <2>8. OthersOk'
    BY <2>1, <2>3, <2>4 DEF OthersOk
  <2>9. QED  BY <2>3, <2>7, <2>8 DEF Begins
<1>6. ASSUME NEW pc \in {"check", "drop"}, BatchButton(h, p, pc)
      PROVE  Begins(h, p)
  <2> DEFINE b == sessions[Key(p)]
             m == [Idle EXCEPT !.batch = b]
  <2>1. Gets(h, p, pc, m) /\ UNCHANGED <<scene, active, wait, asks>>
    BY <1>6 DEF BatchButton, jobVars, waitVars
  <2>2. b \in Nat
    BY BatchFacts DEF Key
  <2> HIDE DEF b
  <2>3. DOMAIN m = Fields /\ m.lines = Idle.lines /\ m.batch = b /\ m.job = Idle.job
    BY <1>1 DEF Fields
  <2> HIDE DEF m
  <2>4. /\ DOMAIN hs' = Handlers /\ \A g \in Handlers \ {h} : hs'[g] = hs[g]
        /\ hs[h].pc = "idle" /\ sent < MaxUpdates /\ sent' = sent + 1
        /\ DOMAIN hs'[h] = Fields /\ hs'[h].pc = pc /\ hs'[h].at = p /\ hs'[h].id = sent + 1
        /\ hs'[h].lines = Idle.lines /\ hs'[h].batch = b /\ hs'[h].job = Idle.job
    BY <2>1, <2>3, GetsFacts
  <2>5. sent + 1 \in Ids
    BY <1>1, <2>4, DialogConstants
  <2>6. HandlerOk(hs'[h])
    BY <1>1, <1>6, <2>2, <2>4, <2>5 DEF HandlerOk, Steps
  <2>7. HandlersOk'
    BY <2>4, <2>6, HandlersKeep
  <2>8. OthersOk'
    BY <2>1, <2>4, <2>5 DEF OthersOk
  <2>9. QED  BY <1>6, <2>4, <2>7, <2>8 DEF Begins
<1>7. QED  BY <1>2, <1>3, <1>4, <1>5, <1>6

Early == {"input", "clear", "value", "media", "add", "password", "single", "take", "names", "preview"}

\* The step of a handler, as the invariants see it: it is done, or goes on with the
\* same update.
Moved(h) ==
  /\ HandlersOk' /\ hs[h].pc # "idle" /\ sent' = sent
  /\ \A g \in Handlers \ {h} : hs'[g] = hs[g]
  /\ \/ hs'[h] = Idle
     \/ /\ hs'[h].id = hs[h].id /\ hs'[h].at = hs[h].at
        /\ hs'[h].pc \notin {"idle", "set", "check"}
        /\ hs'[h].pc \in Early => hs[h].pc \in Early
        /\ hs'[h].pc = "create" => active < MaxJobs

LEMMA DoneMoves ==
  ASSUME HandlersOk, NEW h \in Handlers, Done(h), hs[h].pc # "idle", sent' = sent
  PROVE  Moved(h)
<1>1. /\ DOMAIN hs' = Handlers /\ \A g \in Handlers \ {h} : hs'[g] = hs[g]
      /\ hs'[h] = Idle
  BY DoneFacts
<1>2. HandlersOk'
  BY <1>1, IdleOk, HandlersKeep
<1>3. QED  BY <1>1, <1>2 DEF Moved

LEMMA GoesMoves ==
  ASSUME HandlersOk, NEW h \in Handlers, hs[h].pc # "idle", sent' = sent,
         NEW pc \in Steps \ {"idle", "set", "check", "clear", "value"}, Goes(h, pc),
         pc \in Early => hs[h].pc \in Early,
         pc = "create" => active < MaxJobs
  PROVE  Moved(h)
<1>1. /\ DOMAIN hs' = Handlers /\ \A g \in Handlers \ {h} : hs'[g] = hs[g]
      /\ DOMAIN hs'[h] = Fields /\ hs'[h].pc = pc
      /\ hs'[h].at = hs[h].at /\ hs'[h].id = hs[h].id /\ hs'[h].lines = hs[h].lines
      /\ hs'[h].key = hs[h].key /\ hs'[h].batch = hs[h].batch /\ hs'[h].job = hs[h].job
  BY GoesFacts
<1>2. HandlerOk(hs[h])
  BY DEF HandlersOk
<1>3. HandlerOk(hs'[h])
  BY <1>1, <1>2 DEF HandlerOk
<1>4. HandlersOk'
  BY <1>1, <1>3, HandlersKeep
<1>5. QED  BY <1>1, <1>4 DEF Moved

\* The same for a step that puts a job together.
LEMMA JobMoves ==
  ASSUME HandlersOk, NEW h \in Handlers, hs[h].pc # "idle", sent' = sent, NEW j,
         NEW pc \in {"take", "files", "remove"}, pc = "take" => hs[h].pc \in Early,
         hs' = [hs EXCEPT ![h] = [hs[h] EXCEPT !.pc = pc, !.job = j]],
         DOMAIN j = {"files", "names", "lines"}, j.files \in FilesOf, j.lines \in Nat
  PROVE  /\ Moved(h) /\ hs'[h].pc = pc /\ hs'[h].at = hs[h].at /\ hs'[h].batch = hs[h].batch /\ hs'[h].job = j
<1>1. HandlerOk(hs[h]) /\ DOMAIN hs = Handlers
  BY DEF HandlersOk
<1>2. DOMAIN hs[h] = Fields
  BY <1>1 DEF HandlerOk
<1>3. /\ hs'[h] = [hs[h] EXCEPT !.pc = pc, !.job = j] /\ DOMAIN hs' = Handlers
      /\ \A g \in Handlers \ {h} : hs'[g] = hs[g]
  BY <1>1
<1>4. /\ DOMAIN hs'[h] = Fields /\ hs'[h].pc = pc /\ hs'[h].job = j
      /\ hs'[h].at = hs[h].at /\ hs'[h].id = hs[h].id /\ hs'[h].lines = hs[h].lines
      /\ hs'[h].key = hs[h].key /\ hs'[h].batch = hs[h].batch
  BY <1>2, <1>3 DEF Fields
<1>5. HandlerOk(hs'[h])
  BY <1>1, <1>4 DEF HandlerOk, Steps
<1>6. HandlersOk'
  BY <1>3, <1>5, HandlersKeep
<1>7. Moved(h)
  BY <1>3, <1>4, <1>6 DEF Moved, Early
<1>8. QED  BY <1>4, <1>7

LEMMA InputMoves ==
  ASSUME DialogTypes, NEW h \in Handlers, InputGet(h) \/ InputClear(h) \/ InputValue(h) \/ ConfirmedSet(h)
  PROVE  Moved(h)
<1> USE DEF DialogTypes
<1>1. CASE InputGet(h) /\ input # ""
  <2>1. /\ hs[h].pc = "input" /\ sent' = sent /\ input \in Keys
        /\ hs' = [hs EXCEPT ![h] = [hs[h] EXCEPT !.pc = "clear", !.key = input]]
    BY <1>1 DEF InputGet, SettingsOk
  <2>2. HandlerOk(hs[h]) /\ DOMAIN hs = Handlers
    BY DEF HandlersOk
  <2>3. DOMAIN hs[h] = Fields
    BY <2>2 DEF HandlerOk
  <2>4. /\ hs'[h] = [hs[h] EXCEPT !.pc = "clear", !.key = input] /\ DOMAIN hs' = Handlers
        /\ \A g \in Handlers \ {h} : hs'[g] = hs[g]
    BY <2>1, <2>2
  <2>5. /\ DOMAIN hs'[h] = Fields /\ hs'[h].pc = "clear" /\ hs'[h].job = hs[h].job
        /\ hs'[h].at = hs[h].at /\ hs'[h].id = hs[h].id /\ hs'[h].lines = hs[h].lines
        /\ hs'[h].key = input /\ hs'[h].batch = hs[h].batch
    BY <2>3, <2>4 DEF Fields
  <2>6. HandlerOk(hs'[h])
    BY <2>1, <2>2, <2>5 DEF HandlerOk, Steps
  <2>7. HandlersOk'
    BY <2>4, <2>6, HandlersKeep
  <2>8. QED  BY <2>1, <2>4, <2>5, <2>7 DEF Moved, Early
<1>2. CASE InputGet(h) /\ input = ""
  <2>1. hs[h].pc = "input" /\ Goes(h, "media") /\ sent' = sent
    BY <1>2 DEF InputGet
  <2>2. QED  BY <2>1, GoesMoves DEF Steps, Early
<1>3. CASE InputClear(h)
  <2>1. hs[h].pc = "clear" /\ Goes(h, "value") /\ sent' = sent
    BY <1>3 DEF InputClear
  <2>2. /\ DOMAIN hs' = Handlers /\ \A g \in Handlers \ {h} : hs'[g] = hs[g]
        /\ DOMAIN hs'[h] = Fields /\ hs'[h].pc = "value"
        /\ hs'[h].at = hs[h].at /\ hs'[h].id = hs[h].id /\ hs'[h].lines = hs[h].lines
        /\ hs'[h].key = hs[h].key /\ hs'[h].batch = hs[h].batch /\ hs'[h].job = hs[h].job
    BY <2>1, GoesFacts
  <2>3. HandlerOk(hs[h])
    BY DEF HandlersOk
  <2>4. HandlerOk(hs'[h])
    BY <2>1, <2>2, <2>3 DEF HandlerOk, Steps
  <2>5. HandlersOk'
    BY <2>2, <2>4, HandlersKeep
  <2>6. QED  BY <2>1, <2>2, <2>5 DEF Moved, Early
<1>4. CASE InputValue(h)
  <2>1. hs[h].pc = "value" /\ Done(h) /\ sent' = sent
    BY <1>4 DEF InputValue
  <2>2. QED  BY <2>1, DoneMoves
<1>5. CASE ConfirmedSet(h)
  <2>1. hs[h].pc = "set" /\ Done(h) /\ sent' = sent
    BY <1>5 DEF ConfirmedSet
  <2>2. QED  BY <2>1, DoneMoves
<1>6. QED  BY <1>1, <1>2, <1>3, <1>4, <1>5

LEMMA MessageMoves ==
  ASSUME DialogTypes, NEW h \in Handlers,
         Media(h) \/ AddFile(h) \/ Password(h) \/ SingleRemove(h) \/ NamesGet(h) \/ NamesSet(h)
  PROVE  Moved(h)
<1> USE DEF DialogTypes
<1>1. CASE Media(h)
  <2>1. /\ hs[h].pc = "media" /\ sent' = sent
        /\ Goes(h, "add") \/ Goes(h, "password") \/ Goes(h, "single") \/ Done(h)
    BY <1>1 DEF Media
  <2>2. CASE Goes(h, "add")
    BY <2>1, <2>2, GoesMoves DEF Steps, Early
  <2>3. CASE Goes(h, "password")
    BY <2>1, <2>3, GoesMoves DEF Steps, Early
  <2>4. CASE Goes(h, "single")
    BY <2>1, <2>4, GoesMoves DEF Steps, Early
  <2>5. CASE Done(h)
    BY <2>1, <2>5, DoneMoves
  <2>6. QED  BY <2>1, <2>2, <2>3, <2>4, <2>5
<1>2. CASE AddFile(h)
  <2>1. hs[h].pc = "add" /\ Done(h) /\ sent' = sent
    BY <1>2 DEF AddFile
  <2>2. QED  BY <2>1, DoneMoves
<1>3. CASE Password(h)
  <2>1. hs[h].pc = "password" /\ (Done(h) \/ Goes(h, "single")) /\ sent' = sent
    BY <1>3 DEF Password
  <2>2. CASE Done(h)
    BY <2>1, <2>2, DoneMoves
  <2>3. CASE Goes(h, "single")
    BY <2>1, <2>3, GoesMoves DEF Steps, Early
  <2>4. QED  BY <2>1, <2>2, <2>3
<1>4. CASE SingleRemove(h)
  <2>1. hs[h].pc = "take" /\ (Done(h) \/ Goes(h, "count")) /\ sent' = sent
    BY <1>4 DEF SingleRemove
  <2>2. CASE Done(h)
    BY <2>1, <2>2, DoneMoves
  <2>3. CASE Goes(h, "count")
    BY <2>1, <2>3, GoesMoves DEF Steps, Early
  <2>4. QED  BY <2>1, <2>2, <2>3
<1>5. CASE NamesGet(h)
  <2>1. hs[h].pc = "names" /\ (Done(h) \/ Goes(h, "preview")) /\ sent' = sent
    BY <1>5 DEF NamesGet
  <2>2. CASE Done(h)
    BY <2>1, <2>2, DoneMoves
  <2>3. CASE Goes(h, "preview")
    BY <2>1, <2>3, GoesMoves DEF Steps, Early
  <2>4. QED  BY <2>1, <2>2, <2>3
<1>6. CASE NamesSet(h)
  <2>1. hs[h].pc = "preview" /\ Done(h) /\ sent' = sent
    BY <1>6 DEF NamesSet
  <2>2. QED  BY <2>1, DoneMoves
<1>7. QED  BY <1>1, <1>2, <1>3, <1>4, <1>5, <1>6

\* A file that waits for its name becomes a job of that one file.
LEMMA SingleMoves ==
  ASSUME DialogTypes, NEW h \in Handlers, SingleGet(h)
  PROVE  /\ Moved(h)
         /\ hs'[h] # Idle => \/ hs'[h].pc = "names"
                             \/ /\ hs'[h].pc = "take" /\ hs'[h].at = hs[h].at
                                /\ pending[hs[h].at] # NoFile
                                /\ hs'[h].job.files = <<pending[hs[h].at]>> /\ hs'[h].job.lines = 0
<1> USE DEF DialogTypes
<1> DEFINE f == pending[hs[h].at]
           j == [files |-> <<f>>, names |-> hs[h].id, lines |-> 0]
<1>1. hs[h].pc = "single" /\ sent' = sent /\ hs[h].at \in Places
  BY DEF SingleGet, HandlersOk, HandlerOk
<1>2. CASE f = NoFile
  <2>1. Goes(h, "names")
    BY <1>2 DEF SingleGet, Key
  <2>2. Moved(h)
    BY <1>1, <2>1, GoesMoves DEF Steps, Early
  <2>3. hs'[h].pc = "names"
    BY <2>1, GoesFacts
  <2>4. QED  BY <2>2, <2>3
<1>3. CASE f # NoFile
  <2>1. hs' = [hs EXCEPT ![h] = [hs[h] EXCEPT !.pc = "take", !.job = j]]
    BY <1>3 DEF SingleGet, Key
  <2>2. f \in Places \X Ids
    BY <1>1, <1>3 DEF BatchesOk
  <2>3. DOMAIN j = {"files", "names", "lines"} /\ j.files = <<f>> /\ j.files \in FilesOf /\ j.lines = 0 /\ j.lines \in Nat
    BY <2>2 DEF FilesOf
  <2> HIDE DEF f, j
  <2>4. Moved(h) /\ hs'[h].pc = "take" /\ hs'[h].at = hs[h].at /\ hs'[h].job = j
    BY <1>1, <2>1, <2>3, JobMoves DEF Early
  <2>5. QED  BY <1>3, <2>3, <2>4 DEF f
<1>4. QED  BY <1>2, <1>3

LEMMA ApplyMoves ==
  ASSUME DialogTypes, NEW h \in Handlers, hs[h].pc = "check" => hs[h].batch \in 1..Len(batches), ApplyCheck(h)
  PROVE  /\ Moved(h)
         /\ hs'[h] # Idle => /\ hs'[h].pc = "files" /\ hs'[h].at = hs[h].at /\ hs'[h].batch = hs[h].batch
                             /\ hs'[h].job.lines = Len(batches[hs[h].batch].files)
<1> USE DEF DialogTypes
<1> DEFINE b == batches[hs[h].batch]
           j == [NoJob EXCEPT !.names = b.names, !.lines = b.lines]
<1>1. hs[h].pc = "check" /\ sent' = sent
  BY DEF ApplyCheck
<1>2. hs[h].batch \in 1..Len(batches)
  BY <1>1
<1>3. b.lines \in Nat
  BY <1>2, BatchFacts
<1>4. CASE b.files = <<>> \/ b.lines # Len(b.files)
  <2>1. Done(h)
    BY <1>4 DEF ApplyCheck
  <2>2. Moved(h) /\ hs'[h] = Idle
    BY <1>1, <2>1, DoneMoves, DoneFacts
  <2>3. QED  BY <2>2
<1>5. CASE ~(b.files = <<>> \/ b.lines # Len(b.files))
  <2>1. hs' = [hs EXCEPT ![h] = [hs[h] EXCEPT !.pc = "files", !.job = j]]
    BY <1>5 DEF ApplyCheck
  <2>2. <<>> \in FilesOf
    BY DEF FilesOf
  <2>3. DOMAIN j = {"files", "names", "lines"} /\ j.files = <<>> /\ j.lines = b.lines
    BY DEF NoJob
  <2>4. b.lines = Len(b.files)
    BY <1>5
  <2>6. j.files \in FilesOf /\ j.lines \in Nat
    BY <1>3, <2>2, <2>3
  <2>7. "check" # "idle" /\ "files" \in {"take", "files", "remove"} /\ "files" # "take"
    OBVIOUS
  <2> HIDE DEF j, b
  <2>5. /\ Moved(h) /\ hs'[h].pc = "files" /\ hs'[h].at = hs[h].at /\ hs'[h].batch = hs[h].batch
        /\ hs'[h].job = j
    BY <1>1, <2>1, <2>3, <2>6, <2>7, JobMoves
  <2>8. QED  BY <2>3, <2>4, <2>5 DEF b
<1>6. QED  BY <1>4, <1>5

LEMMA FilesMoves ==
  ASSUME DialogTypes, NEW h \in Handlers, hs[h].pc = "files" => hs[h].batch \in 1..Len(batches), ApplyFiles(h)
  PROVE  /\ Moved(h) /\ hs'[h].pc = "remove" /\ hs'[h].at = hs[h].at
         /\ hs'[h].job.files = batches[hs[h].batch].files /\ hs'[h].job.lines = hs[h].job.lines
<1> USE DEF DialogTypes
<1> DEFINE b == batches[hs[h].batch]
           j == [hs[h].job EXCEPT !.files = b.files]
<1>1. hs[h].pc = "files" /\ sent' = sent /\ HandlerOk(hs[h]) /\ DOMAIN hs = Handlers
  BY DEF ApplyFiles, HandlersOk
<1>2. hs[h].batch \in 1..Len(batches)
  BY <1>1
<1>3. b.files \in FilesOf
  BY <1>2, BatchFacts
<1>4. DOMAIN hs[h].job = {"files", "names", "lines"} /\ hs[h].job.lines \in Nat /\ DOMAIN hs[h] = Fields
  BY <1>1 DEF HandlerOk
<1>5. hs' = [hs EXCEPT ![h] = [hs[h] EXCEPT !.pc = "remove", !.job = j]]
  BY DEF ApplyFiles
<1>6. DOMAIN j = {"files", "names", "lines"} /\ j.files = b.files /\ j.lines = hs[h].job.lines
  BY <1>4
<1>9. j.files \in FilesOf /\ j.lines \in Nat
  BY <1>3, <1>4, <1>6
<1>10. "remove" \in {"take", "files", "remove"} /\ "remove" # "take" /\ "files" # "idle"
  OBVIOUS
<1> HIDE DEF j, b
<1>7. Moved(h) /\ hs'[h].pc = "remove" /\ hs'[h].at = hs[h].at /\ hs'[h].job = j
  BY <1>1, <1>5, <1>6, <1>9, <1>10, JobMoves
<1>8. QED  BY <1>6, <1>7 DEF b

LEMMA BatchMoves ==
  ASSUME DialogTypes, NEW h \in Handlers,
         BatchStart(h) \/ SessionRemove(h) \/ EnqueueCount(h) \/ EnqueueCreate(h)
  PROVE  Moved(h)
<1> USE DEF DialogTypes
<1>1. CASE BatchStart(h)
  <2>1. hs[h].pc = "start" /\ Done(h) /\ sent' = sent
    BY <1>1 DEF BatchStart
  <2>2. QED  BY <2>1, DoneMoves
<1>2. CASE SessionRemove(h)
  <2>1. hs[h].pc \in {"remove", "drop"} /\ (Done(h) \/ Goes(h, "count")) /\ sent' = sent
    BY <1>2 DEF SessionRemove
  <2>2. CASE Done(h)
    BY <2>1, <2>2, DoneMoves
  <2>3. CASE Goes(h, "count")
    BY <2>1, <2>3, GoesMoves DEF Steps, Early
  <2>4. QED  BY <2>1, <2>2, <2>3
<1>3. CASE EnqueueCount(h)
  <2>1. hs[h].pc = "count" /\ sent' = sent /\ (Done(h) \/ (Goes(h, "create") /\ ~(active >= MaxJobs)))
    BY <1>3 DEF EnqueueCount
  <2>2. CASE Done(h)
    BY <2>1, <2>2, DoneMoves
  <2>3. CASE Goes(h, "create") /\ ~(active >= MaxJobs)
    <3>1. active < MaxJobs
      <4>1. active \in Nat
        BY DEF OthersOk
      <4>2. MaxJobs \in Nat
        BY DialogConstants
      <4>3. QED  BY <2>3, <4>1, <4>2
    <3>2. QED  BY <2>1, <2>3, <3>1, GoesMoves DEF Steps, Early
  <2>4. QED  BY <2>1, <2>2, <2>3
<1>4. CASE EnqueueCreate(h)
  <2>1. hs[h].pc = "create" /\ Done(h) /\ sent' = sent
    BY <1>4 DEF EnqueueCreate
  <2>2. QED  BY <2>1, DoneMoves
<1>5. QED  BY <1>1, <1>2, <1>3, <1>4

\* The files are all of place p.
Own(files, p) == \A n \in 1..Len(files) : files[n][1] = p
Fits(j, p) == Own(j.files, p) /\ j.lines <= Len(j.files)

\* What a handler knows of the batch it was sent to, and the job it will create.
Carries(r, B, S) ==
  /\ r.pc \in {"check", "files"} =>
       /\ r.batch \in 1..Len(B) /\ Own(B[r.batch].files, r.at)
       /\ \A p \in Places : S[p] = r.batch => p = r.at
  /\ r.pc = "files" => r.job.lines <= Len(B[r.batch].files)
  /\ r.pc \in {"remove", "take", "count", "create"} => Fits(r.job, r.at)

LEMMA HandleMoves ==
  ASSUME DialogTypes, NEW h \in Handlers, Carries(hs[h], batches, sessions), Handle(h)
  PROVE  Moved(h)
<1>1. hs[h].pc \in {"check", "files"} => hs[h].batch \in 1..Len(batches)
  BY DEF Carries
<1>2. QED  BY <1>1, InputMoves, MessageMoves, SingleMoves, ApplyMoves, FilesMoves, BatchMoves DEF Handle

-----------------------------------------------------------------------------
(* The types of the rest *)

\* A batch that gets a file or names.
LEMMA BatchChanged ==
  ASSUME BatchesOk, NEW n \in 1..Len(batches), NEW b \in BatchSet, Len(b.files) <= MaxBatch,
         batches' = [batches EXCEPT ![n] = b], UNCHANGED <<sessions, pending>>
  PROVE  /\ BatchesOk' /\ Len(batches') = Len(batches)
         /\ batches'[n] = b /\ \A m \in 1..Len(batches) \ {n} : batches'[m] = batches[m]
<1>1. batches \in Seq(BatchSet)
  BY DEF BatchesOk
<1>2. batches' \in Seq(BatchSet) /\ Len(batches') = Len(batches)
  BY <1>1, ExceptSeq
<1>3. batches'[n] = b /\ \A m \in 1..Len(batches) \ {n} : batches'[m] = batches[m]
  BY <1>1, ExceptSeq
<1>4. \A m \in 1..Len(batches') : Len(batches'[m].files) <= MaxBatch
  BY <1>2, <1>3 DEF BatchesOk
<1>5. QED  BY <1>2, <1>3, <1>4 DEF BatchesOk

LEMMA AddFacts ==
  ASSUME DialogTypes, NEW h \in Handlers, AddFile(h)
  PROVE  /\ BatchesOk' /\ UNCHANGED <<sessions, pending>> /\ hs'[h] = Idle
         /\ \/ batches' = batches
            \/ \E b \in 1..Len(batches) :
                 /\ b = sessions[hs[h].at] /\ Len(batches') = Len(batches)
                 /\ \A m \in 1..Len(batches) \ {b} : batches'[m] = batches[m]
                 /\ batches'[b].files = Append(batches[b].files, <<hs[h].at, hs[h].id>>)
                 /\ batches'[b].lines = batches[b].lines
<1> USE DEF DialogTypes
<1> DEFINE b == sessions[hs[h].at]
<1>1. HandlerOk(hs[h]) /\ hs[h].at \in Places /\ hs[h].id \in Ids
  BY DEF HandlersOk, HandlerOk
<1>2. b \in 0..Len(batches) /\ Len(batches) \in Nat
  BY <1>1, BatchFacts
<1>3. UNCHANGED <<sessions, pending>> /\ hs'[h] = Idle
  BY DoneFacts DEF AddFile
<1>4. CASE batches' = batches
  <2>1. BatchesOk'
    BY <1>3, <1>4 DEF BatchesOk
  <2>2. QED  BY <1>3, <1>4, <2>1
<1>5. CASE batches' # batches
  <2> DEFINE x == <<hs[h].at, hs[h].id>>
             B == [batches[b] EXCEPT !.files = Append(batches[b].files, x)]
  <2>1. /\ b # 0 /\ ~(b > 0 /\ Len(batches[b].files) >= MaxBatch)
        /\ batches' = [batches EXCEPT ![b] = B]
    BY <1>5 DEF AddFile, Key
  <2>2. b \in 1..Len(batches) /\ b > 0
    <3>1. b # 0
      BY <2>1
    <3>2. QED  BY <1>2, <3>1
  <2>3. batches[b] \in BatchSet /\ batches[b].files \in Seq(Places \X Ids) /\ Len(batches[b].files) \in Nat
    BY <2>2, BatchFacts DEF FilesOf
  <2>4. MaxBatch \in Nat
    BY DialogConstants
  <2>5. Len(batches[b].files) < MaxBatch
    <3>1. ~(Len(batches[b].files) >= MaxBatch) /\ Len(batches[b].files) \in Nat
      BY <2>1, <2>2, <2>3
    <3>2. QED  BY <2>4, <3>1, NotFull
  <2>6. x \in Places \X Ids
    BY <1>1
  <2> HIDE DEF x
  <2>7. Append(batches[b].files, x) \in FilesOf /\ Len(Append(batches[b].files, x)) = Len(batches[b].files) + 1
    BY <2>3, <2>6, AppendProperties DEF FilesOf
  <2>8. B \in BatchSet /\ B.files = Append(batches[b].files, x) /\ B.lines = batches[b].lines
    BY <2>3, <2>7 DEF BatchSet
  <2> HIDE DEF B, b
  <2>9. Len(B.files) <= MaxBatch
    BY <2>3, <2>4, <2>5, <2>7, <2>8
  <2>10. /\ BatchesOk' /\ Len(batches') = Len(batches)
         /\ batches'[b] = B /\ \A m \in 1..Len(batches) \ {b} : batches'[m] = batches[m]
    BY <1>3, <2>1, <2>2, <2>8, <2>9, BatchChanged
  <2>11. QED  BY <1>3, <2>2, <2>8, <2>10 DEF b, x
<1>6. QED  BY <1>4, <1>5

LEMMA NamesFacts ==
  ASSUME DialogTypes, NEW h \in Handlers, NamesSet(h)
  PROVE  /\ BatchesOk' /\ UNCHANGED <<sessions, pending>> /\ hs'[h] = Idle
         /\ Len(batches') = Len(batches)
         /\ \A m \in 1..Len(batches) : batches'[m].files = batches[m].files
<1> USE DEF DialogTypes
<1> DEFINE b == sessions[hs[h].at]
<1>1. HandlerOk(hs[h]) /\ hs[h].at \in Places /\ hs[h].id \in Ids /\ hs[h].lines \in Nat
  BY DEF HandlersOk, HandlerOk
<1>2. b \in 0..Len(batches) /\ Len(batches) \in Nat
  BY <1>1, BatchFacts
<1>3. UNCHANGED <<sessions, pending>> /\ hs'[h] = Idle
  BY DoneFacts DEF NamesSet
<1>4. CASE b = 0
  <2>1. batches' = batches
    BY <1>4 DEF NamesSet, Key
  <2>2. BatchesOk'
    BY <1>3, <2>1 DEF BatchesOk
  <2>3. QED  BY <1>3, <2>1, <2>2
<1>5. CASE b # 0
  <2> DEFINE B == [batches[b] EXCEPT !.names = hs[h].id, !.lines = hs[h].lines]
  <2>1. batches' = [batches EXCEPT ![b] = B]
    BY <1>5 DEF NamesSet, Key
  <2>2. b \in 1..Len(batches)
    BY <1>2, <1>5
  <2>3. batches[b] \in BatchSet /\ Len(batches[b].files) <= MaxBatch
    BY <2>2, BatchFacts DEF BatchesOk
  <2>4. B \in BatchSet /\ B.files = batches[b].files
    <3> DEFINE C == [batches[b] EXCEPT !.names = hs[h].id]
    <3>1. C \in BatchSet /\ C.files = batches[b].files
      BY <1>1, <2>3 DEF BatchSet
    <3>2. B = [C EXCEPT !.lines = hs[h].lines]
      OBVIOUS
    <3> HIDE DEF C, B
    <3>3. QED  BY <1>1, <3>1, <3>2 DEF BatchSet
  <2> HIDE DEF B, b
  <2>5. /\ BatchesOk' /\ Len(batches') = Len(batches)
        /\ batches'[b] = B /\ \A m \in 1..Len(batches) \ {b} : batches'[m] = batches[m]
    BY <1>3, <2>1, <2>2, <2>3, <2>4, BatchChanged
  <2>6. QED  BY <1>3, <2>2, <2>4, <2>5
<1>6. QED  BY <1>4, <1>5

LEMMA StartFacts ==
  ASSUME DialogTypes, NEW h \in Handlers, BatchStart(h)
  PROVE  /\ BatchesOk' /\ pending' = pending /\ hs'[h] = Idle
         /\ sessions' = [sessions EXCEPT ![hs[h].at] = Len(batches) + 1]
         /\ Len(batches') = Len(batches) + 1 /\ batches'[Len(batches) + 1].files = <<>>
         /\ \A m \in 1..Len(batches) : batches'[m] = batches[m]
<1> USE DEF DialogTypes
<1> DEFINE B == [files |-> <<>>, names |-> 0, lines |-> 0]
<1>1. hs[h].at \in Places /\ Len(batches) \in Nat /\ batches \in Seq(BatchSet)
  BY BatchFacts DEF HandlersOk, HandlerOk, BatchesOk
<1>2. /\ pending' = pending /\ hs'[h] = Idle /\ batches' = Append(batches, B)
      /\ sessions' = [sessions EXCEPT ![hs[h].at] = Len(batches) + 1]
  BY DoneFacts DEF BatchStart, Key
<1>3. B \in BatchSet
  <2>1. <<>> \in FilesOf
    BY DEF FilesOf
  <2>2. 0 \in Ids
    BY DialogConstants
  <2>3. QED  BY <2>1, <2>2 DEF BatchSet
<1>4. B.files = <<>> /\ Len(<<>>) = 0
  OBVIOUS
<1> HIDE DEF B
<1>5. /\ batches' \in Seq(BatchSet) /\ Len(batches') = Len(batches) + 1
      /\ batches'[Len(batches) + 1] = B /\ \A m \in 1..Len(batches) : batches'[m] = batches[m]
  BY <1>1, <1>2, <1>3, AppendProperties
<1>6. \A m \in 1..Len(batches') : Len(batches'[m].files) <= MaxBatch
  <2>1. MaxBatch \in Nat
    BY DialogConstants
  <2>2. SUFFICES ASSUME NEW m \in 1..Len(batches') PROVE Len(batches'[m].files) <= MaxBatch
    OBVIOUS
  <2>3. m \in 1..Len(batches) \/ m = Len(batches) + 1
    BY <1>1, <1>5
  <2>4. QED  BY <1>4, <1>5, <2>1, <2>3 DEF BatchesOk
<1>7. sessions' \in [Places -> 0..Len(batches')]
  <2>1. \A p \in Places : sessions[p] \in 0..Len(batches')
    BY <1>1, <1>5, BatchFacts
  <2>2. Len(batches) + 1 \in 0..Len(batches')
    BY <1>1, <1>5
  <2>3. QED  BY <1>1, <1>2, <2>1, <2>2 DEF BatchesOk
<1>8. BatchesOk'
  BY <1>2, <1>5, <1>6, <1>7 DEF BatchesOk
<1>9. QED  BY <1>2, <1>4, <1>5, <1>8

LEMMA HandleTypes ==
  ASSUME DialogTypes, NEW h \in Handlers, Carries(hs[h], batches, sessions), Handle(h)
  PROVE  DialogTypes'
<1> USE DEF DialogTypes
<1>1. Moved(h) /\ HandlersOk' /\ HandlerOk(hs[h])
  BY HandleMoves DEF Moved, HandlersOk
<1>2. hs[h].at \in Places /\ hs[h].id \in Ids /\ hs[h].lines \in Nat
  BY <1>1 DEF HandlerOk
<1>3. CASE UNCHANGED <<settingVars, renameVars, scene, sent, waitVars, active>>
  <2>1. UNCHANGED <<input, changes, values, agreed, declined, batches, sessions, pending>>
    BY <1>3 DEF settingVars, renameVars
  <2>2. UNCHANGED <<scene, sent, active, wait, asks>>
    BY <1>3 DEF waitVars
  <2>3. SettingsOk' /\ BatchesOk' /\ OthersOk'
    BY <2>1, <2>2 DEF SettingsOk, BatchesOk, OthersOk
  <2>4. QED  BY <1>1, <2>3
<1>4. CASE InputClear(h)
  <2>1. input' = "" /\ UNCHANGED <<changes, values, agreed, declined, batches, sessions, pending>>
    BY <1>4 DEF InputClear, renameVars
  <2>2. UNCHANGED <<scene, sent, active, wait, asks>>
    BY <1>4 DEF InputClear, jobVars, waitVars
  <2>3. SettingsOk'
    BY <2>1 DEF SettingsOk
  <2>4. BatchesOk' /\ OthersOk'
    BY <2>1, <2>2 DEF BatchesOk, OthersOk
  <2>5. QED  BY <1>1, <2>3, <2>4
<1>5. CASE InputValue(h)
  <2>1. UNCHANGED <<input, agreed, declined, batches, sessions, pending>>
    BY <1>5 DEF InputValue, renameVars
  <2>2. UNCHANGED <<scene, sent, active, wait, asks>>
    BY <1>5 DEF InputValue, jobVars, waitVars
  <2>3. hs[h].key \in Keys
    BY <1>1, <1>5 DEF InputValue, HandlerOk
  <2>4. \/ hs[h].key \in Dangerous /\ changes' = changes \cup {[token |-> hs[h].id, key |-> hs[h].key]} /\ values' = values
        \/ values' = [values EXCEPT ![hs[h].key] = hs[h].id] /\ changes' = changes
    BY <1>5 DEF InputValue
  <2>5. \A c \in changes' : c.token \in Ids /\ c.key \in Dangerous
    <3>1. CASE changes' = changes
      BY <3>1 DEF SettingsOk
    <3>2. CASE hs[h].key \in Dangerous /\ changes' = changes \cup {[token |-> hs[h].id, key |-> hs[h].key]}
      <4>1. SUFFICES ASSUME NEW c \in changes' PROVE c.token \in Ids /\ c.key \in Dangerous
        OBVIOUS
      <4>2. CASE c \in changes
        BY <4>2 DEF SettingsOk
      <4>3. CASE c = [token |-> hs[h].id, key |-> hs[h].key]
        BY <1>2, <3>2, <4>3
      <4>4. QED  BY <3>2, <4>2, <4>3
    <3>3. QED  BY <2>4, <3>1, <3>2
  <2>6. values' \in [Keys -> Ids]
    BY <1>2, <2>3, <2>4 DEF SettingsOk
  <2>7. SettingsOk'
    BY <2>1, <2>5, <2>6 DEF SettingsOk
  <2>8. BatchesOk' /\ OthersOk'
    BY <2>1, <2>2 DEF BatchesOk, OthersOk
  <2>9. QED  BY <1>1, <2>7, <2>8
<1>6. CASE ConfirmedSet(h)
  <2>1. UNCHANGED <<input, changes, declined, batches, sessions, pending>>
    BY <1>6 DEF ConfirmedSet, renameVars
  <2>2. UNCHANGED <<scene, sent, active, wait, asks>>
    BY <1>6 DEF ConfirmedSet, jobVars, waitVars
  <2>3. hs[h].key \in Keys /\ hs[h].batch \in Ids
    BY <1>1, <1>6, DialogConstants DEF ConfirmedSet, HandlerOk
  <2>4. values' \in [Keys -> Ids]
    BY <1>6, <2>3 DEF ConfirmedSet, SettingsOk
  <2>5. DOMAIN agreed' = DOMAIN agreed \cup {hs[h].batch}
    BY <1>6 DEF ConfirmedSet
  <2>6. SettingsOk'
    BY <2>1, <2>3, <2>4, <2>5 DEF SettingsOk
  <2>7. BatchesOk' /\ OthersOk'
    BY <2>1, <2>2 DEF BatchesOk, OthersOk
  <2>8. QED  BY <1>1, <2>6, <2>7
<1>7. CASE Password(h)
  <2>1. UNCHANGED <<input, changes, values, agreed, declined, batches, sessions, pending>>
    BY <1>7 DEF Password, settingVars, renameVars
  <2>2. UNCHANGED <<scene, sent, active, asks>> /\ wait' \in {wait, "got"}
    BY <1>7 DEF Password, jobVars
  <2>3. OthersOk'
    BY <2>2 DEF OthersOk
  <2>4. SettingsOk' /\ BatchesOk'
    BY <2>1 DEF SettingsOk, BatchesOk
  <2>5. QED  BY <1>1, <2>3, <2>4
<1>8. CASE SingleRemove(h)
  <2>1. UNCHANGED <<input, changes, values, agreed, declined, batches, sessions, scene, sent, active, wait, asks>>
    BY <1>8 DEF SingleRemove, settingVars, jobVars, waitVars
  <2>2. pending' = [pending EXCEPT ![hs[h].at] = NoFile]
    BY <1>8 DEF SingleRemove, Key
  <2>3. BatchesOk'
    BY <1>2, <2>1, <2>2 DEF BatchesOk
  <2>4. SettingsOk' /\ OthersOk'
    BY <2>1 DEF SettingsOk, OthersOk
  <2>5. QED  BY <1>1, <2>3, <2>4
<1>9. CASE SessionRemove(h)
  <2>1. UNCHANGED <<input, changes, values, agreed, declined, batches, pending, scene, sent, active, wait, asks>>
    BY <1>9 DEF SessionRemove, settingVars, jobVars, waitVars
  <2>2. sessions' = [sessions EXCEPT ![hs[h].at] = 0]
    BY <1>9 DEF SessionRemove, Key
  <2>3. Len(batches) \in Nat
    BY BatchFacts
  <2>4. sessions' \in [Places -> 0..Len(batches)]
    BY <1>2, <2>2, <2>3 DEF BatchesOk
  <2>5. BatchesOk'
    BY <2>1, <2>4 DEF BatchesOk
  <2>6. SettingsOk' /\ OthersOk'
    BY <2>1 DEF SettingsOk, OthersOk
  <2>7. QED  BY <1>1, <2>5, <2>6
<1>10. CASE EnqueueCreate(h)
  <2>1. UNCHANGED <<input, changes, values, agreed, declined, batches, sessions, pending, scene, sent, wait, asks>>
    BY <1>10 DEF EnqueueCreate, settingVars, renameVars, waitVars
  <2>2. active' \in Nat
    BY <1>10 DEF EnqueueCreate, OthersOk
  <2>3. SettingsOk' /\ BatchesOk' /\ OthersOk'
    BY <2>1, <2>2 DEF SettingsOk, BatchesOk, OthersOk
  <2>4. QED  BY <1>1, <2>3
<1>11. CASE AddFile(h) \/ NamesSet(h) \/ BatchStart(h)
  <2>1. BatchesOk'
    BY <1>11, AddFacts, NamesFacts, StartFacts
  <2>2. UNCHANGED <<input, changes, values, agreed, declined, scene, sent, active, wait, asks>>
    BY <1>11 DEF AddFile, NamesSet, BatchStart, settingVars, jobVars, waitVars
  <2>3. SettingsOk' /\ OthersOk'
    BY <2>2 DEF SettingsOk, OthersOk
  <2>4. QED  BY <1>1, <2>1, <2>3
<1>12. CASE InputGet(h) \/ Media(h) \/ SingleGet(h) \/ NamesGet(h) \/ ApplyCheck(h) \/ ApplyFiles(h) \/ EnqueueCount(h)
  BY <1>3, <1>12 DEF InputGet, Media, SingleGet, NamesGet, ApplyCheck, ApplyFiles, EnqueueCount, jobVars
<1>13. QED
  BY <1>4, <1>5, <1>6, <1>7, <1>8, <1>9, <1>10, <1>11, <1>12 DEF Handle

\* An update that needs a handler.
Started(h) == \E p \in Places :
  \/ \E text, file, reply \in BOOLEAN, lines \in Nat : Message(h, p, text, file, reply, lines)
  \/ RenameNow(h, p)
  \/ BatchCommand(h, p)
  \/ \E c \in changes : ConfirmButton(h, p, c)
  \/ \E pc \in {"check", "drop"} : BatchButton(h, p, pc)

\* What happens without one.
Aside ==
  \/ \E p \in Places : \/ RenameCommand(p) \/ CancelCommand(p)
                       \/ \E k \in Keys : EditButton(p, k) \/ ButtonSets(p, k)
                       \/ \E c \in changes : RefuseButton(p, c)
  \/ Sweep \/ Expire \/ JobEnds \/ Extract \/ PasswordTimeout

LEMMA NextCases ==
  ASSUME DialogTypes, DialogsNext
  PROVE  Aside \/ \E h \in Handlers : Started(h) \/ Handle(h)
<1>1. scene.places \subseteq Places
  BY DialogConstants DEF DialogTypes, OthersOk
<1>2. ASSUME NEW h \in Handlers, Updates(h)
      PROVE  Aside \/ Started(h)
  <2>1. PICK p \in scene.places :
          \/ \E lines \in 1..2 : Message(h, p, TRUE, FALSE, FALSE, lines)
          \/ Message(h, p, TRUE, FALSE, TRUE, 1)
          \/ \E caption \in BOOLEAN : Message(h, p, caption, TRUE, FALSE, 1)
          \/ RenameCommand(p) \/ RenameNow(h, p) \/ CancelCommand(p)
          \/ \E k \in Keys : EditButton(p, k) \/ ButtonSets(p, k)
          \/ \E c \in changes : ConfirmButton(h, p, c) \/ RefuseButton(p, c)
          \/ BatchCommand(h, p)
          \/ \E pc \in {"check", "drop"} : BatchButton(h, p, pc)
    BY <1>2 DEF Updates
  <2>2. p \in Places
    BY <1>1
  <2>3. CASE \/ \E lines \in 1..2 : Message(h, p, TRUE, FALSE, FALSE, lines)
             \/ Message(h, p, TRUE, FALSE, TRUE, 1)
             \/ \E caption \in BOOLEAN : Message(h, p, caption, TRUE, FALSE, 1)
    <3>1. 1 \in Nat /\ 1..2 \subseteq Nat /\ TRUE \in BOOLEAN /\ FALSE \in BOOLEAN
      OBVIOUS
    <3>2. \E text, file, reply \in BOOLEAN, lines \in Nat : Message(h, p, text, file, reply, lines)
      BY <2>3, <3>1
    <3>3. QED  BY <2>2, <3>2 DEF Started
  <2>4. CASE RenameNow(h, p) \/ BatchCommand(h, p) \/ \E pc \in {"check", "drop"} : BatchButton(h, p, pc)
    BY <2>2, <2>4 DEF Started
  <2>5. CASE RenameCommand(p) \/ CancelCommand(p) \/ \E k \in Keys : EditButton(p, k) \/ ButtonSets(p, k)
    BY <2>2, <2>5 DEF Aside
  <2>6. CASE \E c \in changes : ConfirmButton(h, p, c) \/ RefuseButton(p, c)
    BY <2>2, <2>6 DEF Aside, Started
  <2>7. QED  BY <2>1, <2>3, <2>4, <2>5, <2>6
<1>3. QED  BY <1>2 DEF DialogsNext, Aside

LEMMA StartedFacts ==
  ASSUME DialogTypes, NEW h \in Handlers, Started(h)
  PROVE  /\ HandlersOk' /\ OthersOk' /\ (\A g \in Handlers \ {h} : hs'[g] = hs[g])
         /\ hs[h].pc = "idle" /\ sent' = sent + 1 /\ hs'[h].id = sent + 1
         /\ hs'[h].pc \in {"input", "media", "count", "start", "set", "check", "drop"}
         /\ UNCHANGED <<input, values, agreed, declined, batches, sessions, pending, active, job>>
         /\ changes' \subseteq changes
         /\ hs'[h].pc # "set" => changes' = changes
         /\ used' = used \/ (hs'[h].pc = "count" /\ UsedAs(sent + 1, "name"))
<1>1. PICK p \in Places :
        \/ \E text, file, reply \in BOOLEAN, lines \in Nat : Message(h, p, text, file, reply, lines)
        \/ RenameNow(h, p)
        \/ BatchCommand(h, p)
        \/ \E c \in changes : ConfirmButton(h, p, c)
        \/ \E pc \in {"check", "drop"} : BatchButton(h, p, pc)
  BY DEF Started
<1>2. /\ HandlersOk' /\ OthersOk' /\ (\A g \in Handlers \ {h} : hs'[g] = hs[g])
      /\ hs[h].pc = "idle" /\ sent' = sent + 1 /\ hs'[h].id = sent + 1
      /\ hs'[h].pc \in {"input", "media", "count", "start", "set", "check", "drop"}
  BY <1>1, UpdateHandler DEF Begins
<1>3. HandlersOk
  BY DEF DialogTypes
<1>4. CASE \E text, file, reply \in BOOLEAN, lines \in Nat : Message(h, p, text, file, reply, lines)
  <2>1. UNCHANGED <<input, changes, values, agreed, declined, batches, sessions, pending, active, job, used>>
    BY <1>4 DEF Message, settingVars, renameVars, jobVars
  <2>2. QED  BY <1>2, <2>1
<1>5. CASE RenameNow(h, p)
  <2>1. UNCHANGED <<input, changes, values, agreed, declined, batches, sessions, pending, active, job>>
    BY <1>5 DEF RenameNow, settingVars, renameVars, jobVars
  <2>2. UsedAs(sent + 1, "name")
    BY <1>5 DEF RenameNow
  <2>3. hs'[h].pc = "count"
    <3> DEFINE m == [Idle EXCEPT !.job = [files |-> <<<<p, sent + 1>>>>, names |-> sent + 1, lines |-> 0]]
    <3>1. Gets(h, p, "count", m)
      BY <1>5 DEF RenameNow
    <3>2. DOMAIN m = Fields
      BY IdleOk DEF HandlerOk
    <3> HIDE DEF m
    <3>3. QED  BY <1>3, <3>1, <3>2, GetsFacts
  <2>4. QED  BY <1>2, <2>1, <2>2, <2>3
<1>6. CASE BatchCommand(h, p) \/ \E pc \in {"check", "drop"} : BatchButton(h, p, pc)
  <2>1. UNCHANGED <<input, changes, values, agreed, declined, batches, sessions, pending, active, job, used>>
    BY <1>6 DEF BatchCommand, BatchButton, settingVars, renameVars, jobVars
  <2>2. QED  BY <1>2, <2>1
<1>7. ASSUME NEW c \in changes, ConfirmButton(h, p, c)
      PROVE  /\ UNCHANGED <<input, values, agreed, declined, batches, sessions, pending, active, job, used>>
             /\ changes' \subseteq changes /\ hs'[h].pc = "set"
  <2>1. /\ UNCHANGED <<input, values, agreed, declined, batches, sessions, pending, active, job, used>>
        /\ changes' \subseteq changes
    BY <1>7 DEF ConfirmButton, renameVars, jobVars
  <2> DEFINE m == [Idle EXCEPT !.key = c.key, !.batch = c.token]
  <2>2. Gets(h, p, "set", m)
    BY <1>7 DEF ConfirmButton
  <2>3. DOMAIN m = Fields
    BY IdleOk DEF HandlerOk
  <2> HIDE DEF m
  <2>4. QED  BY <1>3, <2>1, <2>2, <2>3, GetsFacts
<1>8. QED  BY <1>1, <1>2, <1>4, <1>5, <1>6, <1>7

LEMMA AsideFacts ==
  ASSUME DialogTypes, Aside
  PROVE  /\ hs' = hs /\ sent' \in {sent, sent + 1} /\ sent' \in Ids
         /\ changes' \subseteq changes /\ UNCHANGED <<agreed, batches, job, used>>
         /\ \A k \in Keys : values'[k] \in {values[k], 0}
         /\ \A p \in Places : sessions'[p] \in {sessions[p], 0} /\ (pending'[p] = pending[p] \/ pending'[p] = NoFile \/ pending'[p][1] = p)
         /\ active' <= active /\ active' \in Nat
         /\ \/ declined' = declined
            \/ \E c \in changes : declined' = declined \cup {c.token} /\ changes' = changes \ {c}
         /\ DialogTypes'
<1> USE DEF DialogTypes
<1>1. sent \in Ids /\ active \in Nat
  BY DEF OthersOk
<1>2. /\ Len(batches) \in Nat /\ sessions \in [Places -> 0..Len(batches)]
      /\ pending \in [Places -> Places \X Ids \cup {NoFile}]
  BY BatchFacts DEF BatchesOk
<1>3. ASSUME NEW p \in Places, RenameCommand(p)
      PROVE  /\ UNCHANGED <<hs, input, changes, values, agreed, declined, batches, sessions, active, job, used, wait, asks, scene>>
             /\ sent' = sent + 1 /\ sent' \in Ids
             /\ pending' = [pending EXCEPT ![p] = <<p, sent + 1>>] /\ pending' \in [Places -> Places \X Ids \cup {NoFile}]
  <2>1. /\ UNCHANGED <<hs, input, changes, values, agreed, declined, batches, sessions, active, job, used, wait, asks, scene>>
        /\ sent < MaxUpdates /\ sent' = sent + 1 /\ pending' = [pending EXCEPT ![p] = <<p, sent + 1>>]
    BY <1>3 DEF RenameCommand, settingVars, jobVars, waitVars, Key
  <2>2. sent + 1 \in Ids
    BY <1>1, <2>1, DialogConstants
  <2>3. QED  BY <1>2, <2>1, <2>2
<1>4. ASSUME NEW p \in Places, CancelCommand(p)
      PROVE  /\ UNCHANGED <<hs, input, changes, values, agreed, declined, batches, sessions, pending, job, used, wait, asks, scene>>
             /\ sent' = sent + 1 /\ sent' \in Ids /\ active' <= active /\ active' \in Nat
  <2>1. /\ UNCHANGED <<hs, input, changes, values, agreed, declined, batches, sessions, pending, job, used, wait, asks, scene>>
        /\ sent < MaxUpdates /\ sent' = sent + 1 /\ active' = IF active = 1 THEN 0 ELSE active
    BY <1>4 DEF CancelCommand, settingVars, renameVars, waitVars
  <2>2. sent + 1 \in Ids
    BY <1>1, <2>1, DialogConstants
  <2>3. QED  BY <1>1, <2>1, <2>2
<1>5. ASSUME NEW p \in Places, NEW k \in Keys, EditButton(p, k)
      PROVE  /\ UNCHANGED <<hs, changes, values, agreed, declined, batches, sessions, pending, active, job, used, wait, asks, scene>>
             /\ sent' = sent + 1 /\ sent' \in Ids /\ input' = k
  <2>1. /\ UNCHANGED <<hs, changes, values, agreed, declined, batches, sessions, pending, active, job, used, wait, asks, scene>>
        /\ sent < MaxUpdates /\ sent' = sent + 1 /\ input' = k
    BY <1>5 DEF EditButton, renameVars, jobVars, waitVars
  <2>2. sent + 1 \in Ids
    BY <1>1, <2>1, DialogConstants
  <2>3. QED  BY <2>1, <2>2
<1>5a. ASSUME NEW p \in Places, NEW k \in Keys, ButtonSets(p, k)
       PROVE  /\ UNCHANGED <<hs, input, changes, agreed, declined, batches, sessions, pending, active, job, used, wait, asks, scene>>
              /\ sent' = sent + 1 /\ sent' \in Ids
              /\ values' \in [Keys -> Ids] /\ \A l \in Keys : values'[l] \in {values[l], 0}
  <2>1. /\ UNCHANGED <<hs, input, changes, agreed, declined, batches, sessions, pending, active, job, used, wait, asks, scene>>
        /\ sent < MaxUpdates /\ sent' = sent + 1 /\ values' = [values EXCEPT ![k] = 0]
    BY <1>5a DEF ButtonSets, renameVars, jobVars, waitVars
  <2>2. sent + 1 \in Ids /\ 0 \in Ids
    BY <1>1, <2>1, DialogConstants DEF Ids
  <2>3. values \in [Keys -> Ids]
    BY DEF SettingsOk
  <2>4. QED  BY <2>1, <2>2, <2>3
<1>6. ASSUME NEW p \in Places, NEW c \in changes, RefuseButton(p, c)
      PROVE  /\ UNCHANGED <<hs, input, values, agreed, batches, sessions, pending, active, job, used, wait, asks, scene>>
             /\ sent' = sent + 1 /\ sent' \in Ids
             /\ changes' = changes \ {c} /\ declined' = declined \cup {c.token} /\ declined' \subseteq Ids
  <2>1. /\ UNCHANGED <<hs, input, values, agreed, batches, sessions, pending, active, job, used, wait, asks, scene>>
        /\ sent < MaxUpdates /\ sent' = sent + 1
        /\ changes' = changes \ {c} /\ declined' = declined \cup {c.token}
    BY <1>6 DEF RefuseButton, renameVars, jobVars, waitVars
  <2>2. sent + 1 \in Ids
    BY <1>1, <2>1, DialogConstants
  <2>3. c.token \in Ids /\ declined \subseteq Ids
    BY DEF SettingsOk
  <2>4. QED  BY <2>1, <2>2, <2>3
<1>7. ASSUME NEW p \in Places, Swept(p)
      PROVE  /\ UNCHANGED <<sent, hs, input, changes, values, agreed, declined, batches, active, job, used, wait, asks, scene>>
             /\ sessions' \in [Places -> 0..Len(batches)] /\ pending' \in [Places -> Places \X Ids \cup {NoFile}]
             /\ \A q \in Places : sessions'[q] \in {sessions[q], 0} /\ pending'[q] \in {pending[q], NoFile}
  <2>1. /\ UNCHANGED <<sent, hs, input, changes, values, agreed, declined, batches, active, job, used, wait, asks, scene>>
        /\ sessions' = sessions \/ sessions' = [sessions EXCEPT ![p] = 0]
        /\ pending' = pending \/ pending' = [pending EXCEPT ![p] = NoFile]
    BY <1>7 DEF Swept, settingVars, jobVars, waitVars
  <2>2. 0 \in 0..Len(batches)
    BY <1>2
  <2>3. sessions' \in [Places -> 0..Len(batches)] /\ \A q \in Places : sessions'[q] \in {sessions[q], 0}
    BY <1>2, <2>1, <2>2
  <2>4. pending' \in [Places -> Places \X Ids \cup {NoFile}] /\ \A q \in Places : pending'[q] \in {pending[q], NoFile}
    BY <1>2, <2>1
  <2>5. QED  BY <2>1, <2>3, <2>4
<1>8. ASSUME Expire
      PROVE  /\ UNCHANGED <<sent, hs, values, agreed, declined, batches, sessions, pending, active, job, used, wait, asks, scene>>
             /\ changes' \subseteq changes /\ input' \in {input, ""}
  BY <1>8 DEF Expire, InputExpires, ChangeExpires, renameVars, jobVars, waitVars
<1>9. ASSUME JobEnds
      PROVE  /\ UNCHANGED <<sent, hs, input, changes, values, agreed, declined, batches, sessions, pending, job, used, wait, asks, scene>>
             /\ active' <= active /\ active' \in Nat
  <2>1. /\ UNCHANGED <<sent, hs, input, changes, values, agreed, declined, batches, sessions, pending, job, used, wait, asks, scene>>
        /\ active > 0 /\ active' = active - 1
    BY <1>9 DEF JobEnds, settingVars, renameVars, waitVars
  <2>2. QED  BY <1>1, <2>1
<1>10. ASSUME Extract \/ PasswordTimeout
       PROVE  /\ UNCHANGED <<sent, hs, input, changes, values, agreed, declined, batches, sessions, pending, active, job, used, scene>>
              /\ wait' \in {"off", "asked", "waiting", "got", "over"} /\ asks' \in 0..MaxAsks
  <2>1. /\ UNCHANGED <<sent, hs, input, changes, values, agreed, declined, batches, sessions, pending, active, job, used, scene>>
        /\ wait' \in {"off", "asked", "waiting", "got", "over"}
        /\ asks' = asks \/ (asks < MaxAsks /\ asks' = asks + 1)
    BY <1>10 DEF Extract, Ask, AwaitPassword, TryPassword, PasswordTimeout, settingVars, renameVars, jobVars
  <2>2. asks \in 0..MaxAsks
    BY DEF OthersOk
  <2>3. MaxAsks \in Nat
    BY DialogConstants
  <2>4. asks' \in 0..MaxAsks
    BY <2>1, <2>2, <2>3
  <2>5. QED  BY <2>1, <2>4
<1>11. HandlersOk' /\ hs' = hs
  <2>1. hs' = hs
    BY <1>3, <1>4, <1>5, <1>5a, <1>6, <1>7, <1>8, <1>9, <1>10 DEF Aside, Sweep
  <2>2. QED  BY <2>1 DEF HandlersOk
<1>12. SettingsOk'
  <2>1. /\ changes' \subseteq changes /\ (values' = values \/ values' \in [Keys -> Ids]) /\ agreed' = agreed
        /\ input' \in Keys \cup {input, ""} /\ (declined' = declined \/ declined' \subseteq Ids)
    <3>1. CASE \E p \in Places : RenameCommand(p) \/ CancelCommand(p) \/ Swept(p)
      BY <1>3, <1>4, <1>7, <3>1
    <3>2. CASE \E p \in Places : (\E k \in Keys : EditButton(p, k) \/ ButtonSets(p, k)) \/ \E c \in changes : RefuseButton(p, c)
      BY <1>5, <1>5a, <1>6, <3>2
    <3>3. CASE Expire \/ JobEnds \/ Extract \/ PasswordTimeout
      BY <1>8, <1>9, <1>10, <3>3
    <3>4. QED  BY <3>1, <3>2, <3>3 DEF Aside, Sweep
  <2>2. QED  BY <2>1 DEF SettingsOk
<1>13. /\ batches' = batches
       /\ sessions' \in [Places -> 0..Len(batches)] /\ pending' \in [Places -> Places \X Ids \cup {NoFile}]
       /\ \A p \in Places : sessions'[p] \in {sessions[p], 0} /\ (pending'[p] = pending[p] \/ pending'[p] = NoFile \/ pending'[p][1] = p)
  <2>1. CASE \E p \in Places : RenameCommand(p)
    <3>1. PICK p \in Places : RenameCommand(p)
      BY <2>1
    <3>2. batches' = batches /\ sessions' = sessions /\ pending' \in [Places -> Places \X Ids \cup {NoFile}]
      BY <1>3, <3>1
    <3>3. \A q \in Places : pending'[q] = pending[q] \/ pending'[q][1] = q
      BY <1>2, <1>3, <3>1
    <3>4. QED  BY <1>2, <3>2, <3>3
  <2>2. CASE \E p \in Places : Swept(p)
    BY <1>7, <2>2
  <2>3. CASE UNCHANGED <<batches, sessions, pending>>
    BY <1>2, <2>3
  <2>4. QED  BY <1>4, <1>5, <1>5a, <1>6, <1>8, <1>9, <1>10, <2>1, <2>2, <2>3 DEF Aside, Sweep
<1>14. BatchesOk'
  BY <1>13 DEF BatchesOk
<1>15. /\ scene' = scene /\ sent' \in {sent, sent + 1} /\ sent' \in Ids /\ active' <= active /\ active' \in Nat
       /\ wait' \in {"off", "asked", "waiting", "got", "over"} /\ asks' \in 0..MaxAsks
  <2>1. wait \in {"off", "asked", "waiting", "got", "over"} /\ asks \in 0..MaxAsks
    BY DEF OthersOk
  <2>2. CASE \E p \in Places : RenameCommand(p) \/ CancelCommand(p) \/ Swept(p)
    <3>1. \/ sent' = sent + 1 /\ sent' \in Ids /\ active' = active
          \/ sent' = sent + 1 /\ sent' \in Ids /\ active' <= active /\ active' \in Nat
          \/ sent' = sent /\ active' = active
      BY <1>3, <1>4, <1>7, <2>2
    <3>2. scene' = scene /\ wait' = wait /\ asks' = asks
      BY <1>3, <1>4, <1>7, <2>2
    <3>3. QED  BY <1>1, <2>1, <3>1, <3>2
  <2>3. CASE \E p \in Places : (\E k \in Keys : EditButton(p, k) \/ ButtonSets(p, k)) \/ \E c \in changes : RefuseButton(p, c)
    <3>1. scene' = scene /\ sent' = sent + 1 /\ sent' \in Ids /\ active' = active /\ wait' = wait /\ asks' = asks
      BY <1>5, <1>5a, <1>6, <2>3
    <3>2. QED  BY <1>1, <2>1, <3>1
  <2>4. CASE Expire \/ JobEnds
    <3>1. scene' = scene /\ sent' = sent /\ wait' = wait /\ asks' = asks
      BY <1>8, <1>9, <2>4
    <3>2. active' = active \/ (active' <= active /\ active' \in Nat)
      BY <1>8, <1>9, <2>4
    <3>3. QED  BY <1>1, <2>1, <3>1, <3>2
  <2>6. CASE Extract \/ PasswordTimeout
    <3>1. /\ scene' = scene /\ sent' = sent /\ active' = active
          /\ wait' \in {"off", "asked", "waiting", "got", "over"} /\ asks' \in 0..MaxAsks
      BY <1>10, <2>6
    <3>2. QED  BY <1>1, <3>1
  <2>5. QED  BY <2>2, <2>3, <2>4, <2>6 DEF Aside, Sweep
<1>16. OthersOk'
  BY <1>15 DEF OthersOk
<1>16a. \A k \in Keys : values'[k] \in {values[k], 0}
  BY <1>3, <1>4, <1>5, <1>5a, <1>6, <1>7, <1>8, <1>9, <1>10 DEF Aside, Sweep
<1>17. /\ changes' \subseteq changes /\ UNCHANGED <<agreed, job, used>>
       /\ \/ declined' = declined
          \/ \E c \in changes : declined' = declined \cup {c.token} /\ changes' = changes \ {c}
  <2>1. CASE \E p \in Places, c \in changes : RefuseButton(p, c)
    BY <1>6, <2>1
  <2>2. CASE Aside /\ ~ \E p \in Places, c \in changes : RefuseButton(p, c)
    BY <1>3, <1>4, <1>5, <1>5a, <1>7, <1>8, <1>9, <1>10, <2>2 DEF Aside, Sweep
  <2>3. QED  BY <2>1, <2>2
<1>18. QED  BY <1>11, <1>12, <1>13, <1>14, <1>15, <1>16, <1>16a, <1>17

-----------------------------------------------------------------------------
(* Dialogs: the batches and the place they belong to *)

OwnSessions(B, S) ==
  /\ \A p \in Places : S[p] # 0 => Own(B[S[p]].files, p)
  /\ \A p, q \in Places : S[p] # 0 /\ S[p] = S[q] => p = q

AllCarry == \A h \in Handlers : Carries(hs[h], batches, sessions)

OwnInv ==
  /\ DialogTypes /\ OwnSessions(batches, sessions) /\ AllCarry
  /\ \A p \in Places : pending[p] # NoFile => pending[p][1] = p
  /\ Fits(job.of, job.at)

\* The batches B with sessions S have become C with T: a batch takes only files of the
\* place it is the session of, and a place gets nothing but a new and empty batch.
Grown(B, S, C, T) ==
  /\ Len(B) \in Nat /\ Len(C) \in Nat /\ Len(B) <= Len(C)
  /\ \A m \in 1..Len(B) :
       /\ Len(B[m].files) \in Nat /\ Len(C[m].files) \in Nat /\ Len(B[m].files) <= Len(C[m].files)
       /\ \A p \in Places : Own(B[m].files, p) /\ (\A q \in Places : S[q] = m => q = p) => Own(C[m].files, p)
  /\ \A q \in Places : S[q] \in 0..Len(B)
  /\ \A q \in Places : T[q] \in {S[q], 0} \/ (T[q] = Len(B) + 1 /\ C[Len(B) + 1].files = <<>>)
  /\ \A p, q \in Places : T[p] = Len(B) + 1 /\ T[q] = Len(B) + 1 => p = q

LEMMA GrownCarries ==
  ASSUME NEW r, NEW B, NEW S, NEW C, NEW T, HandlerOk(r), Carries(r, B, S), Grown(B, S, C, T)
  PROVE  Carries(r, C, T)
<1>1. r.at \in Places /\ r.job.lines \in Nat
  BY DEF HandlerOk
<1>2. CASE r.pc \in {"check", "files"}
  <2>1. r.batch \in 1..Len(B) /\ Own(B[r.batch].files, r.at) /\ \A p \in Places : S[p] = r.batch => p = r.at
    BY <1>2 DEF Carries
  <2>2. Len(B) \in Nat /\ Len(C) \in Nat /\ Len(B) <= Len(C)
    BY DEF Grown
  <2>3. r.batch \in 1..Len(C) /\ r.batch \in Nat /\ r.batch # 0 /\ r.batch # Len(B) + 1
    BY <2>1, <2>2
  <2>4. Own(C[r.batch].files, r.at)
    BY <1>1, <2>1 DEF Grown
  <2>5. \A p \in Places : T[p] = r.batch => S[p] = r.batch
    BY <2>3 DEF Grown
  <2>6. Len(B[r.batch].files) \in Nat /\ Len(C[r.batch].files) \in Nat /\ Len(B[r.batch].files) <= Len(C[r.batch].files)
    BY <2>1 DEF Grown
  <2>7. r.pc = "files" => r.job.lines <= Len(C[r.batch].files)
    <3>1. SUFFICES ASSUME r.pc = "files" PROVE r.job.lines <= Len(C[r.batch].files)
      OBVIOUS
    <3>2. r.job.lines <= Len(B[r.batch].files)
      BY <3>1 DEF Carries
    <3>3. QED  BY <1>1, <2>6, <3>2, Transitive
  <2>8. r.pc \notin {"remove", "take", "count", "create"}
    BY <1>2
  <2>9. QED  BY <2>1, <2>3, <2>4, <2>5, <2>7, <2>8 DEF Carries
<1>3. CASE r.pc \notin {"check", "files"}
  BY <1>3 DEF Carries
<1>4. QED  BY <1>2, <1>3

LEMMA GrownOwn ==
  ASSUME NEW B, NEW S, NEW C, NEW T, OwnSessions(B, S), Grown(B, S, C, T)
  PROVE  OwnSessions(C, T)
<1>1. Len(B) \in Nat
  BY DEF Grown
<1>2. ASSUME NEW p \in Places, T[p] # 0
      PROVE  Own(C[T[p]].files, p)
  <2>1. CASE T[p] = S[p]
    <3>1. S[p] \in 1..Len(B)
      <4>1. S[p] \in 0..Len(B)
        BY DEF Grown
      <4>2. QED  BY <1>1, <1>2, <2>1, <4>1
    <3>2. Own(B[S[p]].files, p) /\ \A q \in Places : S[q] = S[p] => q = p
      BY <1>2, <2>1 DEF OwnSessions
    <3>3. Own(C[S[p]].files, p)
      BY <3>1, <3>2 DEF Grown
    <3>4. QED  BY <2>1, <3>3
  <2>2. CASE T[p] = Len(B) + 1 /\ C[Len(B) + 1].files = <<>>
    <3>1. Len(<<>>) = 0
      OBVIOUS
    <3>2. QED  BY <2>2, <3>1 DEF Own
  <2>3. QED  BY <1>2, <2>1, <2>2 DEF Grown
<1>3. ASSUME NEW p \in Places, NEW q \in Places, T[p] # 0, T[p] = T[q]
      PROVE  p = q
  <2>1. S[p] \in 0..Len(B) /\ S[q] \in 0..Len(B)
    BY DEF Grown
  <2>2. S[p] # Len(B) + 1 /\ S[q] # Len(B) + 1
    BY <1>1, <2>1
  <2>3. CASE T[p] = S[p]
    <3>1. T[q] = S[q]
      BY <1>3, <2>2, <2>3 DEF Grown
    <3>2. QED  BY <1>3, <2>3, <3>1 DEF OwnSessions
  <2>4. CASE T[p] = Len(B) + 1
    BY <1>3, <2>4 DEF Grown
  <2>5. QED  BY <1>3, <2>3, <2>4 DEF Grown
<1>4. QED  BY <1>2, <1>3 DEF OwnSessions

LEMMA SameGrown ==
  ASSUME DialogTypes, Len(batches') = Len(batches),
         \A m \in 1..Len(batches) : batches'[m].files = batches[m].files,
         \A p \in Places : sessions'[p] \in {sessions[p], 0}
  PROVE  Grown(batches, sessions, batches', sessions')
<1>1. /\ Len(batches) \in Nat /\ \A m \in 1..Len(batches) : Len(batches[m].files) \in Nat
      /\ \A p \in Places : sessions[p] \in 0..Len(batches)
  BY BatchFacts DEF DialogTypes
<1>2. \A p \in Places : sessions'[p] # Len(batches) + 1
  BY <1>1
<1>3. \A m \in 1..Len(batches) :
        /\ Len(batches[m].files) \in Nat /\ Len(batches'[m].files) \in Nat
        /\ Len(batches[m].files) <= Len(batches'[m].files)
  BY <1>1
<1>4. QED  BY <1>1, <1>2, <1>3 DEF Grown

LEMMA AddGrown ==
  ASSUME DialogTypes, NEW h \in Handlers, AddFile(h)
  PROVE  Grown(batches, sessions, batches', sessions')
<1>1. /\ Len(batches) \in Nat
      /\ \A m \in 1..Len(batches) : batches[m].files \in FilesOf /\ Len(batches[m].files) \in Nat
      /\ \A p \in Places : sessions[p] \in 0..Len(batches)
  BY BatchFacts DEF DialogTypes
<1>2. sessions' = sessions
  BY AddFacts
<1>3. CASE batches' = batches
  BY <1>2, <1>3, SameGrown
<1>4. CASE batches' # batches
  <2>1. PICK b \in 1..Len(batches) :
          /\ b = sessions[hs[h].at] /\ Len(batches') = Len(batches)
          /\ \A m \in 1..Len(batches) \ {b} : batches'[m] = batches[m]
          /\ batches'[b].files = Append(batches[b].files, <<hs[h].at, hs[h].id>>)
    BY <1>4, AddFacts
  <2>2. hs[h].at \in Places /\ hs[h].id \in Ids
    BY DEF DialogTypes, HandlersOk, HandlerOk
  <2> DEFINE f == batches[b].files
             x == <<hs[h].at, hs[h].id>>
             e == batches'[b].files
  <2>3. f \in Seq(Places \X Ids) /\ x \in Places \X Ids /\ e = Append(f, x) /\ x[1] = hs[h].at /\ Len(f) \in Nat
    BY <1>1, <2>1, <2>2 DEF FilesOf
  <2> HIDE DEF f, x, e
  <2>4. Len(e) = Len(f) + 1 /\ e[Len(f) + 1] = x /\ \A n \in 1..Len(f) : e[n] = f[n]
    BY <2>3, AppendProperties
  <2>5. ASSUME NEW p \in Places, Own(f, p), \A q \in Places : sessions[q] = b => q = p
        PROVE  Own(e, p)
    <3>1. hs[h].at = p
      BY <2>1, <2>2, <2>5
    <3>2. SUFFICES ASSUME NEW n \in 1..Len(e) PROVE e[n][1] = p
      BY DEF Own
    <3>3. n \in 1..Len(f) \/ n = Len(f) + 1
      BY <2>3, <2>4
    <3>4. QED  BY <2>3, <2>4, <2>5, <3>1, <3>3 DEF Own
  <2>6. ASSUME NEW m \in 1..Len(batches)
        PROVE  /\ Len(batches[m].files) \in Nat /\ Len(batches'[m].files) \in Nat
               /\ Len(batches[m].files) <= Len(batches'[m].files)
               /\ \A p \in Places : Own(batches[m].files, p) /\ (\A q \in Places : sessions[q] = m => q = p) =>
                    Own(batches'[m].files, p)
    <3>1. CASE m = b
      <4>1. Len(f) \in Nat /\ Len(e) \in Nat /\ Len(f) <= Len(e)
        BY <2>3, <2>4
      <4>2. QED  BY <2>5, <3>1, <4>1 DEF f, e
    <3>2. CASE m # b
      <4>1. batches'[m] = batches[m]
        BY <2>1, <3>2
      <4>2. Len(batches[m].files) \in Nat
        BY <1>1
      <4>3. QED  BY <4>1, <4>2
    <3>3. QED  BY <3>1, <3>2
  <2>7. Len(batches') \in Nat /\ Len(batches) <= Len(batches')
    <3>1. Len(batches') = Len(batches) /\ Len(batches) \in Nat
      BY <1>1, <2>1
    <3>2. QED  BY <3>1
  <2>8. \A p \in Places : sessions'[p] = sessions[p] /\ sessions'[p] # Len(batches) + 1
    BY <1>1, <1>2
  <2>9. QED  BY <1>1, <2>6, <2>7, <2>8 DEF Grown
<1>5. QED  BY <1>3, <1>4

LEMMA StartGrown ==
  ASSUME DialogTypes, NEW h \in Handlers, BatchStart(h)
  PROVE  Grown(batches, sessions, batches', sessions')
<1>1. /\ Len(batches) \in Nat
      /\ \A m \in 1..Len(batches) : Len(batches[m].files) \in Nat
      /\ \A p \in Places : sessions[p] \in 0..Len(batches)
  BY BatchFacts DEF DialogTypes
<1>2. /\ sessions' = [sessions EXCEPT ![hs[h].at] = Len(batches) + 1]
      /\ Len(batches') = Len(batches) + 1 /\ batches'[Len(batches) + 1].files = <<>>
      /\ \A m \in 1..Len(batches) : batches'[m] = batches[m]
  BY StartFacts
<1>3. hs[h].at \in Places /\ DOMAIN sessions = Places
  BY DEF DialogTypes, HandlersOk, HandlerOk, BatchesOk
<1>4. sessions'[hs[h].at] = Len(batches) + 1 /\ \A p \in Places \ {hs[h].at} : sessions'[p] = sessions[p]
  BY <1>2, <1>3
<1>5. \A p \in Places \ {hs[h].at} : sessions'[p] # Len(batches) + 1
  BY <1>1, <1>4
<1>6. \A m \in 1..Len(batches) :
        /\ Len(batches[m].files) \in Nat /\ Len(batches'[m].files) \in Nat
        /\ Len(batches[m].files) <= Len(batches'[m].files)
  BY <1>1, <1>2
<1>7. Len(batches') \in Nat /\ Len(batches) <= Len(batches')
  BY <1>1, <1>2
<1>8. \A q \in Places : sessions'[q] \in {sessions[q], 0} \/ (sessions'[q] = Len(batches) + 1 /\ batches'[Len(batches) + 1].files = <<>>)
  BY <1>2, <1>4
<1>9. \A p, q \in Places : sessions'[p] = Len(batches) + 1 /\ sessions'[q] = Len(batches) + 1 => p = q
  BY <1>5
<1>10. \A m \in 1..Len(batches), p \in Places : Own(batches[m].files, p) => Own(batches'[m].files, p)
  BY <1>2
<1>11. QED  BY <1>1, <1>6, <1>7, <1>8, <1>9, <1>10 DEF Grown

LEMMA HandleGrown ==
  ASSUME DialogTypes, NEW h \in Handlers, Handle(h)
  PROVE  Grown(batches, sessions, batches', sessions')
<1>1. CASE AddFile(h)
  BY <1>1, AddGrown
<1>2. CASE BatchStart(h)
  BY <1>2, StartGrown
<1>3. CASE NamesSet(h)
  BY <1>3, NamesFacts, SameGrown
<1>4. CASE SessionRemove(h)
  <2>1. batches' = batches /\ sessions' = [sessions EXCEPT ![hs[h].at] = 0]
    BY <1>4 DEF SessionRemove, Key
  <2>2. \A p \in Places : sessions'[p] \in {sessions[p], 0}
    BY <2>1 DEF DialogTypes, BatchesOk
  <2>3. QED  BY <2>1, <2>2, SameGrown
<1>5. CASE UNCHANGED <<batches, sessions>>
  BY <1>5, SameGrown
<1>6. QED
  BY <1>1, <1>2, <1>3, <1>4, <1>5 DEF Handle, InputGet, InputClear, InputValue, ConfirmedSet, Media, Password,
     SingleGet, SingleRemove, NamesGet, ApplyCheck, ApplyFiles, EnqueueCount, EnqueueCreate, renameVars

LEMMA InitOwn == DialogsInit => OwnInv
<1> SUFFICES ASSUME DialogsInit PROVE OwnInv
  OBVIOUS
<1>1. DialogTypes
  BY InitTyped
<1>2. /\ sessions = [p \in Places |-> 0] /\ pending = [p \in Places |-> NoFile]
      /\ job = [at |-> Idle.at, of |-> NoJob] /\ hs = [h \in Handlers |-> Idle]
  BY DEF DialogsInit
<1>3. OwnSessions(batches, sessions) /\ \A p \in Places : pending[p] = NoFile
  BY <1>2 DEF OwnSessions
<1>4. AllCarry
  BY <1>2, IdleOk DEF AllCarry, Carries
<1>5. Fits(job.of, job.at)
  <2>1. job.of = NoJob
    BY <1>2
  <2>2. job.of.files = <<>> /\ job.of.lines = 0 /\ Len(<<>>) = 0
    BY <2>1, IdleOk
  <2>3. QED  BY <2>2 DEF Fits, Own
<1>6. QED  BY <1>1, <1>3, <1>4, <1>5 DEF OwnInv

\* What the handler of the step carries after it.
LEMMA HandleCarries ==
  ASSUME OwnInv, NEW h \in Handlers, Handle(h)
  PROVE  Carries(hs'[h], batches', sessions')
<1> USE DEF OwnInv
<1>1. HandlersOk /\ HandlerOk(hs[h]) /\ Carries(hs[h], batches, sessions) /\ hs[h].at \in Places
  BY DEF DialogTypes, HandlersOk, HandlerOk, AllCarry
<1>2. Grown(batches, sessions, batches', sessions')
  BY HandleGrown
<1>3. ASSUME Done(h)
      PROVE  Carries(hs'[h], batches', sessions')
  <2>1. hs'[h].pc = "idle"
    BY <1>1, <1>3, DoneFacts, IdleOk
  <2>2. QED  BY <2>1 DEF Carries
<1>4. ASSUME NEW pc \in {"media", "value", "add", "password", "single", "names", "preview"}, Goes(h, pc)
      PROVE  Carries(hs'[h], batches', sessions')
  <2>1. hs'[h].pc = pc
    BY <1>1, <1>4, GoesFacts
  <2>2. QED  BY <2>1 DEF Carries
<1>5. ASSUME NEW pc \in {"count", "create"}, Goes(h, pc), hs[h].pc \in {"remove", "take", "count"}
      PROVE  Carries(hs'[h], batches', sessions')
  <2>1. hs'[h].pc = pc /\ hs'[h].at = hs[h].at /\ hs'[h].job = hs[h].job
    BY <1>1, <1>5, GoesFacts
  <2>2. Fits(hs[h].job, hs[h].at)
    BY <1>1, <1>5 DEF Carries
  <2>3. QED  BY <2>1, <2>2 DEF Carries
<1>6. CASE InputGet(h) /\ input # ""
  <2>1. DOMAIN hs = Handlers /\ DOMAIN hs[h] = Fields
    BY <1>1 DEF HandlersOk, HandlerOk
  <2>2. hs' = [hs EXCEPT ![h] = [hs[h] EXCEPT !.pc = "clear", !.key = input]]
    BY <1>6 DEF InputGet
  <2>3. hs'[h].pc = "clear"
    BY <2>1, <2>2 DEF Fields
  <2>4. QED  BY <2>3 DEF Carries
<1>7. CASE \/ (InputGet(h) /\ input = "") \/ InputClear(h) \/ InputValue(h) \/ ConfirmedSet(h)
           \/ Media(h) \/ AddFile(h) \/ Password(h) \/ NamesGet(h) \/ NamesSet(h) \/ BatchStart(h)
  <2>1. Done(h) \/ \E pc \in {"media", "value", "add", "password", "single", "names", "preview"} : Goes(h, pc)
    BY <1>7 DEF InputGet, InputClear, InputValue, ConfirmedSet, Media, AddFile, Password, NamesGet, NamesSet, BatchStart
  <2>2. QED  BY <1>3, <1>4, <2>1
<1>8. CASE SingleRemove(h) \/ SessionRemove(h) \/ EnqueueCount(h) \/ EnqueueCreate(h)
  <2>1. Done(h) \/ (hs[h].pc \in {"remove", "take", "count"} /\ \E pc \in {"count", "create"} : Goes(h, pc))
    BY <1>8 DEF SingleRemove, SessionRemove, EnqueueCount, EnqueueCreate
  <2>2. QED  BY <1>3, <1>5, <2>1
<1>9. CASE SingleGet(h)
  <2>1. \/ hs'[h] = Idle \/ hs'[h].pc = "names"
        \/ /\ hs'[h].pc = "take" /\ hs'[h].at = hs[h].at /\ pending[hs[h].at] # NoFile
           /\ hs'[h].job.files = <<pending[hs[h].at]>> /\ hs'[h].job.lines = 0
    BY <1>9, SingleMoves
  <2>2. CASE hs'[h] = Idle \/ hs'[h].pc = "names"
    BY <2>2, IdleOk DEF Carries
  <2>3. CASE /\ hs'[h].pc = "take" /\ hs'[h].at = hs[h].at /\ pending[hs[h].at] # NoFile
             /\ hs'[h].job.files = <<pending[hs[h].at]>> /\ hs'[h].job.lines = 0
    <3>1. pending[hs[h].at][1] = hs[h].at
      BY <1>1, <2>3
    <3> DEFINE f == pending[hs[h].at]
    <3>2. Len(<<f>>) = 1 /\ <<f>>[1] = f
      OBVIOUS
    <3>3. Own(<<f>>, hs[h].at)
      <4>1. \A n \in 1..Len(<<f>>) : n = 1
        BY <3>2
      <4>2. QED  BY <3>1, <3>2, <4>1 DEF Own
    <3>4. hs'[h].job.lines <= Len(<<f>>)
      BY <2>3, <3>2
    <3>5. Fits(hs'[h].job, hs'[h].at)
      BY <2>3, <3>3, <3>4 DEF Fits
    <3>6. QED  BY <2>3, <3>5 DEF Carries
  <2>4. QED  BY <2>1, <2>2, <2>3
<1>10. CASE ApplyCheck(h)
  <2>1. hs[h].pc = "check" /\ UNCHANGED <<batches, sessions>>
    BY <1>10 DEF ApplyCheck, renameVars
  <2>2. /\ hs[h].batch \in 1..Len(batches) /\ Own(batches[hs[h].batch].files, hs[h].at)
        /\ \A p \in Places : sessions[p] = hs[h].batch => p = hs[h].at
    BY <1>1, <2>1 DEF Carries
  <2>3. \/ hs'[h] = Idle
        \/ /\ hs'[h].pc = "files" /\ hs'[h].at = hs[h].at /\ hs'[h].batch = hs[h].batch
           /\ hs'[h].job.lines = Len(batches[hs[h].batch].files)
    BY <1>10, <2>2, ApplyMoves
  <2>4. CASE hs'[h] = Idle
    BY <2>4, IdleOk DEF Carries
  <2>5. CASE hs'[h].pc = "files" /\ hs'[h].at = hs[h].at /\ hs'[h].batch = hs[h].batch
             /\ hs'[h].job.lines = Len(batches[hs[h].batch].files)
    <3>1. Len(batches[hs[h].batch].files) \in Nat
      BY <2>2, BatchFacts DEF DialogTypes
    <3>2. hs'[h].job.lines <= Len(batches[hs[h].batch].files)
      BY <2>5, <3>1
    <3>3. QED  BY <2>1, <2>2, <2>5, <3>2 DEF Carries
  <2>6. QED  BY <2>3, <2>4, <2>5
<1>11. CASE ApplyFiles(h)
  <2>1. hs[h].pc = "files"
    BY <1>11 DEF ApplyFiles
  <2>2. /\ hs[h].batch \in 1..Len(batches) /\ Own(batches[hs[h].batch].files, hs[h].at)
        /\ hs[h].job.lines <= Len(batches[hs[h].batch].files)
    BY <1>1, <2>1 DEF Carries
  <2>3. /\ hs'[h].pc = "remove" /\ hs'[h].at = hs[h].at
        /\ hs'[h].job.files = batches[hs[h].batch].files /\ hs'[h].job.lines = hs[h].job.lines
    BY <1>11, <2>2, FilesMoves
  <2>4. Fits(hs'[h].job, hs'[h].at)
    BY <2>2, <2>3 DEF Fits
  <2>5. QED  BY <2>3, <2>4 DEF Carries
<1>12. QED
  BY <1>6, <1>7, <1>8, <1>9, <1>10, <1>11 DEF Handle

LEMMA HandleOwn ==
  ASSUME OwnInv, NEW h \in Handlers, Handle(h)
  PROVE  OwnInv'
<1> USE DEF OwnInv
<1>1. Carries(hs[h], batches, sessions)
  BY DEF AllCarry
<1>2. Moved(h) /\ DialogTypes'
  BY <1>1, HandleMoves, HandleTypes
<1>3. Grown(batches, sessions, batches', sessions')
  BY HandleGrown
<1>4. OwnSessions(batches', sessions')
  BY <1>3, GrownOwn
<1>5. ASSUME NEW g \in Handlers
      PROVE  Carries(hs'[g], batches', sessions')
  <2>1. CASE g = h
    BY <2>1, HandleCarries
  <2>2. CASE g # h
    <3>1. hs'[g] = hs[g]
      BY <1>2, <2>2 DEF Moved
    <3>2. Carries(hs[g], batches, sessions) /\ HandlerOk(hs[g])
      BY DEF AllCarry, DialogTypes, HandlersOk
    <3>3. QED  BY <1>3, <3>1, <3>2, GrownCarries
  <2>3. QED  BY <2>1, <2>2
<1>6. \A p \in Places : pending'[p] # NoFile => pending'[p][1] = p
  <2>1. pending' = pending \/ pending' = [pending EXCEPT ![hs[h].at] = NoFile]
    <3>1. CASE AddFile(h) \/ NamesSet(h) \/ BatchStart(h)
      BY <3>1 DEF AddFile, NamesSet, BatchStart
    <3>2. CASE SingleRemove(h) \/ SessionRemove(h)
      BY <3>2 DEF SingleRemove, SessionRemove, Key
    <3>3. QED
      BY <3>1, <3>2 DEF Handle, InputGet, InputClear, InputValue, ConfirmedSet, Media, Password,
         SingleGet, NamesGet, ApplyCheck, ApplyFiles, EnqueueCount, EnqueueCreate, renameVars
  <2>2. QED  BY <2>1 DEF DialogTypes, BatchesOk
<1>7. Fits(job'.of, job'.at)
  <2>1. CASE EnqueueCreate(h)
    <3>1. hs[h].pc = "create" /\ job' = [at |-> hs[h].at, of |-> hs[h].job]
      BY <2>1 DEF EnqueueCreate
    <3>2. Fits(hs[h].job, hs[h].at)
      BY <1>1, <3>1 DEF Carries
    <3>3. job'.of = hs[h].job /\ job'.at = hs[h].at
      BY <3>1
    <3>4. QED  BY <3>2, <3>3
  <2>2. CASE job' = job
    BY <2>2
  <2>3. QED
    BY <2>1, <2>2 DEF Handle, InputGet, InputClear, InputValue, ConfirmedSet, Media, AddFile, Password,
       SingleGet, SingleRemove, NamesGet, NamesSet, BatchStart, ApplyCheck, ApplyFiles, SessionRemove,
       EnqueueCount, jobVars
<1>8. AllCarry'
  BY <1>5 DEF AllCarry
<1>9. QED  BY <1>2, <1>4, <1>6, <1>7, <1>8

LEMMA StartedCarries ==
  ASSUME OwnInv, NEW h \in Handlers, Started(h)
  PROVE  Carries(hs'[h], batches, sessions)
<1> USE DEF OwnInv
<1>1. HandlersOk /\ DOMAIN Idle = Fields /\ Idle.lines = 0
  BY IdleOk DEF DialogTypes, HandlerOk
<1>2. PICK p \in Places :
        \/ \E text, file, reply \in BOOLEAN, lines \in Nat : Message(h, p, text, file, reply, lines)
        \/ RenameNow(h, p)
        \/ BatchCommand(h, p)
        \/ \E c \in changes : ConfirmButton(h, p, c)
        \/ \E pc \in {"check", "drop"} : BatchButton(h, p, pc)
  BY DEF Started
<1>3. ASSUME NEW pc \in {"input", "media", "start", "set", "drop"}, NEW m, DOMAIN m = Fields, Gets(h, p, pc, m)
      PROVE  Carries(hs'[h], batches, sessions)
  <2>1. hs'[h].pc = pc
    BY <1>1, <1>3, GetsFacts
  <2>2. QED  BY <2>1 DEF Carries
<1>4. ASSUME NEW text \in BOOLEAN, NEW file \in BOOLEAN, NEW reply \in BOOLEAN, NEW lines \in Nat,
             Message(h, p, text, file, reply, lines)
      PROVE  Carries(hs'[h], batches, sessions)
  <2> DEFINE m == [Idle EXCEPT !.text = text, !.file = file, !.reply = reply, !.lines = lines]
             pc == IF p \in Private /\ text THEN "input" ELSE "media"
  <2>1. Gets(h, p, pc, m) /\ pc \in {"input", "media"} /\ DOMAIN m = Fields
    BY <1>1, <1>4 DEF Message
  <2> HIDE DEF m, pc
  <2>2. QED  BY <1>3, <2>1
<1>5. CASE RenameNow(h, p)
  <2> DEFINE j == [files |-> <<<<p, sent + 1>>>>, names |-> sent + 1, lines |-> 0]
             m == [Idle EXCEPT !.job = j]
             x == <<p, sent + 1>>
  <2>1. Gets(h, p, "count", m) /\ DOMAIN m = Fields /\ m.job = j
    BY <1>1, <1>5 DEF RenameNow, Fields
  <2>2. j.files = <<x>> /\ j.lines = 0 /\ x[1] = p
    OBVIOUS
  <2> HIDE DEF m, j, x
  <2>3. hs'[h].pc = "count" /\ hs'[h].at = p /\ hs'[h].job = j
    BY <1>1, <2>1, GetsFacts
  <2>4. Len(<<x>>) = 1 /\ <<x>>[1] = x
    OBVIOUS
  <2>5. Own(<<x>>, p)
    <3>1. \A n \in 1..Len(<<x>>) : n = 1
      BY <2>4
    <3>2. QED  BY <2>2, <2>4, <3>1 DEF Own
  <2>6. j.lines <= Len(<<x>>)
    BY <2>2, <2>4
  <2>7. Fits(j, p)
    BY <2>2, <2>5, <2>6 DEF Fits
  <2>8. QED  BY <2>3, <2>7 DEF Carries
<1>6. CASE BatchCommand(h, p)
  BY <1>1, <1>3, <1>6 DEF BatchCommand
<1>7. ASSUME NEW c \in changes, ConfirmButton(h, p, c)
      PROVE  Carries(hs'[h], batches, sessions)
  <2> DEFINE m == [Idle EXCEPT !.key = c.key, !.batch = c.token]
  <2>1. Gets(h, p, "set", m) /\ DOMAIN m = Fields
    BY <1>1, <1>7 DEF ConfirmButton
  <2> HIDE DEF m
  <2>2. QED  BY <1>3, <2>1
<1>8. CASE BatchButton(h, p, "drop")
  <2> DEFINE m == [Idle EXCEPT !.batch = sessions[Key(p)]]
  <2>1. Gets(h, p, "drop", m) /\ DOMAIN m = Fields
    BY <1>1, <1>8 DEF BatchButton
  <2> HIDE DEF m
  <2>2. QED  BY <1>3, <2>1
<1>9. CASE BatchButton(h, p, "check")
  <2> DEFINE m == [Idle EXCEPT !.batch = sessions[p]]
  <2>1. sessions[p] # 0 /\ Gets(h, p, "check", m) /\ DOMAIN m = Fields /\ m.batch = sessions[p]
    BY <1>1, <1>9 DEF BatchButton, Fields, Key
  <2> HIDE DEF m
  <2>2. hs'[h].pc = "check" /\ hs'[h].at = p /\ hs'[h].batch = sessions[p]
    BY <1>1, <2>1, GetsFacts
  <2>3. sessions[p] \in 0..Len(batches) /\ Len(batches) \in Nat
    BY BatchFacts DEF DialogTypes
  <2>4. sessions[p] \in 1..Len(batches)
    BY <2>1, <2>3
  <2>5. Own(batches[sessions[p]].files, p) /\ \A q \in Places : sessions[q] = sessions[p] => q = p
    BY <2>1 DEF OwnSessions
  <2>6. QED  BY <2>2, <2>4, <2>5 DEF Carries
<1>10. QED  BY <1>2, <1>4, <1>5, <1>6, <1>7, <1>8, <1>9

LEMMA StartedTypes ==
  ASSUME DialogTypes, NEW h \in Handlers, Started(h)
  PROVE  DialogTypes'
<1>1. /\ HandlersOk' /\ OthersOk' /\ changes' \subseteq changes
      /\ UNCHANGED <<input, values, agreed, declined, batches, sessions, pending>>
  BY StartedFacts
<1>2. SettingsOk'
  BY <1>1 DEF DialogTypes, SettingsOk
<1>3. BatchesOk'
  BY <1>1 DEF DialogTypes, BatchesOk
<1>4. QED  BY <1>1, <1>2, <1>3 DEF DialogTypes

LEMMA StartedOwn ==
  ASSUME OwnInv, NEW h \in Handlers, Started(h)
  PROVE  OwnInv'
<1> USE DEF OwnInv
<1>1. /\ \A g \in Handlers \ {h} : hs'[g] = hs[g]
      /\ UNCHANGED <<batches, sessions, pending, job>>
  BY StartedFacts
<1>2. DialogTypes'
  BY StartedTypes
<1>3. \A g \in Handlers : Carries(hs'[g], batches, sessions)
  BY <1>1, StartedCarries DEF AllCarry
<1>4. AllCarry'
  BY <1>1, <1>3 DEF AllCarry
<1>5. QED  BY <1>1, <1>2, <1>4

LEMMA AsideOwn ==
  ASSUME OwnInv, Aside
  PROVE  OwnInv'
<1> USE DEF OwnInv
<1>1. /\ hs' = hs /\ batches' = batches /\ job' = job /\ DialogTypes'
      /\ \A p \in Places : sessions'[p] \in {sessions[p], 0}
      /\ \A p \in Places : pending'[p] = pending[p] \/ pending'[p] = NoFile \/ pending'[p][1] = p
  BY AsideFacts
<1>2. Grown(batches, sessions, batches', sessions')
  BY <1>1, SameGrown
<1>3. OwnSessions(batches', sessions')
  BY <1>2, GrownOwn
<1>4. \A g \in Handlers : Carries(hs'[g], batches', sessions')
  <2>1. SUFFICES ASSUME NEW g \in Handlers PROVE Carries(hs'[g], batches', sessions')
    OBVIOUS
  <2>2. Carries(hs[g], batches, sessions) /\ HandlerOk(hs[g])
    BY DEF AllCarry, DialogTypes, HandlersOk
  <2>3. QED  BY <1>1, <1>2, <2>2, GrownCarries
<1>5. \A p \in Places : pending'[p] # NoFile => pending'[p][1] = p
  BY <1>1
<1>6. QED  BY <1>1, <1>3, <1>4, <1>5 DEF AllCarry

LEMMA NextOwn == OwnInv /\ [DialogsNext]_dialogVars => OwnInv'
<1> SUFFICES ASSUME OwnInv, [DialogsNext]_dialogVars PROVE OwnInv'
  OBVIOUS
<1>1. CASE UNCHANGED dialogVars
  BY <1>1 DEF dialogVars, settingVars, renameVars, jobVars, waitVars, OwnInv, AllCarry, DialogTypes,
     HandlersOk, SettingsOk, BatchesOk, OthersOk
<1>2. CASE DialogsNext
  <2>1. Aside \/ \E h \in Handlers : Started(h) \/ Handle(h)
    BY <1>2, NextCases DEF OwnInv
  <2>2. QED  BY <2>1, AsideOwn, StartedOwn, HandleOwn
<1>3. QED  BY <1>1, <1>2

\* Whatever updates of any chats and users are handled at the same time, a rename job has
\* only files of its own chat and user and a file for every name
\* (rename_session.go:15-18, cmd_rename.go:152 and 209-246).
THEOREM RenamesStayInPlace == DialogsSpec => []RenamesWhatWasSent
<1>1. OwnInv => RenamesWhatWasSent
  BY DialogTypesGive DEF OwnInv, RenamesWhatWasSent, Fits, Own
<1>2. QED  BY <1>1, InitOwn, NextOwn, PTL DEF DialogsSpec

-----------------------------------------------------------------------------
(* The limit on jobs *)

Creating == {h \in Handlers : hs[h].pc = "create"}
RoomLeft == active + Cardinality(Creating) <= MaxJobs + Cardinality(Handlers) - 1

RoomInv == OwnInv /\ RoomLeft

LEMMA CreatingFacts ==
  /\ IsFiniteSet(Creating) /\ Cardinality(Creating) \in Nat /\ Cardinality(Creating) <= Cardinality(Handlers)
  /\ Cardinality(Handlers) \in Nat
<1>1. Creating \subseteq Handlers
  BY DEF Creating
<1>2. QED  BY <1>1, DialogConstants, FS_Subset, FS_CardinalityType

LEMMA InitRoom == DialogsInit => RoomInv
<1> SUFFICES ASSUME DialogsInit PROVE RoomInv
  OBVIOUS
<1>1. active = 0 /\ hs = [h \in Handlers |-> Idle]
  BY DEF DialogsInit
<1>2. Creating = {}
  BY <1>1, IdleOk DEF Creating
<1>3. Cardinality(Creating) = 0
  BY <1>2, FS_EmptySet
<1>4. MaxJobs \in Nat \ {0}
  BY DialogConstants
<1>5. Cardinality(Handlers) \in Nat
  BY CreatingFacts
<1>6. RoomLeft
  BY <1>1, <1>3, <1>4, <1>5 DEF RoomLeft
<1>7. QED  BY <1>6, InitOwn DEF RoomInv

LEMMA LessRoom ==
  ASSUME NEW a \in Nat, NEW b \in Nat, NEW n \in Nat, NEW m \in Nat, NEW k \in Nat, NEW j \in Nat,
         b <= a, m <= n, a + n <= j + k - 1
  PROVE  b + m <= j + k - 1
OBVIOUS

\* Nobody is let in and no job is added.
LEMMA RoomStays ==
  ASSUME RoomLeft, active \in Nat, active' \in Nat, active' <= active, Creating' \subseteq Creating
  PROVE  RoomLeft'
<1> DEFINE n == Cardinality(Creating)
           m == Cardinality(Creating')
           k == Cardinality(Handlers)
<1>1. n \in Nat /\ m \in Nat /\ m <= n /\ k \in Nat
  BY CreatingFacts, FS_Subset, FS_CardinalityType
<1>2. MaxJobs \in Nat
  BY DialogConstants
<1>3. active + n <= MaxJobs + k - 1
  BY DEF RoomLeft
<1> HIDE DEF n, m, k
<1>4. active' + m <= MaxJobs + k - 1
  BY <1>1, <1>2, <1>3, LessRoom
<1>5. QED  BY <1>4 DEF RoomLeft, m, k

LEMMA NextRoom == RoomInv /\ [DialogsNext]_dialogVars => RoomInv'
<1> SUFFICES ASSUME RoomInv, [DialogsNext]_dialogVars PROVE RoomInv'
  OBVIOUS
<1> USE DEF RoomInv
<1>1. OwnInv'
  BY NextOwn
<1>2. DialogTypes /\ active \in Nat
  BY DEF OwnInv, DialogTypes, OthersOk
<1>3. active' \in Nat
  BY <1>1 DEF OwnInv, DialogTypes, OthersOk
<1>4. CASE UNCHANGED dialogVars
  <2>1. hs' = hs /\ active' = active
    BY <1>4 DEF dialogVars, jobVars
  <2>2. Creating' \subseteq Creating /\ active' <= active
    BY <1>2, <2>1 DEF Creating
  <2>3. QED  BY <1>1, <1>2, <1>3, <2>2, RoomStays
<1>5. CASE Aside
  <2>1. hs' = hs /\ active' <= active
    BY <1>2, <1>5, AsideFacts
  <2>2. Creating' \subseteq Creating
    BY <2>1 DEF Creating
  <2>3. QED  BY <1>1, <1>2, <1>3, <2>1, <2>2, RoomStays
<1>6. ASSUME NEW h \in Handlers, Started(h)
      PROVE  RoomInv'
  <2>1. /\ active' = active /\ \A g \in Handlers \ {h} : hs'[g] = hs[g]
        /\ hs'[h].pc \in {"input", "media", "count", "start", "set", "check", "drop"}
    BY <1>2, <1>6, StartedFacts
  <2>2. Creating' \subseteq Creating
    BY <2>1 DEF Creating
  <2>3. active' <= active
    BY <1>2, <2>1
  <2>4. QED  BY <1>1, <1>2, <1>3, <2>2, <2>3, RoomStays
<1>7. ASSUME NEW h \in Handlers, Handle(h)
      PROVE  RoomInv'
  <2>1. Moved(h)
    BY <1>7, HandleMoves DEF OwnInv, AllCarry
  <2>2. \A g \in Handlers \ {h} : hs'[g] = hs[g]
    BY <2>1 DEF Moved
  <2>3. active' = active \/ EnqueueCreate(h)
    BY <1>7 DEF Handle, InputGet, InputClear, InputValue, ConfirmedSet, Media, AddFile, Password,
       SingleGet, SingleRemove, NamesGet, NamesSet, BatchStart, ApplyCheck, ApplyFiles, SessionRemove,
       EnqueueCount, jobVars
  <2>4. CASE EnqueueCreate(h)
    <3>1. hs[h].pc = "create" /\ Done(h) /\ active' = active + 1
      BY <2>4 DEF EnqueueCreate
    <3>2. hs'[h].pc = "idle"
      BY <1>2, <3>1, DoneFacts, IdleOk DEF DialogTypes
    <3>3. h \in Creating /\ Creating' = Creating \ {h}
      BY <2>2, <3>1, <3>2 DEF Creating
    <3> DEFINE n == Cardinality(Creating)
               m == Cardinality(Creating')
               k == Cardinality(Handlers)
    <3>4. n \in Nat /\ k \in Nat /\ m = n - 1
      BY <3>3, CreatingFacts, FS_RemoveElement
    <3>5. active + n <= MaxJobs + k - 1
      BY DEF RoomLeft
    <3>6. MaxJobs \in Nat
      BY DialogConstants
    <3> HIDE DEF n, m, k
    <3>7. active' + m <= MaxJobs + k - 1
      BY <1>2, <3>1, <3>4, <3>5, <3>6
    <3>8. QED  BY <1>1, <3>7 DEF RoomLeft, m, k
  <2>5. CASE active' = active /\ hs'[h].pc = "create"
    <3>1. active < MaxJobs
      <4>1. hs'[h] # Idle
        BY <2>5, IdleOk
      <4>2. QED  BY <2>1, <2>5, <4>1 DEF Moved
    <3> DEFINE m == Cardinality(Creating')
               k == Cardinality(Handlers)
    <3>2. Creating' \subseteq Handlers
      BY DEF Creating
    <3>3. m \in Nat /\ m <= k /\ k \in Nat
      BY <3>2, DialogConstants, FS_Subset, FS_CardinalityType
    <3>4. MaxJobs \in Nat
      BY DialogConstants
    <3> HIDE DEF m, k
    <3>5. active' + m <= MaxJobs + k - 1
      BY <1>2, <2>5, <3>1, <3>3, <3>4
    <3>6. QED  BY <1>1, <3>5 DEF RoomLeft, m, k
  <2>6. CASE active' = active /\ hs'[h].pc # "create"
    <3>1. Creating' \subseteq Creating
      BY <2>2, <2>6 DEF Creating
    <3>2. active' <= active
      BY <1>2, <2>6
    <3>3. QED  BY <1>1, <1>2, <1>3, <3>1, <3>2, RoomStays
  <2>7. QED  BY <2>3, <2>4, <2>5, <2>6
<1>8. QED  BY <1>2, <1>4, <1>5, <1>6, <1>7, NextCases

\* A chat never has more jobs than the limit and one for each further handler that
\* counted them at the same time (app.go:694-709), for any limit and any handlers.
THEOREM LimitHolds == DialogsSpec => []JobsBounded
<1>1. RoomInv => JobsBounded
  <2> SUFFICES ASSUME RoomInv PROVE JobsBounded
    OBVIOUS
  <2> DEFINE n == Cardinality(Creating)
             k == Cardinality(Handlers)
  <2>1. n \in Nat /\ k \in Nat
    BY CreatingFacts
  <2>2. active \in Nat /\ active + n <= MaxJobs + k - 1
    BY DEF RoomInv, RoomLeft, OwnInv, DialogTypes, OthersOk
  <2>3. MaxJobs \in Nat
    BY DialogConstants
  <2> HIDE DEF n, k
  <2>4. active <= MaxJobs + k - 1
    BY <2>1, <2>2, <2>3
  <2>5. QED  BY <2>4 DEF JobsBounded, k
<1>2. QED  BY <1>1, InitRoom, NextRoom, PTL DEF DialogsSpec

-----------------------------------------------------------------------------
(* Tokens and texts *)

Live(h) == hs[h].pc # "idle"
Setting(h) == hs[h].pc = "set"

\* Whoever handles an update has its number, and nobody else has.
Numbered ==
  /\ \A h \in Handlers : Live(h) => hs[h].id \in 1..sent
  /\ \A g, h \in Handlers : g # h /\ Live(g) /\ Live(h) => hs[g].id # hs[h].id

\* A token is on a card, with the handler of its "Confirm", or spent; and no update
\* that is still handled has its number.
Spent == DOMAIN agreed \cup declined
SpentOld == \A t \in Spent : t <= sent
CardsApart == \A c \in changes : c.token <= sent /\ c.token \notin Spent
CardsDiffer == \A c, d \in changes : c.token = d.token => c = d
SetApart == \A h \in Handlers : Setting(h) =>
  hs[h].batch <= sent /\ hs[h].batch \notin Spent /\ \A c \in changes : c.token # hs[h].batch
SetsDiffer == \A g, h \in Handlers : g # h /\ Setting(g) /\ Setting(h) => hs[g].batch # hs[h].batch
LiveApart == \A h \in Handlers : Live(h) =>
  /\ hs[h].id \notin Spent
  /\ \A c \in changes : c.token # hs[h].id
  /\ \A g \in Handlers : Setting(g) => hs[g].batch # hs[h].id

TokensApart == SpentOld /\ CardsApart /\ CardsDiffer /\ SetApart /\ SetsDiffer /\ LiveApart

Chosen ==
  /\ \A t \in DOMAIN agreed : agreed[t] = 1 /\ t \notin declined
  /\ \A k \in Dangerous : values[k] \in DOMAIN agreed \cup {0}

OneUse ==
  /\ used.id \in 0..sent /\ \E w : used.as \subseteq {w}
  /\ \A h \in Handlers : hs[h].pc \in Early => hs[h].id # used.id

TokenInv == OwnInv /\ Numbered /\ TokensApart /\ Chosen /\ OneUse

LEMMA SentFacts ==
  ASSUME DialogTypes
  PROVE  /\ sent \in Nat /\ Spent \subseteq Nat /\ \A c \in changes : c.token \in Nat
         /\ \A h \in Handlers : hs[h].id \in Nat /\ hs[h].batch \in Nat
<1>1. sent \in Ids /\ Spent \subseteq Ids /\ \A c \in changes : c.token \in Ids
  BY DEF DialogTypes, OthersOk, SettingsOk, Spent
<1>2. \A h \in Handlers : hs[h].id \in Ids /\ hs[h].batch \in Nat
  BY DEF DialogTypes, HandlersOk, HandlerOk
<1>3. QED  BY <1>1, <1>2, IdsNat

LEMMA InitToken == DialogsInit => TokenInv
<1> SUFFICES ASSUME DialogsInit PROVE TokenInv
  OBVIOUS
<1>1. /\ hs = [h \in Handlers |-> Idle] /\ changes = {} /\ sent = 0 /\ values = [k \in Keys |-> 0]
      /\ used = [id |-> 0, as |-> {}] /\ agreed = [t \in {} |-> 0] /\ declined = {}
  BY DEF DialogsInit
<1>2. \A h \in Handlers : hs[h].pc = "idle"
  BY <1>1, IdleOk
<1>3. Numbered
  BY <1>2 DEF Numbered, Live
<1>4. Spent = {} /\ DOMAIN agreed = {}
  BY <1>1 DEF Spent
<1>5. SpentOld /\ CardsApart /\ CardsDiffer
  BY <1>1, <1>4 DEF SpentOld, CardsApart, CardsDiffer
<1>6. SetApart /\ SetsDiffer /\ LiveApart
  BY <1>2 DEF SetApart, SetsDiffer, LiveApart, Live, Setting
<1>7. Chosen
  <2>1. \A k \in Dangerous : values[k] = 0
    BY <1>1, DialogConstants
  <2>2. QED  BY <1>4, <2>1 DEF Chosen
<1>8. OneUse
  <2>1. used.id = 0 /\ used.as = {} /\ 0 \in 0..sent
    BY <1>1
  <2>2. QED  BY <1>2, <2>1 DEF OneUse, Early
<1>9. QED  BY <1>3, <1>5, <1>6, <1>7, <1>8, InitOwn DEF TokenInv, TokensApart

\* Handlers that go on or are done, and cards that are gone.
Fewer ==
  /\ \A g \in Handlers : Live(g)' => Live(g) /\ hs'[g].id = hs[g].id
  /\ \A g \in Handlers : Setting(g)' => Setting(g) /\ hs'[g].batch = hs[g].batch

LEMMA MovedFewer ==
  ASSUME DialogTypes, NEW h \in Handlers, Moved(h)
  PROVE  /\ Fewer /\ sent' = sent /\ ~Setting(h)'
         /\ \A g \in Handlers : hs'[g].pc \in Early => hs[g].pc \in Early /\ hs'[g].id = hs[g].id
<1>1. /\ Live(h) /\ sent' = sent /\ \A g \in Handlers \ {h} : hs'[g] = hs[g]
      /\ \/ hs'[h].pc = "idle"
         \/ hs'[h].id = hs[h].id /\ hs'[h].pc # "set" /\ (hs'[h].pc \in Early => hs[h].pc \in Early)
  BY IdleOk DEF Moved, Live
<1>2. ~Setting(h)'
  BY <1>1 DEF Setting
<1>3. ASSUME NEW g \in Handlers, Live(g)'
      PROVE  Live(g) /\ hs'[g].id = hs[g].id
  BY <1>1, <1>3 DEF Live
<1>4. ASSUME NEW g \in Handlers, Setting(g)'
      PROVE  Setting(g) /\ hs'[g].batch = hs[g].batch
  BY <1>1, <1>2, <1>4 DEF Setting
<1>5. ASSUME NEW g \in Handlers, hs'[g].pc \in Early
      PROVE  hs[g].pc \in Early /\ hs'[g].id = hs[g].id
  <2>1. hs'[g].pc # "idle"
    BY <1>5 DEF Early
  <2>2. QED  BY <1>1, <1>5, <2>1
<1>6. QED  BY <1>1, <1>2, <1>3, <1>4, <1>5 DEF Fewer

LEMMA FewerNumbered ==
  ASSUME DialogTypes, Numbered, Fewer, sent' \in Nat, sent <= sent'
  PROVE  Numbered'
<1>1. sent \in Nat
  BY SentFacts
<1>2. 1..sent \subseteq 1..sent'
  BY <1>1
<1>3. \A h \in Handlers : Live(h)' => hs'[h].id \in 1..sent'
  BY <1>2 DEF Numbered, Fewer
<1>4. \A g, h \in Handlers : g # h /\ Live(g)' /\ Live(h)' => hs'[g].id # hs'[h].id
  BY DEF Numbered, Fewer
<1>5. QED  BY <1>3, <1>4 DEF Numbered

LEMMA FewerTokens ==
  ASSUME DialogTypes, TokensApart, Fewer, sent' \in Nat, sent <= sent', changes' \subseteq changes, Spent' = Spent
  PROVE  TokensApart'
<1>1. /\ sent \in Nat /\ Spent \subseteq Nat /\ \A c \in changes : c.token \in Nat
      /\ \A h \in Handlers : hs[h].batch \in Nat
  BY SentFacts
<1>2. SpentOld'
  BY <1>1 DEF TokensApart, SpentOld
<1>3. CardsApart'
  <2>1. SUFFICES ASSUME NEW c \in changes' PROVE c.token <= sent' /\ c.token \notin Spent
    BY DEF CardsApart
  <2>2. c \in changes /\ c.token <= sent /\ c.token \notin Spent /\ c.token \in Nat
    BY <1>1 DEF TokensApart, CardsApart
  <2>3. QED  BY <1>1, <2>2
<1>4. CardsDiffer'
  BY DEF TokensApart, CardsDiffer
<1>5. SetApart'
  <2>1. SUFFICES ASSUME NEW h \in Handlers, Setting(h)'
                 PROVE  hs'[h].batch <= sent' /\ hs'[h].batch \notin Spent /\ \A c \in changes' : c.token # hs'[h].batch
    BY DEF SetApart
  <2>2. Setting(h) /\ hs'[h].batch = hs[h].batch /\ hs[h].batch \in Nat
    BY <1>1, <2>1 DEF Fewer
  <2>3. hs[h].batch <= sent /\ hs[h].batch \notin Spent /\ \A c \in changes : c.token # hs[h].batch
    BY <2>2 DEF TokensApart, SetApart
  <2>4. hs'[h].batch <= sent'
    BY <1>1, <2>2, <2>3
  <2>5. QED  BY <2>2, <2>3, <2>4
<1>6. SetsDiffer'
  BY DEF TokensApart, SetsDiffer, Fewer
<1>7. LiveApart'
  BY DEF TokensApart, LiveApart, Fewer
<1>8. QED  BY <1>2, <1>3, <1>4, <1>5, <1>6, <1>7 DEF TokensApart

-----------------------------------------------------------------------------
(* The three steps of a token *)

\* A dangerous value is shown on a card.
LEMMA ShownTokens ==
  ASSUME TokenInv, NEW h \in Handlers, NEW k, Moved(h), Live(h), ~Live(h)',
         changes' = changes \cup {[token |-> hs[h].id, key |-> k]}, Spent' = Spent
  PROVE  TokensApart'
<1> USE DEF TokenInv
<1> DEFINE t == hs[h].id
           x == [token |-> t, key |-> k]
<1>1. /\ sent \in Nat /\ Spent \subseteq Nat /\ Fewer /\ sent' = sent
      /\ \A g \in Handlers \ {h} : hs'[g] = hs[g]
  BY SentFacts, MovedFewer DEF OwnInv, Moved
<1>2. t \in 1..sent /\ t \notin Spent /\ (\A c \in changes : c.token # t) /\ \A g \in Handlers : Setting(g) => hs[g].batch # t
  BY DEF Numbered, TokensApart, LiveApart
<1>3. x.token = t /\ changes' = changes \cup {x}
  OBVIOUS
<1>4. \A g \in Handlers : Live(g)' => g # h /\ hs'[g].id # t
  BY <1>1 DEF Numbered, Fewer
<1> HIDE DEF x, t
<1>5. t <= sent
  BY <1>1, <1>2
<1>6. SpentOld'
  BY <1>1 DEF TokensApart, SpentOld
<1>7. CardsApart'
  <2>1. \A c \in changes : c.token <= sent /\ c.token \notin Spent
    BY DEF TokensApart, CardsApart
  <2>2. QED  BY <1>1, <1>2, <1>3, <1>5, <2>1 DEF CardsApart
<1>8. CardsDiffer'
  <2>1. \A c, d \in changes : c.token = d.token => c = d
    BY DEF TokensApart, CardsDiffer
  <2>2. QED  BY <1>2, <1>3, <2>1 DEF CardsDiffer
<1>9. SetApart'
  <2>1. \A g \in Handlers : Setting(g) =>
          hs[g].batch <= sent /\ hs[g].batch \notin Spent /\ \A c \in changes : c.token # hs[g].batch
    BY DEF TokensApart, SetApart
  <2>2. \A g \in Handlers : Setting(g)' => Setting(g) /\ hs'[g].batch = hs[g].batch
    BY <1>1 DEF Fewer
  <2>3. QED  BY <1>1, <1>2, <1>3, <2>1, <2>2 DEF SetApart
<1>10. SetsDiffer'
  BY <1>1 DEF TokensApart, SetsDiffer, Fewer
<1>11. LiveApart'
  <2>1. SUFFICES ASSUME NEW g \in Handlers, Live(g)'
                 PROVE  /\ hs'[g].id \notin Spent
                        /\ \A c \in changes' : c.token # hs'[g].id
                        /\ \A f \in Handlers : Setting(f)' => hs'[f].batch # hs'[g].id
    BY DEF LiveApart
  <2>2. Live(g) /\ hs'[g].id = hs[g].id /\ hs[g].id # t
    BY <1>1, <1>4, <2>1 DEF Fewer
  <2>3. /\ hs[g].id \notin Spent /\ \A c \in changes : c.token # hs[g].id
        /\ \A f \in Handlers : Setting(f) => hs[f].batch # hs[g].id
    BY <2>2 DEF TokensApart, LiveApart
  <2>4. \A c \in changes' : c.token # hs'[g].id
    BY <1>3, <2>2, <2>3
  <2>5. \A f \in Handlers : Setting(f)' => hs'[f].batch # hs'[g].id
    BY <1>1, <2>2, <2>3 DEF Fewer
  <2>6. QED  BY <2>2, <2>3, <2>4, <2>5
<1>12. QED  BY <1>6, <1>7, <1>8, <1>9, <1>10, <1>11 DEF TokensApart

\* A token is spent: it was on a card that is gone, or with a handler that is done.
LEMMA SpentTokens ==
  ASSUME DialogTypes, TokensApart, Fewer, sent' \in Nat, sent <= sent', changes' \subseteq changes,
         NEW t \in Nat, t <= sent, Spent' = Spent \cup {t},
         \A c \in changes' : c.token # t,
         \A g \in Handlers : Setting(g)' => hs'[g].batch # t,
         \A g \in Handlers : Live(g)' => hs'[g].id # t
  PROVE  TokensApart'
<1>1. /\ sent \in Nat /\ Spent \subseteq Nat /\ \A c \in changes : c.token \in Nat
      /\ \A h \in Handlers : hs[h].batch \in Nat
  BY SentFacts
<1>2. SpentOld'
  <2>1. SUFFICES ASSUME NEW u \in Spent' PROVE u <= sent'
    BY DEF SpentOld
  <2>2. u \in Nat /\ u <= sent
    BY <1>1 DEF TokensApart, SpentOld
  <2>3. QED  BY <1>1, <2>2
<1>3. CardsApart'
  <2>1. SUFFICES ASSUME NEW c \in changes' PROVE c.token <= sent' /\ c.token \notin Spent'
    BY DEF CardsApart
  <2>2. c \in changes /\ c.token <= sent /\ c.token \notin Spent /\ c.token \in Nat /\ c.token # t
    BY <1>1 DEF TokensApart, CardsApart
  <2>3. QED  BY <1>1, <2>2
<1>4. CardsDiffer'
  BY DEF TokensApart, CardsDiffer
<1>5. SetApart'
  <2>1. SUFFICES ASSUME NEW h \in Handlers, Setting(h)'
                 PROVE  hs'[h].batch <= sent' /\ hs'[h].batch \notin Spent' /\ \A c \in changes' : c.token # hs'[h].batch
    BY DEF SetApart
  <2>2. Setting(h) /\ hs'[h].batch = hs[h].batch /\ hs[h].batch \in Nat /\ hs[h].batch # t
    BY <1>1, <2>1 DEF Fewer
  <2>3. hs[h].batch <= sent /\ hs[h].batch \notin Spent /\ \A c \in changes : c.token # hs[h].batch
    BY <2>2 DEF TokensApart, SetApart
  <2>4. hs'[h].batch <= sent'
    BY <1>1, <2>2, <2>3
  <2>5. QED  BY <2>2, <2>3, <2>4
<1>6. SetsDiffer'
  BY DEF TokensApart, SetsDiffer, Fewer
<1>7. LiveApart'
  <2>1. SUFFICES ASSUME NEW g \in Handlers, Live(g)'
                 PROVE  /\ hs'[g].id \notin Spent'
                        /\ \A c \in changes' : c.token # hs'[g].id
                        /\ \A f \in Handlers : Setting(f)' => hs'[f].batch # hs'[g].id
    BY DEF LiveApart
  <2>2. Live(g) /\ hs'[g].id = hs[g].id /\ hs'[g].id # t
    BY <2>1 DEF Fewer
  <2>3. /\ hs[g].id \notin Spent /\ \A c \in changes : c.token # hs[g].id
        /\ \A f \in Handlers : Setting(f) => hs[f].batch # hs[g].id
    BY <2>2 DEF TokensApart, LiveApart
  <2>4. \A f \in Handlers : Setting(f)' => hs'[f].batch # hs'[g].id
    BY <2>2, <2>3 DEF Fewer
  <2>5. QED  BY <2>2, <2>3, <2>4
<1>8. QED  BY <1>2, <1>3, <1>4, <1>5, <1>6, <1>7 DEF TokensApart

\* An update comes, and may take a token from its card.
LEMMA StartedTokens ==
  ASSUME TokenInv, NEW h \in Handlers, sent' = sent + 1,
         ~Live(h), hs'[h].id = sent + 1, \A g \in Handlers \ {h} : hs'[g] = hs[g],
         changes' \subseteq changes, Spent' = Spent,
         Setting(h)' => \E c \in changes : changes' = changes \ {c} /\ hs'[h].batch = c.token
  PROVE  TokensApart'
<1> USE DEF TokenInv
<1>1. /\ sent \in Nat /\ Spent \subseteq Nat /\ \A c \in changes : c.token \in Nat
      /\ \A g \in Handlers : hs[g].batch \in Nat
  BY SentFacts DEF OwnInv
<1>2. /\ \A c \in changes : c.token <= sent /\ c.token \notin Spent
      /\ \A c, d \in changes : c.token = d.token => c = d
      /\ \A t \in Spent : t <= sent
  BY DEF TokensApart, CardsApart, CardsDiffer, SpentOld
<1>3. \A g \in Handlers : Setting(g) =>
        hs[g].batch <= sent /\ hs[g].batch \notin Spent /\ \A c \in changes : c.token # hs[g].batch
  BY DEF TokensApart, SetApart
<1>4. Setting(h)' => \E c \in changes : hs'[h].batch = c.token /\ \A d \in changes' : d.token # c.token
  BY <1>2
<1>5. SpentOld'
  <2>1. SUFFICES ASSUME NEW u \in Spent PROVE u <= sent'
    BY DEF SpentOld
  <2>2. u \in Nat /\ u <= sent
    BY <1>1, <1>2
  <2>3. QED  BY <1>1, <2>2
<1>6. CardsApart'
  <2>1. SUFFICES ASSUME NEW c \in changes' PROVE c.token <= sent' /\ c.token \notin Spent
    BY DEF CardsApart
  <2>2. c \in changes /\ c.token <= sent /\ c.token \notin Spent /\ c.token \in Nat
    BY <1>1, <1>2
  <2>3. QED  BY <1>1, <2>2
<1>7. CardsDiffer'
  BY <1>2 DEF CardsDiffer
<1>8. SetApart'
  <2>1. SUFFICES ASSUME NEW g \in Handlers, Setting(g)'
                 PROVE  hs'[g].batch <= sent' /\ hs'[g].batch \notin Spent /\ \A c \in changes' : c.token # hs'[g].batch
    BY DEF SetApart
  <2>2. CASE g = h
    <3>1. PICK c \in changes : hs'[h].batch = c.token /\ \A d \in changes' : d.token # c.token
      BY <1>4, <2>1, <2>2
    <3>2. c.token \in Nat /\ c.token <= sent /\ c.token \notin Spent
      BY <1>1, <1>2
    <3>3. c.token <= sent'
      BY <1>1, <3>2
    <3>4. QED  BY <2>2, <3>1, <3>2, <3>3
  <2>3. CASE g # h
    <3>1. Setting(g) /\ hs'[g].batch = hs[g].batch
      BY <2>1, <2>3 DEF Setting
    <3>2. hs[g].batch \in Nat /\ hs[g].batch <= sent /\ hs[g].batch \notin Spent /\ \A c \in changes : c.token # hs[g].batch
      BY <1>1, <1>3, <3>1
    <3>3. hs[g].batch <= sent'
      BY <1>1, <3>2
    <3>4. QED  BY <3>1, <3>2, <3>3
  <2>4. QED  BY <2>2, <2>3
<1>9. SetsDiffer'
  <2>1. \A g \in Handlers \ {h} : Setting(g)' /\ Setting(h)' => hs'[g].batch # hs'[h].batch
    <3>1. SUFFICES ASSUME NEW g \in Handlers \ {h}, Setting(g)', Setting(h)' PROVE hs'[g].batch # hs'[h].batch
      OBVIOUS
    <3>2. Setting(g) /\ hs'[g].batch = hs[g].batch
      BY <3>1 DEF Setting
    <3>3. \A c \in changes : c.token # hs[g].batch
      BY <1>3, <3>2
    <3>4. QED  BY <1>4, <3>1, <3>2, <3>3
  <2>2. \A f, g \in Handlers \ {h} : f # g /\ Setting(f)' /\ Setting(g)' => hs'[f].batch # hs'[g].batch
    BY DEF TokensApart, SetsDiffer, Setting
  <2>3. QED  BY <2>1, <2>2 DEF SetsDiffer
<1>10. LiveApart'
  <2>1. SUFFICES ASSUME NEW g \in Handlers, Live(g)'
                 PROVE  /\ hs'[g].id \notin Spent
                        /\ \A c \in changes' : c.token # hs'[g].id
                        /\ \A f \in Handlers : Setting(f)' => hs'[f].batch # hs'[g].id
    BY DEF LiveApart
  <2>2. CASE g = h
    <3>1. \A u \in Nat : u <= sent => u # sent + 1
      BY <1>1
    <3>2. sent + 1 \notin Spent /\ \A c \in changes : c.token # sent + 1
      BY <1>1, <1>2, <3>1
    <3>3. ASSUME NEW f \in Handlers, Setting(f)'
          PROVE  hs'[f].batch # sent + 1
      <4>1. CASE f = h
        BY <1>4, <3>2, <3>3, <4>1
      <4>2. CASE f # h
        <5>1. Setting(f) /\ hs'[f].batch = hs[f].batch
          BY <3>3, <4>2 DEF Setting
        <5>2. QED  BY <1>1, <1>3, <3>1, <5>1
      <4>3. QED  BY <4>1, <4>2
    <3>4. QED  BY <2>2, <3>2, <3>3
  <2>3. CASE g # h
    <3>1. Live(g) /\ hs'[g].id = hs[g].id
      BY <2>1, <2>3 DEF Live
    <3>2. /\ hs[g].id \notin Spent /\ \A c \in changes : c.token # hs[g].id
          /\ \A f \in Handlers : Setting(f) => hs[f].batch # hs[g].id
      BY <3>1 DEF TokensApart, LiveApart
    <3>3. ASSUME NEW f \in Handlers, Setting(f)'
          PROVE  hs'[f].batch # hs[g].id
      <4>1. CASE f = h
        BY <1>4, <3>2, <3>3, <4>1
      <4>2. CASE f # h
        BY <3>2, <3>3, <4>2 DEF Setting
      <4>3. QED  BY <4>1, <4>2
    <3>4. QED  BY <3>1, <3>2, <3>3
  <2>4. QED  BY <2>2, <2>3
<1>11. QED  BY <1>5, <1>6, <1>7, <1>8, <1>9, <1>10 DEF TokensApart

-----------------------------------------------------------------------------
(* Dialogs: each step keeps the tokens apart *)

LEMMA StartedSets ==
  ASSUME DialogTypes, NEW h \in Handlers, Started(h), hs'[h].pc = "set"
  PROVE  \E c \in changes : changes' = changes \ {c} /\ hs'[h].batch = c.token
<1>1. HandlersOk /\ DOMAIN Idle = Fields
  BY IdleOk DEF DialogTypes, HandlerOk
<1>2. PICK p \in Places :
        \/ \E text, file, reply \in BOOLEAN, lines \in Nat : Message(h, p, text, file, reply, lines)
        \/ RenameNow(h, p)
        \/ BatchCommand(h, p)
        \/ \E c \in changes : ConfirmButton(h, p, c)
        \/ \E pc \in {"check", "drop"} : BatchButton(h, p, pc)
  BY DEF Started
<1>3. ASSUME NEW pc \in {"input", "media", "start", "check", "drop", "count"}, NEW m, DOMAIN m = Fields, Gets(h, p, pc, m)
      PROVE  FALSE
  <2>1. hs'[h].pc = pc
    BY <1>1, <1>3, GetsFacts
  <2>2. QED  BY <2>1
<1>4. ASSUME NEW text \in BOOLEAN, NEW file \in BOOLEAN, NEW reply \in BOOLEAN, NEW lines \in Nat,
             Message(h, p, text, file, reply, lines)
      PROVE  FALSE
  <2> DEFINE m == [Idle EXCEPT !.text = text, !.file = file, !.reply = reply, !.lines = lines]
             pc == IF p \in Private /\ text THEN "input" ELSE "media"
  <2>1. Gets(h, p, pc, m) /\ pc \in {"input", "media"} /\ DOMAIN m = Fields
    BY <1>1, <1>4 DEF Message
  <2> HIDE DEF m, pc
  <2>2. QED  BY <1>3, <2>1
<1>5. ASSUME RenameNow(h, p)
      PROVE  FALSE
  <2> DEFINE m == [Idle EXCEPT !.job = [files |-> <<<<p, sent + 1>>>>, names |-> sent + 1, lines |-> 0]]
  <2>1. Gets(h, p, "count", m) /\ DOMAIN m = Fields
    BY <1>1, <1>5 DEF RenameNow
  <2> HIDE DEF m
  <2>2. QED  BY <1>3, <2>1
<1>6. ASSUME BatchCommand(h, p)
      PROVE  FALSE
  BY <1>1, <1>3, <1>6 DEF BatchCommand
<1>7. ASSUME NEW pc \in {"check", "drop"}, BatchButton(h, p, pc)
      PROVE  FALSE
  <2> DEFINE m == [Idle EXCEPT !.batch = sessions[Key(p)]]
  <2>1. Gets(h, p, pc, m) /\ DOMAIN m = Fields
    BY <1>1, <1>7 DEF BatchButton
  <2> HIDE DEF m
  <2>2. QED  BY <1>3, <2>1
<1>8. ASSUME NEW c \in changes, ConfirmButton(h, p, c)
      PROVE  changes' = changes \ {c} /\ hs'[h].batch = c.token
  <2> DEFINE m == [Idle EXCEPT !.key = c.key, !.batch = c.token]
  <2>1. Gets(h, p, "set", m) /\ DOMAIN m = Fields /\ m.batch = c.token /\ changes' = changes \ {c}
    BY <1>1, <1>8 DEF ConfirmButton, Fields
  <2> HIDE DEF m
  <2>2. hs'[h].batch = m.batch
    BY <1>1, <2>1, GetsFacts
  <2>3. QED  BY <2>1, <2>2
<1>9. QED  BY <1>2, <1>4, <1>5, <1>6, <1>7, <1>8

LEMMA StartedTokenInv ==
  ASSUME TokenInv, NEW h \in Handlers, Started(h), OwnInv'
  PROVE  TokenInv'
<1> USE DEF TokenInv
<1>1. DialogTypes /\ sent \in Nat
  BY SentFacts DEF OwnInv
<1>2. /\ \A g \in Handlers \ {h} : hs'[g] = hs[g]
      /\ hs[h].pc = "idle" /\ sent' = sent + 1 /\ hs'[h].id = sent + 1
      /\ hs'[h].pc \in {"input", "media", "count", "start", "set", "check", "drop"}
      /\ UNCHANGED <<values, agreed, declined>> /\ changes' \subseteq changes
      /\ used' = used \/ (hs'[h].pc = "count" /\ UsedAs(sent + 1, "name"))
  BY <1>1, StartedFacts
<1>3. TokensApart'
  <2>1. Spent' = Spent /\ ~Live(h)
    BY <1>2 DEF Spent, Live
  <2>2. Setting(h)' => \E c \in changes : changes' = changes \ {c} /\ hs'[h].batch = c.token
    BY <1>1, StartedSets DEF Setting
  <2>3. QED  BY <1>2, <2>1, <2>2, StartedTokens
<1>4. Numbered'
  <2>1. \A g \in Handlers \ {h} : Live(g)' => Live(g) /\ hs'[g].id = hs[g].id
    BY <1>2 DEF Live
  <2>2. 1..sent \subseteq 1..sent' /\ sent + 1 \in 1..sent' /\ sent + 1 \notin 1..sent
    BY <1>1, <1>2
  <2>3. \A g \in Handlers : Live(g)' => hs'[g].id \in 1..sent'
    BY <1>2, <2>1, <2>2 DEF Numbered
  <2>4. \A g \in Handlers \ {h} : Live(g)' => hs'[g].id # hs'[h].id
    BY <1>2, <2>1, <2>2 DEF Numbered
  <2>5. \A f, g \in Handlers \ {h} : f # g /\ Live(f)' /\ Live(g)' => hs'[f].id # hs'[g].id
    BY <2>1 DEF Numbered
  <2>6. QED  BY <2>3, <2>4, <2>5 DEF Numbered
<1>5. Chosen'
  BY <1>2 DEF Chosen
<1>6. OneUse'
  <2>1. used.id \in 0..sent /\ used.id \in 0..sent' /\ sent + 1 # used.id
    BY <1>1, <1>2 DEF OneUse
  <2>2. \A g \in Handlers \ {h} : hs'[g].pc \in Early => hs[g].pc \in Early /\ hs'[g].id = hs[g].id
    BY <1>2
  <2>3. CASE used' = used
    <3>1. \A g \in Handlers : hs'[g].pc \in Early => hs'[g].id # used'.id
      BY <1>2, <2>1, <2>2, <2>3 DEF OneUse
    <3>2. \E w : used'.as \subseteq {w}
      BY <2>3 DEF OneUse
    <3>3. used'.id \in 0..sent'
      BY <2>1, <2>3
    <3>4. QED  BY <3>1, <3>2, <3>3 DEF OneUse
  <2>4. CASE hs'[h].pc = "count" /\ UsedAs(sent + 1, "name")
    <3>1. used'.id = sent + 1 /\ used'.as = {"name"}
      BY <2>1, <2>4 DEF UsedAs
    <3>2. \A g \in Handlers : hs'[g].pc \in Early => hs'[g].id # used'.id
      <4>1. SUFFICES ASSUME NEW g \in Handlers, hs'[g].pc \in Early PROVE hs'[g].id # used'.id
        OBVIOUS
      <4>2. g # h /\ hs'[g].pc # "idle"
        BY <2>4, <4>1 DEF Early
      <4>3. Live(g) /\ hs'[g].id = hs[g].id
        BY <1>2, <4>2 DEF Live
      <4>4. hs[g].id \in 1..sent
        BY <4>3 DEF Numbered
      <4>5. hs[g].id # sent + 1
        BY <1>1, <4>4
      <4>6. QED  BY <3>1, <4>3, <4>5
    <3>3. \E w : used'.as \subseteq {w}
      BY <3>1
    <3>4. used'.id \in 0..sent'
      <4>1. sent + 1 \in 0..(sent + 1)
        BY <1>1
      <4>2. QED  BY <1>2, <3>1, <4>1
    <3>5. QED  BY <3>2, <3>3, <3>4 DEF OneUse
  <2>5. QED  BY <1>2, <2>3, <2>4
<1>7. QED  BY <1>3, <1>4, <1>5, <1>6

LEMMA AsideTokenInv ==
  ASSUME TokenInv, Aside, OwnInv'
  PROVE  TokenInv'
<1> USE DEF TokenInv
<1>1. DialogTypes /\ sent \in Nat
  BY SentFacts DEF OwnInv
<1>2. /\ hs' = hs /\ sent' \in {sent, sent + 1} /\ changes' \subseteq changes
      /\ UNCHANGED <<agreed, used>>
      /\ \/ declined' = declined
         \/ \E c \in changes : declined' = declined \cup {c.token} /\ changes' = changes \ {c}
  BY <1>1, AsideFacts
<1>2a. \A k \in Dangerous : values[k] \in DOMAIN agreed \cup {0} => values'[k] \in DOMAIN agreed \cup {0}
  BY <1>1, AsideFacts, DialogConstants
<1>3. sent' \in Nat /\ sent <= sent'
  BY <1>1, <1>2
<1>4. Fewer
  BY <1>2 DEF Fewer, Live, Setting
<1>5. Numbered'
  BY <1>1, <1>3, <1>4, FewerNumbered
<1>6. OneUse'
  <2>1. 0..sent \subseteq 0..sent'
    BY <1>1, <1>3
  <2>2. QED  BY <1>2, <2>1 DEF OneUse
<1>7. CASE declined' = declined
  <2>1. Spent' = Spent
    BY <1>2, <1>7 DEF Spent
  <2>2. TokensApart'
    BY <1>1, <1>2, <1>3, <1>4, <2>1, FewerTokens
  <2>3. Chosen'
    BY <1>2, <1>2a, <1>7 DEF Chosen
  <2>4. QED  BY <1>5, <1>6, <2>2, <2>3
<1>8. ASSUME NEW c \in changes, declined' = declined \cup {c.token}, changes' = changes \ {c}
      PROVE  TokenInv'
  <2> DEFINE t == c.token
  <2>1. t \in Nat
    BY <1>1, SentFacts
  <2>2. t <= sent /\ t \notin Spent /\ \A d \in changes' : d.token # t
    BY <1>8 DEF TokensApart, CardsApart, CardsDiffer
  <2>3. \A g \in Handlers : Setting(g) => hs[g].batch # t
    BY DEF TokensApart, SetApart
  <2>4. \A g \in Handlers : Live(g) => hs[g].id # t
    BY DEF TokensApart, LiveApart
  <2>5. Spent' = Spent \cup {t} /\ declined' = declined \cup {t}
    BY <1>2, <1>8 DEF Spent
  <2> HIDE DEF t
  <2>6. /\ \A g \in Handlers : Setting(g)' => hs'[g].batch # t
        /\ \A g \in Handlers : Live(g)' => hs'[g].id # t
    BY <1>2, <2>3, <2>4 DEF Setting, Live
  <2>7. TokensApart'
    BY <1>1, <1>2, <1>3, <1>4, <2>1, <2>2, <2>5, <2>6, SpentTokens
  <2>8. Chosen'
    <3>1. t \notin DOMAIN agreed
      BY <2>2 DEF Spent
    <3>2. QED  BY <1>2, <1>2a, <2>5, <3>1 DEF Chosen
  <2>9. QED  BY <1>5, <1>6, <2>7, <2>8
<1>9. QED  BY <1>2, <1>7, <1>8

\* A text is used by a handler that is done with it.
LEMMA UseKeeps ==
  ASSUME TokenInv, NEW h \in Handlers, Moved(h), NEW what,
         hs[h].pc \in Early, hs'[h].pc \notin Early, Uses(h, what)
  PROVE  OneUse'
<1> USE DEF TokenInv
<1>1. DialogTypes /\ sent \in Nat /\ sent' = sent
  BY SentFacts DEF OwnInv, Moved
<1>2. hs[h].id # used.id /\ hs[h].id \in 1..sent
  <2>1. Live(h)
    BY DEF Moved, Live
  <2>2. QED  BY <2>1 DEF OneUse, Numbered
<1>3. used'.id = hs[h].id /\ used'.as = {what}
  BY <1>2 DEF Uses, UsedAs
<1>4. \A g \in Handlers : hs'[g].pc \in Early => hs'[g].id # used'.id
  <2>1. SUFFICES ASSUME NEW g \in Handlers, hs'[g].pc \in Early PROVE hs'[g].id # used'.id
    OBVIOUS
  <2>2. g # h /\ hs[g].pc \in Early /\ hs'[g].id = hs[g].id
    BY <1>1, <2>1, MovedFewer
  <2>3. Live(g) /\ Live(h)
    BY <2>2 DEF Early, Live, Moved
  <2>4. hs[g].id # hs[h].id
    BY <2>2, <2>3 DEF Numbered
  <2>5. QED  BY <1>3, <2>2, <2>4
<1>5. \E w : used'.as \subseteq {w}
  BY <1>3
<1>6. used'.id \in 0..sent'
  BY <1>1, <1>2, <1>3
<1>7. QED  BY <1>4, <1>5, <1>6 DEF OneUse

LEMMA HandleUses ==
  ASSUME TokenInv, NEW h \in Handlers, Handle(h), Moved(h)
  PROVE  OneUse'
<1> USE DEF TokenInv
<1>1. DialogTypes /\ sent' = sent /\ HandlersOk
  BY DEF OwnInv, Moved, DialogTypes
<1>2. Idle.pc \notin Early
  BY IdleOk DEF Early
<1>3. CASE used' = used
  <2>1. \A g \in Handlers : hs'[g].pc \in Early => hs[g].pc \in Early /\ hs'[g].id = hs[g].id
    BY <1>1, MovedFewer
  <2>2. QED  BY <1>1, <1>3, <2>1 DEF OneUse
<1>4. CASE InputValue(h)
  <2>1. hs[h].pc = "value" /\ Uses(h, "value") /\ Done(h)
    BY <1>4 DEF InputValue
  <2>2. hs[h].pc \in Early /\ hs'[h].pc \notin Early
    BY <1>1, <1>2, <2>1, DoneFacts DEF Early
  <2>3. QED  BY <2>1, <2>2, UseKeeps
<1>5. CASE Password(h) /\ used' # used
  <2>1. hs[h].pc = "password" /\ Uses(h, "password") /\ Done(h)
    BY <1>5 DEF Password
  <2>2. hs[h].pc \in Early /\ hs'[h].pc \notin Early
    BY <1>1, <1>2, <2>1, DoneFacts DEF Early
  <2>3. QED  BY <2>1, <2>2, UseKeeps
<1>6. CASE SingleRemove(h)
  <2>1. hs[h].pc = "take" /\ Uses(h, "name") /\ (Goes(h, "count") \/ Done(h))
    BY <1>6 DEF SingleRemove
  <2>2. hs[h].pc \in Early
    BY <2>1 DEF Early
  <2>3. CASE Done(h)
    <3>1. hs'[h].pc \notin Early
      BY <1>1, <1>2, <2>3, DoneFacts
    <3>2. QED  BY <2>1, <2>2, <3>1, UseKeeps
  <2>4. CASE Goes(h, "count")
    <3>1. hs'[h].pc = "count"
      BY <1>1, <2>4, GoesFacts
    <3>2. hs'[h].pc \notin Early
      BY <3>1 DEF Early
    <3>3. QED  BY <2>1, <2>2, <3>2, UseKeeps
  <2>5. QED  BY <2>1, <2>3, <2>4
<1>7. CASE NamesSet(h)
  <2>1. hs[h].pc = "preview" /\ Uses(h, "names") /\ Done(h)
    BY <1>7 DEF NamesSet
  <2>2. hs[h].pc \in Early /\ hs'[h].pc \notin Early
    BY <1>1, <1>2, <2>1, DoneFacts DEF Early
  <2>3. QED  BY <2>1, <2>2, UseKeeps
<1>8. QED
  BY <1>3, <1>4, <1>5, <1>6, <1>7 DEF Handle, InputGet, InputClear, ConfirmedSet, Media, AddFile,
     SingleGet, NamesGet, BatchStart, ApplyCheck, ApplyFiles, SessionRemove, EnqueueCount, EnqueueCreate

LEMMA HandleTokenInv ==
  ASSUME TokenInv, NEW h \in Handlers, Handle(h), OwnInv'
  PROVE  TokenInv'
<1> USE DEF TokenInv
<1>1. DialogTypes /\ sent \in Nat /\ Moved(h)
  BY SentFacts, HandleMoves DEF OwnInv, AllCarry
<1>2. Fewer /\ sent' = sent /\ HandlersOk
  BY <1>1, MovedFewer DEF DialogTypes
<1>3. Numbered' /\ OneUse'
  <2>1. sent' \in Nat /\ sent <= sent'
    BY <1>1, <1>2
  <2>2. QED  BY <1>1, <1>2, <2>1, FewerNumbered, HandleUses
<1>4. sent' \in Nat /\ sent <= sent'
  BY <1>1, <1>2
<1>5. CASE UNCHANGED <<changes, agreed, declined, values>>
  <2>1. Spent' = Spent /\ Chosen' /\ changes' \subseteq changes
    BY <1>5 DEF Spent, Chosen
  <2>2. TokensApart'
    BY <1>1, <1>2, <1>4, <2>1, FewerTokens
  <2>3. QED  BY <1>3, <2>1, <2>2
<1>6. CASE InputValue(h)
  <2>1. /\ hs[h].pc = "value" /\ Done(h) /\ UNCHANGED <<agreed, declined>>
        /\ \/ hs[h].key \in Dangerous /\ changes' = changes \cup {[token |-> hs[h].id, key |-> hs[h].key]} /\ values' = values
           \/ hs[h].key \notin Dangerous /\ values' = [values EXCEPT ![hs[h].key] = hs[h].id] /\ changes' = changes
    BY <1>6 DEF InputValue
  <2>2. Spent' = Spent
    BY <2>1 DEF Spent
  <2>3. Chosen'
    <3>1. \A k \in Dangerous : values'[k] = values[k]
      BY <1>1, <2>1, DialogConstants DEF DialogTypes, SettingsOk
    <3>2. QED  BY <2>1, <3>1 DEF Chosen
  <2>4. CASE changes' = changes
    <3>1. TokensApart'
      BY <1>1, <1>2, <1>4, <2>2, <2>4, FewerTokens
    <3>2. QED  BY <1>3, <2>3, <3>1
  <2>5. CASE changes' = changes \cup {[token |-> hs[h].id, key |-> hs[h].key]}
    <3>1. Live(h) /\ ~Live(h)'
      BY <1>2, <2>1, DoneFacts, IdleOk DEF Live
    <3>2. TokensApart'
      BY <1>1, <2>2, <2>5, <3>1, ShownTokens
    <3>3. QED  BY <1>3, <2>3, <3>2
  <2>6. QED  BY <2>1, <2>4, <2>5
<1>7. CASE ConfirmedSet(h)
  <2> DEFINE t == hs[h].batch
  <2>1. /\ hs[h].pc = "set" /\ Done(h) /\ UNCHANGED <<changes, declined>>
        /\ values' = [values EXCEPT ![hs[h].key] = t]
        /\ agreed' = [u \in DOMAIN agreed \cup {t} |->
                       IF u # t THEN agreed[u] ELSE IF t \in DOMAIN agreed THEN agreed[t] + 1 ELSE 1]
    BY <1>7 DEF ConfirmedSet
  <2>2. Setting(h) /\ Live(h)
    BY <2>1 DEF Setting, Live
  <2>3. t \in Nat /\ t <= sent /\ t \notin Spent /\ \A c \in changes : c.token # t
    BY <1>1, <2>2, SentFacts DEF TokensApart, SetApart
  <2>4. ~Live(h)' /\ \A g \in Handlers \ {h} : hs'[g] = hs[g]
    BY <1>2, <2>1, DoneFacts, IdleOk DEF Live
  <2>5. \A g \in Handlers : Setting(g)' => hs'[g].batch # t
    <3>1. SUFFICES ASSUME NEW g \in Handlers, Setting(g)' PROVE hs'[g].batch # t
      OBVIOUS
    <3>2. g # h
      BY <2>4, <3>1 DEF Setting, Live
    <3>3. Setting(g) /\ hs'[g].batch = hs[g].batch
      BY <1>2, <3>1 DEF Fewer
    <3>4. QED  BY <2>2, <3>2, <3>3 DEF TokensApart, SetsDiffer
  <2>6. \A g \in Handlers : Live(g)' => hs'[g].id # t
    BY <1>2, <2>2 DEF TokensApart, LiveApart, Fewer
  <2>7. hs[h].key \in Dangerous
    BY <1>2, <2>1 DEF HandlersOk, HandlerOk
  <2> HIDE DEF t
  <2>8. DOMAIN agreed' = DOMAIN agreed \cup {t} /\ t \notin DOMAIN agreed /\ t \notin declined
    BY <2>1, <2>3 DEF Spent
  <2>9. Spent' = Spent \cup {t}
    BY <2>1, <2>8 DEF Spent
  <2>10. TokensApart'
    BY <1>1, <1>2, <1>4, <2>1, <2>3, <2>5, <2>6, <2>9, SpentTokens
  <2>11. Chosen'
    <3>1. \A u \in DOMAIN agreed' : agreed'[u] = 1 /\ u \notin declined'
      BY <2>1, <2>8 DEF Chosen
    <3>2. ASSUME NEW k \in Dangerous
          PROVE  values'[k] \in DOMAIN agreed' \cup {0}
      <4>1. k \in DOMAIN values
        BY <1>1, DialogConstants DEF DialogTypes, SettingsOk
      <4>2. values'[k] = t \/ values'[k] = values[k]
        BY <2>1, <4>1
      <4>3. QED  BY <2>8, <4>2 DEF Chosen
    <3>3. QED  BY <3>1, <3>2 DEF Chosen
  <2>12. QED  BY <1>3, <2>10, <2>11
<1>8. QED
  BY <1>5, <1>6, <1>7 DEF Handle, InputGet, InputClear, Media, AddFile, Password, SingleGet, SingleRemove,
     NamesGet, NamesSet, BatchStart, ApplyCheck, ApplyFiles, SessionRemove, EnqueueCount, EnqueueCreate, settingVars

LEMMA NextToken == TokenInv /\ [DialogsNext]_dialogVars => TokenInv'
<1> SUFFICES ASSUME TokenInv, [DialogsNext]_dialogVars PROVE TokenInv'
  OBVIOUS
<1>1. OwnInv' /\ DialogTypes
  BY NextOwn DEF TokenInv, OwnInv
<1>2. CASE UNCHANGED dialogVars
  BY <1>1, <1>2 DEF dialogVars, settingVars, TokenInv, Numbered, TokensApart, SpentOld, CardsApart, CardsDiffer,
     SetApart, SetsDiffer, LiveApart, Spent, Live, Setting, Chosen, OneUse
<1>3. CASE DialogsNext
  <2>1. Aside \/ \E h \in Handlers : Started(h) \/ Handle(h)
    BY <1>1, <1>3, NextCases
  <2>2. QED  BY <1>1, <2>1, AsideTokenInv, StartedTokenInv, HandleTokenInv
<1>4. QED  BY <1>2, <1>3

\* Of any number of cards and clicks a token makes its change once at most, and none
\* that was refused; a text typed for a dangerous key was always confirmed before it became its
\* value, though a button may set a value of its own; and a text that several
\* questions wait for answers one of them (settings.go:95-107, app.go:508-589).
THEOREM TextsHaveOneMeaning == DialogsSpec => []TakenOnce
<1>1. TokenInv => TakenOnce
  <2> SUFFICES ASSUME TokenInv PROVE TakenOnce
    OBVIOUS
  <2>1. PICK w : used.as \subseteq {w}
    BY DEF TokenInv, OneUse
  <2>2. IsFiniteSet({w}) /\ Cardinality({w}) = 1
    BY FS_Singleton
  <2>3. Cardinality(used.as) <= 1
    BY <2>1, <2>2, FS_Subset
  <2>4. QED  BY <2>3 DEF TokenInv, Chosen, TakenOnce
<1>2. QED  BY <1>1, InitToken, NextToken, PTL DEF DialogsSpec
=============================================================================
