--------------------------- MODULE PipelineProofs ---------------------------
(***************************************************************************)
(* Proofs about Pipeline for any files, jobs and numbers of stops and      *)
(* kills: typing, that nothing is sent again unless nobody could know that *)
(* it had arrived, and that a job that ends as done has lost no file.      *)
(*                                                                         *)
(* And about Uploads for any group of files and any limits: what is        *)
(* reported has come, in order, and twice only after a broken connection;  *)
(* and the plan of albums is the shortest there is.                        *)
(***************************************************************************)
EXTENDS Pipeline, Uploads, FiniteSetTheorems, SequenceTheorems, WellFoundedInduction, TLAPS

USE DEF disks, process, stages, memory, chat

-----------------------------------------------------------------------------
(* Items *)

LEMMA ItemFacts ==
  /\ \A f \in Sources : Source(f) \in Items
  /\ \A f \in Large : PiecesOf(f) \subseteq Items
  /\ Inner \subseteq Items
  /\ \A x \in Items : Origin(x) \in Sources
  /\ \A x \in Items : Key(x) \in Sources => x = Source(Key(x))
  /\ \A x \in Inner : Key(x) \notin Sources
  /\ \A x \in Items : Origin(x) # Key(x) => Origin(x) \in Large \cup Archives
BY KindsAssumption DEF Items, Source, PiecesOf, Inner, Origin, Key, Sources

LEMMA KeyFacts ==
  /\ \A f \in Large \cup Archives : Keys(PiecesOf(f)) = Pieces[f]
  /\ \A f \in Large \cup Archives : \A x \in PiecesOf(f) : Origin(x) = f /\ Key(x) \in Pieces[f]
  /\ \A f \in Sources : Key(Source(f)) = f /\ Origin(Source(f)) = f
<1>1. ASSUME NEW f \in Large \cup Archives
      PROVE  /\ Keys(PiecesOf(f)) = Pieces[f]
             /\ \A x \in PiecesOf(f) : Origin(x) = f /\ Key(x) \in Pieces[f]
  <2>1. \A p \in Pieces[f] : <<f, p>> \in PiecesOf(f) /\ Key(<<f, p>>) = p
    BY DEF PiecesOf, Key
  <2>2. \A x \in PiecesOf(f) : Origin(x) = f /\ Key(x) \in Pieces[f]
    BY DEF PiecesOf, Key, Origin
  <2>3. QED  BY <2>1, <2>2 DEF Keys
<1>2. \A f \in Sources : Key(Source(f)) = f /\ Origin(Source(f)) = f
  BY DEF Source, Key, Origin
<1>3. QED  BY <1>1, <1>2

LEMMA PutFacts ==
  ASSUME NEW dir, NEW files
  PROVE  /\ Put(dir, files) \subseteq dir \cup files
         /\ files \subseteq Put(dir, files)
         /\ \A x \in dir : Key(x) \notin Keys(files) => x \in Put(dir, files)
         /\ \A x \in Put(dir, files) : x \in files \/ (x \in dir /\ Key(x) \notin Keys(files))
BY DEF Put

-----------------------------------------------------------------------------
(* Types *)

\* The file processFile is at is one, and of the kind its place is for.
Placed ==
  /\ up.at \in {"send", "mark", "markGroup", "archive", "extract", "consume", "consumed", "large",
               "split"} => up.cur \in Items
  /\ up.at \in {"archive", "extract", "consume", "consumed"} => Key(up.cur) \in Archives
  /\ up.at \in {"large", "split"} => Key(up.cur) \in Large

TypeInv == TypeOK /\ Placed

UpTypes == [at : Places, cur : Items \cup {NoFile}, queue : SUBSET Items,
            inner : SUBSET Inner, arch : {Source(a) : a \in Archives} \cup {NoFile},
            batch : SUBSET Items, saw : BOOLEAN]

LEMMA InitTypes == Init => TypeInv
<1> SUFFICES ASSUME Init PROVE TypeInv
  OBVIOUS
<1>1. up \in UpTypes /\ Placed
  BY DEF Init, Placed, Idle, Places, UpTypes
<1>2. scene \in [source : SUBSET Sources, unzip : BOOLEAN, kills : Nat, stops : Nat]
  BY ScenesAssumption DEF Init
<1>3. choice \in [Archives -> Choices \cup {"none"}]
  BY DEF Init
<1>4. QED  BY <1>1, <1>2, <1>3 DEF Init, TypeInv, TypeOK, UpTypes

\* Replaced names files that have pieces.
LEMMA ReplacedType ==
  ASSUME NEW S \in SUBSET Items
  PROVE  Replaced(S) \subseteq Large \cup Archives
BY ItemFacts DEF Replaced

LEMMA NextTypes == TypeInv /\ [Next]_vars => TypeInv'
<1> SUFFICES ASSUME TypeInv, [Next]_vars PROVE TypeInv'
  OBVIOUS
<1> USE DEF TypeInv, TypeOK, Placed, UpTypes, Places, GoTo, At, Live
<1>1. CASE \E f \in Sources : Fetch(f)
  <2>1. PICK f \in Sources : Fetch(f)
    BY <1>1
  <2>2. disk' \subseteq Items
    BY <2>1, ItemFacts, PutFacts DEF Fetch
  <2>3. dl' \in [over : BOOLEAN, got : SUBSET Sources]
    BY <2>1 DEF Fetch
  <2>4. /\ UNCHANGED <<extracted, marked, phase, scene, ok, up, uploaded, failed, splitParts,
                       choice, tried, fatal, sent, doubt, wiped>>
    BY <2>1 DEF Fetch
  <2>5. TypeOK'
    BY <2>2, <2>3, <2>4
  <2>6. Placed'
    BY <2>4
  <2>7. QED  BY <2>5, <2>6
<1>2. CASE FetchEnd
  <2>1. up' \in UpTypes /\ Placed'
    BY <1>2, ItemFacts DEF FetchEnd, Idle
  <2>2. QED  BY <1>2, <2>1, ItemFacts, KeyFacts, PutFacts DEF FetchEnd
<1>3. CASE Restore
  <2>1. up' \in UpTypes /\ Placed'
    BY <1>3, ItemFacts DEF Restore, Idle
  <2>2. QED  BY <1>3, <2>1, ItemFacts, KeyFacts, PutFacts DEF Restore
<1>4. CASE ReadDone
  <2>1. up' \in UpTypes /\ Placed'
    BY <1>4, ItemFacts DEF ReadDone, Idle
  <2>2. QED  BY <1>4, <2>1, ItemFacts, KeyFacts, PutFacts DEF ReadDone
<1>5. CASE List
  <2>1. PICK S \in SUBSET Ready : up' = IF S = {} THEN [up EXCEPT !.at = IF up.saw THEN "over" ELSE "loop"]
                 ELSE IF Groups(S) # {}
                        THEN [up EXCEPT !.at = "group", !.queue = Groups(S)]
                        ELSE [up EXCEPT !.at = "file", !.queue = S]
    BY <1>5 DEF List
  <2>2. S \subseteq Items /\ Groups(S) \subseteq Items
    BY DEF Ready, Groups
  <2>3. up' = [up EXCEPT !.at = up'.at, !.queue = up'.queue]
    BY <2>1
  <2>4. up'.at \in {"over", "loop", "group", "file"} /\ up'.queue \in SUBSET Items
    BY <2>1, <2>2
  <2>5. up' \in UpTypes /\ Placed'
    BY <2>3, <2>4
  <2>6. QED  BY <1>5, <2>5 DEF List
<1>6. CASE SendGroup
  <2>1. PICK B \in SUBSET up.queue :
           /\ sent' = [i \in Items |-> IF i \in B THEN sent[i] + 1 ELSE sent[i]]
           /\ up' = [up EXCEPT !.at = "recordGroup", !.queue = up.queue \ B, !.batch = B]
    BY <1>6 DEF SendGroup
  <2>2. up' \in UpTypes /\ Placed'
    BY <2>1
  <2>3. sent' \in [Items -> Nat]
    BY <2>1
  <2>4. QED  BY <1>6, <2>2, <2>3 DEF SendGroup
<1>7. CASE GroupFails
  <2> \A x \in up.queue : GroupMates(x, up.queue) \subseteq Items
    BY DEF GroupMates
  <2>0. PICK x \in up.queue : \E B \in SUBSET GroupMates(x, up.queue) :
           /\ failed' = failed \cup Keys(GroupMates(x, up.queue))
           /\ up' = [up EXCEPT !.queue = up.queue \ GroupMates(x, up.queue)]
           /\ sent' = [i \in Items |-> IF i \in B THEN sent[i] + 1 ELSE sent[i]]
           /\ doubt' = [i \in Items |-> IF i \in B THEN doubt[i] + 1 ELSE doubt[i]]
    BY <1>7 DEF GroupFails
  <2>1. PICK B \in SUBSET Items :
           /\ failed' = failed \cup Keys(GroupMates(x, up.queue))
           /\ up' = [up EXCEPT !.queue = up.queue \ GroupMates(x, up.queue)]
           /\ sent' = [i \in Items |-> IF i \in B THEN sent[i] + 1 ELSE sent[i]]
           /\ doubt' = [i \in Items |-> IF i \in B THEN doubt[i] + 1 ELSE doubt[i]]
    BY <2>0
  <2>2. up' \in UpTypes /\ Placed'
    BY <2>1
  <2>3. sent' \in [Items -> Nat] /\ doubt' \in [Items -> Nat]
    BY <2>1
  <2>4. failed' \subseteq Keys(Items)
    BY <2>1 DEF Keys, GroupMates
  <2>5. QED  BY <1>7, <2>2, <2>3, <2>4 DEF GroupFails
<1>8. CASE EndGroups
  <2>1. up' \in UpTypes /\ Placed'
    BY <1>8, ItemFacts DEF EndGroups, Idle
  <2>2. QED  BY <1>8, <2>1, ItemFacts, KeyFacts, PutFacts DEF EndGroups
<1>9. CASE LeaveOnCancel
  <2>1. up' \in UpTypes /\ Placed'
    BY <1>9, ItemFacts DEF LeaveOnCancel, Idle
  <2>2. QED  BY <1>9, <2>1, ItemFacts, KeyFacts, PutFacts DEF LeaveOnCancel
<1>10. CASE TakeInner
  <2>1. PICK x \in up.inner : up' = [up EXCEPT !.inner = up.inner \ {x}, !.cur = x,
                         !.at = IF Pending(x) THEN "send" ELSE "file"]
    BY <1>10 DEF TakeInner
  <2>2. x \in Inner /\ x \in Items
    BY ItemFacts
  <2>3. up' \in UpTypes /\ Placed'
    BY <2>1, <2>2
  <2>4. QED  BY <1>10, <2>3 DEF TakeInner
<1>11. CASE TakeArchive
  <2>1. up.arch \in {Source(a) : a \in Archives}
    BY <1>11 DEF TakeArchive
  <2>2. up.arch \in Items
    BY <2>1, ItemFacts DEF Sources
  <2>3. up' \in UpTypes /\ Placed'
    BY <1>11, <2>2 DEF TakeArchive
  <2>4. QED  BY <1>11, <2>3 DEF TakeArchive
<1>12. CASE TakeFile
  <2>1. PICK x \in up.queue :
           up' = [up EXCEPT !.queue = up.queue \ {x}, !.cur = x,
                            !.at = IF ~Pending(x) THEN "file"
                                   ELSE IF Key(x) \in Archives THEN "archive"
                                   ELSE IF Key(x) \in Large THEN "large"
                                   ELSE "send"]
    BY <1>12 DEF TakeFile
  <2>2. up' \in UpTypes /\ Placed'
    BY <2>1
  <2>3. QED  BY <1>12, <2>2 DEF TakeFile
<1>13. CASE EndPass
  <2>1. up' \in UpTypes /\ Placed'
    BY <1>13, ItemFacts DEF EndPass, Idle
  <2>2. QED  BY <1>13, <2>1, ItemFacts, KeyFacts, PutFacts DEF EndPass
<1>14. CASE Split
  <2>1. up' \in UpTypes /\ Placed'
    BY <1>14, ItemFacts DEF Split, Idle
  <2>2. QED  BY <1>14, <2>1, ItemFacts, KeyFacts, PutFacts DEF Split
<1>15. CASE MarkOriginal
  <2>1. up' \in UpTypes /\ Placed'
    BY <1>15 DEF MarkOriginal
  <2>2. Key(up.cur) \in Keys(Items) /\ Key(up.cur) \in Large
    BY <1>15 DEF MarkOriginal, Keys
  <2>3. Pieces[Key(up.cur)] \subseteq Keys(Items)
    BY <2>2, KeyFacts, ItemFacts DEF Keys
  <2>4. QED  BY <1>15, <2>1, <2>2, <2>3 DEF MarkOriginal
<1>16. CASE TooLarge
  <2>1. up' \in UpTypes /\ Placed'
    BY <1>16 DEF TooLarge
  <2>2. Key(up.cur) \in Keys(Items)
    BY <1>16 DEF TooLarge, Keys
  <2>3. QED  BY <1>16, <2>1, <2>2 DEF TooLarge
<1>17. CASE Send
  <2>1. up' \in UpTypes /\ Placed'
    BY <1>17, ItemFacts DEF Send, Idle
  <2>2. QED  BY <1>17, <2>1, ItemFacts, KeyFacts, PutFacts DEF Send
<1>18. CASE SendFails
  <2>1. up' \in UpTypes /\ Placed'
    BY <1>18 DEF SendFails
  <2>2. Key(up.cur) \in Keys(Items) /\ up.cur \in Items
    BY <1>18 DEF SendFails, Keys
  <2>3. sent' \in [Items -> Nat] /\ doubt' \in [Items -> Nat]
    BY <1>18, <2>2 DEF SendFails
  <2>4. failed' \subseteq Keys(Items)
    BY <1>18, <2>2 DEF SendFails
  <2>5. QED  BY <1>18, <2>1, <2>3, <2>4 DEF SendFails
<1>19a. CASE RemoveSent
  <2>1. PICK x \in up.batch :
          /\ disk' = disk \ {x} /\ extracted' = extracted \ {x}
          /\ up' = [up EXCEPT !.cur = x,
                              !.at = IF up.at = "record" THEN "mark" ELSE "markGroup"]
    BY <1>19a DEF RemoveSent
  <2>2. up' \in UpTypes /\ Placed'
    BY <1>19a, <2>1 DEF RemoveSent
  <2>3. QED  BY <1>19a, <2>1, <2>2 DEF RemoveSent
<1>19. CASE Record
  <2>1. Key(up.cur) \in Keys(Items)
    BY <1>19 DEF Record, Keys
  <2>2. up' \in UpTypes /\ Placed'
    BY <1>19 DEF Record
  <2>3. QED  BY <1>19, <2>1, <2>2 DEF Record
<1>20. CASE Choose
  <2>1. up' \in UpTypes /\ Placed'
    BY <1>20, ItemFacts DEF Choose, Idle
  <2>2. QED  BY <1>20, <2>1, ItemFacts, KeyFacts, PutFacts DEF Choose
<1>21. CASE BeginExtract
  <2>1. up' \in UpTypes /\ Placed'
    BY <1>21, ItemFacts DEF BeginExtract, Idle
  <2>2. QED  BY <1>21, <2>1, ItemFacts, KeyFacts, PutFacts DEF BeginExtract
<1>22. CASE SendArchive
  <2>1. up' \in UpTypes /\ Placed'
    BY <1>22, ItemFacts DEF SendArchive, Idle
  <2>2. QED  BY <1>22, <2>1, ItemFacts, KeyFacts, PutFacts DEF SendArchive
<1>23. CASE Extracted
  <2>1. Key(up.cur) \in Archives /\ up.cur = Source(Key(up.cur))
    BY <1>23, ItemFacts DEF Extracted, Sources
  <2>2. PiecesOf(Key(up.cur)) \subseteq Inner
    BY <2>1 DEF Inner
  <2>3. extracted' \subseteq Inner
    BY <1>23, <2>2, PutFacts DEF Extracted
  <2>4. up.cur \in {Source(a) : a \in Archives}
    BY <2>1
  <2>5. CASE up' = [up EXCEPT !.at = "consume"]
    <3>1. up' \in UpTypes /\ Placed'
      BY <1>23, <2>1, <2>5 DEF Extracted
    <3>2. QED  BY <1>23, <2>3, <3>1 DEF Extracted
  <2>6. CASE up' = [up EXCEPT !.at = "file", !.inner = extracted', !.arch = up.cur]
    <3>1. up' \in UpTypes /\ Placed'
      BY <2>3, <2>4, <2>6
    <3>2. QED  BY <1>23, <2>3, <3>1 DEF Extracted
  <2>7. QED  BY <1>23, <2>5, <2>6 DEF Extracted
<1>24. CASE ExtractFails
  <2>1. up' \in UpTypes /\ Placed'
    BY <1>24, ItemFacts DEF ExtractFails, Idle
  <2>2. QED  BY <1>24, <2>1, ItemFacts, KeyFacts, PutFacts DEF ExtractFails
<1>25a. CASE RemoveArchive
  <2>1. up' \in UpTypes /\ Placed'
    BY <1>25a DEF RemoveArchive
  <2>2. QED  BY <1>25a, <2>1 DEF RemoveArchive
<1>25. CASE Consume
  <2>1. up' \in UpTypes /\ Placed'
    BY <1>25 DEF Consume
  <2>2. Key(up.cur) \in Keys(Items)
    BY <1>25 DEF Consume, Keys
  <2>3. QED  BY <1>25, <2>1, <2>2 DEF Consume
<1>26. CASE Finalize
  <2>1. up' \in UpTypes /\ Placed'
    BY <1>26 DEF Finalize
  <2>2. Replaced(disk \cup extracted) \subseteq Large \cup Archives
    BY ItemFacts, ReplacedType
  <2>3. QED  BY <1>26, <2>1, <2>2 DEF Finalize
<1>27. CASE Stop
  <2>1. up' \in UpTypes /\ Placed'
    BY <1>27, ItemFacts DEF Stop, Idle
  <2>2. QED  BY <1>27, <2>1, ItemFacts, KeyFacts, PutFacts DEF Stop
<1>28. CASE Kill
  <2>1. up' \in UpTypes /\ Placed'
    BY <1>28, ItemFacts DEF Kill, Idle
  <2>2. QED  BY <1>28, <2>1, ItemFacts, KeyFacts, PutFacts DEF Kill
<1>29. CASE Restart
  <2>1. up' \in UpTypes /\ Placed'
    BY <1>29 DEF Restart, Idle
  <2>2. Replaced(extracted) \subseteq Large \cup Archives
    BY ItemFacts, ReplacedType
  <2>3. QED  BY <1>29, <2>1, <2>2 DEF Restart
<1>30. CASE UNCHANGED vars
  BY <1>30 DEF vars
<1>31. QED
  BY <1>1, <1>2, <1>3, <1>4, <1>5, <1>6, <1>7, <1>8, <1>9, <1>10, <1>11, <1>12, <1>13, <1>14, <1>15, <1>16, <1>17, <1>18, <1>19, <1>19a, <1>20, <1>21, <1>22, <1>23, <1>24, <1>25, <1>25a, <1>26, <1>27, <1>28, <1>29, <1>30 DEF Next, DownloadStage, UploadStage, UploadGroup, ProcessFile, HandleArchive

\* The types of the two stages, the store and the memory of a job hold for any
\* files, however often the process is stopped or killed.
THEOREM TypeCorrect == Spec => []TypeOK
<1>1. TypeInv => TypeOK
  BY DEF TypeInv
<1>2. QED  BY InitTypes, NextTypes, <1>1, PTL DEF Spec

-----------------------------------------------------------------------------
(* Nothing is sent again *)

\* What the store has is known once the stage has read it.
Remembered ==
  /\ uploaded \subseteq marked
  /\ Live /\ up.at # "restore" => marked \subseteq uploaded

\* What has arrived beyond doubt is recorded, or about to be.
Accounted == \A i \in Items :
  /\ sent[i] <= 1 + doubt[i]
  /\ sent[i] > doubt[i] => Key(i) \in marked \/ (Live /\ i \in up.batch)

\* The file in turn has not been recorded, nor the archive to send after its files.
CurUnsent == Live =>
  /\ up.at \notin {"record", "mark", "recordGroup", "markGroup"} => up.batch = {}
  /\ up.at \in {"mark", "markGroup"} => up.cur \in up.batch
  /\ up.at \in {"record", "mark"} => \E x \in Items : up.batch = {x}
  /\ up.at \in {"send", "archive", "extract"} => Key(up.cur) \notin marked
  /\ up.arch # NoFile =>
       /\ up.at \in {"file", "send", "record", "mark"} /\ Key(up.arch) \notin marked
       /\ up.at = "send" => up.cur \in Inner
       /\ up.batch \subseteq Inner

\* The files of a group have names of their own and are not recorded.
GroupUnsent ==
  /\ \A x, y \in disk : Key(x) = Key(y) => x = y
  /\ Live /\ up.at \in {"group", "recordGroup", "markGroup"} =>
       /\ \A x \in up.queue : Key(x) \notin marked
       /\ up.queue \cap up.batch = {}
       /\ \A x, y \in up.queue \cup up.batch : Key(x) = Key(y) => x = y

OnceInv == TypeInv /\ Remembered /\ Accounted /\ CurUnsent /\ GroupUnsent

LEMMA ApartFacts ==
  ASSUME NEW S, NEW T, S \cap T = {}
  PROVE  \A x \in S, y \in T : x # y
OBVIOUS

LEMMA InitOnce == Init => OnceInv
BY InitTypes DEF Init, OnceInv, Remembered, Accounted, CurUnsent, GroupUnsent, Idle, Live

LEMMA NextOnce == OnceInv /\ [Next]_vars => OnceInv'
<1> SUFFICES ASSUME OnceInv, [Next]_vars PROVE OnceInv'
  OBVIOUS
<1> TypeInv /\ TypeInv'
  BY NextTypes DEF OnceInv
<1> USE DEF OnceInv, TypeInv, TypeOK, Placed, GoTo, At, Live
<1>1. CASE (\E f \in Sources : Fetch(f))
  <2>1. Remembered'
    BY <1>1, ItemFacts, KeyFacts, PutFacts DEF Remembered, Fetch, Idle
  <2>2. Accounted'
    BY <1>1, ItemFacts, KeyFacts, PutFacts DEF Accounted, Fetch, Idle
  <2>3. CurUnsent'
    BY <1>1, ItemFacts, KeyFacts, PutFacts DEF CurUnsent, Fetch, Idle
  <2>4. GroupUnsent'
    BY <1>1, ItemFacts, KeyFacts, PutFacts DEF GroupUnsent, Fetch, Idle
  <2>5. QED  BY <2>1, <2>2, <2>3, <2>4
<1>2. CASE FetchEnd
  <2>1. Remembered'
    BY <1>2, ItemFacts, KeyFacts, PutFacts DEF Remembered, FetchEnd, Idle
  <2>2. Accounted'
    BY <1>2, ItemFacts, KeyFacts, PutFacts DEF Accounted, FetchEnd, Idle
  <2>3. CurUnsent'
    BY <1>2, ItemFacts, KeyFacts, PutFacts DEF CurUnsent, FetchEnd, Idle
  <2>4. GroupUnsent'
    BY <1>2, ItemFacts, KeyFacts, PutFacts DEF GroupUnsent, FetchEnd, Idle
  <2>5. QED  BY <2>1, <2>2, <2>3, <2>4
<1>3. CASE Restore
  <2>1. Remembered'
    BY <1>3, ItemFacts, KeyFacts, PutFacts DEF Remembered, Restore, Idle
  <2>2. Accounted'
    BY <1>3, ItemFacts, KeyFacts, PutFacts DEF Accounted, Restore, Idle
  <2>3. CurUnsent'
    BY <1>3, ItemFacts, KeyFacts, PutFacts DEF CurUnsent, Restore, Idle
  <2>4. GroupUnsent'
    BY <1>3, ItemFacts, KeyFacts, PutFacts DEF GroupUnsent, Restore, Idle
  <2>5. QED  BY <2>1, <2>2, <2>3, <2>4
<1>4. CASE ReadDone
  <2>1. Remembered'
    BY <1>4, ItemFacts, KeyFacts, PutFacts DEF Remembered, ReadDone, Idle
  <2>2. Accounted'
    BY <1>4, ItemFacts, KeyFacts, PutFacts DEF Accounted, ReadDone, Idle
  <2>3. CurUnsent'
    BY <1>4, ItemFacts, KeyFacts, PutFacts DEF CurUnsent, ReadDone, Idle
  <2>4. GroupUnsent'
    BY <1>4, ItemFacts, KeyFacts, PutFacts DEF GroupUnsent, ReadDone, Idle
  <2>5. QED  BY <2>1, <2>2, <2>3, <2>4
<1>5. CASE List
  <2>1. Remembered'
    BY <1>5, ItemFacts, KeyFacts, PutFacts DEF Remembered, List, Idle
  <2>2. Accounted'
    BY <1>5, ItemFacts, KeyFacts, PutFacts DEF Accounted, List, Idle
  <2>3. CurUnsent'
    BY <1>5, ItemFacts, KeyFacts, PutFacts DEF CurUnsent, List, Idle
  <2>4. GroupUnsent'
    <3>1. PICK S \in SUBSET Ready : up'.at \in {"group", "recordGroup", "markGroup"} =>
             up'.queue = Groups(S) /\ up'.batch = up.batch
      BY <1>5 DEF List
    <3>2. Groups(S) \subseteq disk /\ \A x \in Groups(S) : Key(x) \notin marked
      BY <1>5, <3>1 DEF Ready, Groups, Pending, Remembered, List
    <3>3. QED  BY <1>5, <3>1, <3>2 DEF List, GroupUnsent, CurUnsent
  <2>5. QED  BY <2>1, <2>2, <2>3, <2>4
<1>6. CASE SendGroup
  <2>1. Remembered'
    BY <1>6, ItemFacts, KeyFacts, PutFacts DEF Remembered, SendGroup, Idle
  <2>2. Accounted'
    <3>1. PICK B \in SUBSET up.queue :
             /\ sent' = [i \in Items |-> IF i \in B THEN sent[i] + 1 ELSE sent[i]]
             /\ up' = [up EXCEPT !.at = "recordGroup", !.queue = up.queue \ B, !.batch = B]
      BY <1>6 DEF SendGroup
    <3>2. up.batch = {} /\ \A i \in B : i \in Items /\ Key(i) \notin marked
      BY <1>6 DEF SendGroup, CurUnsent, GroupUnsent
    <3>3. \A i \in Items : sent'[i] = IF i \in B THEN sent[i] + 1 ELSE sent[i]
      BY <3>1
    <3>4. up'.batch = B
      BY <3>1
    <3>5. \A i \in Items : sent[i] \in Nat /\ doubt[i] \in Nat
      OBVIOUS
    <3>6. QED  BY <1>6, <3>2, <3>3, <3>4, <3>5 DEF SendGroup, Accounted
  <2>3. CurUnsent'
    BY <1>6, ItemFacts, KeyFacts, PutFacts DEF CurUnsent, SendGroup, Idle
  <2>4. GroupUnsent'
    BY <1>6, ItemFacts, KeyFacts, PutFacts DEF GroupUnsent, SendGroup, Idle
  <2>5. QED  BY <2>1, <2>2, <2>3, <2>4
<1>7. CASE GroupFails
  <2>1. Remembered'
    BY <1>7, ItemFacts, KeyFacts, PutFacts DEF Remembered, GroupFails, Idle
  <2>2. Accounted'
    BY <1>7, ItemFacts, KeyFacts, PutFacts DEF Accounted, GroupFails, Idle
  <2>3. CurUnsent'
    BY <1>7, ItemFacts, KeyFacts, PutFacts DEF CurUnsent, GroupFails, Idle
  <2>4. GroupUnsent'
    BY <1>7, ItemFacts, KeyFacts, PutFacts DEF GroupUnsent, GroupFails, Idle
  <2>5. QED  BY <2>1, <2>2, <2>3, <2>4
<1>8. CASE EndGroups
  <2>1. Remembered'
    BY <1>8, ItemFacts, KeyFacts, PutFacts DEF Remembered, EndGroups, Idle
  <2>2. Accounted'
    BY <1>8, ItemFacts, KeyFacts, PutFacts DEF Accounted, EndGroups, Idle
  <2>3. CurUnsent'
    BY <1>8, ItemFacts, KeyFacts, PutFacts DEF CurUnsent, EndGroups, Idle
  <2>4. GroupUnsent'
    BY <1>8, ItemFacts, KeyFacts, PutFacts DEF GroupUnsent, EndGroups, Idle
  <2>5. QED  BY <2>1, <2>2, <2>3, <2>4
<1>9. CASE LeaveOnCancel
  <2>1. Remembered'
    BY <1>9, ItemFacts, KeyFacts, PutFacts DEF Remembered, LeaveOnCancel, Idle
  <2>2. Accounted'
    BY <1>9 DEF LeaveOnCancel, Accounted, CurUnsent
  <2>3. CurUnsent'
    BY <1>9, ItemFacts, KeyFacts, PutFacts DEF CurUnsent, LeaveOnCancel, Idle
  <2>4. GroupUnsent'
    BY <1>9, ItemFacts, KeyFacts, PutFacts DEF GroupUnsent, LeaveOnCancel, Idle
  <2>5. QED  BY <2>1, <2>2, <2>3, <2>4
<1>10. CASE TakeInner
  <2>1. Remembered'
    BY <1>10, ItemFacts, KeyFacts, PutFacts DEF Remembered, TakeInner, Idle
  <2>2. Accounted'
    BY <1>10, ItemFacts, KeyFacts, PutFacts DEF Accounted, TakeInner, Idle
  <2>3. CurUnsent'
    <3>1. PICK x \in up.inner : up' = [up EXCEPT !.inner = up.inner \ {x}, !.cur = x,
                         !.at = IF Pending(x) THEN "send" ELSE "file"]
      BY <1>10 DEF TakeInner
    <3>2. Pending(x) => Key(x) \notin marked
      BY <1>10 DEF Pending, Remembered, TakeInner
    <3>3. QED  BY <1>10, <3>1, <3>2 DEF TakeInner, CurUnsent
  <2>4. GroupUnsent'
    BY <1>10, ItemFacts, KeyFacts, PutFacts DEF GroupUnsent, TakeInner, Idle
  <2>5. QED  BY <2>1, <2>2, <2>3, <2>4
<1>11. CASE TakeArchive
  <2>1. Remembered'
    BY <1>11, ItemFacts, KeyFacts, PutFacts DEF Remembered, TakeArchive, Idle
  <2>2. Accounted'
    BY <1>11, ItemFacts, KeyFacts, PutFacts DEF Accounted, TakeArchive, Idle
  <2>3. CurUnsent'
    BY <1>11, ItemFacts, KeyFacts, PutFacts DEF CurUnsent, TakeArchive, Idle
  <2>4. GroupUnsent'
    BY <1>11, ItemFacts, KeyFacts, PutFacts DEF GroupUnsent, TakeArchive, Idle
  <2>5. QED  BY <2>1, <2>2, <2>3, <2>4
<1>12. CASE TakeFile
  <2>1. Remembered'
    BY <1>12, ItemFacts, KeyFacts, PutFacts DEF Remembered, TakeFile, Idle
  <2>2. Accounted'
    BY <1>12, ItemFacts, KeyFacts, PutFacts DEF Accounted, TakeFile, Idle
  <2>3. CurUnsent'
    <3>1. PICK x \in up.queue :
             up' = [up EXCEPT !.queue = up.queue \ {x}, !.cur = x,
                              !.at = IF ~Pending(x) THEN "file"
                                     ELSE IF Key(x) \in Archives THEN "archive"
                                     ELSE IF Key(x) \in Large THEN "large"
                                     ELSE "send"]
      BY <1>12 DEF TakeFile
    <3>2. Pending(x) => Key(x) \notin marked
      BY <1>12 DEF Pending, Remembered, TakeFile
    <3>3. QED  BY <1>12, <3>1, <3>2 DEF TakeFile, CurUnsent
  <2>4. GroupUnsent'
    BY <1>12, ItemFacts, KeyFacts, PutFacts DEF GroupUnsent, TakeFile, Idle
  <2>5. QED  BY <2>1, <2>2, <2>3, <2>4
<1>13. CASE EndPass
  <2>1. Remembered'
    BY <1>13, ItemFacts, KeyFacts, PutFacts DEF Remembered, EndPass, Idle
  <2>2. Accounted'
    BY <1>13, ItemFacts, KeyFacts, PutFacts DEF Accounted, EndPass, Idle
  <2>3. CurUnsent'
    BY <1>13, ItemFacts, KeyFacts, PutFacts DEF CurUnsent, EndPass, Idle
  <2>4. GroupUnsent'
    BY <1>13, ItemFacts, KeyFacts, PutFacts DEF GroupUnsent, EndPass, Idle
  <2>5. QED  BY <2>1, <2>2, <2>3, <2>4
<1>14. CASE Split
  <2>1. Remembered'
    BY <1>14, ItemFacts, KeyFacts, PutFacts DEF Remembered, Split, Idle
  <2>2. Accounted'
    BY <1>14, ItemFacts, KeyFacts, PutFacts DEF Accounted, Split, Idle
  <2>3. CurUnsent'
    BY <1>14, ItemFacts, KeyFacts, PutFacts DEF CurUnsent, Split, Idle
  <2>4. GroupUnsent'
    <3>1. Key(up.cur) \in Large /\ disk' = Put(disk \ {up.cur}, PiecesOf(Key(up.cur)))
      BY <1>14 DEF Split
    <3>2. \A x, y \in PiecesOf(Key(up.cur)) : Key(x) = Key(y) => x = y
      BY DEF PiecesOf, Key
    <3>3. \A x \in PiecesOf(Key(up.cur)) : Key(x) \in Keys(PiecesOf(Key(up.cur)))
      BY DEF Keys
    <3>4. \A x, y \in disk' : Key(x) = Key(y) => x = y
      BY <3>1, <3>2, <3>3, PutFacts DEF GroupUnsent
    <3>5. QED  BY <1>14, <3>4 DEF Split, GroupUnsent
  <2>5. QED  BY <2>1, <2>2, <2>3, <2>4
<1>15. CASE MarkOriginal
  <2>1. Remembered'
    BY <1>15, ItemFacts, KeyFacts, PutFacts DEF Remembered, MarkOriginal, Idle
  <2>2. Accounted'
    BY <1>15, ItemFacts, KeyFacts, PutFacts DEF Accounted, MarkOriginal, Idle
  <2>3. CurUnsent'
    BY <1>15, ItemFacts, KeyFacts, PutFacts DEF CurUnsent, MarkOriginal, Idle
  <2>4. GroupUnsent'
    BY <1>15, ItemFacts, KeyFacts, PutFacts DEF GroupUnsent, MarkOriginal, Idle
  <2>5. QED  BY <2>1, <2>2, <2>3, <2>4
<1>16. CASE TooLarge
  <2>1. Remembered'
    BY <1>16, ItemFacts, KeyFacts, PutFacts DEF Remembered, TooLarge, Idle
  <2>2. Accounted'
    BY <1>16, ItemFacts, KeyFacts, PutFacts DEF Accounted, TooLarge, Idle
  <2>3. CurUnsent'
    BY <1>16, ItemFacts, KeyFacts, PutFacts DEF CurUnsent, TooLarge, Idle
  <2>4. GroupUnsent'
    BY <1>16, ItemFacts, KeyFacts, PutFacts DEF GroupUnsent, TooLarge, Idle
  <2>5. QED  BY <2>1, <2>2, <2>3, <2>4
<1>17. CASE Send
  <2>1. Remembered'
    BY <1>17, ItemFacts, KeyFacts, PutFacts DEF Remembered, Send, Idle
  <2>2. Accounted'
    <3>1. up.cur \in Items /\ up.batch = {} /\ Key(up.cur) \notin marked
      BY <1>17 DEF Send, CurUnsent
    <3>2. \A i \in Items : sent'[i] = IF i = up.cur THEN sent[i] + 1 ELSE sent[i]
      BY <1>17 DEF Send
    <3>3. \A i \in Items : sent[i] \in Nat /\ doubt[i] \in Nat
      OBVIOUS
    <3>4. up'.batch = {up.cur} /\ doubt' = doubt /\ marked' = marked /\ phase' = phase
      BY <1>17 DEF Send
    <3>5. QED  BY <1>17, <3>1, <3>2, <3>3, <3>4 DEF Send, Accounted
  <2>3. CurUnsent'
    BY <1>17, ItemFacts, KeyFacts, PutFacts DEF CurUnsent, Send, Idle
  <2>4. GroupUnsent'
    BY <1>17, ItemFacts, KeyFacts, PutFacts DEF GroupUnsent, Send, Idle
  <2>5. QED  BY <2>1, <2>2, <2>3, <2>4
<1>18. CASE SendFails
  <2>1. Remembered'
    BY <1>18, ItemFacts, KeyFacts, PutFacts DEF Remembered, SendFails, Idle
  <2>2. Accounted'
    BY <1>18, ItemFacts, KeyFacts, PutFacts DEF Accounted, SendFails, Idle
  <2>3. CurUnsent'
    BY <1>18, ItemFacts, KeyFacts, PutFacts DEF CurUnsent, SendFails, Idle
  <2>4. GroupUnsent'
    BY <1>18, ItemFacts, KeyFacts, PutFacts DEF GroupUnsent, SendFails, Idle
  <2>5. QED  BY <2>1, <2>2, <2>3, <2>4
<1>19a. CASE RemoveSent
  <2>1. Remembered'
    BY <1>19a DEF Remembered, RemoveSent
  <2>2. Accounted'
    BY <1>19a DEF Accounted, RemoveSent
  <2>3. CurUnsent'
    BY <1>19a DEF CurUnsent, RemoveSent
  <2>4. GroupUnsent'
    BY <1>19a DEF GroupUnsent, RemoveSent
  <2>5. QED  BY <2>1, <2>2, <2>3, <2>4
<1>19. CASE Record
  <2> DEFINE x == up.cur
  <2>1. Remembered'
    BY <1>19 DEF Remembered, Record
  <2>2. /\ x \in up.batch /\ x \in Items
        /\ disk' = disk /\ marked' = marked \cup {Key(x)} /\ phase' = phase
        /\ sent' = sent /\ doubt' = doubt
        /\ up'.batch = up.batch \ {x} /\ up'.arch = up.arch /\ up'.queue = up.queue
        /\ up'.at = IF up.at = "mark" THEN "file" ELSE IF up.batch # {x} THEN "recordGroup" ELSE "group"
    BY <1>19 DEF Record, CurUnsent
  <2> HIDE DEF x
  <2>3. Accounted'
    BY <1>19, <2>2 DEF Record, Accounted
  <2>4. CurUnsent'
    <3>1. up.arch # NoFile => Key(up.arch) \in Sources /\ Key(x) \notin Sources
      <4>1. up.arch # NoFile => up.arch \in {Source(a) : a \in Archives} /\ up.batch \subseteq Inner
        BY <1>19 DEF Record, CurUnsent
      <4>2. QED  BY <2>2, <4>1, ItemFacts, KeyFacts DEF Sources
    <3>2. up.at = "mark" => up.batch = {x}
      BY <1>19 DEF Record, CurUnsent, x
    <3>3. QED  BY <1>19, <2>2, <3>1, <3>2 DEF Record, CurUnsent
  <2>5. GroupUnsent'
    <3>1. \A y, z \in disk' : Key(y) = Key(z) => y = z
      BY <2>2 DEF GroupUnsent
    <3>2. ASSUME Live', up'.at \in {"group", "recordGroup", "markGroup"}
          PROVE  /\ \A y \in up.queue : Key(y) \notin marked'
                 /\ up.queue \cap up'.batch = {}
                 /\ \A y, z \in up.queue \cup up'.batch : Key(y) = Key(z) => y = z
      <4>1. up.at = "markGroup" /\ Live
        BY <1>19, <2>2, <3>2 DEF Record
      <4>2. ASSUME NEW y \in up.queue
            PROVE  Key(y) \notin marked /\ y # x /\ Key(y) # Key(x)
        <5>1. y \in up.queue \cup up.batch /\ x \in up.queue \cup up.batch
          BY <2>2
        <5>2. Key(y) = Key(x) => y = x
          BY <4>1, <5>1 DEF GroupUnsent
        <5>3. Key(y) \notin marked
          BY <4>1 DEF GroupUnsent
        <5>4. up.queue \cap up.batch = {}
          BY <4>1 DEF GroupUnsent
        <5>5. y # x
          BY <2>2, <5>4, ApartFacts
        <5>6. QED  BY <5>2, <5>3, <5>5
      <4>3. QED  BY <4>1, <4>2, <2>2 DEF GroupUnsent
    <3>3. QED  BY <2>2, <3>1, <3>2 DEF GroupUnsent
  <2>6. QED  BY <2>1, <2>3, <2>4, <2>5
<1>20. CASE Choose
  <2>1. Remembered'
    BY <1>20, ItemFacts, KeyFacts, PutFacts DEF Remembered, Choose, Idle
  <2>2. Accounted'
    BY <1>20, ItemFacts, KeyFacts, PutFacts DEF Accounted, Choose, Idle
  <2>3. CurUnsent'
    BY <1>20, ItemFacts, KeyFacts, PutFacts DEF CurUnsent, Choose, Idle
  <2>4. GroupUnsent'
    BY <1>20, ItemFacts, KeyFacts, PutFacts DEF GroupUnsent, Choose, Idle
  <2>5. QED  BY <2>1, <2>2, <2>3, <2>4
<1>21. CASE BeginExtract
  <2>1. Remembered'
    BY <1>21, ItemFacts, KeyFacts, PutFacts DEF Remembered, BeginExtract, Idle
  <2>2. Accounted'
    BY <1>21, ItemFacts, KeyFacts, PutFacts DEF Accounted, BeginExtract, Idle
  <2>3. CurUnsent'
    BY <1>21, ItemFacts, KeyFacts, PutFacts DEF CurUnsent, BeginExtract, Idle
  <2>4. GroupUnsent'
    BY <1>21, ItemFacts, KeyFacts, PutFacts DEF GroupUnsent, BeginExtract, Idle
  <2>5. QED  BY <2>1, <2>2, <2>3, <2>4
<1>22. CASE SendArchive
  <2>1. Remembered'
    BY <1>22, ItemFacts, KeyFacts, PutFacts DEF Remembered, SendArchive, Idle
  <2>2. Accounted'
    BY <1>22, ItemFacts, KeyFacts, PutFacts DEF Accounted, SendArchive, Idle
  <2>3. CurUnsent'
    BY <1>22, ItemFacts, KeyFacts, PutFacts DEF CurUnsent, SendArchive, Idle
  <2>4. GroupUnsent'
    BY <1>22, ItemFacts, KeyFacts, PutFacts DEF GroupUnsent, SendArchive, Idle
  <2>5. QED  BY <2>1, <2>2, <2>3, <2>4
<1>23. CASE Extracted
  <2>1. Remembered'
    BY <1>23, ItemFacts, KeyFacts, PutFacts DEF Remembered, Extracted, Idle
  <2>2. Accounted'
    BY <1>23, ItemFacts, KeyFacts, PutFacts DEF Accounted, Extracted, Idle
  <2>3. CurUnsent'
    BY <1>23, ItemFacts, KeyFacts, PutFacts DEF CurUnsent, Extracted, Idle
  <2>4. GroupUnsent'
    BY <1>23, ItemFacts, KeyFacts, PutFacts DEF GroupUnsent, Extracted, Idle
  <2>5. QED  BY <2>1, <2>2, <2>3, <2>4
<1>24. CASE ExtractFails
  <2>1. Remembered'
    BY <1>24, ItemFacts, KeyFacts, PutFacts DEF Remembered, ExtractFails, Idle
  <2>2. Accounted'
    BY <1>24, ItemFacts, KeyFacts, PutFacts DEF Accounted, ExtractFails, Idle
  <2>3. CurUnsent'
    BY <1>24, ItemFacts, KeyFacts, PutFacts DEF CurUnsent, ExtractFails, Idle
  <2>4. GroupUnsent'
    BY <1>24, ItemFacts, KeyFacts, PutFacts DEF GroupUnsent, ExtractFails, Idle
  <2>5. QED  BY <2>1, <2>2, <2>3, <2>4
<1>25a. CASE RemoveArchive
  <2>1. Remembered'
    BY <1>25a DEF Remembered, RemoveArchive
  <2>2. Accounted'
    BY <1>25a DEF Accounted, RemoveArchive
  <2>3. CurUnsent'
    BY <1>25a DEF CurUnsent, RemoveArchive
  <2>4. GroupUnsent'
    BY <1>25a DEF GroupUnsent, RemoveArchive
  <2>5. QED  BY <2>1, <2>2, <2>3, <2>4
<1>25. CASE Consume
  <2>1. Remembered'
    BY <1>25, ItemFacts, KeyFacts, PutFacts DEF Remembered, Consume, Idle
  <2>2. Accounted'
    BY <1>25, ItemFacts, KeyFacts, PutFacts DEF Accounted, Consume, Idle
  <2>3. CurUnsent'
    BY <1>25, ItemFacts, KeyFacts, PutFacts DEF CurUnsent, Consume, Idle
  <2>4. GroupUnsent'
    BY <1>25, ItemFacts, KeyFacts, PutFacts DEF GroupUnsent, Consume, Idle
  <2>5. QED  BY <2>1, <2>2, <2>3, <2>4
<1>26. CASE Finalize
  <2>1. Remembered'
    BY <1>26, ItemFacts, KeyFacts, PutFacts DEF Remembered, Finalize, Idle
  <2>2. Accounted'
    BY <1>26 DEF Finalize, Accounted, CurUnsent
  <2>3. CurUnsent'
    BY <1>26, ItemFacts, KeyFacts, PutFacts DEF CurUnsent, Finalize, Idle
  <2>4. GroupUnsent'
    BY <1>26, ItemFacts, KeyFacts, PutFacts DEF GroupUnsent, Finalize, Idle
  <2>5. QED  BY <2>1, <2>2, <2>3, <2>4
<1>27. CASE Stop
  <2>1. Remembered'
    BY <1>27, ItemFacts, KeyFacts, PutFacts DEF Remembered, Stop, Idle
  <2>2. Accounted'
    BY <1>27, ItemFacts, KeyFacts, PutFacts DEF Accounted, Stop, Idle
  <2>3. CurUnsent'
    BY <1>27, ItemFacts, KeyFacts, PutFacts DEF CurUnsent, Stop, Idle
  <2>4. GroupUnsent'
    BY <1>27, ItemFacts, KeyFacts, PutFacts DEF GroupUnsent, Stop, Idle
  <2>5. QED  BY <2>1, <2>2, <2>3, <2>4
<1>28. CASE Kill
  <2>1. Remembered'
    BY <1>28, ItemFacts, KeyFacts, PutFacts DEF Remembered, Kill, Idle
  <2>2. Accounted'
    BY <1>28, ItemFacts, KeyFacts, PutFacts DEF Accounted, Kill, Idle
  <2>3. CurUnsent'
    BY <1>28, ItemFacts, KeyFacts, PutFacts DEF CurUnsent, Kill, Idle
  <2>4. GroupUnsent'
    BY <1>28, ItemFacts, KeyFacts, PutFacts DEF GroupUnsent, Kill, Idle
  <2>5. QED  BY <2>1, <2>2, <2>3, <2>4
<1>29. CASE Restart
  <2>1. Remembered'
    BY <1>29, ItemFacts, KeyFacts, PutFacts DEF Remembered, Restart, Idle
  <2>2. Accounted'
    BY <1>29, ItemFacts, KeyFacts, PutFacts DEF Accounted, Restart, Idle
  <2>3. CurUnsent'
    BY <1>29, ItemFacts, KeyFacts, PutFacts DEF CurUnsent, Restart, Idle
  <2>4. GroupUnsent'
    BY <1>29, ItemFacts, KeyFacts, PutFacts DEF GroupUnsent, Restart, Idle
  <2>5. QED  BY <2>1, <2>2, <2>3, <2>4
<1>30. CASE UNCHANGED vars
  <2>1. Remembered'
    BY <1>30, ItemFacts, KeyFacts, PutFacts DEF Remembered, vars, Idle
  <2>2. Accounted'
    BY <1>30, ItemFacts, KeyFacts, PutFacts DEF Accounted, vars, Idle
  <2>3. CurUnsent'
    BY <1>30, ItemFacts, KeyFacts, PutFacts DEF CurUnsent, vars, Idle
  <2>4. GroupUnsent'
    BY <1>30, ItemFacts, KeyFacts, PutFacts DEF GroupUnsent, vars, Idle
  <2>5. QED  BY <2>1, <2>2, <2>3, <2>4
<1>31. QED
  BY <1>1, <1>2, <1>3, <1>4, <1>5, <1>6, <1>7, <1>8, <1>9, <1>10, <1>11, <1>12, <1>13, <1>14, <1>15, <1>16, <1>17, <1>18, <1>19, <1>19a, <1>20, <1>21, <1>22, <1>23, <1>24, <1>25, <1>25a, <1>26, <1>27, <1>28, <1>29, <1>30 DEF Next, DownloadStage, UploadStage, UploadGroup, ProcessFile, HandleArchive

\* uploadStage sends nothing twice, over any number of restarts, unless the upload
\* before ended without the job learning that the file had arrived.
THEOREM SentAgainOnlyWhenInDoubt == Spec => []SentAgainOnlyInDoubt
<1>1. OnceInv => SentAgainOnlyInDoubt
  BY DEF OnceInv, TypeInv, Accounted, SentAgainOnlyInDoubt
<1>2. QED  BY InitOnce, NextOnce, <1>1, PTL DEF Spec

-----------------------------------------------------------------------------
(* Nothing is lost *)

\* No two files of the job are turned into pieces of the same name.
NamesApart == \A f, g \in Large \cup Archives : f # g => Pieces[f] \cap Pieces[g] = {}

\* A piece that is recorded has come to the chat, and so has what is to be recorded.
PiecesSent ==
  /\ \A f \in Large \cup Archives : \A i \in PiecesOf(f) : Key(i) \in marked => sent[i] > 0
  /\ Live => \A i \in up.batch : sent[i] > 0

\* Of a source that is recorded without having been sent, every piece has come or is
\* still there, whenever the process ends.
Kept == phase # "finished" => \A f \in (Sources \cap marked) \ wiped :
  \/ sent[Source(f)] > 0
  \/ f \notin Plain /\ \A i \in PiecesOf(f) : sent[i] > 0 \/ i \in disk \cup extracted

\* A source this process has fetched and not recorded is there, or being recorded in
\* the place of its pieces.
InHand == Live /\ ~Cancelled => \A f \in dl.got \ marked :
  \/ Settled(Source(f))
  \/ Source(f) \in disk
  \/ up.at \in {"split", "consumed"} /\ up.cur = Source(f)

\* Nobody looks into the directory of extracted files: what waits there is in the
\* hands of the stage.
Handled == Live /\ ~Cancelled => \A f \in (Large \cup Archives) \cap (marked \ wiped) :
  sent[Source(f)] = 0 => \A i \in PiecesOf(f) :
    (i \in extracted /\ sent[i] = 0) =>
      \/ Key(i) \in failed
      \/ i \in up.inner
      \/ up.at = "send" /\ up.cur = i

\* Where the stage is.
InPlace == Live =>
  /\ up.at = "split" => PiecesOf(Key(up.cur)) \subseteq disk
  /\ up.at \in {"consume", "consumed"} => PiecesOf(Key(up.cur)) \subseteq extracted
  /\ up.inner # {} => up.at \in {"file", "send", "record", "mark"}

\* The stage ends when nothing was left after the download was done.
SawDone ==
  /\ Live /\ up.saw => dl.over
  /\ Live /\ up.at = "over" /\ ~Cancelled => dl.over /\ Ready = {}
  /\ ok => dl.over /\ dl.got = scene.source

LostInv == PiecesSent /\ Kept /\ InHand /\ Handled /\ InPlace /\ SawDone /\ DeliveredOrWiped

-----------------------------------------------------------------------------
LEMMA PieceFacts ==
  /\ \A f \in Large \cup Archives : \A i \in PiecesOf(f) :
       i \in Items /\ Origin(i) = f /\ Key(i) \in Pieces[f] /\ Key(i) \notin Sources
  /\ \A x \in Items : \/ Key(x) \in Sources /\ x = Source(Key(x))
                      \/ \E f \in Large \cup Archives : x \in PiecesOf(f)
  /\ \A f \in Large : PiecesOf(f) \cap Inner = {}
<1>1. ASSUME NEW f \in Large \cup Archives, NEW i \in PiecesOf(f)
      PROVE  i \in Items /\ Origin(i) = f /\ Key(i) \in Pieces[f] /\ Key(i) \notin Sources
  BY KindsAssumption DEF PiecesOf, Origin, Key, Items, Inner, Source
<1>2. ASSUME NEW x \in Items
      PROVE  \/ Key(x) \in Sources /\ x = Source(Key(x))
             \/ \E f \in Large \cup Archives : x \in PiecesOf(f)
  BY DEF PiecesOf, Key, Items, Inner, Source
<1>3. ASSUME NEW f \in Large PROVE PiecesOf(f) \cap Inner = {}
  BY KindsAssumption DEF PiecesOf, Inner
<1>4. QED  BY <1>1, <1>2, <1>3

LEMMA PiecesApart ==
  ASSUME NamesApart
  PROVE  \A f, g \in Large \cup Archives : \A i \in PiecesOf(f), j \in PiecesOf(g) :
           (f # g => Key(i) # Key(j)) /\ (Key(i) = Key(j) => i = j)
<1> TAKE f, g \in Large \cup Archives
<1> TAKE i \in PiecesOf(f), j \in PiecesOf(g)
<1>1. f # g => Key(i) # Key(j)
  BY PieceFacts DEF NamesApart
<1>2. f = g /\ Key(i) = Key(j) => i = j
  BY DEF PiecesOf, Key
<1>3. QED  BY <1>1, <1>2

\* A step that records nothing loses nothing if it leaves the pieces alone.
LEMMA StillKept ==
  ASSUME TypeOK, Kept, phase # "finished", marked' = marked, wiped' = wiped,
         \A i \in Items : sent[i] > 0 => sent'[i] > 0,
         \A f \in Large \cup Archives : \A i \in PiecesOf(f) :
           i \in disk \cup extracted => i \in disk' \cup extracted'
  PROVE  Kept'
<1> SUFFICES ASSUME NEW f \in (Sources \cap marked) \ wiped
             PROVE  \/ sent'[Source(f)] > 0
                    \/ f \notin Plain /\ \A i \in PiecesOf(f) : sent'[i] > 0 \/ i \in disk' \cup extracted'
  BY DEF Kept
<1>1. CASE sent[Source(f)] > 0
  BY <1>1, ItemFacts
<1>2. CASE ~(sent[Source(f)] > 0)
  <2>1. f \in Large \cup Archives /\ \A i \in PiecesOf(f) : sent[i] > 0 \/ i \in disk \cup extracted
    BY <1>2 DEF Kept, Sources
  <2>2. f \notin Plain
    BY <2>1, KindsAssumption
  <2>3. ASSUME NEW i \in PiecesOf(f) PROVE sent'[i] > 0 \/ i \in disk' \cup extracted'
    BY <2>1, PieceFacts
  <2>4. QED  BY <2>2, <2>3
<1>3. QED  BY <1>1, <1>2

\* A fetched file takes the place of the same source, and of nothing else.
LEMMA FetchFacts ==
  ASSUME NEW f \in Sources, disk' = Put(disk, {Source(f)})
  PROVE  /\ \A g \in Large \cup Archives : \A i \in PiecesOf(g) : i \in disk => i \in disk'
         /\ \A g \in Sources : Source(g) \in disk \/ g = f => Source(g) \in disk'
<1>1. Keys({Source(f)}) = {f}
  BY KeyFacts DEF Keys
<1>2. ASSUME NEW x \in disk, Key(x) # f PROVE x \in disk'
  BY <1>1, <1>2, PutFacts
<1>3. Source(f) \in disk'
  BY PutFacts
<1>4. ASSUME NEW g \in Large \cup Archives, NEW i \in PiecesOf(g), i \in disk PROVE i \in disk'
  BY <1>2, <1>4, PieceFacts
<1>5. ASSUME NEW g \in Sources, Source(g) \in disk \/ g = f PROVE Source(g) \in disk'
  BY <1>2, <1>3, <1>5, KeyFacts
<1>6. QED  BY <1>4, <1>5

\* A group that fails takes nothing back that has come.
LEMMA GroupFailsSends ==
  ASSUME TypeOK, GroupFails
  PROVE  up'.batch = up.batch /\ \A i \in Items : sent[i] > 0 => sent'[i] > 0
<1>1. PICK x \in up.queue : \E B \in SUBSET GroupMates(x, up.queue) :
         /\ up' = [up EXCEPT !.queue = up.queue \ GroupMates(x, up.queue)]
         /\ sent' = [i \in Items |-> IF i \in B THEN sent[i] + 1 ELSE sent[i]]
  BY DEF GroupFails
<1>2. PICK B \in SUBSET GroupMates(x, up.queue) :
         sent' = [i \in Items |-> IF i \in B THEN sent[i] + 1 ELSE sent[i]]
  BY <1>1
<1>3. up'.batch = up.batch
  BY <1>1 DEF TypeOK
<1>4. ASSUME NEW i \in Items, sent[i] > 0 PROVE sent'[i] > 0
  <2>1. sent[i] \in Nat
    BY DEF TypeOK
  <2>2. sent'[i] = IF i \in B THEN sent[i] + 1 ELSE sent[i]
    BY <1>2
  <2>3. QED  BY <1>4, <2>1, <2>2
<1>5. QED  BY <1>3, <1>4

LEMMA InitLost == Init => LostInv
BY KeyFacts DEF Init, LostInv, PiecesSent, Kept, InHand, Handled, InPlace, SawDone, DeliveredOrWiped, Idle, Live

LEMMA NextLost ==
  ASSUME NamesApart
  PROVE  OnceInv /\ LostInv /\ [Next]_vars => LostInv'
<1> SUFFICES ASSUME OnceInv, LostInv, [Next]_vars PROVE LostInv'
  OBVIOUS
<1> TypeInv /\ TypeInv'
  BY NextTypes DEF OnceInv
<1> USE DEF OnceInv, LostInv, TypeInv, TypeOK, Placed, GoTo, At, Live
<1>1. CASE (\E f \in Sources : Fetch(f))
  <2>1. PiecesSent'
    BY <1>1, ItemFacts, KeyFacts, PutFacts DEF PiecesSent, Fetch, Idle
  <2>2. Kept'
    <3>1. PICK f \in Sources : Fetch(f)
      BY <1>1
    <3>2. \A g \in Large \cup Archives : \A i \in PiecesOf(g) : i \in disk => i \in disk'
      BY <3>1, FetchFacts DEF Fetch
    <3>3. QED  BY <3>1, <3>2, StillKept DEF Fetch
  <2>3. InHand'
    <3>1. PICK f \in Sources : Fetch(f)
      BY <1>1
    <3>2. \A g \in Sources : Source(g) \in disk \/ g = f => Source(g) \in disk'
      BY <3>1, FetchFacts DEF Fetch
    <3>3. dl'.got = dl.got \cup {f} /\ dl.got \subseteq Sources
      BY <3>1 DEF Fetch
    <3>4. QED  BY <3>1, <3>2, <3>3 DEF Fetch, InHand, Settled, Cancelled
  <2>4. Handled'
    BY <1>1, ItemFacts, KeyFacts, PutFacts DEF Handled, Fetch, Idle, Cancelled
  <2>5. InPlace'
    <3>1. PICK f \in Sources : Fetch(f)
      BY <1>1
    <3>2. \A g \in Large \cup Archives : \A i \in PiecesOf(g) : i \in disk => i \in disk'
      BY <3>1, FetchFacts DEF Fetch
    <3>3. QED  BY <3>1, <3>2 DEF Fetch, InPlace
  <2>6. SawDone'
    BY <1>1, ItemFacts, KeyFacts, PutFacts DEF SawDone, Fetch, Idle, Cancelled, Ready, Pending
  <2>7. DeliveredOrWiped'
    BY <1>1, ItemFacts, KeyFacts, PutFacts DEF DeliveredOrWiped, Fetch, Idle, Delivered, Settled
  <2>8. QED  BY <2>1, <2>2, <2>3, <2>4, <2>5, <2>6, <2>7
<1>2. CASE FetchEnd
  <2>1. PiecesSent'
    BY <1>2, ItemFacts, KeyFacts, PutFacts DEF PiecesSent, FetchEnd, Idle
  <2>2. Kept'
    BY <1>2, ItemFacts, KeyFacts, PutFacts DEF Kept, FetchEnd, Idle
  <2>3. InHand'
    BY <1>2, ItemFacts, KeyFacts, PutFacts DEF InHand, FetchEnd, Idle, Settled, Cancelled
  <2>4. Handled'
    BY <1>2, ItemFacts, KeyFacts, PutFacts DEF Handled, FetchEnd, Idle, Cancelled
  <2>5. InPlace'
    BY <1>2, ItemFacts, KeyFacts, PutFacts DEF InPlace, FetchEnd, Idle
  <2>6. SawDone'
    BY <1>2, ItemFacts, KeyFacts, PutFacts DEF SawDone, FetchEnd, Idle, Cancelled, Ready, Pending
  <2>7. DeliveredOrWiped'
    BY <1>2, ItemFacts, KeyFacts, PutFacts DEF DeliveredOrWiped, FetchEnd, Idle, Delivered, Settled
  <2>8. QED  BY <2>1, <2>2, <2>3, <2>4, <2>5, <2>6, <2>7
<1>3. CASE Restore
  <2>1. PiecesSent'
    BY <1>3, ItemFacts, KeyFacts, PutFacts DEF PiecesSent, Restore, Idle
  <2>2. Kept'
    BY <1>3, ItemFacts, KeyFacts, PutFacts DEF Kept, Restore, Idle
  <2>3. InHand'
    BY <1>3, ItemFacts, KeyFacts, PutFacts DEF InHand, Restore, Idle, Settled, Cancelled
  <2>4. Handled'
    BY <1>3, ItemFacts, KeyFacts, PutFacts DEF Handled, Restore, Idle, Cancelled
  <2>5. InPlace'
    BY <1>3, ItemFacts, KeyFacts, PutFacts DEF InPlace, Restore, Idle
  <2>6. SawDone'
    BY <1>3, ItemFacts, KeyFacts, PutFacts DEF SawDone, Restore, Idle, Cancelled, Ready, Pending
  <2>7. DeliveredOrWiped'
    BY <1>3, ItemFacts, KeyFacts, PutFacts DEF DeliveredOrWiped, Restore, Idle, Delivered, Settled
  <2>8. QED  BY <2>1, <2>2, <2>3, <2>4, <2>5, <2>6, <2>7
<1>4. CASE ReadDone
  <2>1. PiecesSent'
    BY <1>4, ItemFacts, KeyFacts, PutFacts DEF PiecesSent, ReadDone, Idle
  <2>2. Kept'
    BY <1>4, ItemFacts, KeyFacts, PutFacts DEF Kept, ReadDone, Idle
  <2>3. InHand'
    BY <1>4, ItemFacts, KeyFacts, PutFacts DEF InHand, ReadDone, Idle, Settled, Cancelled
  <2>4. Handled'
    BY <1>4, ItemFacts, KeyFacts, PutFacts DEF Handled, ReadDone, Idle, Cancelled
  <2>5. InPlace'
    BY <1>4, ItemFacts, KeyFacts, PutFacts DEF InPlace, ReadDone, Idle
  <2>6. SawDone'
    BY <1>4, ItemFacts, KeyFacts, PutFacts DEF SawDone, ReadDone, Idle, Cancelled, Ready, Pending
  <2>7. DeliveredOrWiped'
    BY <1>4, ItemFacts, KeyFacts, PutFacts DEF DeliveredOrWiped, ReadDone, Idle, Delivered, Settled
  <2>8. QED  BY <2>1, <2>2, <2>3, <2>4, <2>5, <2>6, <2>7
<1>5. CASE List
  <2>1. PiecesSent'
    BY <1>5, ItemFacts, KeyFacts, PutFacts DEF PiecesSent, List, Idle
  <2>2. Kept'
    BY <1>5, ItemFacts, KeyFacts, PutFacts DEF Kept, List, Idle
  <2>3. InHand'
    BY <1>5, ItemFacts, KeyFacts, PutFacts DEF InHand, List, Idle, Settled, Cancelled
  <2>4. Handled'
    BY <1>5, ItemFacts, KeyFacts, PutFacts DEF Handled, List, Idle, Cancelled
  <2>5. InPlace'
    BY <1>5, ItemFacts, KeyFacts, PutFacts DEF InPlace, List, Idle
  <2>6. SawDone'
    BY <1>5, ItemFacts, KeyFacts, PutFacts DEF SawDone, List, Idle, Cancelled, Ready, Pending
  <2>7. DeliveredOrWiped'
    BY <1>5, ItemFacts, KeyFacts, PutFacts DEF DeliveredOrWiped, List, Idle, Delivered, Settled
  <2>8. QED  BY <2>1, <2>2, <2>3, <2>4, <2>5, <2>6, <2>7
<1>6. CASE SendGroup
  <2>1. PiecesSent'
    <3>1. PICK B \in SUBSET up.queue :
             /\ sent' = [i \in Items |-> IF i \in B THEN sent[i] + 1 ELSE sent[i]]
             /\ up' = [up EXCEPT !.at = "recordGroup", !.queue = up.queue \ B, !.batch = B]
      BY <1>6 DEF SendGroup
    <3>2. \A i \in Items : sent'[i] = IF i \in B THEN sent[i] + 1 ELSE sent[i]
      BY <3>1
    <3>3. \A i \in Items : sent[i] \in Nat
      OBVIOUS
    <3>4. up'.batch = B /\ B \subseteq Items
      BY <3>1
    <3>5. QED  BY <1>6, <3>2, <3>3, <3>4, PieceFacts DEF SendGroup, PiecesSent
  <2>2. Kept'
    <3>1. PICK B \in SUBSET up.queue :
             /\ sent' = [i \in Items |-> IF i \in B THEN sent[i] + 1 ELSE sent[i]]
             /\ up' = [up EXCEPT !.at = "recordGroup", !.queue = up.queue \ B, !.batch = B]
      BY <1>6 DEF SendGroup
    <3>2. \A i \in Items : sent'[i] = IF i \in B THEN sent[i] + 1 ELSE sent[i]
      BY <3>1
    <3>3. \A i \in Items : sent[i] \in Nat
      OBVIOUS
    <3>4. \A i \in Items : sent[i] > 0 => sent'[i] > 0
      BY <3>2, <3>3
    <3>5. QED  BY <1>6, <3>4, StillKept DEF SendGroup
  <2>3. InHand'
    BY <1>6, ItemFacts, KeyFacts, PutFacts DEF InHand, SendGroup, Idle, Settled, Cancelled
  <2>4. Handled'
    BY <1>6, ItemFacts, KeyFacts, PutFacts DEF Handled, SendGroup, Idle, Cancelled
  <2>5. InPlace'
    BY <1>6, ItemFacts, KeyFacts, PutFacts DEF InPlace, SendGroup, Idle
  <2>6. SawDone'
    BY <1>6, ItemFacts, KeyFacts, PutFacts DEF SawDone, SendGroup, Idle, Cancelled, Ready, Pending
  <2>7. DeliveredOrWiped'
    BY <1>6, ItemFacts, KeyFacts, PutFacts DEF DeliveredOrWiped, SendGroup, Idle, Delivered, Settled
  <2>8. QED  BY <2>1, <2>2, <2>3, <2>4, <2>5, <2>6, <2>7
<1>7. CASE GroupFails
  <2>1. PiecesSent'
    BY <1>7, GroupFailsSends, PieceFacts DEF GroupFails, PiecesSent
  <2>2. Kept'
    BY <1>7, GroupFailsSends, StillKept DEF GroupFails
  <2>3. InHand'
    BY <1>7, ItemFacts, KeyFacts, PutFacts DEF InHand, GroupFails, Idle, Settled, Cancelled
  <2>4. Handled'
    BY <1>7, ItemFacts, KeyFacts, PutFacts DEF Handled, GroupFails, Idle, Cancelled
  <2>5. InPlace'
    BY <1>7, ItemFacts, KeyFacts, PutFacts DEF InPlace, GroupFails, Idle
  <2>6. SawDone'
    BY <1>7, ItemFacts, KeyFacts, PutFacts DEF SawDone, GroupFails, Idle, Cancelled, Ready, Pending
  <2>7. DeliveredOrWiped'
    BY <1>7, ItemFacts, KeyFacts, PutFacts DEF DeliveredOrWiped, GroupFails, Idle, Delivered, Settled
  <2>8. QED  BY <2>1, <2>2, <2>3, <2>4, <2>5, <2>6, <2>7
<1>8. CASE EndGroups
  <2>1. PiecesSent'
    BY <1>8, ItemFacts, KeyFacts, PutFacts DEF PiecesSent, EndGroups, Idle
  <2>2. Kept'
    BY <1>8, ItemFacts, KeyFacts, PutFacts DEF Kept, EndGroups, Idle
  <2>3. InHand'
    BY <1>8, ItemFacts, KeyFacts, PutFacts DEF InHand, EndGroups, Idle, Settled, Cancelled
  <2>4. Handled'
    BY <1>8, ItemFacts, KeyFacts, PutFacts DEF Handled, EndGroups, Idle, Cancelled
  <2>5. InPlace'
    BY <1>8, ItemFacts, KeyFacts, PutFacts DEF InPlace, EndGroups, Idle
  <2>6. SawDone'
    BY <1>8, ItemFacts, KeyFacts, PutFacts DEF SawDone, EndGroups, Idle, Cancelled, Ready, Pending
  <2>7. DeliveredOrWiped'
    BY <1>8, ItemFacts, KeyFacts, PutFacts DEF DeliveredOrWiped, EndGroups, Idle, Delivered, Settled
  <2>8. QED  BY <2>1, <2>2, <2>3, <2>4, <2>5, <2>6, <2>7
<1>9. CASE LeaveOnCancel
  <2>1. PiecesSent'
    BY <1>9, ItemFacts, KeyFacts, PutFacts DEF PiecesSent, LeaveOnCancel, Idle
  <2>2. Kept'
    BY <1>9, ItemFacts, KeyFacts, PutFacts DEF Kept, LeaveOnCancel, Idle
  <2>3. InHand'
    BY <1>9, ItemFacts, KeyFacts, PutFacts DEF InHand, LeaveOnCancel, Idle, Settled, Cancelled
  <2>4. Handled'
    BY <1>9, ItemFacts, KeyFacts, PutFacts DEF Handled, LeaveOnCancel, Idle, Cancelled
  <2>5. InPlace'
    BY <1>9, ItemFacts, KeyFacts, PutFacts DEF InPlace, LeaveOnCancel, Idle
  <2>6. SawDone'
    BY <1>9, ItemFacts, KeyFacts, PutFacts DEF SawDone, LeaveOnCancel, Idle, Cancelled, Ready, Pending
  <2>7. DeliveredOrWiped'
    BY <1>9, ItemFacts, KeyFacts, PutFacts DEF DeliveredOrWiped, LeaveOnCancel, Idle, Delivered, Settled
  <2>8. QED  BY <2>1, <2>2, <2>3, <2>4, <2>5, <2>6, <2>7
<1>10. CASE TakeInner
  <2>1. PiecesSent'
    BY <1>10, ItemFacts, KeyFacts, PutFacts DEF PiecesSent, TakeInner, Idle
  <2>2. Kept'
    BY <1>10, ItemFacts, KeyFacts, PutFacts DEF Kept, TakeInner, Idle
  <2>3. InHand'
    BY <1>10, ItemFacts, KeyFacts, PutFacts DEF InHand, TakeInner, Idle, Settled, Cancelled
  <2>4. Handled'
    <3>1. PICK x \in up.inner : up' = [up EXCEPT !.inner = up.inner \ {x}, !.cur = x,
                         !.at = IF Pending(x) THEN "send" ELSE "file"]
      BY <1>10 DEF TakeInner
    <3>2. /\ up'.inner = up.inner \ {x} /\ up'.cur = x /\ up.at = "file"
          /\ Pending(x) => up'.at = "send"
      BY <1>10, <3>1 DEF TakeInner
    <3>3. ~Pending(x) => Key(x) \in marked \/ Key(x) \in failed
      BY DEF Pending, Remembered
    <3>4. QED  BY <1>10, <3>2, <3>3 DEF TakeInner, Handled, PiecesSent, Cancelled
  <2>5. InPlace'
    BY <1>10, ItemFacts, KeyFacts, PutFacts DEF InPlace, TakeInner, Idle
  <2>6. SawDone'
    BY <1>10, ItemFacts, KeyFacts, PutFacts DEF SawDone, TakeInner, Idle, Cancelled, Ready, Pending
  <2>7. DeliveredOrWiped'
    BY <1>10, ItemFacts, KeyFacts, PutFacts DEF DeliveredOrWiped, TakeInner, Idle, Delivered, Settled
  <2>8. QED  BY <2>1, <2>2, <2>3, <2>4, <2>5, <2>6, <2>7
<1>11. CASE TakeArchive
  <2>1. PiecesSent'
    BY <1>11, ItemFacts, KeyFacts, PutFacts DEF PiecesSent, TakeArchive, Idle
  <2>2. Kept'
    BY <1>11, ItemFacts, KeyFacts, PutFacts DEF Kept, TakeArchive, Idle
  <2>3. InHand'
    BY <1>11, ItemFacts, KeyFacts, PutFacts DEF InHand, TakeArchive, Idle, Settled, Cancelled
  <2>4. Handled'
    BY <1>11, ItemFacts, KeyFacts, PutFacts DEF Handled, TakeArchive, Idle, Cancelled
  <2>5. InPlace'
    BY <1>11, ItemFacts, KeyFacts, PutFacts DEF InPlace, TakeArchive, Idle
  <2>6. SawDone'
    BY <1>11, ItemFacts, KeyFacts, PutFacts DEF SawDone, TakeArchive, Idle, Cancelled, Ready, Pending
  <2>7. DeliveredOrWiped'
    BY <1>11, ItemFacts, KeyFacts, PutFacts DEF DeliveredOrWiped, TakeArchive, Idle, Delivered, Settled
  <2>8. QED  BY <2>1, <2>2, <2>3, <2>4, <2>5, <2>6, <2>7
<1>12. CASE TakeFile
  <2>1. PiecesSent'
    BY <1>12, ItemFacts, KeyFacts, PutFacts DEF PiecesSent, TakeFile, Idle
  <2>2. Kept'
    BY <1>12, ItemFacts, KeyFacts, PutFacts DEF Kept, TakeFile, Idle
  <2>3. InHand'
    BY <1>12, ItemFacts, KeyFacts, PutFacts DEF InHand, TakeFile, Idle, Settled, Cancelled
  <2>4. Handled'
    BY <1>12, ItemFacts, KeyFacts, PutFacts DEF Handled, TakeFile, Idle, Cancelled
  <2>5. InPlace'
    BY <1>12, ItemFacts, KeyFacts, PutFacts DEF InPlace, TakeFile, Idle
  <2>6. SawDone'
    BY <1>12, ItemFacts, KeyFacts, PutFacts DEF SawDone, TakeFile, Idle, Cancelled, Ready, Pending
  <2>7. DeliveredOrWiped'
    BY <1>12, ItemFacts, KeyFacts, PutFacts DEF DeliveredOrWiped, TakeFile, Idle, Delivered, Settled
  <2>8. QED  BY <2>1, <2>2, <2>3, <2>4, <2>5, <2>6, <2>7
<1>13. CASE EndPass
  <2>1. PiecesSent'
    BY <1>13, ItemFacts, KeyFacts, PutFacts DEF PiecesSent, EndPass, Idle
  <2>2. Kept'
    BY <1>13, ItemFacts, KeyFacts, PutFacts DEF Kept, EndPass, Idle
  <2>3. InHand'
    BY <1>13, ItemFacts, KeyFacts, PutFacts DEF InHand, EndPass, Idle, Settled, Cancelled
  <2>4. Handled'
    BY <1>13, ItemFacts, KeyFacts, PutFacts DEF Handled, EndPass, Idle, Cancelled
  <2>5. InPlace'
    BY <1>13, ItemFacts, KeyFacts, PutFacts DEF InPlace, EndPass, Idle
  <2>6. SawDone'
    BY <1>13, ItemFacts, KeyFacts, PutFacts DEF SawDone, EndPass, Idle, Cancelled, Ready, Pending
  <2>7. DeliveredOrWiped'
    BY <1>13, ItemFacts, KeyFacts, PutFacts DEF DeliveredOrWiped, EndPass, Idle, Delivered, Settled
  <2>8. QED  BY <2>1, <2>2, <2>3, <2>4, <2>5, <2>6, <2>7
<1>14. CASE Split
  <2>1. PiecesSent'
    BY <1>14, ItemFacts, KeyFacts, PutFacts DEF PiecesSent, Split, Idle
  <2>2. Kept'
    <3>1. /\ Key(up.cur) \in Large /\ up.cur = Source(Key(up.cur))
          /\ disk' = Put(disk \ {up.cur}, PiecesOf(Key(up.cur)))
      BY <1>14, ItemFacts DEF Split, Sources
    <3>2. Keys(PiecesOf(Key(up.cur))) = Pieces[Key(up.cur)]
      BY <3>1, KeyFacts
    <3>3. ASSUME NEW g \in Large \cup Archives, NEW i \in PiecesOf(g), i \in disk
          PROVE  i \in disk'
      <4>1. i # up.cur
        BY <3>1, PieceFacts, KeyFacts DEF Sources
      <4>2. CASE g = Key(up.cur)
        BY <3>1, <3>3, <4>2, PutFacts
      <4>3. CASE g # Key(up.cur)
        <5>1. Key(i) \notin Pieces[Key(up.cur)]
          BY <3>1, <4>3, PieceFacts DEF NamesApart
        <5>2. QED  BY <3>1, <3>2, <3>3, <4>1, <5>1, PutFacts
      <4>4. QED  BY <4>2, <4>3
    <3>4. QED  BY <1>14, <3>3, StillKept DEF Split
  <2>3. InHand'
    <3>1. /\ Key(up.cur) \in Large /\ up.cur = Source(Key(up.cur))
          /\ disk' = Put(disk \ {up.cur}, PiecesOf(Key(up.cur)))
      BY <1>14, ItemFacts DEF Split, Sources
    <3>2. Keys(PiecesOf(Key(up.cur))) = Pieces[Key(up.cur)]
      BY <3>1, KeyFacts
    <3>3. ASSUME NEW g \in Sources, Source(g) \in disk, Source(g) # up.cur
          PROVE  Source(g) \in disk'
      <4>1. Key(Source(g)) \notin Pieces[Key(up.cur)]
        BY <3>1, KeyFacts, KindsAssumption
      <4>2. QED  BY <3>1, <3>2, <3>3, <4>1, PutFacts
    <3>4. up'.at = "split" /\ up'.cur = up.cur /\ up.at = "large" /\ dl.got \subseteq Sources
      BY <1>14 DEF Split
    <3>5. QED  BY <1>14, <3>3, <3>4 DEF Split, InHand, Settled, Cancelled
  <2>4. Handled'
    BY <1>14, ItemFacts, KeyFacts, PutFacts DEF Handled, Split, Idle, Cancelled
  <2>5. InPlace'
    BY <1>14, ItemFacts, KeyFacts, PutFacts DEF InPlace, Split, Idle
  <2>6. SawDone'
    BY <1>14, ItemFacts, KeyFacts, PutFacts DEF SawDone, Split, Idle, Cancelled, Ready, Pending
  <2>7. DeliveredOrWiped'
    BY <1>14, ItemFacts, KeyFacts, PutFacts DEF DeliveredOrWiped, Split, Idle, Delivered, Settled
  <2>8. QED  BY <2>1, <2>2, <2>3, <2>4, <2>5, <2>6, <2>7
<1>15. CASE MarkOriginal
  <2>1. PiecesSent'
    <3>1. /\ Key(up.cur) \in Large /\ up.cur = Source(Key(up.cur)) /\ up.at = "split"
          /\ marked' = marked \cup {Key(up.cur)} /\ up'.at = "file"
      BY <1>15, ItemFacts DEF MarkOriginal, Sources
    <3>2. up'.batch = up.batch
      BY <1>15 DEF MarkOriginal
    <3>3. QED  BY <1>15, <3>1, <3>2, PieceFacts DEF MarkOriginal, PiecesSent, Sources
  <2>2. Kept'
    <3>1. /\ Key(up.cur) \in Large /\ up.cur = Source(Key(up.cur)) /\ up.at = "split"
          /\ marked' = marked \cup {Key(up.cur)} /\ up'.at = "file"
      BY <1>15, ItemFacts DEF MarkOriginal, Sources
    <3>2. PiecesOf(Key(up.cur)) \subseteq disk /\ Key(up.cur) \notin Plain
      BY <1>15, <3>1, KindsAssumption DEF MarkOriginal, InPlace
    <3>3. QED  BY <1>15, <3>1, <3>2 DEF MarkOriginal, Kept
  <2>3. InHand'
    BY <1>15, ItemFacts, KeyFacts, PutFacts DEF InHand, MarkOriginal, Idle, Settled, Cancelled
  <2>4. Handled'
    <3>1. /\ Key(up.cur) \in Large /\ up.cur = Source(Key(up.cur)) /\ up.at = "split"
          /\ marked' = marked \cup {Key(up.cur)} /\ up'.at = "file"
      BY <1>15, ItemFacts DEF MarkOriginal, Sources
    <3>2. PiecesOf(Key(up.cur)) \cap extracted = {}
      BY <3>1, PieceFacts
    <3>3. up'.inner = up.inner
      BY <1>15 DEF MarkOriginal
    <3>4. QED  BY <1>15, <3>1, <3>2, <3>3 DEF MarkOriginal, Handled, Cancelled
  <2>5. InPlace'
    BY <1>15, ItemFacts, KeyFacts, PutFacts DEF InPlace, MarkOriginal, Idle
  <2>6. SawDone'
    BY <1>15, ItemFacts, KeyFacts, PutFacts DEF SawDone, MarkOriginal, Idle, Cancelled, Ready, Pending
  <2>7. DeliveredOrWiped'
    BY <1>15, ItemFacts, KeyFacts, PutFacts DEF DeliveredOrWiped, MarkOriginal, Idle, Delivered, Settled
  <2>8. QED  BY <2>1, <2>2, <2>3, <2>4, <2>5, <2>6, <2>7
<1>16. CASE TooLarge
  <2>1. PiecesSent'
    BY <1>16, ItemFacts, KeyFacts, PutFacts DEF PiecesSent, TooLarge, Idle
  <2>2. Kept'
    <3>1. Key(up.cur) \in Sources /\ disk \ {up.cur} \subseteq disk'
      BY <1>16 DEF TooLarge, Sources
    <3>2. \A g \in Large \cup Archives : \A i \in PiecesOf(g) : i \in disk => i \in disk'
      BY <3>1, PieceFacts
    <3>3. QED  BY <1>16, <3>2, StillKept DEF TooLarge
  <2>3. InHand'
    BY <1>16, ItemFacts, KeyFacts, PutFacts DEF InHand, TooLarge, Idle, Settled, Cancelled
  <2>4. Handled'
    BY <1>16, ItemFacts, KeyFacts, PutFacts DEF Handled, TooLarge, Idle, Cancelled
  <2>5. InPlace'
    BY <1>16, ItemFacts, KeyFacts, PutFacts DEF InPlace, TooLarge, Idle
  <2>6. SawDone'
    BY <1>16, ItemFacts, KeyFacts, PutFacts DEF SawDone, TooLarge, Idle, Cancelled, Ready, Pending
  <2>7. DeliveredOrWiped'
    BY <1>16, ItemFacts, KeyFacts, PutFacts DEF DeliveredOrWiped, TooLarge, Idle, Delivered, Settled
  <2>8. QED  BY <2>1, <2>2, <2>3, <2>4, <2>5, <2>6, <2>7
<1>17. CASE Send
  <2>1. PiecesSent'
    BY <1>17, ItemFacts, KeyFacts, PutFacts DEF PiecesSent, Send, Idle
  <2>2. Kept'
    BY <1>17, ItemFacts, KeyFacts, PutFacts DEF Kept, Send, Idle
  <2>3. InHand'
    BY <1>17, ItemFacts, KeyFacts, PutFacts DEF InHand, Send, Idle, Settled, Cancelled
  <2>4. Handled'
    BY <1>17, ItemFacts, KeyFacts, PutFacts DEF Handled, Send, Idle, Cancelled
  <2>5. InPlace'
    BY <1>17, ItemFacts, KeyFacts, PutFacts DEF InPlace, Send, Idle
  <2>6. SawDone'
    BY <1>17, ItemFacts, KeyFacts, PutFacts DEF SawDone, Send, Idle, Cancelled, Ready, Pending
  <2>7. DeliveredOrWiped'
    BY <1>17, ItemFacts, KeyFacts, PutFacts DEF DeliveredOrWiped, Send, Idle, Delivered, Settled
  <2>8. QED  BY <2>1, <2>2, <2>3, <2>4, <2>5, <2>6, <2>7
<1>18. CASE SendFails
  <2>1. PiecesSent'
    BY <1>18, ItemFacts, KeyFacts, PutFacts DEF PiecesSent, SendFails, Idle
  <2>2. Kept'
    BY <1>18, ItemFacts, KeyFacts, PutFacts DEF Kept, SendFails, Idle
  <2>3. InHand'
    BY <1>18, ItemFacts, KeyFacts, PutFacts DEF InHand, SendFails, Idle, Settled, Cancelled
  <2>4. Handled'
    BY <1>18, ItemFacts, KeyFacts, PutFacts DEF Handled, SendFails, Idle, Cancelled
  <2>5. InPlace'
    BY <1>18, ItemFacts, KeyFacts, PutFacts DEF InPlace, SendFails, Idle
  <2>6. SawDone'
    BY <1>18, ItemFacts, KeyFacts, PutFacts DEF SawDone, SendFails, Idle, Cancelled, Ready, Pending
  <2>7. DeliveredOrWiped'
    BY <1>18, ItemFacts, KeyFacts, PutFacts DEF DeliveredOrWiped, SendFails, Idle, Delivered, Settled
  <2>8. QED  BY <2>1, <2>2, <2>3, <2>4, <2>5, <2>6, <2>7
<1>19a. CASE RemoveSent
  <2>1. PICK x \in up.batch :
           /\ disk' = disk \ {x} /\ extracted' = extracted \ {x}
           /\ up' = [up EXCEPT !.cur = x,
                               !.at = IF up.at = "record" THEN "mark" ELSE "markGroup"]
    BY <1>19a DEF RemoveSent
  <2>2. x \in Items /\ sent[x] > 0
    BY <1>19a DEF RemoveSent, PiecesSent
  <2>3. /\ up'.batch = up.batch /\ up'.inner = up.inner /\ up'.cur = x /\ up'.saw = up.saw
        /\ up'.at \in {"mark", "markGroup"}
        /\ up.at = "record" => up'.at = "mark"
        /\ up.at \in {"record", "recordGroup"}
        /\ marked' = marked /\ sent' = sent
    BY <1>19a, <2>1 DEF RemoveSent
  <2>4. PiecesSent'
    BY <1>19a, <2>1, <2>3 DEF RemoveSent, PiecesSent
  <2>5. Kept'
    BY <1>19a, <2>1, <2>2, <2>3 DEF RemoveSent, Kept
  <2>6. InHand'
    <3> SUFFICES ASSUME ~Cancelled, NEW f \in dl.got, f \notin marked
                 PROVE  Settled(Source(f)) \/ Source(f) \in disk'
      BY <1>19a, <2>1, <2>3 DEF RemoveSent, InHand, Cancelled, Settled
    <3>1. Live /\ up.at \notin {"split", "consumed"}
      BY <1>19a, <2>3 DEF RemoveSent
    <3>2. Settled(Source(f)) \/ Source(f) \in disk
      BY <3>1 DEF InHand
    <3>3. Source(f) = x => Settled(Source(f))
      BY <2>2 DEF Settled
    <3>4. QED  BY <2>1, <3>2, <3>3
  <2>7. Handled'
    <3> SUFFICES ASSUME ~Cancelled, NEW f \in (Large \cup Archives) \cap (marked \ wiped),
                        sent[Source(f)] = 0, NEW i \in PiecesOf(f), i \in extracted, sent[i] = 0
                 PROVE  Key(i) \in failed \/ i \in up.inner
      BY <1>19a, <2>1, <2>3 DEF RemoveSent, Handled, Cancelled
    <3>1. Live /\ up.at # "send"
      BY <1>19a, <2>3 DEF RemoveSent
    <3>2. QED  BY <3>1 DEF Handled
  <2>8. InPlace'
    BY <1>19a, <2>3 DEF RemoveSent, InPlace
  <2>9. SawDone'
    BY <1>19a, <2>3 DEF RemoveSent, SawDone
  <2>10. DeliveredOrWiped'
    BY <1>19a DEF DeliveredOrWiped, RemoveSent
  <2>11. QED  BY <2>4, <2>5, <2>6, <2>7, <2>8, <2>9, <2>10
<1>19. CASE Record
  <2> DEFINE x == up.cur
  <2>1. /\ disk' = disk /\ extracted' = extracted /\ marked' = marked \cup {Key(x)}
        /\ up'.batch = up.batch \ {x} /\ up'.inner = up.inner /\ up'.cur = up.cur /\ up'.saw = up.saw
        /\ up'.at \in {"file", "group", "recordGroup"}
        /\ up.at = "mark" => up'.at = "file"
        /\ up.at \in {"mark", "markGroup"} /\ Live
        /\ sent' = sent /\ wiped' = wiped
    BY <1>19 DEF Record
  <2>2. x \in Items /\ sent[x] > 0
    BY <1>19 DEF Record, PiecesSent, CurUnsent
  <2> HIDE DEF x
  <2>4. \A f \in Sources : f = Key(x) => x = Source(f)
    <3>1. Key(x) \in Sources => x = Source(Key(x))
      BY <2>2, ItemFacts
    <3>2. QED  BY <3>1
  <2>5. PiecesSent'
    <3>1. ASSUME NEW f \in Large \cup Archives, NEW i \in PiecesOf(f), Key(i) = Key(x)
          PROVE  sent[i] > 0
      <4>1. PICK g \in Large \cup Archives : x \in PiecesOf(g)
        BY <2>2, <3>1, PieceFacts
      <4>2. i = x
        BY <3>1, <4>1, PiecesApart
      <4>3. QED  BY <2>2, <4>2
    <3>2. QED  BY <1>19, <2>1, <3>1 DEF Record, PiecesSent
  <2>6. Kept'
    BY <1>19, <2>1, <2>2, <2>4 DEF Record, Kept
  <2>7. InHand'
    <3> SUFFICES ASSUME ~Cancelled, NEW f \in dl.got, f \notin marked'
                 PROVE  Settled(Source(f)) \/ Source(f) \in disk'
      BY <1>19, <2>1 DEF Record, InHand, Cancelled, Settled
    <3>1. f \notin marked
      BY <2>1
    <3>2. QED  BY <2>1, <3>1 DEF InHand
  <2>8. Handled'
    <3> SUFFICES ASSUME ~Cancelled, NEW f \in (Large \cup Archives) \cap (marked' \ wiped),
                        sent[Source(f)] = 0, NEW i \in PiecesOf(f), i \in extracted, sent[i] = 0
                 PROVE  Key(i) \in failed \/ i \in up.inner
      BY <1>19, <2>1 DEF Record, Handled, Cancelled
    <3>1. f # Key(x)
      BY <2>2, <2>4 DEF Sources
    <3>2. f \in marked
      BY <2>1, <3>1
    <3>3. Live /\ up.at # "send"
      BY <2>1
    <3>4. QED  BY <3>2, <3>3 DEF Handled
  <2>9. InPlace'
    BY <1>19, <2>1 DEF Record, InPlace
  <2>10. SawDone'
    BY <1>19, <2>1 DEF Record, SawDone
  <2>11. DeliveredOrWiped'
    BY <1>19 DEF DeliveredOrWiped, Record
  <2>12. QED  BY <2>5, <2>6, <2>7, <2>8, <2>9, <2>10, <2>11
<1>20. CASE Choose
  <2>1. PiecesSent'
    BY <1>20, ItemFacts, KeyFacts, PutFacts DEF PiecesSent, Choose, Idle
  <2>2. Kept'
    BY <1>20, ItemFacts, KeyFacts, PutFacts DEF Kept, Choose, Idle
  <2>3. InHand'
    BY <1>20, ItemFacts, KeyFacts, PutFacts DEF InHand, Choose, Idle, Settled, Cancelled
  <2>4. Handled'
    BY <1>20, ItemFacts, KeyFacts, PutFacts DEF Handled, Choose, Idle, Cancelled
  <2>5. InPlace'
    BY <1>20, ItemFacts, KeyFacts, PutFacts DEF InPlace, Choose, Idle
  <2>6. SawDone'
    BY <1>20, ItemFacts, KeyFacts, PutFacts DEF SawDone, Choose, Idle, Cancelled, Ready, Pending
  <2>7. DeliveredOrWiped'
    BY <1>20, ItemFacts, KeyFacts, PutFacts DEF DeliveredOrWiped, Choose, Idle, Delivered, Settled
  <2>8. QED  BY <2>1, <2>2, <2>3, <2>4, <2>5, <2>6, <2>7
<1>21. CASE BeginExtract
  <2>1. PiecesSent'
    BY <1>21, ItemFacts, KeyFacts, PutFacts DEF PiecesSent, BeginExtract, Idle
  <2>2. Kept'
    BY <1>21, ItemFacts, KeyFacts, PutFacts DEF Kept, BeginExtract, Idle
  <2>3. InHand'
    BY <1>21, ItemFacts, KeyFacts, PutFacts DEF InHand, BeginExtract, Idle, Settled, Cancelled
  <2>4. Handled'
    BY <1>21, ItemFacts, KeyFacts, PutFacts DEF Handled, BeginExtract, Idle, Cancelled
  <2>5. InPlace'
    BY <1>21, ItemFacts, KeyFacts, PutFacts DEF InPlace, BeginExtract, Idle
  <2>6. SawDone'
    BY <1>21, ItemFacts, KeyFacts, PutFacts DEF SawDone, BeginExtract, Idle, Cancelled, Ready, Pending
  <2>7. DeliveredOrWiped'
    BY <1>21, ItemFacts, KeyFacts, PutFacts DEF DeliveredOrWiped, BeginExtract, Idle, Delivered, Settled
  <2>8. QED  BY <2>1, <2>2, <2>3, <2>4, <2>5, <2>6, <2>7
<1>22. CASE SendArchive
  <2>1. PiecesSent'
    BY <1>22, ItemFacts, KeyFacts, PutFacts DEF PiecesSent, SendArchive, Idle
  <2>2. Kept'
    BY <1>22, ItemFacts, KeyFacts, PutFacts DEF Kept, SendArchive, Idle
  <2>3. InHand'
    BY <1>22, ItemFacts, KeyFacts, PutFacts DEF InHand, SendArchive, Idle, Settled, Cancelled
  <2>4. Handled'
    BY <1>22, ItemFacts, KeyFacts, PutFacts DEF Handled, SendArchive, Idle, Cancelled
  <2>5. InPlace'
    BY <1>22, ItemFacts, KeyFacts, PutFacts DEF InPlace, SendArchive, Idle
  <2>6. SawDone'
    BY <1>22, ItemFacts, KeyFacts, PutFacts DEF SawDone, SendArchive, Idle, Cancelled, Ready, Pending
  <2>7. DeliveredOrWiped'
    BY <1>22, ItemFacts, KeyFacts, PutFacts DEF DeliveredOrWiped, SendArchive, Idle, Delivered, Settled
  <2>8. QED  BY <2>1, <2>2, <2>3, <2>4, <2>5, <2>6, <2>7
<1>23. CASE Extracted
  <2>1. PiecesSent'
    BY <1>23, ItemFacts, KeyFacts, PutFacts DEF PiecesSent, Extracted, Idle
  <2>2. Kept'
    <3>1. /\ Key(up.cur) \in Archives /\ up.at = "extract" /\ Key(up.cur) \notin marked
          /\ extracted' = Put(extracted, PiecesOf(Key(up.cur)))
      BY <1>23 DEF Extracted, CurUnsent
    <3>2. Keys(PiecesOf(Key(up.cur))) = Pieces[Key(up.cur)]
      BY <3>1, KeyFacts
    <3>3. ASSUME NEW g \in Large \cup Archives, NEW i \in PiecesOf(g), i \in extracted
          PROVE  i \in extracted'
      <4>1. CASE g = Key(up.cur)
        BY <3>1, <4>1, PutFacts
      <4>2. CASE g # Key(up.cur)
        <5>1. Key(i) \notin Pieces[Key(up.cur)]
          BY <3>1, <4>2, PieceFacts DEF NamesApart
        <5>2. QED  BY <3>1, <3>2, <3>3, <5>1, PutFacts
      <4>3. QED  BY <4>1, <4>2
    <3>4. QED  BY <1>23, <3>3, StillKept DEF Extracted
  <2>3. InHand'
    BY <1>23, ItemFacts, KeyFacts, PutFacts DEF InHand, Extracted, Idle, Settled, Cancelled
  <2>4. Handled'
    <3>1. /\ Key(up.cur) \in Archives /\ up.at = "extract" /\ Key(up.cur) \notin marked
          /\ extracted' = Put(extracted, PiecesOf(Key(up.cur)))
      BY <1>23 DEF Extracted, CurUnsent
    <3>2. Keys(PiecesOf(Key(up.cur))) = Pieces[Key(up.cur)]
      BY <3>1, KeyFacts
    <3>3. ASSUME NEW f \in (Large \cup Archives) \cap marked, NEW i \in PiecesOf(f), i \in extracted'
          PROVE  i \in extracted
      <4>1. i \notin PiecesOf(Key(up.cur))
        BY <3>1, <3>3, PieceFacts
      <4>2. QED  BY <3>1, <3>3, <4>1, PutFacts
    <3>4. CASE Consumes(Key(up.cur))
      <4>1. up'.inner = up.inner
        BY <1>23, <3>4 DEF Extracted
      <4>2. QED  BY <1>23, <3>1, <3>3, <4>1 DEF Extracted, Handled, Cancelled
    <3>5. CASE ~Consumes(Key(up.cur))
      <4>1. up'.inner = extracted'
        BY <1>23, <3>5 DEF Extracted
      <4>2. QED  BY <4>1 DEF Handled
    <3>6. QED  BY <3>4, <3>5
  <2>5. InPlace'
    BY <1>23, ItemFacts, KeyFacts, PutFacts DEF InPlace, Extracted, Idle
  <2>6. SawDone'
    BY <1>23, ItemFacts, KeyFacts, PutFacts DEF SawDone, Extracted, Idle, Cancelled, Ready, Pending
  <2>7. DeliveredOrWiped'
    BY <1>23, ItemFacts, KeyFacts, PutFacts DEF DeliveredOrWiped, Extracted, Idle, Delivered, Settled
  <2>8. QED  BY <2>1, <2>2, <2>3, <2>4, <2>5, <2>6, <2>7
<1>24. CASE ExtractFails
  <2>1. PiecesSent'
    BY <1>24, ItemFacts, KeyFacts, PutFacts DEF PiecesSent, ExtractFails, Idle
  <2>2. Kept'
    BY <1>24, ItemFacts, KeyFacts, PutFacts DEF Kept, ExtractFails, Idle
  <2>3. InHand'
    BY <1>24, ItemFacts, KeyFacts, PutFacts DEF InHand, ExtractFails, Idle, Settled, Cancelled
  <2>4. Handled'
    BY <1>24, ItemFacts, KeyFacts, PutFacts DEF Handled, ExtractFails, Idle, Cancelled
  <2>5. InPlace'
    BY <1>24, ItemFacts, KeyFacts, PutFacts DEF InPlace, ExtractFails, Idle
  <2>6. SawDone'
    BY <1>24, ItemFacts, KeyFacts, PutFacts DEF SawDone, ExtractFails, Idle, Cancelled, Ready, Pending
  <2>7. DeliveredOrWiped'
    BY <1>24, ItemFacts, KeyFacts, PutFacts DEF DeliveredOrWiped, ExtractFails, Idle, Delivered, Settled
  <2>8. QED  BY <2>1, <2>2, <2>3, <2>4, <2>5, <2>6, <2>7
<1>25a. CASE RemoveArchive
  <2>1. /\ Key(up.cur) \in Archives /\ up.cur = Source(Key(up.cur)) /\ up.at = "consume" /\ Live
        /\ disk' = disk \ {up.cur} /\ extracted' = extracted /\ marked' = marked /\ sent' = sent
        /\ up'.at = "consumed" /\ up'.cur = up.cur /\ up'.inner = up.inner /\ up'.batch = up.batch
    BY <1>25a, ItemFacts DEF RemoveArchive, Sources
  <2>2. PiecesSent'
    BY <1>25a, <2>1 DEF RemoveArchive, PiecesSent
  <2>3. Kept'
    <3>1. \A f \in Large \cup Archives : \A i \in PiecesOf(f) : i # up.cur
      BY <2>1, PieceFacts, KeyFacts DEF Sources
    <3>2. QED  BY <1>25a, <2>1, <3>1 DEF RemoveArchive, Kept, Sources
  <2>4. InHand'
    <3> SUFFICES ASSUME ~Cancelled, NEW f \in dl.got \ marked
                 PROVE  Settled(Source(f)) \/ Source(f) \in disk' \/ up.cur = Source(f)
      BY <1>25a, <2>1 DEF RemoveArchive, InHand, Cancelled, Settled
    <3>1. Settled(Source(f)) \/ Source(f) \in disk
      BY <2>1 DEF InHand
    <3>2. QED  BY <2>1, <3>1
  <2>5. Handled'
    BY <1>25a, <2>1 DEF Handled, RemoveArchive, Cancelled
  <2>6. InPlace'
    BY <1>25a, <2>1 DEF InPlace, RemoveArchive
  <2>7. SawDone'
    BY <1>25a DEF SawDone, RemoveArchive, Cancelled
  <2>8. DeliveredOrWiped'
    BY <1>25a DEF DeliveredOrWiped, RemoveArchive
  <2>9. QED  BY <2>2, <2>3, <2>4, <2>5, <2>6, <2>7, <2>8
<1>25. CASE Consume
  <2>1. /\ Key(up.cur) \in Archives /\ up.cur = Source(Key(up.cur)) /\ up.at = "consumed" /\ Live
        /\ marked' = marked \cup {Key(up.cur)} /\ disk' = disk /\ extracted' = extracted
        /\ up'.at = "file" /\ up'.inner = extracted /\ up'.batch = up.batch /\ up'.saw = up.saw
        /\ sent' = sent
    BY <1>25, ItemFacts DEF Consume, Sources
  <2>2. PiecesSent'
    BY <1>25, <2>1, PieceFacts DEF Consume, PiecesSent, Sources
  <2>3. Kept'
    <3>1. PiecesOf(Key(up.cur)) \subseteq extracted /\ Key(up.cur) \notin Plain
      BY <2>1, KindsAssumption DEF InPlace
    <3>2. QED  BY <1>25, <2>1, <3>1 DEF Consume, Kept, Sources
  <2>4. InHand'
    <3> SUFFICES ASSUME ~Cancelled, NEW f \in dl.got, f \notin marked'
                 PROVE  Settled(Source(f)) \/ Source(f) \in disk'
      BY <1>25, <2>1 DEF Consume, InHand, Cancelled, Settled
    <3>1. f \notin marked /\ f # Key(up.cur)
      BY <2>1
    <3>2. Source(f) # up.cur
      BY <3>1, KeyFacts
    <3>3. QED  BY <2>1, <3>1, <3>2 DEF InHand
  <2>5. Handled'
    BY <1>25, <2>1 DEF Handled, Consume, Cancelled
  <2>6. InPlace'
    BY <1>25, <2>1 DEF InPlace, Consume
  <2>7. SawDone'
    BY <1>25, <2>1 DEF SawDone, Consume, Cancelled
  <2>8. DeliveredOrWiped'
    BY <1>25 DEF DeliveredOrWiped, Consume
  <2>9. QED  BY <2>2, <2>3, <2>4, <2>5, <2>6, <2>7, <2>8
<1>26. CASE Finalize
  <2>1. PiecesSent'
    BY <1>26, ItemFacts, KeyFacts, PutFacts DEF PiecesSent, Finalize, Idle
  <2>2. Kept'
    <3>1. SUFFICES ASSUME phase' # "finished", NEW f \in (Sources \cap marked) \ wiped',
                          ~(sent[Source(f)] > 0), NEW i \in PiecesOf(f)
                   PROVE  f \notin Plain /\ sent[i] > 0
      <4>1. marked' = marked /\ sent' = sent
        BY <1>26 DEF Finalize
      <4>2. \A f \in (Sources \cap marked) \ wiped' : ~(sent[Source(f)] > 0) => f \notin Plain
        BY <1>26 DEF Finalize, Kept
      <4>3. QED  BY <3>1, <4>1, <4>2 DEF Kept
    <3>2. f \in Large \cup Archives /\ (sent[i] > 0 \/ i \in disk \cup extracted)
      BY <1>26, <3>1 DEF Finalize, Kept, Sources
    <3>3. wiped' = wiped \cup Replaced(disk \cup extracted)
      BY <1>26, <3>1 DEF Finalize
    <3>4. i \in disk \cup extracted => Key(i) \in marked
      BY <3>1, <3>2, <3>3, PieceFacts DEF Replaced
    <3>5. QED  BY <1>26, <3>1, <3>2, <3>4 DEF Finalize, PiecesSent, Kept
  <2>3. InHand'
    BY <1>26, ItemFacts, KeyFacts, PutFacts DEF InHand, Finalize, Idle, Settled, Cancelled
  <2>4. Handled'
    BY <1>26, ItemFacts, KeyFacts, PutFacts DEF Handled, Finalize, Idle, Cancelled
  <2>5. InPlace'
    BY <1>26, ItemFacts, KeyFacts, PutFacts DEF InPlace, Finalize, Idle
  <2>6. SawDone'
    BY <1>26, ItemFacts, KeyFacts, PutFacts DEF SawDone, Finalize, Idle, Cancelled, Ready, Pending
  <2>7. DeliveredOrWiped'
    <3> SUFFICES ASSUME phase' = "finished", ok, ~fatal, NEW f \in scene.source \ wiped'
                 PROVE  Delivered(f)'
      BY <1>26 DEF Finalize, DeliveredOrWiped
    <3>1. /\ ~Cancelled /\ dl.over /\ Ready = {} /\ f \in dl.got /\ up.at = "over"
          /\ wiped' = wiped /\ sent' = sent /\ failed' = failed /\ f \in Sources
      BY <1>26 DEF Finalize, Cancelled, SawDone
    <3>2. ASSUME NEW i \in disk PROVE Key(i) \in marked \cup failed
      BY <3>1 DEF Ready, Pending, Remembered
    <3>3. CASE Settled(Source(f))
      BY <3>1, <3>3 DEF Delivered, Settled
    <3>4. CASE ~Settled(Source(f))
      <4>1. f \in marked
        BY <1>26, <3>1, <3>2, <3>4, KeyFacts DEF Finalize, InHand, Settled
      <4>2. f \in Large \cup Archives /\ \A i \in PiecesOf(f) : sent[i] > 0 \/ i \in disk \cup extracted
        BY <1>26, <3>1, <3>4, <4>1 DEF Finalize, Kept, Settled, Sources
      <4>3. ASSUME NEW i \in PiecesOf(f) PROVE sent[i] > 0 \/ Key(i) \in failed
        <5>1. i \in disk => sent[i] > 0 \/ Key(i) \in failed
          BY <3>2, <4>2 DEF PiecesSent
        <5>2. i \in Items /\ sent[i] \in Nat /\ Source(f) \in Items /\ sent[Source(f)] \in Nat
          BY <3>1, <4>2, PieceFacts, ItemFacts
        <5>3. sent[Source(f)] = 0
          BY <3>4, <5>2 DEF Settled
        <5>4. i \in extracted /\ sent[i] = 0 => Key(i) \in failed \/ i \in up.inner
          BY <1>26, <3>1, <4>1, <4>2, <5>3 DEF Finalize, Handled
        <5>5. up.inner = {}
          BY <1>26, <3>1 DEF Finalize, InPlace
        <5>6. QED  BY <4>2, <5>1, <5>2, <5>4, <5>5
      <4>4. f \notin Plain
        BY <4>2, KindsAssumption
      <4>5. QED  BY <3>1, <4>3, <4>4 DEF Delivered, Settled
    <3>5. QED  BY <3>3, <3>4
  <2>8. QED  BY <2>1, <2>2, <2>3, <2>4, <2>5, <2>6, <2>7
<1>27. CASE Stop
  <2>1. PiecesSent'
    BY <1>27, ItemFacts, KeyFacts, PutFacts DEF PiecesSent, Stop, Idle
  <2>2. Kept'
    BY <1>27, ItemFacts, KeyFacts, PutFacts DEF Kept, Stop, Idle
  <2>3. InHand'
    BY <1>27, ItemFacts, KeyFacts, PutFacts DEF InHand, Stop, Idle, Settled, Cancelled
  <2>4. Handled'
    BY <1>27, ItemFacts, KeyFacts, PutFacts DEF Handled, Stop, Idle, Cancelled
  <2>5. InPlace'
    BY <1>27, ItemFacts, KeyFacts, PutFacts DEF InPlace, Stop, Idle
  <2>6. SawDone'
    BY <1>27, ItemFacts, KeyFacts, PutFacts DEF SawDone, Stop, Idle, Cancelled, Ready, Pending
  <2>7. DeliveredOrWiped'
    BY <1>27, ItemFacts, KeyFacts, PutFacts DEF DeliveredOrWiped, Stop, Idle, Delivered, Settled
  <2>8. QED  BY <2>1, <2>2, <2>3, <2>4, <2>5, <2>6, <2>7
<1>28. CASE Kill
  <2>1. PiecesSent'
    BY <1>28, ItemFacts, KeyFacts, PutFacts DEF PiecesSent, Kill, Idle
  <2>2. Kept'
    BY <1>28, ItemFacts, KeyFacts, PutFacts DEF Kept, Kill, Idle
  <2>3. InHand'
    BY <1>28, ItemFacts, KeyFacts, PutFacts DEF InHand, Kill, Idle, Settled, Cancelled
  <2>4. Handled'
    BY <1>28, ItemFacts, KeyFacts, PutFacts DEF Handled, Kill, Idle, Cancelled
  <2>5. InPlace'
    BY <1>28, ItemFacts, KeyFacts, PutFacts DEF InPlace, Kill, Idle
  <2>6. SawDone'
    BY <1>28, ItemFacts, KeyFacts, PutFacts DEF SawDone, Kill, Idle, Cancelled, Ready, Pending
  <2>7. DeliveredOrWiped'
    BY <1>28, ItemFacts, KeyFacts, PutFacts DEF DeliveredOrWiped, Kill, Idle, Delivered, Settled
  <2>8. QED  BY <2>1, <2>2, <2>3, <2>4, <2>5, <2>6, <2>7
<1>29. CASE Restart
  <2>1. PiecesSent'
    BY <1>29, ItemFacts, KeyFacts, PutFacts DEF PiecesSent, Restart, Idle
  <2>2. Kept'
    BY <1>29, ItemFacts, KeyFacts, PutFacts DEF Kept, Restart, Idle
  <2>3. InHand'
    BY <1>29, ItemFacts, KeyFacts, PutFacts DEF InHand, Restart, Idle, Settled, Cancelled
  <2>4. Handled'
    <3>1. wiped' = wiped \cup Replaced(extracted) /\ marked' = marked /\ extracted' = extracted /\ sent' = sent
      BY <1>29 DEF Restart
    <3>2. SUFFICES ASSUME NEW f \in (Large \cup Archives) \cap (marked \ wiped'), NEW i \in PiecesOf(f),
                          i \in extracted, sent[i] = 0
                   PROVE  FALSE
      BY <3>1 DEF Handled
    <3>3. Key(i) \notin marked
      BY <3>2 DEF PiecesSent
    <3>4. QED  BY <3>1, <3>2, <3>3, PieceFacts DEF Replaced, Sources
  <2>5. InPlace'
    BY <1>29, ItemFacts, KeyFacts, PutFacts DEF InPlace, Restart, Idle
  <2>6. SawDone'
    BY <1>29, ItemFacts, KeyFacts, PutFacts DEF SawDone, Restart, Idle, Cancelled, Ready, Pending
  <2>7. DeliveredOrWiped'
    BY <1>29, ItemFacts, KeyFacts, PutFacts DEF DeliveredOrWiped, Restart, Idle, Delivered, Settled
  <2>8. QED  BY <2>1, <2>2, <2>3, <2>4, <2>5, <2>6, <2>7
<1>30. CASE UNCHANGED vars
  <2>1. PiecesSent'
    BY <1>30, ItemFacts, KeyFacts, PutFacts DEF PiecesSent, vars, Idle
  <2>2. Kept'
    BY <1>30, ItemFacts, KeyFacts, PutFacts DEF Kept, vars, Idle
  <2>3. InHand'
    BY <1>30, ItemFacts, KeyFacts, PutFacts DEF InHand, vars, Idle, Settled, Cancelled
  <2>4. Handled'
    BY <1>30, ItemFacts, KeyFacts, PutFacts DEF Handled, vars, Idle, Cancelled
  <2>5. InPlace'
    BY <1>30, ItemFacts, KeyFacts, PutFacts DEF InPlace, vars, Idle
  <2>6. SawDone'
    BY <1>30, ItemFacts, KeyFacts, PutFacts DEF SawDone, vars, Idle, Cancelled, Ready, Pending
  <2>7. DeliveredOrWiped'
    BY <1>30, ItemFacts, KeyFacts, PutFacts DEF DeliveredOrWiped, vars, Idle, Delivered, Settled
  <2>8. QED  BY <2>1, <2>2, <2>3, <2>4, <2>5, <2>6, <2>7
<1>31. QED
  BY <1>1, <1>2, <1>3, <1>4, <1>5, <1>6, <1>7, <1>8, <1>9, <1>10, <1>11, <1>12, <1>13, <1>14, <1>15, <1>16, <1>17, <1>18, <1>19, <1>19a, <1>20, <1>21, <1>22, <1>23, <1>24, <1>25, <1>25a, <1>26, <1>27, <1>28, <1>29, <1>30 DEF Next, DownloadStage, UploadStage, UploadGroup, ProcessFile, HandleArchive

\* A job that ends as done has delivered or reported every file of its source, in
\* pieces where it was split or unpacked, except those whose pieces went with the
\* directories after the file itself was recorded as uploaded.
THEOREM NothingIsLost ==
  ASSUME NamesApart
  PROVE  Spec => []DeliveredOrWiped
<1>1. Init => OnceInv /\ LostInv
  BY InitOnce, InitLost
<1>2. OnceInv /\ LostInv /\ [Next]_vars => (OnceInv /\ LostInv)'
  BY NextOnce, NextLost
<1>3. OnceInv /\ LostInv => DeliveredOrWiped
  BY DEF LostInv
<1>4. QED  BY <1>1, <1>2, <1>3, PTL DEF Spec

-----------------------------------------------------------------------------
(* Groups of files *)

Last == Len(Kind)

LEMMA UploadConstants ==
  /\ Last \in Nat /\ Files = 1..Last /\ AlbumBytes \in Nat /\ AlbumFiles \in Nat
  /\ MaxFloods \in Nat /\ Attempts \in Nat /\ Attempts > 0
<1>1. Kind \in Seq(Kinds) /\ {Limit, AlbumBytes, AlbumFiles, Attempts, MaxFloods} \subseteq Nat /\ Attempts > 0
  BY UploadsAssumption
<1>2. Last \in Nat /\ Files = 1..Last
  BY <1>1, LenProperties DEF Last, Files
<1>3. QED  BY <1>1, <1>2

LEMMA LeastOf ==
  ASSUME NEW T, T \subseteq Nat, T # {}
  PROVE  \E m \in T : \A n \in T : ~(n < m)
<1> DEFINE R == OpToRel(<, Nat)
<1>1. IsWellFoundedOn(R, Nat)
  BY NatLessThanWellFounded
<1>2. \A m, n \in Nat : n < m => <<n, m>> \in R
  BY DEF OpToRel
<1> HIDE DEF R
<1>3. PICK m \in T : \A n \in T : <<n, m>> \notin R
  BY <1>1, WFMin
<1>4. QED  BY <1>2, <1>3

LEMMA RunFacts ==
  ASSUME NEW a \in 1..Last + 1, NEW b \in a..Last + 1
  PROVE  /\ Run(a, b) \in Seq(Files) /\ Len(Run(a, b)) = b - a
         /\ Run(a, b) = <<>> <=> a = b
         /\ Range(Run(a, b)) = a..b - 1
         /\ a < b => Head(Run(a, b)) = a /\ Tail(Run(a, b)) = Run(a + 1, b)
<1>1. Last \in Nat /\ Files = 1..Last
  BY UploadConstants
<1>2. /\ DOMAIN Run(a, b) = 1..b - a /\ \A k \in 1..b - a : Run(a, b)[k] = a + k - 1 /\ a + k - 1 \in Files
      /\ b - a \in Nat
  BY <1>1 DEF Run
<1>3. Run(a, b) \in Seq(Files) /\ Len(Run(a, b)) = b - a
  <2>1. Run(a, b) \in [1..b - a -> Files]
    BY <1>2 DEF Run
  <2>2. QED  BY <1>2, <2>1, IsASeq, LenProperties
<1>4. Run(a, b) = <<>> <=> a = b
  BY <1>1, <1>3, EmptySeq
<1>5. Range(Run(a, b)) = a..b - 1
  <2>1. \A k \in 1..b - a : Run(a, b)[k] \in a..b - 1
    BY <1>1, <1>2
  <2>2. \A f \in a..b - 1 : f - a + 1 \in 1..b - a /\ Run(a, b)[f - a + 1] = f
    BY <1>1, <1>2
  <2>3. Range(Run(a, b)) = {Run(a, b)[k] : k \in 1..b - a}
    BY <1>2 DEF Range
  <2>4. QED  BY <2>1, <2>2, <2>3
<1>6. ASSUME a < b PROVE Head(Run(a, b)) = a /\ Tail(Run(a, b)) = Run(a + 1, b)
  <2>1. Run(a, b) # <<>>
    BY <1>1, <1>4, <1>6
  <2>2. /\ Head(Run(a, b)) = Run(a, b)[1]
        /\ Tail(Run(a, b)) \in Seq(Files) /\ Len(Tail(Run(a, b))) = b - a - 1
        /\ \A k \in 1..b - a - 1 : Tail(Run(a, b))[k] = Run(a, b)[k + 1]
    BY <1>3, <2>1, HeadTailProperties
  <2>3. 1 \in 1..b - a /\ \A k \in 1..b - a - 1 : k + 1 \in 1..b - a
    BY <1>1, <1>6
  <2>4. Head(Run(a, b)) = a
    BY <1>1, <1>2, <2>2, <2>3
  <2>5. DOMAIN Tail(Run(a, b)) = 1..b - a - 1
    BY <2>2, LenProperties
  <2>6. Tail(Run(a, b)) = [k \in 1..b - a - 1 |-> Tail(Run(a, b))[k]]
    BY <2>2, <2>5, LenProperties
  <2>7. \A k \in 1..b - a - 1 : Tail(Run(a, b))[k] = a + 1 + k - 1
    BY <1>1, <1>2, <2>2, <2>3
  <2>8. Run(a + 1, b) = [k \in 1..b - a - 1 |-> a + 1 + k - 1]
    <3>1. b - (a + 1) = b - a - 1
      BY <1>1
    <3>2. QED  BY <3>1 DEF Run
  <2>9. QED  BY <2>4, <2>6, <2>7, <2>8
<1>7. QED  BY <1>3, <1>4, <1>5, <1>6

LEMMA AheadFacts ==
  ASSUME NEW i \in 1..Last + 1
  PROVE  /\ Ahead(i) \in i..Last + 1
         /\ \A j \in i..Ahead(i) - 1 : ~(j > Len(Kind) \/ Full(i, j) \/ Total(i, j) > AlbumBytes)
         /\ Ahead(i) > Len(Kind) \/ Full(i, Ahead(i)) \/ Total(i, Ahead(i)) > AlbumBytes
<1> DEFINE stops(j) == j > Len(Kind) \/ Full(i, j) \/ Total(i, j) > AlbumBytes
           T == {j \in i..Last + 1 : stops(j)}
<1>1. Last \in Nat
  BY UploadConstants
<1>2. Last + 1 \in T /\ T \subseteq Nat
  BY <1>1 DEF Last
<1>3. PICK j \in T : \A k \in T : ~(k < j)
  BY <1>2, LeastOf
<1>4. \A k \in i..j - 1 : k \notin T /\ k \in i..Last + 1
  BY <1>1, <1>3
<1>5. \E m \in i..Last + 1 : stops(m) /\ \A k \in i..m - 1 : ~stops(k)
  BY <1>3, <1>4
<1> HIDE DEF stops
<1>6. Ahead(i) = CHOOSE m \in i..Last + 1 : stops(m) /\ \A k \in i..m - 1 : ~stops(k)
  BY DEF Ahead, Last, stops
<1>7. Ahead(i) \in i..Last + 1 /\ stops(Ahead(i)) /\ \A k \in i..Ahead(i) - 1 : ~stops(k)
  BY <1>5, <1>6
<1>8. QED  BY <1>7 DEF stops

LEMMA AfterFacts ==
  ASSUME NEW i \in 1..Last
  PROVE  After(i) \in i + 1..Last + 1
<1>1. Last \in Nat
  BY UploadConstants
<1>2. Ahead(i) \in i..Last + 1
  BY <1>1, AheadFacts
<1>3. QED  BY <1>1, <1>2 DEF After

\* The parts s are those of the files from i on: they have first files at c.
Cuts(s, i, c) ==
  /\ c \in [1..Len(s) + 1 -> 1..Last + 1] /\ c[1] = i /\ c[Len(s) + 1] = Last + 1
  /\ \A k \in 1..Len(s) : c[k] < c[k + 1] /\ s[k] = Run(c[k], c[k + 1])
Follows(s, i) == s \in Seq(Seq(Files)) /\ \E c : Cuts(s, i, c)

\* They are those of PlanAlbumBatches.
Planned(s, i) == s \in Seq(Seq(Files)) /\ \E c : Cuts(s, i, c) /\ \A k \in 1..Len(s) : c[k + 1] = After(c[k])

LEMMA NothingFollows ==
  /\ Planned(<<>>, Last + 1)
  /\ \A i : Follows(<<>>, i) => i = Last + 1
<1>1. Len(<<>>) = 0 /\ <<>> \in Seq(Seq(Files)) /\ Last \in Nat
  BY EmptySeq, UploadConstants
<1> DEFINE c == [k \in {1} |-> Last + 1]
<1>2. Cuts(<<>>, Last + 1, c)
  <2>1. 1..Len(<<>>) + 1 = {1} /\ 1..Len(<<>>) = {}
    BY <1>1
  <2>2. c \in [{1} -> 1..Last + 1] /\ c[1] = Last + 1
    BY <1>1
  <2> HIDE DEF c
  <2>3. QED  BY <1>1, <2>1, <2>2 DEF Cuts
<1> HIDE DEF c
<1>3. \A i : Follows(<<>>, i) => i = Last + 1
  BY <1>1 DEF Follows, Cuts
<1>4. Planned(<<>>, Last + 1)
  <2>1. 1..Len(<<>>) = {}
    BY <1>1
  <2>2. QED  BY <1>1, <1>2, <2>1 DEF Planned
<1>5. QED  BY <1>3, <1>4

LEMMA PlannedOn ==
  ASSUME NEW i \in 1..Last, NEW j \in i + 1..Last + 1, j = After(i), NEW s, Planned(s, j)
  PROVE  Planned(<<Run(i, j)>> \o s, i)
<1>1. Last \in Nat
  BY UploadConstants
<1>2. PICK c : Cuts(s, j, c) /\ \A k \in 1..Len(s) : c[k + 1] = After(c[k])
  BY DEF Planned
<1>3. s \in Seq(Seq(Files)) /\ Len(s) \in Nat
  BY LenProperties DEF Planned
<1>4. Run(i, j) \in Seq(Files)
  BY <1>1, RunFacts
<1> DEFINE r == <<Run(i, j)>>
           t == r \o s
           d == [k \in 1..Len(s) + 2 |-> IF k = 1 THEN i ELSE c[k - 1]]
<1>5. r \in Seq(Seq(Files)) /\ Len(r) = 1 /\ r[1] = Run(i, j)
  BY <1>4
<1>6. /\ t \in Seq(Seq(Files)) /\ Len(t) = Len(s) + 1 /\ t[1] = Run(i, j)
      /\ \A k \in 2..Len(s) + 1 : t[k] = s[k - 1]
  <2> HIDE DEF r
  <2>1. /\ t \in Seq(Seq(Files)) /\ Len(t) = 1 + Len(s)
        /\ \A k \in 1..1 + Len(s) : t[k] = IF k <= 1 THEN r[k] ELSE s[k - 1]
    <3>1. /\ t \in Seq(Seq(Files)) /\ Len(t) = Len(r) + Len(s)
          /\ \A k \in 1..Len(r) + Len(s) : t[k] = IF k <= Len(r) THEN r[k] ELSE s[k - Len(r)]
      BY <1>3, <1>5, ConcatProperties
    <3> HIDE DEF t
    <3>2. QED  BY <1>5, <3>1
  <2> HIDE DEF t
  <2>2. t[1] = Run(i, j)
    <3>1. 1 \in 1..1 + Len(s)
      BY <1>3
    <3>2. QED  BY <1>5, <2>1, <3>1
  <2>3. ASSUME NEW k \in 2..Len(s) + 1 PROVE t[k] = s[k - 1]
    <3>1. k \in 1..1 + Len(s) /\ ~(k <= 1)
      BY <1>3
    <3>2. QED  BY <2>1, <3>1
  <2>4. Len(t) = Len(s) + 1
    BY <1>3, <2>1
  <2>5. QED  BY <2>1, <2>2, <2>3, <2>4
<1> HIDE DEF r, t
<1>7. /\ c \in [1..Len(s) + 1 -> 1..Last + 1] /\ c[1] = j /\ c[Len(s) + 1] = Last + 1
      /\ \A k \in 1..Len(s) : c[k] < c[k + 1] /\ s[k] = Run(c[k], c[k + 1])
  BY <1>2 DEF Cuts
<1>8. /\ DOMAIN d = 1..Len(s) + 2 /\ d[1] = i
      /\ \A k \in 2..Len(s) + 2 : k - 1 \in 1..Len(s) + 1 /\ d[k] = c[k - 1]
  BY <1>3
<1>9. d \in [1..Len(s) + 2 -> 1..Last + 1]
  <2>1. ASSUME NEW k \in 1..Len(s) + 2 PROVE d[k] \in 1..Last + 1
    <3>1. CASE k = 1
      BY <1>1, <1>8, <3>1
    <3>2. CASE k # 1
      <4>1. k \in 2..Len(s) + 2
        BY <1>3, <3>2
      <4> HIDE DEF d
      <4>2. QED  BY <1>7, <1>8, <4>1
    <3>3. QED  BY <3>1, <3>2
  <2>2. QED  BY <1>8, <2>1
<1> HIDE DEF d
<1>10. d[Len(s) + 2] = Last + 1
  <2>1. Len(s) + 2 \in 2..Len(s) + 2 /\ Len(s) + 2 - 1 = Len(s) + 1
    BY <1>3
  <2>2. d[Len(s) + 2] = c[Len(s) + 1]
    BY <1>8, <2>1
  <2>3. QED  BY <1>7, <2>2
<1>11. ASSUME NEW k \in 1..Len(s) + 1 PROVE d[k] < d[k + 1] /\ t[k] = Run(d[k], d[k + 1]) /\ d[k + 1] = After(d[k])
  <2>1. CASE k = 1
    <3>1. d[2] = c[1] /\ d[2] = j
      BY <1>3, <1>7, <1>8
    <3>2. QED  BY <1>6, <1>8, <2>1, <3>1
  <2>2. CASE k # 1
    <3>1. k \in 2..Len(s) + 1 /\ k - 1 \in 1..Len(s) /\ k + 1 \in 2..Len(s) + 2 /\ k + 1 - 1 = k /\ k - 1 + 1 = k
      BY <1>3, <2>2
    <3>2. d[k] = c[k - 1] /\ d[k + 1] = c[k]
      BY <1>3, <1>8, <3>1
    <3>3. c[k - 1] < c[k] /\ s[k - 1] = Run(c[k - 1], c[k]) /\ c[k] = After(c[k - 1])
      BY <1>2, <1>7, <3>1
    <3>4. QED  BY <1>6, <3>1, <3>2, <3>3
  <2>3. QED  BY <2>1, <2>2
<1>12. Cuts(t, i, d)
  <2>1. Len(t) + 1 = Len(s) + 2
    BY <1>3, <1>6
  <2>2. QED  BY <1>6, <1>8, <1>9, <1>10, <1>11, <2>1 DEF Cuts
<1>13. QED  BY <1>6, <1>11, <1>12 DEF Planned, t, r

LEMMA FirstFollows ==
  ASSUME NEW i \in 1..Last + 1, NEW s, Follows(s, i), s # <<>>
  PROVE  \E j \in i + 1..Last + 1 : Head(s) = Run(i, j) /\ Follows(Tail(s), j)
<1>1. Last \in Nat
  BY UploadConstants
<1>2. PICK c : Cuts(s, i, c)
  BY DEF Follows
<1>3. s \in Seq(Seq(Files)) /\ Len(s) \in Nat /\ Len(s) >= 1
  BY LenProperties, EmptySeq DEF Follows
<1>4. /\ Head(s) = s[1] /\ Tail(s) \in Seq(Seq(Files)) /\ Len(Tail(s)) = Len(s) - 1
      /\ \A k \in 1..Len(s) - 1 : Tail(s)[k] = s[k + 1]
  BY <1>3, HeadTailProperties
<1>5. /\ c \in [1..Len(s) + 1 -> 1..Last + 1] /\ c[1] = i /\ c[Len(s) + 1] = Last + 1
      /\ \A k \in 1..Len(s) : c[k] < c[k + 1] /\ s[k] = Run(c[k], c[k + 1])
  BY <1>2 DEF Cuts
<1> DEFINE d == [k \in 1..Len(s) |-> c[k + 1]]
<1>6. 1 \in 1..Len(s) /\ 2 \in 1..Len(s) + 1
  BY <1>3
<1>7. c[2] \in i + 1..Last + 1 /\ Head(s) = Run(i, c[2])
  <2>1. c[2] \in 1..Last + 1 /\ c[1] < c[2] /\ s[1] = Run(c[1], c[2])
    BY <1>5, <1>6
  <2>2. QED  BY <1>1, <1>4, <1>5, <2>1
<1>8. \A k \in 1..Len(s) : k + 1 \in 1..Len(s) + 1 /\ d[k] = c[k + 1] /\ c[k + 1] \in 1..Last + 1
  BY <1>3, <1>5
<1>9. d \in [1..Len(s) -> 1..Last + 1] /\ d[1] = c[2] /\ d[Len(s)] = Last + 1
  <2>1. d \in [1..Len(s) -> 1..Last + 1]
    BY <1>8
  <2>2. QED  BY <1>3, <1>5, <1>6, <1>8, <2>1
<1>10. ASSUME NEW k \in 1..Len(s) - 1 PROVE d[k] < d[k + 1] /\ Tail(s)[k] = Run(d[k], d[k + 1])
  <2>1. k \in 1..Len(s) /\ k + 1 \in 1..Len(s)
    BY <1>3
  <2>2. d[k] = c[k + 1] /\ d[k + 1] = c[k + 1 + 1]
    BY <2>1
  <2> HIDE DEF d
  <2>3. QED  BY <1>4, <1>5, <2>1, <2>2
<1> HIDE DEF d
<1>11. Cuts(Tail(s), c[2], d)
  <2>1. Len(Tail(s)) + 1 = Len(s)
    BY <1>3, <1>4
  <2>2. QED  BY <1>4, <1>9, <1>10, <2>1 DEF Cuts
<1>12. QED  BY <1>4, <1>7, <1>11 DEF Follows

\* The loop of PlanAlbumBatches is a recursion on the files that are left: a function
\* that satisfies it exists for every number of files, and its value is a plan.
Rest(g, i) == IF i > Last THEN <<>> ELSE <<Run(i, After(i))>> \o g[After(i)]
Tells(g, n) == g = [i \in Last + 1 - n..Last + 1 |-> Rest(g, i)]

LEMMA RestExists == \E g : Tells(g, Last)
<1> DEFINE Bad == {n \in 0..Last : ~\E g : Tells(g, n)}
<1>1. Last \in Nat
  BY UploadConstants
<1>2. SUFFICES ASSUME Bad # {} PROVE FALSE
  BY <1>1
<1>3. PICK m \in Bad : \A n \in Bad : ~(n < m)
  <2>1. Bad \subseteq Nat
    BY <1>1
  <2> HIDE DEF Bad
  <2>2. QED  BY <1>2, <2>1, LeastOf
<1>4. m \in 0..Last /\ ~\E g : Tells(g, m)
  BY <1>3
<1>5. CASE m = 0
  <2> DEFINE g == [i \in {Last + 1} |-> <<>>]
  <2>1. Last + 1 - m..Last + 1 = {Last + 1}
    BY <1>1, <1>5
  <2>2. [i \in {Last + 1} |-> Rest(g, i)] = g
    BY <1>1 DEF Rest
  <2> HIDE DEF g
  <2>3. Tells(g, m)
    BY <2>1, <2>2 DEF Tells
  <2>4. QED  BY <1>4, <2>3
<1>6. CASE m # 0
  <2>1. m - 1 \in 0..Last /\ m - 1 < m
    BY <1>1, <1>4, <1>6
  <2>2. m - 1 \notin Bad
    BY <1>3, <2>1
  <2>3. PICK g : Tells(g, m - 1)
    BY <2>1, <2>2
  <2> DEFINE b == Last + 1 - m
             h == [i \in b..Last + 1 |-> IF i = b THEN Rest(g, b) ELSE g[i]]
  <2>4. b \in 1..Last /\ Last + 1 - (m - 1) = b + 1
    BY <1>1, <1>4, <1>6
  <2>5. g = [i \in b + 1..Last + 1 |-> Rest(g, i)]
    BY <2>3, <2>4 DEF Tells
  <2> HIDE DEF b
  <2>6. \A i \in b + 1..Last + 1 : h[i] = g[i]
    BY <1>1, <2>4
  <2>7. DOMAIN h = b..Last + 1 /\ h[b] = Rest(g, b)
    BY <1>1, <2>4
  <2>8. h = [i \in b..Last + 1 |-> h[i]]
    OBVIOUS
  <2> HIDE DEF h
  <2>9. \A i \in b..Last + 1 : Rest(h, i) = Rest(g, i)
    <3>1. SUFFICES ASSUME NEW i \in b..Last + 1 PROVE Rest(h, i) = Rest(g, i)
      OBVIOUS
    <3>2. CASE i > Last
      BY <3>2 DEF Rest
    <3>3. CASE ~(i > Last)
      <4>1. i \in 1..Last
        BY <1>1, <2>4, <3>3
      <4>2. After(i) \in i + 1..Last + 1
        BY <4>1, AfterFacts
      <4>3. After(i) \in b + 1..Last + 1
        BY <1>1, <2>4, <4>1, <4>2
      <4>4. h[After(i)] = g[After(i)]
        BY <2>6, <4>3
      <4>5. QED  BY <4>4 DEF Rest
    <3>4. QED  BY <3>2, <3>3
  <2>10. \A i \in b..Last + 1 : h[i] = Rest(h, i)
    <3>1. SUFFICES ASSUME NEW i \in b..Last + 1 PROVE h[i] = Rest(g, i)
      BY <2>9
    <3>2. CASE i = b
      BY <2>7, <3>2
    <3>3. CASE i # b
      <4>1. i \in b + 1..Last + 1
        BY <1>1, <2>4, <3>3
      <4>2. QED  BY <2>5, <2>6, <4>1
    <3>4. QED  BY <3>2, <3>3
  <2>11. Tells(h, m)
    BY <2>8, <2>10 DEF Tells, b
  <2>12. QED  BY <1>4, <2>11
<1>7. QED  BY <1>5, <1>6

LEMMA RestFollows ==
  ASSUME NEW g, Tells(g, Last)
  PROVE  Planned(g[1], 1)
<1> DEFINE Bad == {n \in 0..Last : ~Planned(g[Last + 1 - n], Last + 1 - n)}
<1>1. Last \in Nat
  BY UploadConstants
<1>2. \A i \in 1..Last + 1 : g[i] = Rest(g, i)
  <2>1. Last + 1 - Last = 1
    BY <1>1
  <2>2. g = [i \in 1..Last + 1 |-> Rest(g, i)]
    BY <2>1 DEF Tells
  <2>3. QED  BY <2>2
<1>3. Bad = {}
  <2>1. SUFFICES ASSUME Bad # {} PROVE FALSE
    OBVIOUS
  <2>2. PICK m \in Bad : \A n \in Bad : ~(n < m)
    <3>1. Bad \subseteq Nat
      BY <1>1
    <3> HIDE DEF Bad
    <3>2. QED  BY <2>1, <3>1, LeastOf
  <2> DEFINE i == Last + 1 - m
  <2>3. m \in 0..Last /\ ~Planned(g[i], i)
    BY <2>2
  <2>4. i \in 1..Last + 1
    BY <1>1, <2>3
  <2>5. CASE i > Last
    <3>1. i = Last + 1
      BY <1>1, <2>4, <2>5
    <3> HIDE DEF i
    <3>2. g[i] = <<>>
      BY <1>2, <2>4, <2>5 DEF Rest
    <3>3. QED  BY <2>3, <3>1, <3>2, NothingFollows
  <2>6. CASE ~(i > Last)
    <3>1. i \in 1..Last
      BY <1>1, <2>4, <2>6
    <3>2. After(i) \in i + 1..Last + 1
      BY <3>1, AfterFacts
    <3> DEFINE n == Last + 1 - After(i)
    <3>3. n \in 0..Last /\ n < m /\ Last + 1 - n = After(i)
      BY <1>1, <2>3, <3>1, <3>2
    <3>4. n \notin Bad
      BY <2>2, <3>3
    <3>5. Planned(g[After(i)], After(i))
      BY <3>3, <3>4
    <3> HIDE DEF i, n, Bad
    <3>6. Planned(<<Run(i, After(i))>> \o g[After(i)], i)
      BY <3>1, <3>2, <3>5, PlannedOn
    <3>7. g[i] = <<Run(i, After(i))>> \o g[After(i)]
      BY <1>2, <2>4, <2>6 DEF Rest
    <3>8. QED  BY <2>3, <3>6, <3>7
  <2>7. QED  BY <2>5, <2>6
<1>4. Last \in 0..Last /\ Last + 1 - Last = 1
  BY <1>1
<1>5. QED  BY <1>3, <1>4

LEMMA PlanPlanned == Planned(PlanAlbumBatches, 1)
<1> DEFINE rest == CHOOSE g : Tells(g, Last)
<1>1. Tells(rest, Last)
  BY RestExists
<1>2. \A g : Tells(g, Last) <=> g = [i \in 1..Len(Kind) + 1 |->
        IF i > Len(Kind) THEN <<>> ELSE <<Run(i, After(i))>> \o g[After(i)]]
  <2>1. Last + 1 - Last = 1
    BY UploadConstants
  <2>2. QED  BY <2>1 DEF Tells, Rest, Last
<1>3. PlanAlbumBatches = rest[1]
  <2>1. rest = CHOOSE g : g = [i \in 1..Len(Kind) + 1 |->
                 IF i > Len(Kind) THEN <<>> ELSE <<Run(i, After(i))>> \o g[After(i)]]
    BY <1>2
  <2> HIDE DEF rest
  <2>2. QED  BY <2>1 DEF PlanAlbumBatches
<1>4. QED  BY <1>1, <1>3, RestFollows

LEMMA PlanFollows == Follows(PlanAlbumBatches, 1)
BY PlanPlanned DEF Planned, Follows

-----------------------------------------------------------------------------
(* Sums of sizes *)

Sums(g, n) == g = [k \in 0..n |-> IF k = 0 THEN 0 ELSE g[k - 1] + size[k]]

LEMMA SumExists == \E g : Sums(g, Last)
<1> DEFINE Bad == {n \in 0..Last : ~\E g : Sums(g, n)}
<1>1. Last \in Nat
  BY UploadConstants
<1>2. SUFFICES ASSUME Bad # {} PROVE FALSE
  BY <1>1
<1>3. PICK m \in Bad : \A n \in Bad : ~(n < m)
  <2>1. Bad \subseteq Nat
    BY <1>1
  <2> HIDE DEF Bad
  <2>2. QED  BY <1>2, <2>1, LeastOf
<1>4. m \in 0..Last /\ ~\E g : Sums(g, m)
  BY <1>3
<1>5. CASE m = 0
  <2> DEFINE g == [k \in 0..0 |-> 0]
  <2>1. g = [k \in 0..0 |-> IF k = 0 THEN 0 ELSE g[k - 1] + size[k]]
    OBVIOUS
  <2> HIDE DEF g
  <2>2. Sums(g, m)
    BY <1>5, <2>1 DEF Sums
  <2>3. QED  BY <1>4, <2>2
<1>6. CASE m # 0
  <2>1. m - 1 \in 0..Last /\ m - 1 < m
    BY <1>1, <1>4, <1>6
  <2>2. m - 1 \notin Bad
    BY <1>3, <2>1
  <2>3. PICK g : Sums(g, m - 1)
    BY <2>1, <2>2
  <2> DEFINE h == [k \in 0..m |-> IF k = m THEN g[m - 1] + size[m] ELSE g[k]]
  <2>4. g = [k \in 0..m - 1 |-> IF k = 0 THEN 0 ELSE g[k - 1] + size[k]]
    BY <2>3 DEF Sums
  <2>5. \A k \in 0..m - 1 : k \in 0..m /\ h[k] = g[k]
    BY <1>1, <1>4
  <2>6. m \in 0..m /\ h[m] = g[m - 1] + size[m] /\ h = [k \in 0..m |-> h[k]]
    BY <1>4
  <2> HIDE DEF h
  <2>7. ASSUME NEW k \in 0..m PROVE h[k] = IF k = 0 THEN 0 ELSE h[k - 1] + size[k]
    <3>1. CASE k = m
      <4>1. m - 1 \in 0..m - 1 /\ k # 0
        BY <1>1, <1>4, <1>6, <3>1
      <4>2. h[m - 1] = g[m - 1]
        BY <2>5, <4>1
      <4>3. QED  BY <2>6, <3>1, <4>1, <4>2
    <3>2. CASE k = 0
      <4>1. 0 \in 0..m - 1
        BY <1>1, <1>4, <1>6
      <4>2. g[0] = 0
        BY <2>4, <4>1
      <4>3. QED  BY <2>5, <3>2, <4>1, <4>2
    <3>3. CASE k # m /\ k # 0
      <4>1. k \in 0..m - 1 /\ k - 1 \in 0..m - 1
        BY <1>1, <1>4, <3>3
      <4>2. g[k] = g[k - 1] + size[k]
        BY <2>4, <3>3, <4>1
      <4>3. QED  BY <2>5, <3>3, <4>1, <4>2
    <3>4. QED  BY <3>1, <3>2, <3>3
  <2>8. Sums(h, m)
    BY <2>6, <2>7 DEF Sums
  <2>9. QED  BY <1>4, <2>8
<1>7. QED  BY <1>5, <1>6

\* The sums grow: a run of files weighs no more than a longer one.
Growing(g) ==
  /\ g \in [0..Last -> Nat] /\ \A i, j \in 0..Last : i <= j => g[i] <= g[j]
  /\ \A i \in 1..Last, j \in 0..Last : Total(i, j) = g[j] - g[i - 1]

LEMMA SumsGrow ==
  ASSUME \A f \in Files : size[f] \in Nat
  PROVE  \E g : Growing(g)
<1> DEFINE g == CHOOSE s : Sums(s, Last)
<1>1. Last \in Nat /\ Files = 1..Last
  BY UploadConstants
<1>2. Sums(g, Last)
  BY SumExists
<1>3. \A s : Sums(s, Last) <=> s = [k \in 0..Len(Kind) |-> IF k = 0 THEN 0 ELSE s[k - 1] + size[k]]
  BY DEF Sums, Last
<1>4. \A i, j : Total(i, j) = g[j] - g[i - 1]
  <2>1. g = CHOOSE s : s = [k \in 0..Len(Kind) |-> IF k = 0 THEN 0 ELSE s[k - 1] + size[k]]
    BY <1>3
  <2> HIDE DEF g
  <2>2. QED  BY <2>1 DEF Total
<1> HIDE DEF g
<1>5. /\ DOMAIN g = 0..Last /\ g[0] = 0 /\ g = [k \in 0..Last |-> g[k]]
      /\ \A k \in 1..Last : k - 1 \in 0..Last /\ g[k] = g[k - 1] + size[k]
  <2>1. g = [k \in 0..Last |-> IF k = 0 THEN 0 ELSE g[k - 1] + size[k]]
    BY <1>2 DEF Sums
  <2>2. 0 \in 0..Last /\ \A k \in 1..Last : k \in 0..Last /\ k - 1 \in 0..Last /\ k # 0
    BY <1>1
  <2>3. QED  BY <2>1, <2>2
<1>6. \A k \in 0..Last : g[k] \in Nat
  <2> DEFINE Bad == {k \in 0..Last : g[k] \notin Nat}
  <2>1. SUFFICES ASSUME Bad # {} PROVE FALSE
    OBVIOUS
  <2>2. PICK m \in Bad : \A n \in Bad : ~(n < m)
    <3>1. Bad \subseteq Nat
      BY <1>1
    <3> HIDE DEF Bad
    <3>2. QED  BY <2>1, <3>1, LeastOf
  <2>3. m \in 0..Last /\ g[m] \notin Nat /\ m # 0
    BY <1>5, <2>2
  <2>4. m \in 1..Last /\ m - 1 \in 0..Last /\ m - 1 < m
    BY <1>1, <2>3
  <2>5. g[m - 1] \in Nat
    BY <2>2, <2>4
  <2>6. g[m] \in Nat
    <3>1. size[m] \in Nat /\ g[m] = g[m - 1] + size[m]
      BY <1>1, <1>5, <2>4
    <3>2. QED  BY <2>5, <3>1
  <2>7. QED  BY <2>3, <2>6
<1>7. ASSUME NEW i \in 0..Last PROVE \A j \in i..Last : g[i] <= g[j]
  <2> DEFINE Bad == {j \in i..Last : ~(g[i] <= g[j])}
  <2>1. SUFFICES ASSUME Bad # {} PROVE FALSE
    OBVIOUS
  <2>2. PICK m \in Bad : \A n \in Bad : ~(n < m)
    <3>1. Bad \subseteq Nat
      BY <1>1
    <3> HIDE DEF Bad
    <3>2. QED  BY <2>1, <3>1, LeastOf
  <2>3. m \in i..Last /\ ~(g[i] <= g[m]) /\ m # i
    BY <1>6, <2>2
  <2>4. m \in 1..Last /\ m - 1 \in i..Last /\ m - 1 < m /\ m \in 0..Last /\ m - 1 \in 0..Last
    BY <1>1, <2>3
  <2>5. g[i] <= g[m - 1]
    BY <2>2, <2>4
  <2>6. size[m] \in Nat /\ g[m] = g[m - 1] + size[m] /\ g[i] \in Nat /\ g[m - 1] \in Nat
    BY <1>1, <1>5, <1>6, <2>4
  <2>7. g[i] <= g[m]
    BY <2>5, <2>6
  <2>8. QED  BY <2>3, <2>7
<1>8. \A i, j \in 0..Last : i <= j => g[i] <= g[j]
  BY <1>1, <1>7
<1>9. g \in [0..Last -> Nat]
  BY <1>5, <1>6
<1>10. QED  BY <1>4, <1>8, <1>9 DEF Growing

\* What fits into an album fits when it begins later or ends earlier.
LEMMA ShorterAlbum ==
  ASSUME \A f \in Files : size[f] \in Nat,
         NEW f \in Files, NEW t \in Files, NEW i \in f..t, NEW j \in i..t, Album(f, t)
  PROVE  Album(i, j)
<1>1. Last \in Nat /\ Files = 1..Last /\ AlbumBytes \in Nat /\ AlbumFiles \in Nat
  BY UploadConstants
<1>2. PICK g : Growing(g)
  BY SumsGrow
<1>3. /\ f \in 1..Last /\ t \in 0..Last /\ i \in 1..Last /\ j \in 0..Last /\ f - 1 \in 0..Last /\ i - 1 \in 0..Last
      /\ f - 1 <= i - 1 /\ j <= t /\ f \in Nat /\ t \in Nat /\ i \in Nat /\ j \in Nat /\ f <= i
  BY <1>1
<1>4. /\ Total(f, t) = g[t] - g[f - 1] /\ Total(i, j) = g[j] - g[i - 1]
      /\ g[f - 1] <= g[i - 1] /\ g[j] <= g[t]
      /\ g[t] \in Nat /\ g[j] \in Nat /\ g[f - 1] \in Nat /\ g[i - 1] \in Nat
  BY <1>2, <1>3 DEF Growing
<1>5. t - f < AlbumFiles /\ g[t] - g[f - 1] <= AlbumBytes
  BY <1>4 DEF Album
<1>6. j - i < AlbumFiles /\ g[j] - g[i - 1] <= AlbumBytes
  <2>1. j - i < AlbumFiles
    BY <1>1, <1>3, <1>5
  <2>2. \A a, b, c, d, n \in Nat : a <= b /\ c <= d /\ d - a <= n => c - b <= n
    OBVIOUS
  <2>3. g[j] - g[i - 1] <= AlbumBytes
    BY <1>1, <1>4, <1>5, <2>2
  <2>4. QED  BY <2>1, <2>3
<1>7. QED  BY <1>4, <1>6 DEF Album

\* The loop takes as many files as make an album.
LEMMA AheadAlbum ==
  ASSUME \A f \in Files : size[f] \in Nat, NEW i \in Files
  PROVE  /\ Ahead(i) \in i..Last + 1
         /\ \A j \in i..Ahead(i) - 1 : j \in Files /\ Album(i, j)
         /\ Ahead(i) <= Last => ~Album(i, Ahead(i))
<1>1. Last \in Nat /\ Files = 1..Last /\ AlbumBytes \in Nat /\ AlbumFiles \in Nat
  BY UploadConstants
<1>2. i \in 1..Last + 1 /\ i \in Nat
  BY <1>1
<1>3. PICK g : Growing(g)
  BY SumsGrow
<1> DEFINE a == Ahead(i)
<1>4. /\ a \in i..Last + 1 /\ \A j \in i..a - 1 : ~(j > Last \/ Full(i, j) \/ Total(i, j) > AlbumBytes)
      /\ a > Last \/ Full(i, a) \/ Total(i, a) > AlbumBytes
  BY <1>2, AheadFacts DEF Last
<1> HIDE DEF a
<1>5. ASSUME NEW j \in i..Last PROVE Total(i, j) \in Int /\ j \in Files /\ j - i \in Nat
  <2>1. i \in 1..Last /\ j \in 0..Last /\ i - 1 \in 0..Last /\ j \in Files /\ j - i \in Nat
    BY <1>1, <1>2
  <2>2. Total(i, j) = g[j] - g[i - 1] /\ g[j] \in Nat /\ g[i - 1] \in Nat
    BY <1>3, <2>1 DEF Growing
  <2>3. QED  BY <2>1, <2>2
<1>6. ASSUME NEW j \in i..a - 1 PROVE j \in Files /\ Album(i, j)
  <2>1. j \in i..Last
    BY <1>1, <1>2, <1>4
  <2>2. Total(i, j) \in Int /\ j \in Files /\ j - i \in Nat
    BY <1>5, <2>1
  <2>3. ~Full(i, j) /\ ~(Total(i, j) > AlbumBytes)
    BY <1>4
  <2>4. j - i < AlbumFiles /\ Total(i, j) <= AlbumBytes
    BY <1>1, <2>2, <2>3 DEF Full
  <2>5. QED  BY <2>2, <2>4 DEF Album
<1>7. ASSUME a <= Last PROVE ~Album(i, a)
  <2>1. a \in i..Last
    BY <1>1, <1>2, <1>4, <1>7
  <2>2. Total(i, a) \in Int /\ a - i \in Nat
    BY <1>5, <2>1
  <2>3. ~(a > Last)
    BY <1>1, <1>2, <2>1
  <2>4. Full(i, a) \/ Total(i, a) > AlbumBytes
    BY <1>4, <2>3
  <2>5. ~(a - i < AlbumFiles /\ Total(i, a) <= AlbumBytes)
    BY <1>1, <2>2, <2>4 DEF Full
  <2>6. QED  BY <2>5 DEF Album
<1>8. QED  BY <1>4, <1>6, <1>7 DEF a

\* A part is an album or a single file, and no album reaches over its end.
LEMMA PartIsFull ==
  ASSUME \A f \in Files : size[f] \in Nat, NEW i \in Files
  PROVE  /\ After(i) \in i + 1..Last + 1
         /\ After(i) - 1 > i => Album(i, After(i) - 1)
         /\ After(i) <= Last => ~Album(i, After(i))
<1> DEFINE a == Ahead(i)
<1>1. Last \in Nat /\ Files = 1..Last
  BY UploadConstants
<1>2. /\ a \in i..Last + 1 /\ \A j \in i..a - 1 : j \in Files /\ Album(i, j)
      /\ a <= Last => ~Album(i, a)
  BY AheadAlbum
<1>3. After(i) = IF a - i >= 2 THEN a ELSE i + 1
  BY DEF After
<1> HIDE DEF a
<1>4. i \in Nat /\ a \in Nat /\ i <= Last
  BY <1>1, <1>2
<1>5. CASE a - i >= 2
  <2>1. After(i) = a /\ a - 1 \in i..a - 1 /\ a \in i + 1..Last + 1
    BY <1>1, <1>2, <1>3, <1>4, <1>5
  <2>2. QED  BY <1>2, <2>1
<1>6. CASE a = i + 1
  <2>1. After(i) = a /\ ~(a - 1 > i) /\ a \in i + 1..Last + 1
    BY <1>1, <1>2, <1>3, <1>4, <1>6
  <2>2. QED  BY <1>2, <2>1
<1>7. CASE a = i
  <2>1. After(i) = i + 1 /\ ~(i + 1 - 1 > i) /\ i + 1 \in i + 1..Last + 1 /\ a <= Last
    BY <1>1, <1>2, <1>3, <1>4, <1>7
  <2>2. ~Album(i, i)
    BY <1>2, <1>7, <2>1
  <2>3. ASSUME i + 1 <= Last, Album(i, i + 1) PROVE FALSE
    <3>1. i + 1 \in Files /\ i \in i..i + 1 /\ i \in i..i + 1
      BY <1>1, <1>4, <2>3
    <3>2. QED  BY <2>2, <2>3, <3>1, ShorterAlbum
  <2>4. After(i) \in i + 1..Last + 1 /\ ~(After(i) - 1 > i)
    BY <1>1, <1>4, <2>1
  <2>5. After(i) <= Last => ~Album(i, After(i))
    <3>1. i + 1 <= Last => ~Album(i, i + 1)
      BY <2>3
    <3>2. After(i) = i + 1
      BY <2>1
    <3>3. QED  BY <3>1, <3>2
  <2>6. QED  BY <2>4, <2>5
<1>8. a - i >= 2 \/ a = i + 1 \/ a = i
  BY <1>1, <1>2, <1>4
<1>9. QED  BY <1>5, <1>6, <1>7, <1>8

-----------------------------------------------------------------------------
(* The best plan *)

LEMMA CutsClimb ==
  ASSUME NEW s, Len(s) \in Nat, NEW i, NEW c, Cuts(s, i, c),
         NEW k \in 1..Len(s) + 1, NEW l \in 1..Len(s) + 1, k < l
  PROVE  c[k] < c[l]
<1> DEFINE Bad == {n \in k + 1..Len(s) + 1 : ~(c[k] < c[n])}
<1>1. Last \in Nat
  BY UploadConstants
<1>2. c \in [1..Len(s) + 1 -> 1..Last + 1] /\ \A n \in 1..Len(s) : c[n] < c[n + 1]
  BY DEF Cuts
<1>3. CASE Bad = {}
  BY <1>3
<1>4. CASE Bad # {}
  <2>1. PICK m \in Bad : \A n \in Bad : ~(n < m)
    <3>1. Bad \subseteq Nat
      OBVIOUS
    <3> HIDE DEF Bad
    <3>2. QED  BY <1>4, <3>1, LeastOf
  <2>2. m \in k + 1..Len(s) + 1 /\ ~(c[k] < c[m])
    BY <2>1
  <2>3. m - 1 \in 1..Len(s) /\ m - 1 + 1 = m /\ m - 1 < m /\ m \in 1..Len(s) + 1 /\ m - 1 \in 1..Len(s) + 1
    BY <2>2
  <2>4. c[m - 1] < c[m] /\ c[k] \in Nat /\ c[m] \in Nat /\ c[m - 1] \in Nat
    <3>1. \A n \in 1..Len(s) + 1 : c[n] \in Nat
      BY <1>1, <1>2
    <3>2. c[m - 1] < c[m]
      BY <1>2, <2>3
    <3>3. QED  BY <2>3, <3>1, <3>2
  <2>5. m - 1 # k
    BY <2>2, <2>4
  <2>6. m - 1 \in k + 1..Len(s) + 1
    BY <2>2, <2>5
  <2>7. c[k] < c[m - 1]
    BY <2>1, <2>3, <2>6
  <2>8. QED  BY <2>2, <2>4, <2>7
<1>5. QED  BY <1>3, <1>4

\* The last file of the part that begins with i, where S are the first files of the parts.
PartEnd(S, i) == Cardinality({f \in Files : \A j \in S : j > i => f < j})

LEMMA EndOfPart ==
  ASSUME NEW S \in SUBSET Files, NEW i \in Files, NEW b \in i + 1..Last + 1,
         \A j \in S : j > i => j >= b, b \in S \/ b = Last + 1
  PROVE  PartEnd(S, i) = b - 1
<1>1. Last \in Nat /\ Files = 1..Last
  BY UploadConstants
<1>2. b - 1 \in Nat /\ b \in Nat /\ i < b /\ b <= Last + 1
  BY <1>1
<1>3. ASSUME NEW f \in Files PROVE (\A j \in S : j > i => f < j) <=> f \in 1..b - 1
  <2>1. ASSUME f \in 1..b - 1, NEW j \in S, j > i PROVE f < j
    BY <1>1, <1>2, <2>1
  <2>2. ASSUME \A j \in S : j > i => f < j PROVE f \in 1..b - 1
    <3>1. CASE b \in S
      <4>1. b > i
        BY <1>1, <1>2
      <4>2. f < b
        BY <2>2, <3>1, <4>1
      <4>3. QED  BY <1>1, <1>2, <4>2
    <3>2. CASE b = Last + 1
      BY <1>1, <3>2
    <3>3. QED  BY <3>1, <3>2
  <2>3. QED  BY <2>1, <2>2
<1>4. 1..b - 1 \subseteq Files
  BY <1>1, <1>2
<1>5. {f \in Files : \A j \in S : j > i => f < j} = 1..b - 1
  BY <1>3, <1>4
<1>6. Cardinality(1..b - 1) = b - 1
  <2>1. 1 \in Int /\ b - 1 \in Int
    BY <1>2
  <2>2. Cardinality(1..b - 1) = IF 1 > b - 1 THEN 0 ELSE b - 1 - 1 + 1
    BY <2>1, FS_Interval
  <2>3. QED  BY <1>2, <2>2
<1>7. QED  BY <1>5, <1>6 DEF PartEnd

LEMMA PartEndExists ==
  ASSUME NEW S \in SUBSET Files, NEW i \in Files
  PROVE  \E b \in i + 1..Last + 1 : (\A j \in S : j > i => j >= b) /\ (b \in S \/ b = Last + 1)
<1> DEFINE T == {j \in S : j > i} \cup {Last + 1}
<1>1. Last \in Nat /\ Files = 1..Last
  BY UploadConstants
<1>2. T \subseteq Nat /\ T # {}
  <2>1. \A j \in S : j \in Nat
    BY <1>1
  <2>2. Last + 1 \in Nat
    BY <1>1
  <2>3. ASSUME NEW j \in T PROVE j \in Nat
    BY <2>1, <2>2
  <2>4. Last + 1 \in T
    OBVIOUS
  <2> HIDE DEF T
  <2>5. QED  BY <2>3, <2>4
<1>3. PICK b \in T : \A n \in T : ~(n < b)
  <2> HIDE DEF T
  <2>1. QED  BY <1>2, LeastOf
<1>4. b \in i + 1..Last + 1 /\ (b \in S \/ b = Last + 1)
  BY <1>1, <1>3
<1>5. ASSUME NEW j \in S, j > i PROVE j >= b
  <2>1. j \in T /\ j \in Nat /\ b \in Nat
    BY <1>1, <1>4, <1>5
  <2>2. ~(j < b)
    BY <1>3, <2>1
  <2>3. QED  BY <2>1, <2>2
<1>6. QED  BY <1>4, <1>5

\* Every way to split the group begins a message behind the begin of a part of the plan
\* and before, or where, the next one ends.
LEMMA SplitBetween ==
  ASSUME \A f \in Files : size[f] \in Nat, NEW S \in Splits, NEW a \in Files, After(a) \in Files
  PROVE  \E j \in S : a < j /\ j <= After(a)
<1> DEFINE e == After(a)
<1>1. Last \in Nat /\ Files = 1..Last /\ a \in Nat /\ 1 <= a /\ a <= Last
  BY UploadConstants
<1>2. S \subseteq Files /\ 1 \in S /\ \A i \in S : PartEnd(S, i) > i => Album(i, PartEnd(S, i))
  <2>1. 1 \in Files
    BY <1>1
  <2>2. QED  BY <2>1 DEF Splits, PartEnd
<1>3. e \in a + 1..Last /\ ~Album(a, e)
  <2>1. e \in a + 1..Last + 1 /\ (e <= Last => ~Album(a, e)) /\ e \in Files
    BY PartIsFull
  <2> HIDE DEF e
  <2>2. QED  BY <1>1, <2>1
<1> HIDE DEF e
<1>4. SUFFICES ASSUME \A j \in S : ~(a < j /\ j <= e) PROVE FALSE
  BY DEF e
<1>5. PICK i \in S : i <= a /\ \A j \in S : j > i => j > a
  <2> DEFINE T == {n \in 0..a : a - n \in S}
  <2>1. a - 1 \in T /\ T \subseteq Nat
    BY <1>1, <1>2
  <2>2. PICK n \in T : \A m \in T : ~(m < n)
    <3> HIDE DEF T
    <3>1. QED  BY <2>1, LeastOf
  <2>3. n \in 0..a /\ a - n \in S /\ a - n <= a
    BY <1>1, <2>2
  <2>4. ASSUME NEW j \in S, j > a - n PROVE j > a
    <3>1. SUFFICES ASSUME ~(j > a) PROVE FALSE
      OBVIOUS
    <3>2. j \in Nat
      BY <1>1, <1>2
    <3>3. a - j \in 0..a /\ a - (a - j) = j /\ a - j < n
      BY <1>1, <2>3, <2>4, <3>1, <3>2
    <3>4. a - j \in T
      BY <3>3
    <3>5. QED  BY <2>2, <3>3, <3>4
  <2>5. QED  BY <2>3, <2>4
<1>6. i \in Files /\ i \in Nat
  BY <1>1, <1>2
<1>7. PICK b \in i + 1..Last + 1 : (\A j \in S : j > i => j >= b) /\ (b \in S \/ b = Last + 1)
  BY <1>2, <1>6, PartEndExists
<1>8. PartEnd(S, i) = b - 1
  BY <1>2, <1>6, <1>7, EndOfPart
<1>9. b > e
  <2>1. CASE b \in S
    <3>1. b > i /\ b \in Nat /\ e \in Nat
      BY <1>1, <1>3, <1>6
    <3>2. b > a
      BY <1>5, <2>1, <3>1
    <3>3. ~(b <= e)
      BY <1>1, <1>4, <2>1, <3>1, <3>2
    <3>4. QED  BY <3>1, <3>3
  <2>2. CASE b = Last + 1
    BY <1>1, <1>3, <2>2
  <2>3. QED  BY <1>7, <2>1, <2>2
<1>10. /\ b - 1 > i /\ b - 1 \in Files /\ a \in i..b - 1 /\ e \in a..b - 1
  BY <1>1, <1>3, <1>5, <1>6, <1>9
<1>11. Album(i, b - 1)
  BY <1>2, <1>8, <1>10
<1>12. Album(a, e)
  BY <1>6, <1>10, <1>11, ShorterAlbum
<1>13. QED  BY <1>3, <1>12

LEMMA PlanIsSplit ==
  ASSUME \A f \in Files : size[f] \in Nat, NEW s, Len(s) \in Nat, NEW c, Cuts(s, 1, c),
         \A k \in 1..Len(s) : c[k + 1] = After(c[k])
  PROVE  {c[k] : k \in 1..Len(s)} \in Splits
<1> DEFINE S == {c[k] : k \in 1..Len(s)}
<1>1. Last \in Nat /\ Files = 1..Last
  BY UploadConstants
<1>2. /\ c \in [1..Len(s) + 1 -> 1..Last + 1] /\ c[1] = 1 /\ c[Len(s) + 1] = Last + 1
      /\ \A k \in 1..Len(s) : c[k] < c[k + 1]
  BY DEF Cuts
<1>3. \A k \in 1..Len(s) : k \in 1..Len(s) + 1 /\ k + 1 \in 1..Len(s) + 1 /\ c[k] \in Nat /\ c[k + 1] \in Nat
  <2>1. \A k \in 1..Len(s) + 1 : c[k] \in Nat
    BY <1>1, <1>2
  <2>2. \A k \in 1..Len(s) : k \in 1..Len(s) + 1 /\ k + 1 \in 1..Len(s) + 1
    OBVIOUS
  <2>3. QED  BY <2>1, <2>2
<1>4. \A k \in 1..Len(s) : c[k] \in Files
  <2>1. ASSUME NEW k \in 1..Len(s) PROVE c[k] \in Files
    <3>1. c[k] \in 1..Last + 1 /\ c[k + 1] \in 1..Last + 1 /\ c[k] < c[k + 1]
      BY <1>2, <1>3
    <3>2. QED  BY <1>1, <3>1
  <2>2. QED  BY <2>1
<1>5. S \subseteq Files
  BY <1>4
<1>6. 1 \in Files => 1 \in S
  <2>1. SUFFICES ASSUME 1 \in Files PROVE 1 \in S
    OBVIOUS
  <2>2. Len(s) # 0
    BY <1>1, <1>2, <2>1
  <2>3. 1 \in 1..Len(s)
    BY <2>2
  <2>4. QED  BY <1>2, <2>3
<1>7. ASSUME NEW k \in 1..Len(s), PartEnd(S, c[k]) > c[k] PROVE Album(c[k], PartEnd(S, c[k]))
  <2> DEFINE b == c[k + 1]
  <2>1. c[k] \in Files /\ b = After(c[k]) /\ b \in 1..Last + 1 /\ c[k] < b
    BY <1>2, <1>3, <1>4
  <2>2. b \in c[k] + 1..Last + 1
    BY <1>1, <2>1
  <2>3. b \in S \/ b = Last + 1
    <3>1. CASE k = Len(s)
      BY <1>2, <3>1
    <3>2. CASE k # Len(s)
      <4>1. k + 1 \in 1..Len(s)
        BY <3>2
      <4>2. QED  BY <4>1
    <3>3. QED  BY <3>1, <3>2
  <2>4. ASSUME NEW j \in S, j > c[k] PROVE j >= b
    <3>1. PICK l \in 1..Len(s) : j = c[l]
      OBVIOUS
    <3>2. c[l] \in Nat /\ c[k] \in Nat /\ c[l] > c[k] /\ k \in 1..Len(s) + 1 /\ l \in 1..Len(s) + 1 /\ k + 1 \in 1..Len(s) + 1
      BY <1>3, <2>4, <3>1
    <3>3. ~(l < k)
      <4>1. SUFFICES ASSUME l < k PROVE FALSE
        OBVIOUS
      <4>2. c[l] < c[k]
        BY <3>2, <4>1, CutsClimb
      <4>3. QED  BY <3>2, <4>2
    <3>4. l # k
      BY <3>2
    <3>5. CASE l = k + 1
      BY <1>3, <3>1, <3>2, <3>5
    <3>6. CASE l # k + 1
      <4>1. k + 1 < l
        BY <3>3, <3>4, <3>6
      <4>2. b < c[l]
        BY <3>2, <4>1, CutsClimb
      <4>3. QED  BY <1>3, <3>1, <3>2, <4>2
    <3>7. QED  BY <3>5, <3>6
  <2> HIDE DEF b, S
  <2>5. PartEnd(S, c[k]) = b - 1
    BY <1>5, <2>1, <2>2, <2>3, <2>4, EndOfPart
  <2>6. b - 1 > c[k]
    BY <1>7, <2>5
  <2>7. QED  BY <2>1, <2>5, <2>6, PartIsFull
<1> HIDE DEF S
<1>8. S \in Splits
  <2>1. ASSUME NEW i \in S, PartEnd(S, i) > i PROVE Album(i, PartEnd(S, i))
    BY <1>7, <2>1 DEF S
  <2>2. QED  BY <1>5, <1>6, <2>1 DEF Splits, PartEnd
<1>9. QED  BY <1>8 DEF S

\* So each part of the plan has a message of its own in any other split.
LEMMA PlanIsShortest ==
  ASSUME \A f \in Files : size[f] \in Nat, NEW s, Len(s) \in Nat, NEW c, Cuts(s, 1, c),
         \A k \in 1..Len(s) : c[k + 1] = After(c[k]), NEW S \in Splits
  PROVE  Len(s) <= Cardinality(S)
<1> DEFINE K == 1..Len(s)
           h == [k \in K |-> IF k = 1 THEN 1 ELSE CHOOSE j \in S : c[k - 1] < j /\ j <= c[k]]
<1>1. Last \in Nat /\ Files = 1..Last
  BY UploadConstants
<1>2. /\ c \in [1..Len(s) + 1 -> 1..Last + 1] /\ c[1] = 1 /\ c[Len(s) + 1] = Last + 1
      /\ \A k \in K : c[k] < c[k + 1]
  BY DEF Cuts
<1>3. \A k \in K : c[k] \in Files /\ c[k] \in Nat
  <2>1. ASSUME NEW k \in K PROVE c[k] \in Files /\ c[k] \in Nat
    <3>1. k \in 1..Len(s) + 1 /\ k + 1 \in 1..Len(s) + 1
      OBVIOUS
    <3>2. c[k] \in 1..Last + 1 /\ c[k + 1] \in 1..Last + 1 /\ c[k] < c[k + 1]
      BY <1>2, <3>1
    <3>3. QED  BY <1>1, <3>2
  <2>2. QED  BY <2>1
<1>4. S \subseteq Files /\ (1 \in Files => 1 \in S)
  BY DEF Splits
<1>5. ASSUME NEW k \in K, k # 1 PROVE h[k] \in S /\ c[k - 1] < h[k] /\ h[k] <= c[k]
  <2>1. k - 1 \in K /\ k - 1 + 1 = k
    BY <1>5
  <2>2. c[k] = After(c[k - 1]) /\ c[k] \in Files /\ c[k - 1] \in Files
    BY <1>3, <2>1
  <2>3. \E j \in S : c[k - 1] < j /\ j <= c[k]
    <3>1. \E j \in S : c[k - 1] < j /\ j <= After(c[k - 1])
      BY <2>2, SplitBetween
    <3>2. QED  BY <2>2, <3>1
  <2>4. h[k] = CHOOSE j \in S : c[k - 1] < j /\ j <= c[k]
    BY <1>5
  <2> HIDE DEF h
  <2>5. QED  BY <2>3, <2>4
<1>6. ASSUME 1 \in K PROVE h[1] \in S /\ h[1] = c[1]
  <2>1. h[1] = 1 /\ 1 \in Files
    BY <1>2, <1>3, <1>6
  <2>2. QED  BY <1>2, <1>4, <2>1
<1>7. h = [k \in K |-> h[k]] /\ DOMAIN h = K
  OBVIOUS
<1> HIDE DEF h
<1>8. \A k \in K : h[k] \in S /\ h[k] \in Nat /\ h[k] <= c[k]
  <2>1. ASSUME NEW k \in K PROVE h[k] \in S /\ h[k] <= c[k]
    <3>1. CASE k = 1
      BY <1>3, <1>6, <3>1
    <3>2. CASE k # 1
      BY <1>5, <3>2
    <3>3. QED  BY <3>1, <3>2
  <2>2. \A j \in S : j \in Nat
    BY <1>1, <1>4
  <2>3. QED  BY <2>1, <2>2
<1>9. ASSUME NEW k \in K, NEW l \in K, k < l PROVE h[k] < h[l]
  <2>1. l - 1 \in K /\ l # 1
    BY <1>9
  <2>2. c[k] <= c[l - 1]
    <3>1. CASE k = l - 1
      BY <1>3, <3>1
    <3>2. CASE k # l - 1
      <4>1. k < l - 1 /\ k \in 1..Len(s) + 1 /\ l - 1 \in 1..Len(s) + 1
        BY <1>9, <2>1, <3>2
      <4>2. c[k] < c[l - 1]
        BY <4>1, CutsClimb
      <4>3. QED  BY <1>3, <2>1, <4>2
    <3>3. QED  BY <3>1, <3>2
  <2>3. h[k] <= c[k] /\ c[l - 1] < h[l]
    BY <1>5, <1>8, <2>1
  <2>4. QED  BY <1>3, <1>8, <2>1, <2>2, <2>3
<1>10. h \in Injection(K, S)
  <2>1. h \in [K -> S]
    BY <1>7, <1>8
  <2>2. ASSUME NEW k \in K, NEW l \in K, h[k] = h[l] PROVE k = l
    <3>1. ~(k < l) /\ ~(l < k)
      BY <1>8, <1>9, <2>2
    <3>2. QED  BY <3>1
  <2>3. QED  BY <1>7, <2>1, <2>2 DEF Injection, IsInjective
<1>11. IsFiniteSet(S)
  <2>1. IsFiniteSet(1..Last)
    BY <1>1, FS_Interval
  <2>2. QED  BY <1>1, <1>4, <2>1, FS_Subset
<1>12. Cardinality(K) <= Cardinality(S)
  BY <1>10, <1>11, FS_Injection
<1>13. Cardinality(K) = Len(s)
  <2>1. Cardinality(1..Len(s)) = IF 1 > Len(s) THEN 0 ELSE Len(s) - 1 + 1
    BY FS_Interval
  <2>2. QED  BY <2>1
<1>14. QED  BY <1>12, <1>13

-----------------------------------------------------------------------------
(* What has arrived *)

TypesKept ==
  /\ size \in [Files -> Sizes] /\ ended \in BOOLEAN
  /\ client \in {"connecting", "ready", "failed"}
  /\ pc \in {"plan", "next", "album", "albumCall", "single", "singleCall", "done"}
  /\ result \in {"", "ok", "error", "ended"} /\ (pc = "done" <=> result # "")
  /\ plan \in Seq(Seq(Files))
  /\ attempt \in 0..Attempts - 1 /\ flood \in 0..MaxFloods + 1
  /\ again \in BOOLEAN /\ force \in BOOLEAN /\ asDoc \in BOOLEAN
  /\ doubtful \subseteq Files /\ arrived \in [Files -> Nat]

\* How often a file has come when those up to n are reported and those before m are
\* the part in turn: once, but for doubtful ones, and those twice for the album
\* and each attempt at most.
Counted(f, n, m) ==
  /\ f > n /\ f \notin doubtful => arrived[f] = 0
  /\ f <= n => arrived[f] >= 1 /\ (f \notin doubtful => arrived[f] = 1)
  /\ arrived[f] <= Attempts + 1
  /\ pc # "done" /\ f > n => arrived[f] <= 1 \/ (f = n + 1 /\ pc \in {"single", "singleCall"} /\ arrived[f] <= 1 + attempt)
  /\ pc # "done" /\ f > n /\ (f >= m \/ pc \in {"album", "albumCall"}) => arrived[f] = 0

\* Files are reported in order, and the part in turn and the plan are what is left.
Reached(n, m) ==
  /\ n \in 0..Last /\ m \in n + 1..Last + 1
  /\ notified = 1..n /\ todo = Run(n + 1, m)
  /\ pc = "plan" => m = 1
  /\ pc \in {"album", "albumCall", "single", "singleCall"} => m > n + 1
  /\ pc = "plan" \/ result = "error" \/ Follows(plan, m)
  /\ result = "ok" => n = Last
Between(n, m) == Reached(n, m) /\ \A f \in Files : Counted(f, n, m)

GroupInv == TypesKept /\ \E n, m : Between(n, m)

LEMMA InitGroup == UploadsInit => GroupInv
<1> SUFFICES ASSUME UploadsInit PROVE GroupInv
  OBVIOUS
<1>1. /\ size \in [Files -> Sizes] /\ asDoc \in BOOLEAN /\ ended = FALSE /\ client = "connecting" /\ pc = "plan"
      /\ result = "" /\ plan = <<>> /\ again = FALSE /\ todo = <<>> /\ attempt = 0 /\ flood = 0 /\ force = FALSE
      /\ notified = {} /\ arrived = [f \in Files |-> 0] /\ doubtful = {}
  BY DEF UploadsInit
<1>2. /\ Last \in Nat /\ Files = 1..Last /\ Attempts \in Nat /\ Attempts > 0 /\ MaxFloods \in Nat
      /\ <<>> \in Seq(Seq(Files))
  BY UploadConstants, EmptySeq
<1>3. TypesKept
  <2>1. /\ pc = "plan" /\ result = "" /\ pc # "done" /\ result \in {"", "ok", "error", "ended"}
        /\ (pc = "done" <=> result # "")
    BY <1>1
  <2>2. /\ size \in [Files -> Sizes] /\ ended \in BOOLEAN /\ plan \in Seq(Seq(Files)) /\ again \in BOOLEAN
        /\ force \in BOOLEAN /\ asDoc \in BOOLEAN /\ doubtful \subseteq Files
    BY <1>1, <1>2
  <2>3. attempt \in 0..Attempts - 1 /\ flood \in 0..MaxFloods + 1 /\ arrived \in [Files -> Nat]
    <3>1. attempt = 0 /\ flood = 0 /\ arrived = [f \in Files |-> 0]
      BY <1>1
    <3>2. Attempts \in Nat /\ Attempts > 0 /\ MaxFloods \in Nat
      BY <1>2
    <3>3. QED  BY <3>1, <3>2
  <2>4. client \in {"connecting", "ready", "failed"}
    BY <1>1
  <2>5. pc \in {"plan", "next", "album", "albumCall", "single", "singleCall", "done"}
    BY <1>1
  <2>6. QED  BY <2>1, <2>2, <2>3, <2>4, <2>5 DEF TypesKept
<1>4. Reached(0, 1)
  <2>1. 0 \in 0..Last /\ 1 \in 1..Last + 1
    BY <1>2
  <2>2. Run(1, 1) = <<>>
    BY <2>1, RunFacts
  <2>3. 1..0 = {} /\ 0 + 1 = 1
    OBVIOUS
  <2>4. QED  BY <1>1, <2>1, <2>2, <2>3 DEF Reached
<1>5. ASSUME NEW f \in Files PROVE Counted(f, 0, 1)
  <2>1. arrived[f] = 0 /\ f \in Nat /\ f >= 1 /\ Attempts + 1 >= 0
    <3>1. arrived = [g \in Files |-> 0]
      BY <1>1
    <3>2. Last \in Nat /\ Files = 1..Last /\ Attempts \in Nat
      BY <1>2
    <3>3. QED  BY <3>1, <3>2
  <2>2. QED  BY <2>1 DEF Counted
<1>6. QED  BY <1>3, <1>4, <1>5 DEF GroupInv, Between

LEMMA PlanGroup ==
  ASSUME TypesKept, NEW n, NEW m, Between(n, m), Plan
  PROVE  GroupInv'
<1>1. pc = "plan" /\ UNCHANGED <<size, ended, client, again, fileVars, asDoc, notified, arrived, doubtful>>
  BY DEF Plan
<1>2. /\ Last \in Nat /\ Files = 1..Last /\ Attempts \in Nat /\ Attempts > 0
      /\ Follows(PlanAlbumBatches, 1)
  BY UploadConstants, PlanFollows
<1>3. Reached(n, m) /\ \A f \in Files : Counted(f, n, m)
  BY DEF Between
<1>4. n = 0 /\ m = 1
  BY <1>1, <1>2, <1>3 DEF Reached
<1>5. CASE Done("error") /\ UNCHANGED plan
  <2>1. TypesKept'
    BY <1>1, <1>5 DEF TypesKept, Done, fileVars
  <2>2. Reached(n, m)'
    BY <1>1, <1>3, <1>4, <1>5 DEF Reached, Done, fileVars
  <2>3. \A f \in Files : Counted(f, n, m)'
    BY <1>1, <1>3, <1>5 DEF Counted, Done, fileVars
  <2>4. QED  BY <2>1, <2>2, <2>3 DEF GroupInv, Between
<1>6. CASE plan' = PlanAlbumBatches /\ pc' = "next" /\ UNCHANGED result
  <2>1. TypesKept'
    BY <1>1, <1>2, <1>6 DEF TypesKept, fileVars, Follows
  <2>2. Reached(n, m)'
    BY <1>1, <1>2, <1>3, <1>4, <1>6 DEF Reached, fileVars
  <2>3. \A f \in Files : Counted(f, n, m)'
    BY <1>1, <1>3, <1>6 DEF Counted, fileVars
  <2>4. QED  BY <2>1, <2>2, <2>3 DEF GroupInv, Between
<1>7. QED  BY <1>5, <1>6 DEF Plan

LEMMA NextPartGroup ==
  ASSUME TypesKept, NEW n, NEW m, Between(n, m), NextPart
  PROVE  GroupInv'
<1>1. pc = "next" /\ todo = <<>> /\ UNCHANGED <<size, ended, client, attempt, flood, force, asDoc, notified, arrived, doubtful>>
  BY DEF NextPart
<1>2. Last \in Nat /\ Files = 1..Last /\ Attempts \in Nat /\ Attempts > 0
  BY UploadConstants
<1>3. Reached(n, m) /\ (\A f \in Files : Counted(f, n, m)) /\ n \in 0..Last /\ m \in n + 1..Last + 1
  BY DEF Between, Reached
<1>4. n \in Nat /\ n + 1 \in 1..Last + 1 /\ m \in 1..Last + 1
  BY <1>2, <1>3
<1>5. m = n + 1
  BY <1>1, <1>3, <1>4, RunFacts DEF Reached
<1>6. Follows(plan, m)
  BY <1>1, <1>3 DEF Reached, TypesKept
<1>7. CASE plan = <<>> /\ Done("ok") /\ UNCHANGED <<plan, todo, again>>
  <2>1. TypesKept'
    BY <1>1, <1>7 DEF TypesKept, Done
  <2>2. Reached(n, m)'
    <3>1. n = Last
      BY <1>2, <1>4, <1>5, <1>6, <1>7, NothingFollows
    <3>2. QED  BY <1>1, <1>3, <1>6, <1>7, <3>1 DEF Reached, Done
  <2>3. \A f \in Files : Counted(f, n, m)'
    BY <1>1, <1>3, <1>7 DEF Counted, Done
  <2>4. QED  BY <2>1, <2>2, <2>3 DEF GroupInv, Between
<1>8. CASE /\ plan # <<>>
           /\ plan' = Tail(plan) /\ todo' = Head(plan) /\ again' = FALSE
           /\ pc' = IF Len(Head(plan)) = 1 THEN "next" ELSE "album"
           /\ UNCHANGED result
  <2>1. PICK j \in m + 1..Last + 1 : Head(plan) = Run(m, j) /\ Follows(Tail(plan), j)
    BY <1>4, <1>6, <1>8, FirstFollows
  <2>2. /\ UNCHANGED <<size, ended, client, attempt, flood, force, asDoc, notified, arrived, doubtful, result>>
        /\ again' \in BOOLEAN /\ pc' \in {"next", "album"} /\ plan' \in Seq(Seq(Files))
    BY <1>1, <1>8, <2>1 DEF Follows
  <2>3. TypesKept'
    BY <1>1, <2>2 DEF TypesKept
  <2>4. Reached(n, j)'
    <3>1. j \in n + 1..Last + 1 /\ j > n + 1
      BY <1>2, <1>4, <1>5, <2>1
    <3>2. todo' = Run(n + 1, j) /\ Follows(plan', j)
      BY <1>5, <1>8, <2>1
    <3>3. pc' # "plan"
      BY <2>2
    <3>4. QED  BY <1>3, <2>2, <3>1, <3>2, <3>3 DEF Reached
  <2>5. \A f \in Files : Counted(f, n, j)'
    <3>1. SUFFICES ASSUME NEW f \in Files PROVE Counted(f, n, j)'
      OBVIOUS
    <3>2. Counted(f, n, m) /\ (f > n => f >= m) /\ f \in Nat
      BY <1>2, <1>3, <1>5
    <3>3. QED  BY <1>1, <2>2, <3>2 DEF Counted
  <2>6. QED  BY <2>3, <2>4, <2>5 DEF GroupInv, Between
<1>9. QED  BY <1>7, <1>8 DEF NextPart

LEMMA BetweenFacts ==
  ASSUME NEW n, NEW m, Between(n, m)
  PROVE  /\ Last \in Nat /\ Files = 1..Last /\ Attempts \in Nat /\ Attempts > 0 /\ MaxFloods \in Nat
         /\ n \in 0..Last /\ n \in Nat /\ m \in n + 1..Last + 1 /\ m \in Nat /\ n + 1 \in 1..Last + 1
         /\ notified = 1..n /\ todo = Run(n + 1, m) /\ Range(todo) = n + 1..m - 1
         /\ todo = <<>> <=> m = n + 1
         /\ m > n + 1 => n + 1 \in Files /\ Head(todo) = n + 1 /\ Tail(todo) = Run(n + 2, m)
<1>1. Last \in Nat /\ Files = 1..Last /\ Attempts \in Nat /\ Attempts > 0 /\ MaxFloods \in Nat
  BY UploadConstants
<1>2. n \in 0..Last /\ m \in n + 1..Last + 1 /\ notified = 1..n /\ todo = Run(n + 1, m)
  BY DEF Between, Reached
<1>3. n \in Nat /\ m \in Nat /\ n + 1 \in 1..Last + 1 /\ n + 1 + 1 = n + 2
  BY <1>1, <1>2
<1>4. /\ Range(todo) = n + 1..m - 1 /\ (todo = <<>> <=> n + 1 = m)
      /\ n + 1 < m => Head(todo) = n + 1 /\ Tail(todo) = Run(n + 2, m)
  <2>1. /\ Range(Run(n + 1, m)) = n + 1..m - 1 /\ (Run(n + 1, m) = <<>> <=> n + 1 = m)
        /\ n + 1 < m => Head(Run(n + 1, m)) = n + 1 /\ Tail(Run(n + 1, m)) = Run(n + 1 + 1, m)
    BY <1>2, <1>3, RunFacts
  <2>2. QED  BY <1>2, <1>3, <2>1
<1>5. m > n + 1 => n + 1 \in Files /\ n + 1 < m
  BY <1>1, <1>2, <1>3
<1>6. QED  BY <1>1, <1>2, <1>3, <1>4, <1>5

\* Steps that send nothing and finish no part.
LEMMA StillBetween ==
  ASSUME TypesKept, NEW n, NEW m, Between(n, m), UNCHANGED <<plan, todo, notified, arrived, doubtful>>,
         result # "error", UNCHANGED result \/ result' \in {"error", "ended"},
         \/ pc' = pc /\ attempt' = attempt
         \/ pc = "next" /\ pc' = "single" /\ m > n + 1 /\ attempt' = 0
         \/ pc = "single" /\ pc' = "singleCall" /\ attempt' = attempt
         \/ pc = "album" /\ pc' = "albumCall"
         \/ pc = "albumCall" /\ pc' \in {"album", "next"}
         \/ pc # "plan" /\ pc' = "done"
         \/ pc = "singleCall" /\ pc' = "single" /\ attempt' \in {attempt, attempt + 1} /\ attempt \in Nat
  PROVE  Between(n, m)'
<1>1. /\ Last \in Nat /\ Files = 1..Last /\ n \in Nat /\ m \in Nat
      /\ \A f \in Files : Counted(f, n, m)
  BY BetweenFacts DEF Between
<1>2. Reached(n, m)'
  BY DEF Between, Reached
<1>3. ASSUME NEW f \in Files PROVE Counted(f, n, m)'
  <2>1. Counted(f, n, m) /\ f \in Nat
    BY <1>1
  <2>2. /\ f > n /\ f \notin doubtful' => arrived'[f] = 0
        /\ f <= n => arrived'[f] >= 1 /\ (f \notin doubtful' => arrived'[f] = 1)
        /\ arrived'[f] <= Attempts + 1
    BY <2>1 DEF Counted
  <2>3. SUFFICES ASSUME pc' # "done", f > n
                 PROVE  /\ arrived'[f] <= 1 \/ (f = n + 1 /\ pc' \in {"single", "singleCall"} /\ arrived'[f] <= 1 + attempt')
                        /\ f >= m \/ pc' \in {"album", "albumCall"} => arrived'[f] = 0
    BY <2>2 DEF Counted
  <2>4. pc # "done"
    BY <2>3
  <2>5. arrived[f] \in Nat
    BY DEF TypesKept
  <2>6. /\ arrived[f] <= 1 \/ (f = n + 1 /\ pc \in {"single", "singleCall"} /\ arrived[f] <= 1 + attempt)
        /\ f >= m \/ pc \in {"album", "albumCall"} => arrived[f] = 0
    BY <2>1, <2>3, <2>4 DEF Counted
  <2>7. f >= m \/ pc' \in {"album", "albumCall"} => arrived'[f] = 0
    BY <2>3, <2>6
  <2>8. CASE pc = "singleCall" /\ pc' = "single"
    <3>1. attempt' \in {attempt, attempt + 1} /\ attempt \in Nat
      BY <2>8
    <3>2. QED  BY <2>5, <2>6, <2>7, <2>8, <3>1
  <2>9. CASE ~(pc = "singleCall" /\ pc' = "single")
    BY <2>3, <2>6, <2>7, <2>9
  <2>10. QED  BY <2>8, <2>9
<1>4. QED  BY <1>2, <1>3 DEF Between

\* BeginOnce keeps to the types.
LEMMA BeginTypes ==
  ASSUME NEW f, BeginOnce(f)
  PROVE  flood' = 0 /\ force' \in BOOLEAN
<1>1. flood' = 0 /\ \E S : force' \in S /\ (S = {TRUE} \/ S = BOOLEAN \/ S = {FALSE})
  BY DEF BeginOnce
<1>2. QED  BY <1>1

LEMMA AsideGroup ==
  ASSUME TypesKept, NEW n, NEW m, Between(n, m), NextFile \/ Call \/ GiveUp \/ Connect \/ EndContext
  PROVE  GroupInv'
<1>1. /\ Attempts \in Nat /\ Attempts > 0 /\ MaxFloods \in Nat /\ (todo = <<>> <=> m = n + 1)
      /\ m \in n + 1..Last + 1 /\ n \in Nat /\ m \in Nat /\ Last \in Nat
  BY BetweenFacts
<1>2. 0 \in 0..Attempts - 1 /\ 0 \in 0..MaxFloods + 1
  BY <1>1
<1>3. UNCHANGED <<plan, todo, notified, arrived, doubtful>>
  BY DEF NextFile, Call, GiveUp, Connect, EndContext, fileVars
<1>4. CASE NextFile
  <2>1. /\ pc = "next" /\ todo # <<>> /\ UNCHANGED <<asDoc, size, ended, client, plan, again, todo, notified, arrived, doubtful>>
        /\ \/ Done("error") /\ UNCHANGED <<attempt, flood, force>>
           \/ pc' = "single" /\ attempt' = 0 /\ BeginOnce(Head(todo)) /\ UNCHANGED result
    BY <1>4 DEF NextFile
  <2>2. m > n + 1
    BY <1>1, <2>1
  <2>3. CASE Done("error") /\ UNCHANGED <<attempt, flood, force>>
    <3>1. TypesKept'
      BY <2>1, <2>3 DEF TypesKept, Done
    <3>2. result # "error"
      BY <2>1 DEF TypesKept
    <3>3. Between(n, m)'
      BY <1>3, <2>1, <2>3, <3>2, StillBetween DEF Done
    <3>4. QED  BY <3>1, <3>3 DEF GroupInv
  <2>4. CASE pc' = "single" /\ attempt' = 0 /\ BeginOnce(Head(todo)) /\ UNCHANGED result
    <3>1. flood' = 0 /\ force' \in BOOLEAN
      BY <2>4, BeginTypes
    <3>2. TypesKept'
      BY <1>2, <2>1, <2>4, <3>1 DEF TypesKept
    <3>3. result # "error"
      BY <2>1 DEF TypesKept
    <3>4. Between(n, m)'
      BY <1>3, <2>1, <2>2, <2>4, <3>3, StillBetween
    <3>5. QED  BY <3>2, <3>4 DEF GroupInv
  <2>5. QED  BY <2>1, <2>3, <2>4
<1>5. CASE Call
  <2>1. /\ (pc = "single" /\ pc' = "singleCall") \/ (pc = "album" /\ pc' = "albumCall")
        /\ UNCHANGED <<size, ended, client, result, plan, again, fileVars, asDoc, notified, arrived, doubtful>>
    BY <1>5 DEF Call
  <2>2. TypesKept' /\ result # "error"
    BY <2>1 DEF TypesKept, fileVars
  <2>3. Between(n, m)'
    BY <1>3, <2>1, <2>2, StillBetween DEF fileVars
  <2>4. QED  BY <2>2, <2>3 DEF GroupInv
<1>6. CASE GiveUp
  <2>1. /\ pc \in {"single", "album"} /\ Done("ended")
        /\ UNCHANGED <<size, ended, client, plan, again, fileVars, asDoc, notified, arrived, doubtful>>
    BY <1>6 DEF GiveUp
  <2>2. TypesKept' /\ result # "error"
    BY <2>1 DEF TypesKept, Done, fileVars
  <2>3. Between(n, m)'
    BY <1>3, <2>1, <2>2, StillBetween DEF Done
  <2>4. QED  BY <2>2, <2>3 DEF GroupInv
<1>7. CASE Connect \/ EndContext
  <2>1. UNCHANGED <<size, pc, result, plan, again, fileVars, asDoc, notified, arrived, doubtful>>
    BY <1>7 DEF Connect, EndContext
  <2>2. TypesKept'
    BY <1>7, <2>1 DEF Connect, EndContext, TypesKept, fileVars
  <2>3. Between(n, m)'
    BY <2>1 DEF Between, Reached, Counted, fileVars
  <2>4. QED  BY <2>2, <2>3 DEF GroupInv
<1>8. QED  BY <1>4, <1>5, <1>6, <1>7

\* What an answer does to what has arrived.
LEMMA AnswerFacts ==
  ASSUME TypesKept, NEW S, S \subseteq Files, NEW a, Answer(S, a)
  PROVE  /\ UNCHANGED <<arrived, doubtful>>
            \/ /\ \A f \in Files : arrived'[f] = arrived[f] + IF f \in S THEN 1 ELSE 0
               /\ doubtful' = IF a = "lost" THEN doubtful \cup S ELSE doubtful
         /\ a = "ok" => \A f \in Files : arrived'[f] = arrived[f] + IF f \in S THEN 1 ELSE 0
         /\ a = "ok" => doubtful' = doubtful
         /\ a \notin {"ok", "lost"} => UNCHANGED <<arrived, doubtful>>
         /\ arrived' \in [Files -> Nat] /\ doubtful' \subseteq Files
<1>1. \/ a = "ok" /\ UNCHANGED doubtful /\ arrived' = [f \in Files |-> arrived[f] + IF f \in S THEN 1 ELSE 0]
      \/ a # "ok" /\ UNCHANGED <<arrived, doubtful>>
      \/ a = "lost" /\ arrived' = [f \in Files |-> arrived[f] + IF f \in S THEN 1 ELSE 0] /\ doubtful' = doubtful \cup S
  BY DEF Answer
<1>2. arrived \in [Files -> Nat] /\ doubtful \subseteq Files
  BY DEF TypesKept
<1>3. [f \in Files |-> arrived[f] + IF f \in S THEN 1 ELSE 0] \in [Files -> Nat]
  BY <1>2
<1>4. CASE a = "ok" /\ UNCHANGED doubtful /\ arrived' = [f \in Files |-> arrived[f] + IF f \in S THEN 1 ELSE 0]
  BY <1>2, <1>3, <1>4
<1>5. CASE a # "ok" /\ UNCHANGED <<arrived, doubtful>>
  BY <1>2, <1>5
<1>6. CASE a = "lost" /\ arrived' = [f \in Files |-> arrived[f] + IF f \in S THEN 1 ELSE 0] /\ doubtful' = doubtful \cup S
  BY <1>2, <1>3, <1>6
<1>7. QED  BY <1>1, <1>4, <1>5, <1>6

\* The connection broke with the files S on their way.
LEMMA LostAt ==
  ASSUME TypesKept, NEW n, NEW m, Between(n, m), m > n + 1, NEW S,
         \/ pc = "albumCall" /\ pc' = "next" /\ S = n + 1..m - 1
         \/ pc = "singleCall" /\ S = {n + 1} /\ (pc' = "done" \/ (pc' = "single" /\ attempt' = attempt + 1)),
         \A f \in Files : arrived'[f] = arrived[f] + IF f \in S THEN 1 ELSE 0,
         doubtful' = doubtful \cup S, UNCHANGED <<plan, todo, notified>>,
         UNCHANGED result \/ result' \in {"error", "ended"}
  PROVE  Between(n, m)'
<1>1. /\ Last \in Nat /\ Files = 1..Last /\ n \in Nat /\ m \in Nat /\ Attempts \in Nat
      /\ \A f \in Files : Counted(f, n, m)
  BY BetweenFacts DEF Between
<1>2. result # "error" /\ attempt \in 0..Attempts - 1 /\ arrived \in [Files -> Nat]
  BY DEF TypesKept
<1>3. Reached(n, m)'
  BY <1>2 DEF Between, Reached
<1>4. ASSUME NEW f \in Files PROVE Counted(f, n, m)'
  <2>1. Counted(f, n, m) /\ f \in Nat /\ arrived[f] \in Nat /\ attempt \in Nat /\ 1 + attempt <= Attempts
    BY <1>1, <1>2
  <2>2. CASE f \notin S
    <3>1. arrived'[f] = arrived[f] /\ (f \in doubtful' <=> f \in doubtful)
      BY <2>1, <2>2
    <3>2. f > n => f # n + 1
      BY <1>1, <2>2
    <3>3. f > n => arrived[f] <= 1 /\ (f >= m => arrived[f] = 0)
      BY <1>1, <2>1, <3>2 DEF Counted
    <3>4. QED  BY <2>1, <3>1, <3>3 DEF Counted
  <2>3. CASE f \in S
    <3>1. arrived'[f] = arrived[f] + 1 /\ f \in doubtful'
      BY <2>3
    <3>2. f > n /\ f < m
      BY <1>1, <2>3
    <3>3. CASE pc = "albumCall"
      <4>1. arrived[f] = 0
        BY <2>1, <3>2, <3>3 DEF Counted
      <4>2. arrived'[f] = 1
        BY <3>1, <4>1
      <4>3. QED  BY <1>1, <3>1, <3>2, <3>3, <4>2 DEF Counted
    <3>4. CASE pc # "albumCall"
      <4>1. pc = "singleCall" /\ f = n + 1 /\ (pc' = "done" \/ (pc' = "single" /\ attempt' = attempt + 1))
        BY <2>3, <3>4
      <4>2. arrived[f] <= 1 + attempt
        BY <2>1, <3>2, <4>1 DEF Counted
      <4>3. arrived'[f] <= 1 + (attempt + 1) /\ arrived'[f] <= Attempts + 1
        BY <1>1, <2>1, <3>1, <4>2
      <4>4. QED  BY <1>1, <3>1, <3>2, <4>1, <4>3 DEF Counted
    <3>5. QED  BY <3>3, <3>4
  <2>4. QED  BY <2>2, <2>3
<1>5. QED  BY <1>3, <1>4 DEF Between

\* The files up to k have come and are reported.
LEMMA OkAt ==
  ASSUME TypesKept, NEW n, NEW m, Between(n, m), m > n + 1, NEW k,
         \/ pc = "albumCall" /\ k = m - 1
         \/ pc = "singleCall" /\ k = n + 1,
         \A f \in Files : arrived'[f] = arrived[f] + IF f \in n + 1..k THEN 1 ELSE 0,
         doubtful' = doubtful, UNCHANGED <<plan, result>>, notified' = 1..k, todo' = Run(k + 1, m), pc' = "next"
  PROVE  Between(k, m)'
<1>1. /\ Last \in Nat /\ Files = 1..Last /\ n \in Nat /\ m \in Nat /\ Attempts \in Nat /\ m \in n + 1..Last + 1
      /\ \A f \in Files : Counted(f, n, m)
  BY BetweenFacts DEF Between
<1>2. result # "error" /\ attempt \in 0..Attempts - 1 /\ arrived \in [Files -> Nat]
  BY DEF TypesKept
<1>3. k \in 0..Last /\ m \in k + 1..Last + 1 /\ n < k
  BY <1>1
<1>4. Follows(plan, m)
  BY <1>2 DEF Between, Reached
<1>5. Reached(k, m)'
  <2>1. result # "ok"
    BY <1>1 DEF Between, Reached
  <2>2. QED  BY <1>3, <1>4, <2>1 DEF Reached
<1>6. ASSUME NEW f \in Files PROVE Counted(f, k, m)'
  <2>1. Counted(f, n, m) /\ f \in Nat /\ arrived[f] \in Nat /\ attempt \in Nat /\ 1 + attempt <= Attempts
    BY <1>1, <1>2
  <2>2. CASE f \in n + 1..k
    <3>1. arrived'[f] = arrived[f] + 1 /\ f > n /\ f <= k
      BY <1>1, <2>2
    <3>2. arrived[f] <= 1 + attempt
      BY <2>1, <3>1 DEF Counted
    <3>3. f \notin doubtful => arrived[f] = 0
      BY <2>1, <3>1 DEF Counted
    <3>4. /\ arrived'[f] >= 1 /\ arrived'[f] <= Attempts + 1
          /\ (f \notin doubtful' => arrived'[f] = 1) /\ ~(f > k)
      BY <1>1, <1>3, <2>1, <3>1, <3>2, <3>3
    <3>5. QED  BY <3>4 DEF Counted
  <2>3. CASE f \notin n + 1..k
    <3>1. arrived'[f] = arrived[f] /\ (f <= n \/ f > k)
      BY <1>1, <1>3, <2>1, <2>3
    <3>2. CASE f <= n
      <4>1. f <= k /\ ~(f > k)
        BY <1>1, <1>3, <2>1, <3>2
      <4>2. QED  BY <2>1, <3>1, <3>2, <4>1 DEF Counted
    <3>3. CASE f > k
      <4>1. f > n /\ f # n + 1 /\ ~(f <= k)
        BY <1>1, <1>3, <2>1, <3>3
      <4>2. arrived[f] <= 1 /\ (f >= m => arrived[f] = 0) /\ (f \notin doubtful => arrived[f] = 0)
        BY <2>1, <4>1 DEF Counted
      <4>3. arrived[f] <= Attempts + 1
        BY <2>1 DEF Counted
      <4>4. QED  BY <3>1, <4>1, <4>2, <4>3 DEF Counted
    <3>4. QED  BY <3>1, <3>2, <3>3
  <2>4. QED  BY <2>2, <2>3
<1>7. QED  BY <1>5, <1>6 DEF Between

LEMMA AlbumGroup ==
  ASSUME TypesKept, NEW n, NEW m, Between(n, m), AlbumAnswer
  PROVE  GroupInv'
<1>1. PICK a \in Answers :
        /\ pc = "albumCall" /\ UploadAlbum(a)
        /\ IF a = "ok"
           THEN pc' = "next" /\ notified' = notified \cup Range(todo) /\ todo' = <<>> /\ UNCHANGED again
           ELSE AlbumFails(a) /\ UNCHANGED <<todo, notified>>
        /\ UNCHANGED <<size, ended, client, result, plan, attempt, flood, force, asDoc>>
  BY DEF AlbumAnswer
<1>2. /\ Last \in Nat /\ Files = 1..Last /\ n \in Nat /\ m \in Nat /\ m \in n + 1..Last + 1
      /\ notified = 1..n /\ Range(todo) = n + 1..m - 1
  BY BetweenFacts
<1>3. m > n + 1 /\ result # "error"
  BY <1>1 DEF Between, Reached, TypesKept
<1> DEFINE S == n + 1..m - 1
<1>4. S \subseteq Files /\ Answer(S, a)
  BY <1>1, <1>2 DEF UploadAlbum
<1>5. /\ \/ UNCHANGED <<arrived, doubtful>>
         \/ /\ \A f \in Files : arrived'[f] = arrived[f] + IF f \in S THEN 1 ELSE 0
            /\ doubtful' = IF a = "lost" THEN doubtful \cup S ELSE doubtful
      /\ a = "ok" => \A f \in Files : arrived'[f] = arrived[f] + IF f \in S THEN 1 ELSE 0
      /\ a = "ok" => doubtful' = doubtful
      /\ a \notin {"ok", "lost"} => UNCHANGED <<arrived, doubtful>>
      /\ arrived' \in [Files -> Nat] /\ doubtful' \subseteq Files
  <2> HIDE DEF S
  <2>1. QED  BY <1>4, AnswerFacts
<1>6. pc' \in {"next", "album"} /\ again' \in BOOLEAN
  BY <1>1 DEF AlbumFails, TypesKept
<1>7. TypesKept'
  BY <1>1, <1>5, <1>6 DEF TypesKept
<1>8. \E k, j : Between(k, j)'
  <2>1. CASE a = "ok"
    <3>1. pc' = "next" /\ notified' = notified \cup Range(todo) /\ todo' = <<>> /\ UNCHANGED plan
      BY <1>1, <2>1
    <3>2. notified' = 1..m - 1
      BY <1>2, <3>1
    <3>3. todo' = Run(m - 1 + 1, m)
      <4>1. m \in 1..Last + 1 /\ m \in m..Last + 1 /\ m - 1 + 1 = m
        BY <1>2
      <4>2. Run(m, m) = <<>>
        BY <4>1, RunFacts
      <4>3. QED  BY <3>1, <4>1, <4>2
    <3>4. /\ \A f \in Files : arrived'[f] = arrived[f] + IF f \in n + 1..m - 1 THEN 1 ELSE 0
          /\ doubtful' = doubtful
      BY <1>5, <2>1
    <3>5. Between(m - 1, m)'
      BY <1>1, <1>3, <3>1, <3>2, <3>3, <3>4, OkAt
    <3>6. QED  BY <3>5
  <2>2. CASE a # "ok" /\ UNCHANGED <<arrived, doubtful>>
    <3>1. UNCHANGED <<plan, todo, notified, arrived, doubtful, result>>
      BY <1>1, <2>2
    <3>2. Between(n, m)'
      BY <1>1, <1>3, <1>6, <3>1, StillBetween
    <3>3. QED  BY <3>2
  <2>3. CASE a # "ok" /\ ~UNCHANGED <<arrived, doubtful>>
    <3>1. a = "lost" /\ doubtful' = doubtful \cup S /\ \A f \in Files : arrived'[f] = arrived[f] + IF f \in S THEN 1 ELSE 0
      BY <1>5, <2>3
    <3>2. pc' = "next" /\ UNCHANGED <<plan, todo, notified>>
      BY <1>1, <2>3, <3>1 DEF AlbumFails
    <3>3. Between(n, m)'
      BY <1>1, <1>3, <3>1, <3>2, LostAt
    <3>4. QED  BY <3>3
  <2>4. QED  BY <2>1, <2>2, <2>3
<1>9. QED  BY <1>7, <1>8 DEF GroupInv

LEMMA FileGroup ==
  ASSUME TypesKept, NEW n, NEW m, Between(n, m), FileAnswer
  PROVE  GroupInv'
<1> DEFINE Sent(a) ==
      /\ a = "ok"
      /\ pc' = "next" /\ notified' = notified \cup {Head(todo)} /\ todo' = Tail(todo)
      /\ asDoc' = (asDoc \/ (force /\ Kind[Head(todo)] = "photo"))
      /\ UNCHANGED <<result, attempt, flood, force>>
    Repeated(a) ==
      /\ WaitsOut(a) \/ AsDocument(a)
      /\ pc' = "single" /\ flood' = IF flood > MaxFloods THEN flood ELSE flood + 1
      /\ force' = (force \/ AsDocument(a)) /\ asDoc' = (asDoc \/ (AsDocument(a) /\ a = "badmedia"))
      /\ UNCHANGED <<result, attempt, todo, notified>>
    Failed(a) ==
      /\ a # "ok" /\ UNCHANGED <<asDoc, todo, notified>>
      /\ IF ended \/ LastError(a)
         THEN Done(IF ended THEN "ended" ELSE "error") /\ UNCHANGED <<attempt, flood, force>>
         ELSE pc' = "single" /\ attempt' = attempt + 1 /\ BeginOnce(Head(todo)) /\ UNCHANGED result
<1>1. PICK a \in Answers :
        /\ pc = "singleCall" /\ Upload(a) /\ UNCHANGED <<size, ended, client, plan, again>>
        /\ Sent(a) \/ Repeated(a) \/ Failed(a)
  BY DEF FileAnswer
<1>2. /\ Last \in Nat /\ Files = 1..Last /\ n \in Nat /\ m \in Nat /\ m \in n + 1..Last + 1
      /\ notified = 1..n /\ Attempts \in Nat /\ Attempts > 0 /\ MaxFloods \in Nat
  BY BetweenFacts
<1>3. m > n + 1 /\ result # "error" /\ result = "" /\ attempt \in 0..Attempts - 1 /\ attempt \in Nat
  <2>1. m > n + 1
    BY <1>1 DEF Between, Reached
  <2>2. result = ""
    BY <1>1 DEF TypesKept
  <2>3. attempt \in 0..Attempts - 1
    BY DEF TypesKept
  <2>4. attempt \in Nat
    BY <1>2, <2>3
  <2>5. result # "error"
    BY <2>2
  <2>6. QED  BY <2>1, <2>2, <2>3, <2>4, <2>5
<1>4. n + 1 \in Files /\ Head(todo) = n + 1 /\ Tail(todo) = Run(n + 2, m)
  BY <1>3, BetweenFacts
<1> DEFINE S == {n + 1}
<1>5. S \subseteq Files /\ Answer(S, a)
  BY <1>1, <1>4 DEF Upload
<1>6. /\ \/ UNCHANGED <<arrived, doubtful>>
         \/ /\ \A f \in Files : arrived'[f] = arrived[f] + IF f \in S THEN 1 ELSE 0
            /\ doubtful' = IF a = "lost" THEN doubtful \cup S ELSE doubtful
      /\ a = "ok" => \A f \in Files : arrived'[f] = arrived[f] + IF f \in S THEN 1 ELSE 0
      /\ a = "ok" => doubtful' = doubtful
      /\ a \notin {"ok", "lost"} => UNCHANGED <<arrived, doubtful>>
      /\ arrived' \in [Files -> Nat] /\ doubtful' \subseteq Files
  <2> HIDE DEF S
  <2>1. QED  BY <1>5, AnswerFacts
<1>7. CASE Sent(a)
  <2>1. pc' = "next" /\ notified' = notified \cup {n + 1} /\ todo' = Run(n + 2, m) /\ UNCHANGED <<plan, result, attempt, flood, force>>
    BY <1>1, <1>4, <1>7
  <2>2. asDoc' \in BOOLEAN
    BY <1>7 DEF TypesKept
  <2>3. TypesKept'
    <3> HIDE DEF Sent, Repeated, Failed
    <3>1. QED  BY <1>1, <1>3, <1>6, <2>1, <2>2 DEF TypesKept
  <2>4. notified' = 1..n + 1 /\ n + 1 + 1 = n + 2
    BY <1>2, <2>1
  <2>5. /\ \A f \in Files : arrived'[f] = arrived[f] + IF f \in n + 1..n + 1 THEN 1 ELSE 0
        /\ doubtful' = doubtful
    <3>1. n + 1..n + 1 = S
      BY <1>2
    <3>2. QED  BY <1>6, <1>7, <3>1
  <2>6. Between(n + 1, m)'
    <3> HIDE DEF Sent, Repeated, Failed
    <3>1. QED  BY <1>1, <1>3, <2>1, <2>4, <2>5, OkAt
  <2>7. QED  BY <2>3, <2>6 DEF GroupInv
<1>8. CASE Repeated(a)
  <2>1. a \in {"flood", "bad", "badmedia"}
    BY <1>8 DEF WaitsOut, AsDocument
  <2>2. UNCHANGED <<arrived, doubtful>>
    BY <1>6, <2>1
  <2>3. /\ pc' = "single" /\ UNCHANGED <<result, attempt, todo, notified, plan>>
        /\ force' \in BOOLEAN /\ asDoc' \in BOOLEAN
    BY <1>1, <1>8 DEF TypesKept
  <2>4. flood' \in 0..MaxFloods + 1
    <3>1. flood \in 0..MaxFloods + 1 /\ flood' = IF flood > MaxFloods THEN flood ELSE flood + 1
      BY <1>8 DEF TypesKept
    <3>2. QED  BY <1>2, <3>1
  <2>5. TypesKept'
    <3> HIDE DEF Sent, Repeated, Failed
    <3>1. QED  BY <1>1, <1>3, <1>6, <2>3, <2>4 DEF TypesKept
  <2>6. Between(n, m)'
    <3> HIDE DEF Sent, Repeated, Failed
    <3>1. QED  BY <1>1, <1>3, <2>2, <2>3, StillBetween
  <2>7. QED  BY <2>5, <2>6 DEF GroupInv
<1>9. CASE Failed(a)
  <2>1. a # "ok" /\ UNCHANGED <<asDoc, todo, notified, plan>>
    BY <1>1, <1>9
  <2>2. \/ Done(IF ended THEN "ended" ELSE "error") /\ UNCHANGED <<attempt, flood, force>>
        \/ ~LastError(a) /\ pc' = "single" /\ attempt' = attempt + 1 /\ BeginOnce(Head(todo)) /\ UNCHANGED result
    BY <1>9
  <2>3. (pc' = "done" /\ result' \in {"ended", "error"}) \/ (pc' = "single" /\ attempt' = attempt + 1 /\ UNCHANGED result)
    BY <2>2 DEF Done
  <2>4. TypesKept'
    <3> HIDE DEF Sent, Repeated, Failed
    <3>1. CASE Done(IF ended THEN "ended" ELSE "error") /\ UNCHANGED <<attempt, flood, force>>
      <4>1. pc' = "done" /\ result' \in {"ended", "error"} /\ UNCHANGED <<attempt, flood, force>>
        BY <3>1 DEF Done
      <4>2. QED  BY <1>1, <1>6, <2>1, <4>1 DEF TypesKept
    <3>2. CASE ~LastError(a) /\ pc' = "single" /\ attempt' = attempt + 1 /\ BeginOnce(Head(todo)) /\ UNCHANGED result
      <4>1. attempt' \in 0..Attempts - 1
        <5>1. attempt + 1 # Attempts /\ attempt' = attempt + 1 /\ attempt \in 0..Attempts - 1
          BY <1>3, <3>2 DEF LastError
        <5>2. QED  BY <1>2, <5>1
      <4>2. flood' \in 0..MaxFloods + 1 /\ force' \in BOOLEAN
        BY <1>2, <3>2, BeginTypes
      <4>3. QED  BY <1>1, <1>3, <1>6, <2>1, <3>2, <4>1, <4>2 DEF TypesKept
    <3>3. QED  BY <2>2, <3>1, <3>2
  <2>5. Between(n, m)'
    <3> HIDE DEF Sent, Repeated, Failed
    <3>1. CASE UNCHANGED <<arrived, doubtful>>
      BY <1>1, <1>3, <2>1, <2>3, <3>1, StillBetween
    <3>2. CASE ~UNCHANGED <<arrived, doubtful>>
      <4>1. a = "lost" /\ doubtful' = doubtful \cup S /\ \A f \in Files : arrived'[f] = arrived[f] + IF f \in S THEN 1 ELSE 0
        BY <1>6, <2>1, <3>2
      <4>2. QED  BY <1>1, <1>3, <2>1, <2>3, <4>1, LostAt
    <3>3. QED  BY <3>1, <3>2
  <2>6. QED  BY <2>4, <2>5 DEF GroupInv
<1>10. QED  BY <1>1, <1>7, <1>8, <1>9

LEMMA NextGroup == GroupInv /\ [UploadsNext]_uploadVars => GroupInv'
<1> SUFFICES ASSUME GroupInv, [UploadsNext]_uploadVars PROVE GroupInv'
  OBVIOUS
<1>1. TypesKept
  BY DEF GroupInv
<1>2. PICK n, m : Between(n, m)
  BY DEF GroupInv
<1>3. CASE Plan \/ NextPart
  BY <1>1, <1>2, <1>3, PlanGroup, NextPartGroup
<1>4. CASE NextFile \/ Call \/ GiveUp \/ Connect \/ EndContext
  BY <1>1, <1>2, <1>4, AsideGroup
<1>5. CASE AlbumAnswer
  BY <1>1, <1>2, <1>5, AlbumGroup
<1>6. CASE FileAnswer
  BY <1>1, <1>2, <1>6, FileGroup
<1>7. CASE UNCHANGED uploadVars
  <2>1. UNCHANGED <<size, ended, client, pc, result, plan, again, todo, attempt, flood, force, asDoc, notified, arrived, doubtful>>
    BY <1>7 DEF uploadVars, fileVars
  <2>2. TypesKept'
    BY <1>1, <2>1 DEF TypesKept
  <2>3. Reached(n, m)'
    BY <1>2, <2>1 DEF Between, Reached
  <2>4. \A f \in Files : Counted(f, n, m)'
    BY <1>2, <2>1 DEF Between, Counted
  <2>5. QED  BY <2>2, <2>3, <2>4 DEF GroupInv, Between
<1>8. QED  BY <1>3, <1>4, <1>5, <1>6, <1>7 DEF UploadsNext, Step

LEMMA GroupSent == GroupInv => SentOnceBeforeReported
<1> SUFFICES ASSUME GroupInv PROVE SentOnceBeforeReported
  OBVIOUS
<1>1. TypesKept
  BY DEF GroupInv
<1>2. PICK n, m : Between(n, m)
  BY DEF GroupInv
<1>3. /\ Last \in Nat /\ Files = 1..Last /\ n \in 0..Last /\ n \in Nat /\ m \in Nat /\ m \in n + 1..Last + 1
      /\ notified = 1..n /\ todo = Run(n + 1, m) /\ Attempts \in Nat /\ n + 1 \in 1..Last + 1
  BY <1>2, BetweenFacts
<1>4. \A f \in Files : Counted(f, n, m)
  BY <1>2 DEF Between
<1>5. UploadsType
  <2>1. todo \in Seq(Files) /\ notified \subseteq Files
    BY <1>3, RunFacts
  <2>2. arrived \in [Files -> 0..Attempts + 2]
    <3>1. ASSUME NEW f \in Files PROVE arrived[f] \in 0..Attempts + 2
      <4>1. arrived[f] \in Nat /\ arrived[f] <= Attempts + 1
        BY <1>1, <1>4 DEF TypesKept, Counted
      <4>2. QED  BY <1>3, <4>1
    <3>2. QED  BY <1>1, <3>1 DEF TypesKept
  <2>3. QED  BY <1>1, <2>1, <2>2 DEF TypesKept, UploadsType
<1>6. \A f \in notified : arrived[f] > 0 /\ \A g \in 1..f : g \in notified
  <2>1. ASSUME NEW f \in notified PROVE arrived[f] > 0
    <3>1. f \in Files /\ f <= n
      BY <1>3
    <3>2. arrived[f] \in Nat /\ arrived[f] >= 1
      BY <1>1, <1>4, <3>1 DEF TypesKept, Counted
    <3>3. QED  BY <3>2
  <2>2. QED  BY <1>3, <2>1
<1>7. result = "ok" => notified = Files
  <2>1. SUFFICES ASSUME result = "ok" PROVE n = Last
    BY <1>3
  <2>2. QED  BY <1>2, <2>1 DEF Between, Reached
<1>8. \A f \in Files : arrived[f] > 1 => f \in doubtful
  <2>1. SUFFICES ASSUME NEW f \in Files, arrived[f] > 1, f \notin doubtful PROVE FALSE
    OBVIOUS
  <2>2. Counted(f, n, m) /\ f \in Nat
    BY <1>3, <1>4
  <2>3. arrived[f] = 0 \/ arrived[f] = 1
    BY <1>3, <2>1, <2>2 DEF Counted
  <2>4. QED  BY <2>1, <2>3
<1>9. QED  BY <1>5, <1>6, <1>7, <1>8 DEF SentOnceBeforeReported

\* For any group and sizes, limits, attempts and answers: files are reported in order
\* and only when they have come, an upload that ends well has reported them all, and a
\* file comes twice only when a connection broke with it on its way
\* (tgupload.go:139-163 and 359-457).
THEOREM SentInOrder == UploadsSpec => []SentOnceBeforeReported
BY InitGroup, NextGroup, GroupSent, PTL DEF UploadsSpec

LEMMA GroupPlanned == GroupInv => PlanIsBest
<1> DEFINE parts == PlanAlbumBatches
           first(k) == IF k > Len(parts) THEN Len(Kind) + 1 ELSE Head(parts[k])
           S == {first(k) : k \in 1..Len(parts)}
<1>1. SUFFICES ASSUME GroupInv, pc = "plan", Gone \notin Range(size)
               PROVE  /\ first(1) = 1 /\ \A k \in 1..Len(parts) : parts[k] = Run(first(k), first(k + 1))
                      /\ S \in Splits /\ \A T \in Splits : Len(parts) <= Cardinality(T)
  BY DEF PlanIsBest
<1>2. \A f \in Files : size[f] \in Nat
  <2>1. size \in [Files -> Sizes] /\ Sizes \subseteq Nat \cup {Gone}
    BY <1>1, UploadsAssumption DEF GroupInv, TypesKept
  <2>2. ASSUME NEW f \in Files PROVE size[f] \in Nat
    <3>1. size[f] \in Sizes /\ size[f] \in Range(size)
      BY <2>1 DEF Range
    <3>2. size[f] # Gone
      BY <1>1, <3>1
    <3>3. QED  BY <2>1, <3>1, <3>2
  <2>3. QED  BY <2>2
<1>3. parts \in Seq(Seq(Files)) /\ Len(parts) \in Nat
  BY PlanPlanned, LenProperties DEF Planned
<1>4. PICK c : Cuts(parts, 1, c) /\ \A k \in 1..Len(parts) : c[k + 1] = After(c[k])
  BY PlanPlanned DEF Planned
<1> HIDE DEF parts
<1>5. Last \in Nat /\ Files = 1..Last
  BY UploadConstants
<1>6. /\ c \in [1..Len(parts) + 1 -> 1..Last + 1] /\ c[1] = 1 /\ c[Len(parts) + 1] = Last + 1
      /\ \A k \in 1..Len(parts) : c[k] < c[k + 1] /\ parts[k] = Run(c[k], c[k + 1])
  BY <1>4 DEF Cuts
<1>7. ASSUME NEW k \in 1..Len(parts) + 1 PROVE first(k) = c[k]
  <2>1. CASE k = Len(parts) + 1
    BY <1>3, <1>6, <2>1 DEF Last
  <2>2. CASE k # Len(parts) + 1
    <3>1. k \in 1..Len(parts) /\ ~(k > Len(parts)) /\ k + 1 \in 1..Len(parts) + 1
      BY <1>3, <2>2
    <3>2. c[k] \in 1..Last + 1 /\ c[k + 1] \in 1..Last + 1 /\ c[k] < c[k + 1]
      BY <1>6, <3>1
    <3>3. c[k] \in 1..Last /\ c[k + 1] \in c[k]..Last + 1
      BY <1>5, <3>2
    <3>4. Head(Run(c[k], c[k + 1])) = c[k]
      BY <1>5, <3>2, <3>3, RunFacts
    <3>5. QED  BY <1>6, <3>1, <3>4
  <2>3. QED  BY <2>1, <2>2
<1> HIDE DEF first
<1>8. \A k \in 1..Len(parts) : k \in 1..Len(parts) + 1 /\ k + 1 \in 1..Len(parts) + 1
  BY <1>3
<1>9. first(1) = 1
  <2>1. 1 \in 1..Len(parts) + 1
    BY <1>3
  <2>2. QED  BY <1>6, <1>7, <2>1
<1>10. \A k \in 1..Len(parts) : parts[k] = Run(first(k), first(k + 1))
  BY <1>6, <1>7, <1>8
<1>11. S \in Splits
  <2>1. S = {c[k] : k \in 1..Len(parts)}
    BY <1>7, <1>8
  <2>2. {c[k] : k \in 1..Len(parts)} \in Splits
    BY <1>2, <1>3, <1>4, PlanIsSplit
  <2>3. QED  BY <2>1, <2>2
<1>12. \A T \in Splits : Len(parts) <= Cardinality(T)
  BY <1>2, <1>3, <1>4, PlanIsShortest
<1>13. QED  BY <1>9, <1>10, <1>11, <1>12

\* PlanAlbumBatches sends every file once and in order, no album is over its limits, and
\* no other split of the group needs fewer messages (tgupload.go:297-335).
THEOREM PlansAreBest == UploadsSpec => []PlanIsBest
BY InitGroup, NextGroup, GroupPlanned, PTL DEF UploadsSpec
=============================================================================
