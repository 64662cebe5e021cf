----------------------------- MODULE Aria2Proofs -----------------------------
(***************************************************************************)
(* Proofs about Aria2 for any downloads, daemons, crashes and places: a    *)
(* download that reports success has its files, and no daemon works on     *)
(* more transfers than it may.                                             *)
(***************************************************************************)
EXTENDS Aria2, FiniteSetTheorems, TLAPS

ActiveOf(d) == {g \in Gids : transfer[d][g] \in Working}

States == {"none", "waiting"} \cup Working \cup Finished

Shapes ==
  /\ daemon \in [Daemons -> {"none", "starting", "up", "dead"}]
  /\ transfer \in [Daemons -> [Gids -> States]]
  /\ current \in 0..MaxDaemons /\ stopped \in BOOLEAN /\ crashes \in 0..MaxCrashes
  /\ pc \in [Actors -> {"off", "spawn", "wait", "add", "poll", "done"}]
  /\ mine \in [Actors -> 0..MaxDaemons] /\ gid \in [Jobs -> {1, 2}]
  /\ killer \in [Jobs -> {"none", "armed", "parked", "over"}] /\ ended \in [Jobs -> BOOLEAN]
  /\ result \in [Jobs -> {"", "ok", "failed", "dead", "cancelled"}]
  /\ got \subseteq Gids
  /\ \A j \in Jobs : gid[j] = 2 => Parts[j] > 0

\* A daemon keeps to its places.
Places == \A d \in Daemons : IsFiniteSet(ActiveOf(d)) /\ Cardinality(ActiveOf(d)) <= MaxActive

\* A download has a result when it has returned.
Returned == \A j \in Jobs : pc[j] = "done" <=> result[j] # ""

\* What the daemon reports as complete is a file that is got, or it only names files.
CompleteIsGot == \A d \in Daemons, g \in Gids :
  transfer[d][g] = "complete" => g \in got \/ g \notin Contents(g[1])

Whole(j) ==
  /\ \E g \in Contents(j) : g \in got
  /\ Parts[j] <= 1 => Contents(j) \subseteq got

Ok == \A j \in Jobs : result[j] = "ok" => Whole(j)

AriaInv == Shapes /\ Places /\ Returned /\ CompleteIsGot /\ Ok

-----------------------------------------------------------------------------
LEMMA Constants ==
  /\ Jobs \subseteq Actors /\ MaxDaemons \in Nat /\ MaxActive \in Nat \ {0} /\ MaxCrashes \in Nat
  /\ \A j \in Jobs : j \notin Boots /\ Parts[j] \in Nat /\ <<j, 1>> \in Gids /\ (Parts[j] > 0 => <<j, 2>> \in Gids)
  /\ \A g \in Gids : g[1] \in Jobs /\ g[2] \in 1..Parts[g[1]] + 1 /\ g = <<g[1], g[2]>>
<1>1. \A j \in Jobs : Parts[j] \in Nat
  BY Aria2Assumption
<1>2. ASSUME NEW j \in Jobs PROVE <<j, 1>> \in Gids /\ (Parts[j] > 0 => <<j, 2>> \in Gids)
  <2>1. 1 \in 1..Parts[j] + 1 /\ (Parts[j] > 0 => 2 \in 1..Parts[j] + 1)
    BY <1>1
  <2>2. QED  BY <2>1 DEF Gids
<1>3. ASSUME NEW g \in Gids PROVE g[1] \in Jobs /\ g[2] \in 1..Parts[g[1]] + 1 /\ g = <<g[1], g[2]>>
  <2>1. PICK j \in Jobs : g \in {j} \X (1..Parts[j] + 1)
    BY DEF Gids
  <2>2. QED  BY <2>1
<1>4. QED  BY <1>1, <1>2, <1>3, Aria2Assumption DEF Actors

LEMMA CurrentIsDaemon ==
  ASSUME Shapes, Running
  PROVE  current \in Daemons
<1>1. current \in 0..MaxDaemons /\ current # 0
  BY DEF Shapes, Running
<1>2. MaxDaemons \in Nat
  BY Constants
<1>3. QED  BY <1>1, <1>2 DEF Daemons

\* The GID that a handle holds is one of its download.
LEMMA HeldGid ==
  ASSUME Shapes, NEW j \in Jobs
  PROVE  <<j, gid[j]>> \in Gids
<1>1. gid[j] \in {1, 2} /\ (gid[j] = 2 => Parts[j] > 0)
  BY DEF Shapes
<1>2. QED  BY <1>1, Constants

\* What a download returns OK for: the file of its GID, the only one if it names one.
LEMMA HeldContent ==
  ASSUME Shapes, CompleteIsGot, NEW j \in Jobs, Asked(j), Told(j) = "complete", ~Names(j)
  PROVE  Whole(j)
<1> DEFINE g == <<j, gid[j]>>
<1>1. g \in Gids /\ current \in Daemons /\ gid[j] \in {1, 2} /\ (gid[j] = 2 => Parts[j] > 0) /\ Parts[j] \in Nat
  BY HeldGid, CurrentIsDaemon, Constants DEF Asked, Reached, Shapes
<1>2. gid[j] = 1 => Parts[j] = 0
  BY <1>1 DEF Names
<1>3. g \in Contents(j)
  BY <1>1, <1>2 DEF Contents
<1>4. g \in got
  BY <1>1, <1>3 DEF Told, CompleteIsGot
<1>5. ASSUME Parts[j] <= 1, NEW h \in Contents(j) PROVE h = g
  <2>1. h \in Gids /\ h[1] = j /\ (Parts[j] > 0 => h[2] > 1)
    BY <1>5 DEF Contents
  <2>2. h = <<h[1], h[2]>> /\ h[2] \in 1..Parts[j] + 1
    BY <2>1, Constants
  <2>3. h[2] = gid[j]
    BY <1>1, <1>2, <1>5, <2>1, <2>2
  <2>4. QED  BY <2>1, <2>2, <2>3
<1>6. QED  BY <1>3, <1>4, <1>5 DEF Whole

LEMMA InitAria == Init => AriaInv
<1> SUFFICES ASSUME Init PROVE AriaInv
  OBVIOUS
<1>1. Shapes
  <2>1. NoTransfers \in [Gids -> States]
    BY DEF NoTransfers, States
  <2>2. 0 \in 0..MaxDaemons /\ 0 \in 0..MaxCrashes
    BY Constants
  <2>3. transfer \in [Daemons -> [Gids -> States]]
    BY <2>1 DEF Init
  <2>4. daemon \in [Daemons -> {"none", "starting", "up", "dead"}] /\ mine \in [Actors -> 0..MaxDaemons]
    BY <2>2 DEF Init
  <2>5. \A j \in Jobs : gid[j] = 1
    BY DEF Init
  <2>6. \A j \in Jobs : gid[j] = 2 => Parts[j] > 0
    BY <2>5
  <2>7. QED  BY <2>2, <2>3, <2>4, <2>6 DEF Init, Shapes
<1>2. \A d \in Daemons : ActiveOf(d) = {}
  BY DEF Init, NoTransfers, ActiveOf, Working
<1>3. Places
  BY <1>2, FS_EmptySet, Constants DEF Places
<1>4. QED  BY <1>1, <1>3, Constants DEF Init, AriaInv, Returned, CompleteIsGot, Ok, NoTransfers

\* Steps that make no transfer active keep the daemons to their places.
LEMMA PlacesKept ==
  ASSUME Places, \A d \in Daemons, g \in Gids : transfer'[d][g] \in Working => transfer[d][g] \in Working
  PROVE  Places'
<1> SUFFICES ASSUME NEW d \in Daemons
             PROVE  IsFiniteSet(ActiveOf(d)') /\ Cardinality(ActiveOf(d)') <= MaxActive
  BY DEF Places
<1>1. ActiveOf(d)' \subseteq ActiveOf(d) /\ IsFiniteSet(ActiveOf(d)) /\ Cardinality(ActiveOf(d)) <= MaxActive
  BY DEF ActiveOf, Places
<1>2. IsFiniteSet(ActiveOf(d)') /\ Cardinality(ActiveOf(d)') <= Cardinality(ActiveOf(d))
  BY <1>1, FS_Subset
<1>3. QED  BY <1>1, <1>2, FS_CardinalityType, Constants

\* Calls of the bot change the state of one transfer, to one that is not active and
\* not complete.
LEMMA CallFacts ==
  ASSUME Shapes, NEW d \in Daemons, NEW g \in Gids, NEW after,
         \/ after = Forgotten(d, g)
         \/ after = Removed(d, g)
         \/ after = [transfer EXCEPT ![d][g] = "waiting"]
  PROVE  /\ after \in [Daemons -> [Gids -> States]]
         /\ \A e \in Daemons, h \in Gids :
              after[e][h] = transfer[e][h] \/ after[e][h] \in {"none", "failed", "waiting"}
<1>1. PICK s \in States :
        /\ after = [transfer EXCEPT ![d] = [transfer[d] EXCEPT ![g] = s]]
        /\ s = transfer[d][g] \/ s \in {"none", "failed", "waiting"}
  <2>0. transfer \in [Daemons -> [Gids -> States]]
    BY DEF Shapes
  <2>1. transfer[d][g] \in States /\ "none" \in States /\ "failed" \in States /\ "waiting" \in States
    <3>1. transfer[d][g] \in States
      BY <2>0
    <3>2. QED  BY <3>1 DEF States, Finished
  <2>2. CASE after = Forgotten(d, g)
    BY <2>1, <2>2 DEF Forgotten
  <2>3. CASE after = Removed(d, g)
    BY <2>1, <2>3 DEF Removed
  <2>4. CASE after = [transfer EXCEPT ![d][g] = "waiting"]
    BY <2>1, <2>4
  <2>5. QED  BY <2>2, <2>3, <2>4
<1>2. transfer \in [Daemons -> [Gids -> States]]
  BY DEF Shapes
<1>3. QED  BY <1>1, <1>2

LEMMA QuietFacts ==
  ASSUME AriaInv, transfer' \in [Daemons -> [Gids -> States]], got' = got,
         \A d \in Daemons, g \in Gids :
           \/ transfer'[d][g] = transfer[d][g] \/ transfer'[d][g] \in {"none", "failed", "waiting"}
           \/ transfer'[d][g] \in Working /\ transfer[d][g] \in Working
  PROVE  Places' /\ CompleteIsGot'
<1>1. Places'
  BY PlacesKept DEF AriaInv, Working
<1>2. CompleteIsGot'
  BY DEF AriaInv, CompleteIsGot, Working
<1>3. QED  BY <1>1, <1>2

LEMMA UnchangedTransfers ==
  ASSUME AriaInv, transfer' = transfer, got' = got
  PROVE  transfer' \in [Daemons -> [Gids -> States]] /\ Places' /\ CompleteIsGot'
<1>1. transfer' \in [Daemons -> [Gids -> States]]
  BY DEF AriaInv, Shapes
<1>2. QED  BY <1>1, QuietFacts

-----------------------------------------------------------------------------
(* The steps *)

\* The rest of a step that leaves the transfers and the history alone.
LEMMA Rest ==
  ASSUME AriaInv, Shapes', Returned', transfer' = transfer, got' = got,
         \A j \in Jobs : result'[j] = "ok" => result[j] = "ok"
  PROVE  AriaInv'
<1>1. Places' /\ CompleteIsGot'
  BY UnchangedTransfers
<1>2. Ok'
  BY DEF AriaInv, Ok, Whole
<1>3. QED  BY <1>1, <1>2 DEF AriaInv

\* Going to a place and returning keep the results with those that have returned.
LEMMA Moves ==
  ASSUME Shapes, Returned, NEW a \in Actors
  PROVE  /\ \A there \in {"off", "spawn", "wait", "add", "poll"} :
              (a \in Jobs => pc[a] # "done") /\ Goto(a, there) /\ result' = result
              => /\ pc' \in [Actors -> {"off", "spawn", "wait", "add", "poll", "done"}]
                 /\ Returned'
         /\ a \in Boots /\ Goto(a, "done") /\ result' = result
              => /\ pc' \in [Actors -> {"off", "spawn", "wait", "add", "poll", "done"}]
                 /\ Returned'
         /\ \A r \in {"ok", "failed", "dead", "cancelled"} : a \in Jobs /\ Return(a, r)
              => /\ pc' \in [Actors -> {"off", "spawn", "wait", "add", "poll", "done"}]
                 /\ result' \in [Jobs -> {"", "ok", "failed", "dead", "cancelled"}]
                 /\ Returned'
                 /\ \A j \in Jobs : result'[j] = "ok" => result[j] = "ok" \/ (j = a /\ r = "ok")
<1>1. pc \in [Actors -> {"off", "spawn", "wait", "add", "poll", "done"}] /\ Jobs \subseteq Actors
      /\ result \in [Jobs -> {"", "ok", "failed", "dead", "cancelled"}]
      /\ \A j \in Jobs : pc[j] = "done" <=> result[j] # ""
  BY Constants DEF Shapes, Returned
<1>2. ASSUME NEW there \in {"off", "spawn", "wait", "add", "poll"},
             a \in Jobs => pc[a] # "done", Goto(a, there), result' = result
      PROVE  pc' \in [Actors -> {"off", "spawn", "wait", "add", "poll", "done"}] /\ Returned'
  BY <1>1, <1>2 DEF Goto, Returned
<1>3. ASSUME a \in Boots, Goto(a, "done"), result' = result
      PROVE  pc' \in [Actors -> {"off", "spawn", "wait", "add", "poll", "done"}] /\ Returned'
  BY <1>1, <1>3, Constants DEF Goto, Returned
<1>4. ASSUME NEW r \in {"ok", "failed", "dead", "cancelled"}, a \in Jobs, Return(a, r)
      PROVE  /\ pc' \in [Actors -> {"off", "spawn", "wait", "add", "poll", "done"}]
             /\ result' \in [Jobs -> {"", "ok", "failed", "dead", "cancelled"}]
             /\ Returned'
             /\ \A j \in Jobs : result'[j] = "ok" => result[j] = "ok" \/ (j = a /\ r = "ok")
  BY <1>1, <1>4 DEF Goto, Return, Returned
<1>5. QED  BY <1>2, <1>3, <1>4

\* Start finds a process, or starts one and waits for it.
LEMMA StartKeeps ==
  ASSUME AriaInv, NEW a \in Actors, Start(a)
  PROVE  AriaInv'
<1> USE DEF AriaInv
<1>0. a \in Jobs \/ a \in Boots
  BY DEF Actors
<1>1. CASE StartLooks(a)
  <2>1. pc' \in [Actors -> {"off", "spawn", "wait", "add", "poll", "done"}] /\ Returned'
    <3>1. CASE a \in Boots /\ Running
      BY <1>1, <3>1, Moves DEF StartLooks
    <3>2. CASE ~(a \in Boots /\ Running)
      <4>1. PICK there \in {"spawn", "add"} : Goto(a, there)
        BY <1>1, <3>2 DEF StartLooks
      <4>2. pc[a] # "done" /\ result' = result
        BY <1>1 DEF StartLooks
      <4>3. QED  BY <4>1, <4>2, Moves
    <3>3. QED  BY <3>1, <3>2
  <2>2. Shapes'
    BY <1>1, <2>1 DEF StartLooks, Shapes, daemonVars
  <2>3. QED  BY <1>1, <2>1, <2>2, Rest DEF StartLooks, daemonVars
<1>2. CASE Spawn(a)
  <2>1. PICK d \in Daemons :
          /\ pc[a] = "spawn" /\ daemon' = [daemon EXCEPT ![d] = "starting"]
          /\ current' = d /\ stopped' = FALSE
          /\ mine' = [mine EXCEPT ![a] = d]
          /\ Goto(a, "wait")
          /\ UNCHANGED <<transfer, crashes, gid, killer, ended, result, got>>
    BY <1>2 DEF Spawn
  <2>2. pc' \in [Actors -> {"off", "spawn", "wait", "add", "poll", "done"}] /\ Returned'
    BY <2>1, Moves
  <2>3. d \in 0..MaxDaemons
    BY Constants DEF Daemons
  <2>4. Shapes'
    BY <2>1, <2>2, <2>3 DEF Shapes
  <2>5. QED  BY <2>1, <2>2, <2>4, Rest
<1>3. ASSUME NEW ok \in BOOLEAN, StartEnds(a, ok), pc[a] \in {"spawn", "wait"},
             UNCHANGED <<daemonVars, current, stopped, gid, killer, ended, got>>
      PROVE  AriaInv'
  <2>1. mine' = [mine EXCEPT ![a] = 0] /\ 0 \in 0..MaxDaemons
    BY <1>3, Constants DEF StartEnds
  <2>2. mine' \in [Actors -> 0..MaxDaemons]
    BY <2>1 DEF Shapes
  <2>3. CASE a \in Boots
    <3>1. Goto(a, "done") /\ result' = result
      BY <1>3, <2>3 DEF StartEnds
    <3>2. pc' \in [Actors -> {"off", "spawn", "wait", "add", "poll", "done"}] /\ Returned'
      BY <2>3, <3>1, Moves
    <3>3. Shapes'
      BY <1>3, <2>2, <3>1, <3>2 DEF Shapes, daemonVars
    <3>4. QED  BY <1>3, <3>1, <3>2, <3>3, Rest DEF daemonVars
  <2>4. CASE a \in Jobs /\ ok
    <3>1. Goto(a, "add") /\ result' = result
      BY <1>3, <2>4, Constants DEF StartEnds
    <3>2. pc' \in [Actors -> {"off", "spawn", "wait", "add", "poll", "done"}] /\ Returned'
      BY <1>3, <3>1, Moves
    <3>3. Shapes'
      BY <1>3, <2>2, <3>1, <3>2 DEF Shapes, daemonVars
    <3>4. QED  BY <1>3, <3>1, <3>2, <3>3, Rest DEF daemonVars
  <2>5. CASE a \in Jobs /\ ~ok
    <3>1. Return(a, "failed")
      BY <1>3, <2>5, Constants DEF StartEnds
    <3>2. /\ pc' \in [Actors -> {"off", "spawn", "wait", "add", "poll", "done"}] /\ Returned'
          /\ result' \in [Jobs -> {"", "ok", "failed", "dead", "cancelled"}]
          /\ \A j \in Jobs : result'[j] = "ok" => result[j] = "ok"
      BY <2>5, <3>1, Moves
    <3>3. Shapes'
      BY <1>3, <2>2, <3>2 DEF Shapes, daemonVars
    <3>4. QED  BY <1>3, <3>2, <3>3, Rest DEF daemonVars
  <2>6. QED  BY <1>0, <1>3, <2>3, <2>4, <2>5
<1>4. CASE SpawnFails(a)
  BY <1>3, <1>4 DEF SpawnFails
<1>5. CASE Ready(a)
  <2>1. \E ok \in BOOLEAN : StartEnds(a, ok)
    BY <1>5 DEF Ready
  <2>2. QED  BY <1>3, <1>5, <2>1 DEF Ready
<1>6. QED  BY <1>1, <1>2, <1>4, <1>5 DEF Start

\* A call that may change a transfer and makes a download return.
LEMMA ReturnKeeps ==
  ASSUME AriaInv, NEW j \in Jobs, NEW r \in {"ok", "failed", "dead", "cancelled"}, Return(j, r),
         r = "ok" => Whole(j),
         UNCHANGED <<daemon, crashes, current, stopped, mine, gid, ended, got>>,
         killer' \in [Jobs -> {"none", "armed", "parked", "over"}],
         \/ transfer' = transfer
         \/ \E d \in Daemons, g \in Gids :
              \/ transfer' = Forgotten(d, g)
              \/ transfer' = Removed(d, g)
              \/ transfer' = [transfer EXCEPT ![d][g] = "waiting"]
  PROVE  AriaInv'
<1> USE DEF AriaInv
<1>1. /\ pc' \in [Actors -> {"off", "spawn", "wait", "add", "poll", "done"}] /\ Returned'
      /\ result' \in [Jobs -> {"", "ok", "failed", "dead", "cancelled"}]
      /\ \A i \in Jobs : result'[i] = "ok" => result[i] = "ok" \/ (i = j /\ r = "ok")
  <2>1. j \in Actors
    BY Constants
  <2>2. QED  BY <2>1, Moves
<1>2. transfer' \in [Daemons -> [Gids -> States]] /\ Places' /\ CompleteIsGot'
  <2>1. CASE transfer' = transfer
    BY <2>1, UnchangedTransfers
  <2>2. CASE transfer' # transfer
    <3>1. PICK d \in Daemons, g \in Gids :
            \/ transfer' = Forgotten(d, g)
            \/ transfer' = Removed(d, g)
            \/ transfer' = [transfer EXCEPT ![d][g] = "waiting"]
      BY <2>2
    <3>2. /\ transfer' \in [Daemons -> [Gids -> States]]
          /\ \A e \in Daemons, h \in Gids :
               transfer'[e][h] = transfer[e][h] \/ transfer'[e][h] \in {"none", "failed", "waiting"}
      <4>1. ASSUME NEW after, after = transfer',
                   \/ after = Forgotten(d, g)
                   \/ after = Removed(d, g)
                   \/ after = [transfer EXCEPT ![d][g] = "waiting"]
            PROVE  /\ after \in [Daemons -> [Gids -> States]]
                   /\ \A e \in Daemons, h \in Gids :
                        after[e][h] = transfer[e][h] \/ after[e][h] \in {"none", "failed", "waiting"}
        BY <4>1, CallFacts
      <4>2. QED  BY <3>1, <4>1
    <3>3. QED  BY <3>2, QuietFacts
  <2>3. QED  BY <2>1, <2>2
<1>3. Shapes'
  BY <1>1, <1>2 DEF Shapes
<1>4. Ok'
  BY <1>1 DEF Ok, Whole
<1>5. QED  BY <1>1, <1>2, <1>3, <1>4

\* A call that changes a transfer and lets everyone go on.
LEMMA CallKeeps ==
  ASSUME AriaInv, Shapes', Returned', NEW d \in Daemons, NEW g \in Gids,
         UNCHANGED <<result, got>>,
         \/ transfer' = Forgotten(d, g)
         \/ transfer' = Removed(d, g)
         \/ transfer' = [transfer EXCEPT ![d][g] = "waiting"]
  PROVE  AriaInv'
<1> USE DEF AriaInv
<1>1. /\ transfer' \in [Daemons -> [Gids -> States]]
      /\ \A e \in Daemons, h \in Gids :
           transfer'[e][h] = transfer[e][h] \/ transfer'[e][h] \in {"none", "failed", "waiting"}
  BY CallFacts
<1>2. Places' /\ CompleteIsGot'
  BY <1>1, QuietFacts
<1>3. Ok'
  BY DEF Ok, Whole
<1>4. QED  BY <1>2, <1>3

LEMMA AddKeeps ==
  ASSUME AriaInv, NEW j \in Jobs, Add(j)
  PROVE  AriaInv'
<1> USE DEF AriaInv
<1>1. CASE Return(j, "failed") /\ UNCHANGED <<transfer, killer>>
  BY <1>1, ReturnKeeps DEF Add, Shapes
<1>2. CASE /\ Running
           /\ transfer' = [transfer EXCEPT ![current][<<j, 1>>] = "waiting"]
           /\ Return(j, "failed") /\ UNCHANGED killer
  <2>1. current \in Daemons /\ <<j, 1>> \in Gids
    BY <1>2, CurrentIsDaemon, Constants
  <2>2. QED  BY <1>2, <2>1, ReturnKeeps DEF Add, Shapes
<1>3. CASE /\ Running
           /\ transfer' = [transfer EXCEPT ![current][<<j, 1>>] = "waiting"]
           /\ Goto(j, "poll") /\ killer' = [killer EXCEPT ![j] = "armed"] /\ UNCHANGED result
  <2>1. current \in Daemons /\ <<j, 1>> \in Gids
    BY <1>3, CurrentIsDaemon, Constants
  <2>2. pc[j] # "done"
    BY DEF Add
  <2>3. pc' \in [Actors -> {"off", "spawn", "wait", "add", "poll", "done"}] /\ Returned'
    BY <1>3, <2>2, Moves, Constants
  <2>4. transfer' \in [Daemons -> [Gids -> States]]
    BY <1>3, <2>1, CallFacts
  <2>5. Shapes'
    BY <1>3, <2>3, <2>4 DEF Add, Shapes
  <2>6. QED  BY <1>3, <2>1, <2>3, <2>5, CallKeeps DEF Add
<1>4. QED  BY <1>1, <1>2, <1>3 DEF Add

\* Download returns OK only for files that are complete.
LEMMA LeaveKeeps ==
  ASSUME AriaInv, NEW j \in Jobs, NEW r \in {"ok", "failed", "dead", "cancelled"}, Leave(j, r),
         r = "ok" => Whole(j)
  PROVE  AriaInv'
<1> USE DEF AriaInv
<1>1. CASE Reached
  <2>1. current \in Daemons
    BY <1>1, CurrentIsDaemon DEF Reached
  <2>2. <<j, gid[j]>> \in Gids
    BY HeldGid
  <2>3. transfer' = Forgotten(current, <<j, gid[j]>>)
    BY <1>1 DEF Leave
  <2>4. QED  BY <2>1, <2>2, <2>3, ReturnKeeps DEF Leave, Shapes
<1>2. CASE ~Reached
  BY <1>2, ReturnKeeps DEF Leave, Shapes
<1>3. QED  BY <1>1, <1>2

LEMMA PollKeeps ==
  ASSUME AriaInv, NEW j \in Jobs, Poll(j)
  PROVE  AriaInv'
<1> USE DEF AriaInv
<1>1. CASE PollEnded(j) \/ PollExited(j)
  BY <1>1, LeaveKeeps DEF PollEnded, PollExited
<1>2. CASE PollFollows(j)
  <2>1. Shapes'
    BY <1>2, Constants DEF PollFollows, Names, Shapes, daemonVars
  <2>2. Returned'
    BY <1>2 DEF PollFollows, Returned
  <2>3. QED  BY <1>2, <2>1, <2>2, Rest DEF PollFollows, daemonVars
<1>3. CASE PollFinished(j)
  <2>1. current \in Daemons /\ <<j, gid[j]>> \in Gids
    BY <1>3, CurrentIsDaemon, HeldGid DEF PollFinished, Asked, Reached, Shapes
  <2>2. Told(j) = "complete" => Whole(j)
    BY <1>3, HeldContent DEF PollFinished
  <2>3. QED  BY <1>3, <2>2, LeaveKeeps DEF PollFinished
<1>4. CASE PollDead(j)
  <2>1. current \in Daemons /\ <<j, gid[j]>> \in Gids
    BY <1>4, CurrentIsDaemon, HeldGid DEF PollDead, Asked, Reached, Shapes
  <2>2. QED  BY <1>4, <2>1, ReturnKeeps DEF PollDead, Shapes
<1>5. QED  BY <1>1, <1>2, <1>3, <1>4 DEF Poll

LEMMA KillerKeeps ==
  ASSUME AriaInv, NEW j \in Jobs, Killer(j)
  PROVE  AriaInv'
<1> USE DEF AriaInv
<1>1. CASE KillerParks(j) \/ KillerDone(j)
  <2>1. Shapes'
    BY <1>1 DEF KillerParks, KillerDone, Shapes, daemonVars
  <2>2. Returned'
    BY <1>1 DEF KillerParks, KillerDone, Returned
  <2>3. QED  BY <1>1, <2>1, <2>2, Rest DEF KillerParks, KillerDone, daemonVars
<1>2. CASE KillerRemoves(j)
  <2>1. Returned'
    BY <1>2 DEF KillerRemoves, Returned
  <2>2. killer' \in [Jobs -> {"none", "armed", "parked", "over"}]
    BY <1>2 DEF KillerRemoves, Shapes
  <2>3. CASE Reached
    <3>1. current \in Daemons /\ <<j, gid[j]>> \in Gids
      BY <2>3, CurrentIsDaemon, HeldGid DEF Reached, Shapes
    <3>2. transfer' = Removed(current, <<j, gid[j]>>)
      BY <1>2, <2>3 DEF KillerRemoves
    <3>3. transfer' \in [Daemons -> [Gids -> States]]
      BY <3>1, <3>2, CallFacts
    <3>4. Shapes'
      BY <1>2, <2>2, <3>3 DEF KillerRemoves, Shapes
    <3>5. QED  BY <1>2, <2>1, <3>1, <3>2, <3>4, CallKeeps DEF KillerRemoves
  <2>4. CASE ~Reached
    <3>1. transfer' = transfer
      BY <1>2, <2>4 DEF KillerRemoves
    <3>2. Shapes'
      BY <1>2, <2>2, <3>1 DEF KillerRemoves, Shapes
    <3>3. QED  BY <1>2, <2>1, <3>1, <3>2, Rest DEF KillerRemoves
  <2>5. QED  BY <2>3, <2>4
<1>3. QED  BY <1>1, <1>2 DEF Killer

\* The end of a process takes its transfers with it.
LEMMA WipeKeeps ==
  ASSUME AriaInv, Shapes', Returned', NEW d \in Daemons, UNCHANGED <<result, got>>,
         transfer' = [transfer EXCEPT ![d] = NoTransfers]
  PROVE  AriaInv'
<1> USE DEF AriaInv
<1>1. transfer' \in [Daemons -> [Gids -> States]] /\ transfer \in [Daemons -> [Gids -> States]]
  BY DEF Shapes
<1>2. \A e \in Daemons, h \in Gids : transfer'[e][h] = transfer[e][h] \/ transfer'[e][h] = "none"
  BY <1>1 DEF NoTransfers
<1>3. Places' /\ CompleteIsGot'
  BY <1>1, <1>2, QuietFacts
<1>4. Ok'
  BY DEF Ok, Whole
<1>5. QED  BY <1>3, <1>4

LEMMA StopKeeps ==
  ASSUME AriaInv, Stop
  PROVE  AriaInv'
<1> USE DEF AriaInv
<1>1. current \in Daemons
  <2>1. current \in 0..MaxDaemons /\ current # 0
    BY DEF Shapes, Stop
  <2>2. MaxDaemons \in Nat
    BY Constants
  <2>3. QED  BY <2>1, <2>2 DEF Daemons
<1>2. NoTransfers \in [Gids -> States]
  BY DEF NoTransfers, States
<1>3. transfer' \in [Daemons -> [Gids -> States]]
  BY <1>1, <1>2 DEF Stop, Shapes
<1>4. Shapes'
  BY <1>3 DEF Stop, Shapes
<1>5. Returned'
  BY DEF Stop, Returned
<1>6. QED  BY <1>1, <1>4, <1>5, WipeKeeps DEF Stop

LEMMA CrashKeeps ==
  ASSUME AriaInv, NEW d \in Daemons, DaemonUp(d) \/ Crash(d)
  PROVE  AriaInv'
<1> USE DEF AriaInv
<1>1. CASE DaemonUp(d)
  <2>1. Shapes' /\ Returned'
    BY <1>1 DEF DaemonUp, Shapes, Returned
  <2>2. QED  BY <1>1, <2>1, Rest DEF DaemonUp
<1>2. CASE Crash(d)
  <2>1. NoTransfers \in [Gids -> States]
    BY DEF NoTransfers, States
  <2>2. transfer' \in [Daemons -> [Gids -> States]] /\ daemon' \in [Daemons -> {"none", "starting", "up", "dead"}]
    BY <1>2, <2>1 DEF Crash, Shapes
  <2>3. crashes' \in 0..MaxCrashes
    <3>1. crashes \in 0..MaxCrashes /\ crashes < MaxCrashes /\ crashes' = crashes + 1
      BY <1>2 DEF Crash, Shapes
    <3>2. QED  BY <3>1, Constants
  <2>4. Shapes'
    BY <1>2, <2>2, <2>3 DEF Crash, Shapes
  <2>5. Returned'
    BY <1>2 DEF Crash, Returned
  <2>6. QED  BY <1>2, <2>4, <2>5, WipeKeeps DEF Crash
<1>3. QED  BY <1>1, <1>2

\* A transfer takes a place only while one is free.
LEMMA ActivateKeeps ==
  ASSUME AriaInv, NEW d \in Daemons, NEW g \in Gids, Activate(d, g)
  PROVE  AriaInv'
<1> USE DEF AriaInv
<1>1. transfer \in [Daemons -> [Gids -> States]] /\ "active" \in States
  BY DEF Shapes, States, Working
<1>2. transfer' = [transfer EXCEPT ![d] = [transfer[d] EXCEPT ![g] = "active"]]
  BY DEF Activate
<1>3. transfer' \in [Daemons -> [Gids -> States]]
  BY <1>1, <1>2
<1>4. Shapes'
  BY <1>3 DEF Activate, Shapes
<1>5. Returned' /\ Ok'
  BY DEF Activate, Returned, Ok, Whole
<1>6. CompleteIsGot'
  <2>1. \A e \in Daemons, h \in Gids : transfer'[e][h] = "complete" => transfer[e][h] = "complete"
    BY <1>1, <1>2
  <2>2. QED  BY <2>1 DEF Activate, CompleteIsGot
<1>7. Places'
  <2>1. SUFFICES ASSUME NEW e \in Daemons
                 PROVE  IsFiniteSet(ActiveOf(e)') /\ Cardinality(ActiveOf(e)') <= MaxActive
    BY DEF Places
  <2>2. IsFiniteSet(ActiveOf(e)) /\ Cardinality(ActiveOf(e)) <= MaxActive /\ Cardinality(ActiveOf(e)) \in Nat
    BY FS_CardinalityType DEF Places
  <2>3. CASE e = d
    <3>1. ActiveOf(d)' = ActiveOf(d) \cup {g} /\ g \notin ActiveOf(d)
      BY <1>1, <1>2 DEF ActiveOf, Activate, Working
    <3>2. IsFiniteSet(ActiveOf(d)') /\ Cardinality(ActiveOf(d)') = Cardinality(ActiveOf(d)) + 1
      BY <2>2, <2>3, <3>1, FS_AddElement
    <3>3. Cardinality(ActiveOf(d)) < MaxActive
      BY DEF Activate, ActiveOf
    <3>4. QED  BY <2>2, <2>3, <3>2, <3>3, Constants
  <2>4. CASE e # d
    <3>1. ActiveOf(e)' = ActiveOf(e)
      BY <1>1, <1>2, <2>4 DEF ActiveOf
    <3>2. QED  BY <2>2, <3>1
  <2>5. QED  BY <2>3, <2>4
<1>8. QED  BY <1>4, <1>5, <1>6, <1>7

\* Peers and bytes come and go, and a transfer that fails gives its place back.
LEMMA WorkKeeps ==
  ASSUME AriaInv, NEW d \in Daemons, NEW g \in Gids, Meet(d, g) \/ Fail(d, g)
  PROVE  AriaInv'
<1> USE DEF AriaInv
<1>1. PICK s \in Working \cup {"failed"} :
        transfer[d][g] \in Working /\ transfer' = [transfer EXCEPT ![d][g] = s]
  BY DEF Meet, Fail, Working
<1>2. UNCHANGED <<daemon, crashes, current, stopped, pc, mine, gid, killer, ended, result, got>>
  BY DEF Meet, Fail
<1>3. transfer \in [Daemons -> [Gids -> States]] /\ s \in States
  BY DEF Shapes, States, Finished
<1>4. transfer' \in [Daemons -> [Gids -> States]]
  BY <1>1, <1>3
<1>5. \A e \in Daemons, h \in Gids :
        \/ transfer'[e][h] = transfer[e][h] \/ transfer'[e][h] \in {"none", "failed", "waiting"}
        \/ transfer'[e][h] \in Working /\ transfer[e][h] \in Working
  BY <1>1, <1>3
<1>6. Places' /\ CompleteIsGot'
  BY <1>2, <1>4, <1>5, QuietFacts
<1>7. Shapes' /\ Returned' /\ Ok'
  BY <1>2, <1>4 DEF Shapes, Returned, Ok, Whole
<1>8. QED  BY <1>6, <1>7

\* A transfer that is complete is a file that is got, or it names others.
LEMMA FinishKeeps ==
  ASSUME AriaInv, NEW d \in Daemons, NEW g \in Gids, Finish(d, g)
  PROVE  AriaInv'
<1> USE DEF AriaInv
<1> DEFINE after == [h \in Gids |-> IF h = g THEN "complete"
                                    ELSE IF g[2] = 1 /\ h[1] = g[1] THEN "waiting" ELSE transfer[d][h]]
<1>1. transfer \in [Daemons -> [Gids -> States]]
  BY DEF Shapes
<1>2. transfer' = [transfer EXCEPT ![d] = after] /\ got' = got \cup ({g} \cap Contents(g[1]))
  BY DEF Finish
<1>3. UNCHANGED <<daemon, crashes, current, stopped, pc, mine, gid, killer, ended, result>>
  BY DEF Finish
<1>4. after \in [Gids -> States]
  BY <1>1 DEF States, Finished
<1>5. \A h \in Gids : \/ after[h] = transfer[d][h] \/ after[h] = "waiting"
                      \/ h = g /\ after[h] = "complete"
  OBVIOUS
<1> HIDE DEF after
<1>6. /\ transfer' \in [Daemons -> [Gids -> States]]
      /\ \A e \in Daemons, h \in Gids :
           \/ transfer'[e][h] = transfer[e][h] \/ transfer'[e][h] = "waiting"
           \/ h = g /\ transfer'[e][h] = "complete"
  BY <1>1, <1>2, <1>4, <1>5
<1>7. got' \subseteq Gids /\ got \subseteq got' /\ (g \in got' \/ g \notin Contents(g[1]))
  BY <1>2 DEF Shapes
<1>8. Shapes'
  BY <1>3, <1>6, <1>7 DEF Shapes
<1>9. Returned' /\ Ok'
  BY <1>3, <1>7 DEF Returned, Ok, Whole
<1>10. CompleteIsGot'
  BY <1>6, <1>7 DEF CompleteIsGot
<1>11. Places'
  BY <1>6, PlacesKept DEF Working
<1>12. QED  BY <1>8, <1>9, <1>10, <1>11

LEMMA NextAria == AriaInv /\ [Next]_vars => AriaInv'
<1> SUFFICES ASSUME AriaInv, [Next]_vars PROVE AriaInv'
  OBVIOUS
<1>1. CASE UNCHANGED vars
  <2>1. UNCHANGED <<daemon, transfer, crashes, current, stopped, pc, mine, gid, killer, ended, result, got>>
    BY <1>1 DEF vars, daemonVars
  <2>2. Shapes' /\ Returned'
    BY <2>1 DEF AriaInv, Shapes, Returned
  <2>3. QED  BY <2>1, <2>2, Rest
<1>2. ASSUME NEW a \in Actors, Start(a) PROVE AriaInv'
  BY <1>2, StartKeeps
<1>3. ASSUME NEW j \in Jobs, Add(j) \/ Poll(j) \/ Killer(j) PROVE AriaInv'
  BY <1>3, AddKeeps, PollKeeps, KillerKeeps
<1>4. ASSUME NEW j \in Jobs, Cancel(j) PROVE AriaInv'
  <2>1. Shapes'
    BY <1>4 DEF AriaInv, Cancel, Shapes, daemonVars
  <2>2. Returned'
    BY <1>4 DEF AriaInv, Cancel, Returned
  <2>3. QED  BY <1>4, <2>1, <2>2, Rest DEF Cancel, daemonVars
<1>5. CASE Stop
  BY <1>5, StopKeeps
<1>6. ASSUME NEW d \in Daemons, DaemonUp(d) \/ Crash(d) PROVE AriaInv'
  BY <1>6, CrashKeeps
<1>7. ASSUME NEW d \in Daemons, NEW g \in Gids, Activate(d, g) \/ Meet(d, g) \/ Fail(d, g) \/ Finish(d, g)
      PROVE  AriaInv'
  BY <1>7, ActivateKeeps, WorkKeeps, FinishKeeps
<1>8. QED  BY <1>1, <1>2, <1>3, <1>4, <1>5, <1>6, <1>7 DEF Next

\* Download reports success only for files that are complete, also when its first
\* transfer only named them; of several that the URL of a metalink names only one is
\* sure to be.  A download has a result exactly
\* when it has returned, and no daemon works on more transfers than it was allowed
\* (aria2.go:443-491), however many downloads, daemons and crashes there are.
THEOREM CompleteWhenOk == Spec => []OkIsComplete
<1>1. AriaInv => OkIsComplete
  BY DEF AriaInv, Shapes, Places, Returned, Ok, Whole, OkIsComplete, TypeOK, ActiveOf, States
<1>2. QED  BY <1>1, InitAria, NextAria, PTL DEF Spec
====
