-------------------------------- MODULE Aria2 --------------------------------
(***************************************************************************)
(* The aria2c daemon and the downloads that share it                       *)
(* (src/internal/torrent/aria2.go).  The bot starts the daemon in the      *)
(* background (src/cmd/tgdl/main.go:119-123); every download starts it     *)
(* again when it is not alive, adds its target, and polls for its state.   *)
(* A magnet first fetches its metadata, and the URL of a torrent or a      *)
(* metalink that file; what they stand for are further transfers, which    *)
(* the first one names when it is complete.  The end of the context is     *)
(* heard by the poll and by a goroutine of its own that removes the        *)
(* transfer.                                                               *)
(*                                                                         *)
(* The daemon runs MaxActive transfers at a time, finishes those that are  *)
(* no torrents, may leave a torrent unfinished forever, and may die.       *)
(***************************************************************************)
EXTENDS Integers, FiniteSets

CONSTANTS
  Jobs,
  Bt,          \* isBT: magnets and torrent files
  Metalinks,   \* metalink files
  Parts,       \* how many transfers the first one of a download names: one for a magnet
               \* and for the URL of a torrent, any number for the URL of a metalink
  Swarmed,     \* URLs whose further transfers are torrents
  Boots,       \* the start in the background, if there is one
  MaxActive,   \* ARIA_MAX_CONCURRENT_DOWNLOADS
  MaxDaemons, MaxCrashes   \* bounds

ASSUME Aria2Assumption ==
  /\ Bt \cup Metalinks \cup Swarmed \subseteq Jobs /\ Bt \cap Metalinks = {}
  /\ Parts \in [Jobs -> Nat]
  /\ Boots \cap Jobs = {} /\ MaxActive \in Nat \ {0} /\ {MaxDaemons, MaxCrashes} \subseteq Nat

Actors == Jobs \cup Boots
Daemons == 1..MaxDaemons
Gids == UNION {{j} \X (1..Parts[j] + 1) : j \in Jobs}

\* The transfers of a download that are its files.
Contents(j) == {g \in Gids : g[1] = j /\ (Parts[j] > 0 => g[2] > 1)}

\* A transfer that lives on peers.
Swarm(g) == g[1] \in Bt \/ (g[1] \in Swarmed /\ g[2] > 1)

VARIABLES
  daemon,     \* of each process: "none", "starting", "up" or "dead"
  transfer,   \* of each process and GID: its state in the daemon
  current,    \* a.cmd, a.port, a.secret, a.exited: those of this process; 0: none
  stopped,    \* Stop has set a.cmd to nil
  crashes,
  pc,         \* of each actor
  mine,       \* the process it started
  gid,        \* of each download: the GID its handle holds, 1 or 2, the first named one
  killer,     \* its goroutine: "none", "armed", "parked" or "over"
  ended,      \* its context
  result,     \* "", "ok", "failed", "dead" or "cancelled"
  got         \* history: transfers whose files are complete

daemonVars == <<daemon, transfer, crashes>>
vars == <<daemonVars, current, stopped, pc, mine, gid, killer, ended, result, got>>

NoTransfers == [g \in Gids |-> "none"]
\* "failed" stands for the states error and removed.
Finished == {"complete", "failed"}

\* At work: without a byte and without a peer, with a peer, with a byte.
Working == {"active", "peered", "fed"}

TypeOK ==
  /\ daemon \in [Daemons -> {"none", "starting", "up", "dead"}]
  /\ transfer \in [Daemons -> [Gids -> {"none", "waiting"} \cup Working \cup Finished]]
  /\ \A d \in Daemons : Cardinality({g \in Gids : transfer[d][g] \in Working}) <= MaxActive
  /\ current \in 0..MaxDaemons /\ stopped \in BOOLEAN /\ crashes \in 0..MaxCrashes
  /\ pc \in [Actors -> {"off", "spawn", "wait", "add", "poll", "done"}]
  /\ mine \in [Actors -> 0..MaxDaemons] /\ gid \in [Jobs -> {1, 2}]
  /\ killer \in [Jobs -> {"none", "armed", "parked", "over"}] /\ ended \in [Jobs -> BOOLEAN]
  /\ result \in [Jobs -> {"", "ok", "failed", "dead", "cancelled"}]
  /\ \A j \in Jobs : pc[j] = "done" <=> result[j] # ""
  /\ got \subseteq Gids

Init ==
  /\ daemon = [d \in Daemons |-> "none"] /\ crashes = 0
  /\ transfer = [d \in Daemons |-> NoTransfers]
  /\ current = 0 /\ stopped = FALSE
  /\ pc = [a \in Actors |-> "off"]
  /\ mine = [a \in Actors |-> 0] /\ gid = [j \in Jobs |-> 1]
  /\ killer = [j \in Jobs |-> "none"] /\ ended = [j \in Jobs |-> FALSE]
  /\ result = [j \in Jobs |-> ""] /\ got = {}

----------------------------------------------------------------------------
(* Start *)

Running == current # 0 /\ ~stopped /\ daemon[current] # "dead"

Goto(a, there) == pc' = [pc EXCEPT ![a] = there]
Return(j, r) == Goto(j, "done") /\ result' = [result EXCEPT ![j] = r]

\* A download begins with Start.  The lock is given back before the trackers are
\* refreshed and a port is looked for.
StartLooks(a) ==
  /\ pc[a] = "off" /\ ~stopped
  /\ Goto(a, IF ~Running THEN "spawn" ELSE IF a \in Boots THEN "done" ELSE "add")
  /\ UNCHANGED <<daemonVars, current, stopped, mine, gid, killer, ended, result, got>>

StartEnds(a, ok) ==
  /\ mine' = [mine EXCEPT ![a] = 0]
  /\ IF a \in Boots THEN Goto(a, "done") /\ UNCHANGED result
     ELSE IF ok THEN Goto(a, "add") /\ UNCHANGED result
     ELSE Return(a, "failed")

Spawn(a) == \E d \in Daemons :
  /\ pc[a] = "spawn" /\ daemon[d] = "none" /\ \A e \in 1..d - 1 : daemon[e] # "none"
  /\ daemon' = [daemon EXCEPT ![d] = "starting"]
  /\ current' = d /\ stopped' = FALSE
  /\ mine' = [mine EXCEPT ![a] = d]
  /\ Goto(a, "wait")
  /\ UNCHANGED <<transfer, crashes, gid, killer, ended, result, got>>

\* No port is free, or the program does not start.
SpawnFails(a) ==
  /\ pc[a] = "spawn" /\ StartEnds(a, FALSE)
  /\ UNCHANGED <<daemonVars, current, stopped, gid, killer, ended, got>>

\* getVersion goes to the port of the process this call started, with the secret
\* of the latest one.
Ready(a) ==
  /\ pc[a] = "wait"
  /\ \/ daemon[mine[a]] = "up" /\ current = mine[a] /\ StartEnds(a, TRUE)
     \* the context, the end of the process, or ten seconds without an answer
     \/ /\ (a \in Jobs /\ ended[a]) \/ daemon[mine[a]] = "dead" \/ current # mine[a]
        /\ StartEnds(a, FALSE)
  /\ UNCHANGED <<daemonVars, current, stopped, gid, killer, ended, got>>

----------------------------------------------------------------------------
(* Download *)

\* The daemon is looked at once more and the target is added.  The answer to a metalink is a list of GIDs, which is
\* not read; the daemon may refuse a target.
Add(j) ==
  /\ pc[j] = "add"
  /\ \/ /\ Running /\ daemon[current] = "up" /\ ~ended[j]
        /\ transfer' = [transfer EXCEPT ![current][<<j, 1>>] = "waiting"]
        /\ IF j \in Metalinks THEN Return(j, "failed") /\ UNCHANGED killer
           ELSE Goto(j, "poll") /\ killer' = [killer EXCEPT ![j] = "armed"] /\ UNCHANGED result
     \/ Return(j, "failed") /\ UNCHANGED <<transfer, killer>>
  /\ UNCHANGED <<daemon, crashes, current, stopped, mine, gid, ended, got>>

\* A call that reaches the process the fields of the moment name.
Reached == Running /\ daemon[current] = "up"

\* removeDownloadResult forgets a transfer that is over, forceRemove ends one.
Forgotten(d, g) == [transfer EXCEPT ![d][g] = IF @ \in Finished THEN "none" ELSE @]
Removed(d, g) == [transfer EXCEPT ![d][g] = IF @ \in {"waiting"} \cup Working THEN "failed" ELSE @]

\* Download returns: done is closed, then the transfer is forgotten.
Leave(j, r) ==
  /\ Return(j, r)
  /\ transfer' = IF Reached THEN Forgotten(current, <<j, gid[j]>>) ELSE transfer
  /\ UNCHANGED <<daemon, crashes, current, stopped, mine, gid, killer, ended, got>>

\* Wrong: the break leaves the select and not the loop.
BreaksSelect(j) == pc[j] = "poll" /\ ended[j] /\ UNCHANGED vars

PollEnded(j) == pc[j] = "poll" /\ ended[j] /\ Leave(j, "cancelled")

\* a.exited is read anew in every round.
PollExited(j) == pc[j] = "poll" /\ daemon[current] = "dead" /\ Leave(j, "failed")

\* tellStatus.  A call that fails, and an unknown GID, are logged; the poll goes on.
Told(j) == transfer[current][<<j, gid[j]>>]
Asked(j) == pc[j] = "poll" /\ Reached /\ ~ended[j]

\* followedBy: the transfers named are not named again by those they name.
Names(j) == gid[j] = 1 /\ Parts[j] > 0 /\ Told(j) = "complete"

\* The first of them is followed, of any download; the others are not looked at.
PollFollows(j) ==
  /\ Asked(j) /\ Names(j)
  /\ gid' = [gid EXCEPT ![j] = 2]
  /\ UNCHANGED <<daemonVars, current, stopped, pc, mine, killer, ended, result, got>>

\* Wrong: the end of the metadata counts as the end of the download.
TakesMetadata(j) ==
  /\ Asked(j) /\ Told(j) \in Finished
  /\ Leave(j, IF Told(j) = "complete" THEN "ok" ELSE "failed")

PollFinished(j) ==
  /\ Asked(j) /\ Told(j) \in Finished
  /\ ~Names(j)
  /\ Leave(j, IF Told(j) = "complete" THEN "ok" ELSE "failed")

\* Wrong: only the content of a torrent is watched, not its metadata.
WatchesContent(j) ==
  /\ Asked(j) /\ j \in Bt /\ <<j, gid[j]>> \in Contents(j) /\ Told(j) \in {"waiting", "active"}
  /\ Return(j, "dead")
  /\ transfer' = Removed(current, <<j, gid[j]>>)
  /\ UNCHANGED <<daemon, crashes, current, stopped, mine, gid, killer, ended, got>>

\* Five minutes without a byte and without a peer.  A torrent that has got a byte, or
\* has a peer that sends nothing, is never given up, nor is one named by a URL.
PollDead(j) ==
  /\ Asked(j) /\ j \in Bt /\ Told(j) \in {"waiting", "active"}
  /\ Return(j, "dead")
  /\ transfer' = Removed(current, <<j, gid[j]>>)
  /\ UNCHANGED <<daemon, crashes, current, stopped, mine, gid, killer, ended, got>>

\* The goroutine waits for the context and for done.  Once it is parked the first
\* of the two wakes it; if both have come before that, it takes either.
KillerParks(j) ==
  /\ killer[j] = "armed" /\ ~ended[j] /\ pc[j] # "done"
  /\ killer' = [killer EXCEPT ![j] = "parked"]
  /\ UNCHANGED <<daemonVars, current, stopped, pc, mine, gid, ended, result, got>>

KillerRemoves(j) ==
  /\ killer[j] \in {"armed", "parked"} /\ ended[j]
  /\ killer' = [killer EXCEPT ![j] = "over"]
  /\ transfer' = IF Reached THEN Removed(current, <<j, gid[j]>>) ELSE transfer
  /\ UNCHANGED <<daemon, crashes, current, stopped, pc, mine, gid, ended, result, got>>

KillerDone(j) ==
  /\ killer[j] = "armed" \/ (killer[j] = "parked" /\ ~ended[j])
  /\ pc[j] = "done"
  /\ killer' = [killer EXCEPT ![j] = "over"]
  /\ UNCHANGED <<daemonVars, current, stopped, pc, mine, gid, ended, result, got>>

----------------------------------------------------------------------------
(* The daemon, the users and the shutdown *)

DaemonUp(d) ==
  /\ daemon[d] = "starting" /\ daemon' = [daemon EXCEPT ![d] = "up"]
  /\ UNCHANGED <<transfer, crashes, current, stopped, pc, mine, gid, killer, ended, result, got>>

Crash(d) ==
  /\ daemon[d] \in {"starting", "up"} /\ crashes < MaxCrashes
  /\ daemon' = [daemon EXCEPT ![d] = "dead"] /\ crashes' = crashes + 1
  /\ transfer' = [transfer EXCEPT ![d] = NoTransfers]
  /\ UNCHANGED <<current, stopped, pc, mine, gid, killer, ended, result, got>>

Activate(d, g) ==
  /\ daemon[d] = "up" /\ transfer[d][g] = "waiting"
  /\ Cardinality({h \in Gids : transfer[d][h] \in Working}) < MaxActive
  /\ transfer' = [transfer EXCEPT ![d][g] = "active"]
  /\ UNCHANGED <<daemon, crashes, current, stopped, pc, mine, gid, killer, ended, result, got>>

\* The first peer comes, the last one goes before a byte has come, or a byte comes.
Meet(d, g) == \E s \in Working :
  /\ daemon[d] = "up" /\ Swarm(g) /\ transfer[d][g] \in {"active", "peered"} \ {s}
  /\ transfer' = [transfer EXCEPT ![d][g] = s]
  /\ UNCHANGED <<daemon, crashes, current, stopped, pc, mine, gid, killer, ended, result, got>>

Fail(d, g) ==
  /\ daemon[d] = "up" /\ transfer[d][g] \in Working
  /\ transfer' = [transfer EXCEPT ![d][g] = "failed"]
  /\ UNCHANGED <<daemon, crashes, current, stopped, pc, mine, gid, killer, ended, result, got>>

Finish(d, g) ==
  /\ daemon[d] = "up" /\ transfer[d][g] \in Working
  /\ transfer' = [transfer EXCEPT ![d] = [h \in Gids |->
       IF h = g THEN "complete"
       ELSE IF g[2] = 1 /\ h[1] = g[1] THEN "waiting" ELSE @[h]]]
  /\ got' = got \cup ({g} \cap Contents(g[1]))
  /\ UNCHANGED <<daemon, crashes, current, stopped, pc, mine, gid, killer, ended, result>>

Cancel(j) ==
  /\ pc[j] \notin {"off", "done"} /\ ~ended[j]
  /\ ended' = [ended EXCEPT ![j] = TRUE]
  /\ UNCHANGED <<daemonVars, current, stopped, pc, mine, gid, killer, result, got>>

\* Stop, after the manager has waited for its jobs; it ends the process it knows.
Stop ==
  /\ current # 0 /\ ~stopped /\ \A j \in Jobs : pc[j] \in {"off", "done"}
  /\ stopped' = TRUE
  /\ daemon' = [daemon EXCEPT ![current] = "dead"]
  /\ transfer' = [transfer EXCEPT ![current] = NoTransfers]
  /\ UNCHANGED <<crashes, current, pc, mine, gid, killer, ended, result, got>>

Start(a) == StartLooks(a) \/ Spawn(a) \/ SpawnFails(a) \/ Ready(a)
Poll(j) == PollEnded(j) \/ PollExited(j) \/ PollFollows(j) \/ PollFinished(j) \/ PollDead(j)
Killer(j) == KillerParks(j) \/ KillerRemoves(j) \/ KillerDone(j)

Next ==
  \/ \E a \in Actors : Start(a)
  \/ \E j \in Jobs : Add(j) \/ Poll(j) \/ Killer(j) \/ Cancel(j)
  \/ Stop
  \/ \E d \in Daemons : DaemonUp(d) \/ Crash(d) \/ \E g \in Gids : 
       Activate(d, g) \/ Meet(d, g) \/ Fail(d, g) \/ Finish(d, g)

\* The scheduler runs every goroutine; the daemon starts, serves its queue and ends
\* what it fetches from servers (by its own timeouts).  Nothing is assumed of torrents.
Fairness ==
  /\ \A j \in Jobs : WF_vars(Add(j)) /\ WF_vars(Poll(j)) /\ WF_vars(Killer(j))
  /\ \A a \in Actors : WF_vars(pc[a] # "off" /\ Start(a))
  /\ \A d \in Daemons : WF_vars(DaemonUp(d))
  /\ \A d \in Daemons, g \in Gids : WF_vars(Activate(d, g))
  /\ \A d \in Daemons : \A g \in {h \in Gids : ~Swarm(h)} : WF_vars(Fail(d, g) \/ Finish(d, g))

Spec == Init /\ [][Next]_vars /\ Fairness

----------------------------------------------------------------------------
(* Properties *)

\* A download that returns OK has its files, also when its first transfer only named
\* them: a magnet, the URL of a torrent (aria2.go:463-471).  The exception is the URL of
\* a metalink that names several: it is OK when the first of them is complete, the
\* others may be missing.  Whoever has returned does not poll any more, and a daemon
\* keeps to its places (TypeOK).
OkIsComplete ==
  /\ TypeOK
  /\ \A j \in Jobs : result[j] = "ok" =>
       /\ \E g \in Contents(j) : g \in got
       /\ Parts[j] <= 1 => Contents(j) \subseteq got

\* A download whose context ends comes back, whatever the daemon does and even if
\* nobody answers any more (aria2.go:448-454).
CancelReturns == \A j \in Jobs : ended[j] ~> pc[j] = "done"

\* A transfer of a swarm that no rule ends: nobody polls it, it is not known to be one,
\* or it has got a byte or a peer and nothing more.
Held(d, g) ==
  /\ Swarm(g) /\ transfer[d][g] \in Working
  /\ pc[g[1]] = "done" \/ g[1] \notin Bt \/ transfer[d][g] \in {"peered", "fed"}

\* Every download comes back, also a torrent without peers, one queued behind it
\* and one whose daemon dies.  Two cases are excepted, in which the poll goes on for
\* as long as its context lives: the daemon the fields name never heard of the GID,
\* and a torrent that no rule ends holds a place of the queue (aria2.go:443-491).
ComesBack == \A j \in Jobs :
  pc[j] # "off" ~> \/ pc[j] = "done"
                   \/ pc[j] = "poll" /\ daemon[current] = "up" /\ Told(j) = "none"
                   \/ \E d \in Daemons, g \in Gids : Held(d, g)
=============================================================================
