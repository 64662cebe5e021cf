------------------------------- MODULE Limiter -------------------------------
(***************************************************************************)
(* TelegramLimiter (src/internal/pacing/pacing.go): every call to Telegram *)
(* first takes a slot of the whole bot, then waits for its chat: for the   *)
(* end of a flood wait, for the gap between two calls and for a place in   *)
(* the window; an upload also keeps its distance from the previous one.    *)
(*                                                                         *)
(* Times are relative to now: 0 is now, a deadline is positive, the past   *)
(* is negative and kept only as far back as the comparisons of the code    *)
(* tell times apart.  A caller sleeps with no lock held and may wake late.      *)
(* The state of a chat is an object: a caller keeps its pointer            *)
(* while the sweeper removes it from the map.                              *)
(*                                                                         *)
(* A flood of the whole bot (chat 0) is reported by no caller and left     *)
(* out.                                                                    *)
(***************************************************************************)
EXTENDS Integers, Sequences

CONSTANTS
  Callers,      \* goroutines that call Telegram, one call after the other
  Uploaders,    \* those whose calls are uploads
  Careless,     \* those that call even when Acquire returns an error
  Chats,
  Active,       \* chats with a running job: the sweeper leaves them alone
  Slot,         \* 1 / globalOPS
  Gap, UploadGap, Window, MaxCalls, Stale,   \* the constants of the limiter
  Penalties,    \* flood waits Telegram may ask for, with their margin
  MaxFloods,    \* bound: how many
  Objects       \* bound: states made for a chat, 1..n

ASSUME LimiterAssumption ==
  /\ {Slot, Gap, UploadGap, Window, Stale, MaxCalls, MaxFloods, Objects} \subseteq Nat
  /\ MaxCalls > 0 /\ Objects > 0
  /\ Uploaders \subseteq Callers /\ Careless \subseteq Callers /\ Active \subseteq Chats
  /\ Penalties \subseteq Nat

VARIABLES
  global,     \* globalLast
  current,    \* l.chats: the number of the state of each chat, 0 if it has none
  made,       \* how many states were made for it
  state,      \* the chatStates
  pc, at, ref,   \* of each caller: its place, its chat and its pointer
  wake,       \* how long it still sleeps
  floods,     \* how many were reported
  granted,    \* history: when the last MaxCalls calls of each chat were let in
  spaced,     \* history: when an upload was last let in or over
  penalty,    \* history: the end of the longest flood reported
  forgotten   \* history: chats that lost a state in use or in a flood

callVars == <<pc, at, ref, wake>>
history == <<granted, spaced, penalty, forgotten>>
vars == <<global, current, made, state, callVars, floods, history>>

Later(s, t) == IF s > t THEN s ELSE t

Fresh == [lastCall |-> -Gap, lastUpload |-> -UploadGap, flood |-> 0, touched |-> 0, history |-> <<>>]

TypeOK ==
  /\ global \in Int
  /\ current \in [Chats -> 0..Objects] /\ made \in [Chats -> 0..Objects]
  /\ state \in [Chats -> [1..Objects ->
       [lastCall : Int, lastUpload : Int, flood : Int, touched : Int, history : Seq(Int)]]]
  /\ \A c \in Chats, i \in 1..Objects : Len(state[c][i].history) <= MaxCalls + 1
  /\ pc \in [Callers -> {"idle", "slot", "chat", "upload", "spacing", "calling", "flooded"}]
  /\ at \in [Callers -> Chats] /\ ref \in [Callers -> 1..Objects] /\ wake \in [Callers -> Nat]
  /\ floods \in 0..MaxFloods
  /\ granted \in [Chats -> Seq(Int)] /\ spaced \in [Chats -> Int] /\ penalty \in [Chats -> Int]
  /\ forgotten \subseteq Chats

Init ==
  /\ global = -Slot
  /\ current = [c \in Chats |-> 0] /\ made = [c \in Chats |-> 0]
  /\ state = [c \in Chats |-> [i \in 1..Objects |-> Fresh]]
  /\ pc = [p \in Callers |-> "idle"] /\ at \in [Callers -> Chats]
  /\ ref = [p \in Callers |-> 1] /\ wake = [p \in Callers |-> 0]
  /\ floods = 0
  /\ granted = [c \in Chats |-> <<>>] /\ spaced = [c \in Chats |-> -UploadGap]
  /\ penalty = [c \in Chats |-> 0] /\ forgotten = {}

----------------------------------------------------------------------------
(* The state of a chat *)

\* l.chat(id): the number of the state in the map after the call.
Found(c) == IF current[c] = 0 THEN made[c] + 1 ELSE current[c]

\* l.chat(id), and the state it returns becomes s.
Chat(c, s) ==
  /\ Found(c) <= Objects
  /\ current' = [current EXCEPT ![c] = Found(c)]
  /\ made' = [made EXCEPT ![c] = Later(@, Found(c))]
  /\ state' = [state EXCEPT ![c][Found(c)] = s]

Now(c) == IF current[c] = 0 THEN Fresh ELSE state[c][current[c]]

Mine(p) == state[at[p]][ref[p]]
SetMine(p, s) == state' = [state EXCEPT ![at[p]][ref[p]] = s]

\* How many calls at the front of a history have left the window.
Expired(h) == CHOOSE n \in 0..Len(h) :
  (\A k \in 1..n : h[k] < -Window) /\ (n < Len(h) => h[n + 1] >= -Window)

\* The calls that still count in the window.
Recent(s) == SubSeq(s.history, Expired(s.history) + 1, Len(s.history))

\* Wrong: the gap between two calls is left to the window.
DelayWithoutGap(s) ==
  IF s.flood > 0 THEN s.flood
  ELSE IF Len(Recent(s)) >= MaxCalls THEN Later(0, Recent(s)[1] + Window)
  ELSE 0

\* How long a call must still wait, 0 if it may go.
Delay(s) ==
  IF s.flood > 0 THEN s.flood
  ELSE IF s.lastCall + Gap > 0 THEN s.lastCall + Gap
  ELSE IF Len(Recent(s)) >= MaxCalls THEN Later(0, Recent(s)[1] + Window)
  ELSE 0

\* The window is looked at, and trimmed, only after the two other waits.
Trimmed(s) == IF s.flood > 0 \/ s.lastCall + Gap > 0 THEN s ELSE [s EXCEPT !.history = Recent(s)]

----------------------------------------------------------------------------
(* Acquire *)

\* The next slot of the bot is reserved under the lock; the sleep is outside.
Begin(p) == \E c \in Chats :
  /\ pc[p] = "idle"
  /\ global' = Later(global + Slot, 0)
  /\ wake' = [wake EXCEPT ![p] = global']
  /\ pc' = [pc EXCEPT ![p] = "slot"] /\ at' = [at EXCEPT ![p] = c]
  /\ UNCHANGED <<current, made, state, ref, floods, history>>

\* The caller takes its pointer; c.mu is locked later.
Enter(p) ==
  /\ pc[p] = "slot" /\ wake[p] = 0
  /\ Chat(at[p], Now(at[p]))
  /\ ref' = [ref EXCEPT ![p] = Found(at[p])]
  /\ pc' = [pc EXCEPT ![p] = "chat"]
  /\ UNCHANGED <<global, at, wake, floods, history>>

\* One round of the loop that ends in a sleep, with c.mu released.
Wait(p) ==
  /\ pc[p] = "chat" /\ wake[p] = 0 /\ Delay(Mine(p)) > 0
  /\ SetMine(p, Trimmed(Mine(p)))
  /\ wake' = [wake EXCEPT ![p] = Delay(Mine(p))]
  /\ UNCHANGED <<global, current, made, pc, at, ref, floods, history>>

\* A round that lets the call in.
Grant(p) ==
  /\ pc[p] = "chat" /\ wake[p] = 0 /\ Delay(Mine(p)) = 0
  /\ SetMine(p, [Mine(p) EXCEPT !.lastCall = 0, !.touched = 0, !.history = Append(Recent(Mine(p)), 0)])
  /\ pc' = [pc EXCEPT ![p] = IF p \in Uploaders THEN "upload" ELSE "calling"]
  /\ granted' = [granted EXCEPT ![at[p]] =
       Append(IF Len(@) < MaxCalls THEN @ ELSE Tail(@), 0)]
  /\ UNCHANGED <<global, current, made, at, ref, wake, floods, spaced, penalty, forgotten>>

----------------------------------------------------------------------------
(* AcquireUpload, after Acquire *)

EnterUpload(p) ==
  /\ pc[p] = "upload"
  /\ Chat(at[p], Now(at[p]))
  /\ ref' = [ref EXCEPT ![p] = Found(at[p])]
  /\ pc' = [pc EXCEPT ![p] = "spacing"]
  /\ UNCHANGED <<global, at, wake, floods, history>>

WaitUpload(p) ==
  /\ pc[p] = "spacing" /\ wake[p] = 0 /\ Mine(p).lastUpload + UploadGap > 0
  /\ wake' = [wake EXCEPT ![p] = Mine(p).lastUpload + UploadGap]
  /\ UNCHANGED <<global, current, made, state, pc, at, ref, floods, history>>

GrantUpload(p) ==
  /\ pc[p] = "spacing" /\ wake[p] = 0 /\ Mine(p).lastUpload + UploadGap <= 0
  /\ SetMine(p, [Mine(p) EXCEPT !.lastUpload = 0, !.touched = 0])
  /\ pc' = [pc EXCEPT ![p] = "calling"]
  /\ spaced' = [spaced EXCEPT ![at[p]] = 0]
  /\ UNCHANGED <<global, current, made, at, ref, wake, floods, granted, penalty, forgotten>>

\* The context of a caller ends while it sleeps.  Most callers of Acquire
\* ignore its error and call.
GiveUp(p) ==
  /\ pc[p] \in {"slot", "chat", "spacing"} /\ wake[p] > 0
  /\ pc' = [pc EXCEPT ![p] = IF p \in Careless THEN "calling" ELSE "idle"]
  /\ wake' = [wake EXCEPT ![p] = 0]
  /\ UNCHANGED <<global, current, made, state, at, ref, floods, history>>

----------------------------------------------------------------------------
(* The end of a call *)

\* Wrong: the end of an upload counts as the end of a call.
RecordedAsCall(p, s) == [s EXCEPT !.lastCall = Later(@, 0), !.touched = 0]

\* RecordCallDone and RecordUploadDone.
Recorded(p, s) ==
  [s EXCEPT !.lastCall = Later(@, 0), !.touched = 0,
            !.lastUpload = IF p \in Uploaders THEN Later(@, 0) ELSE @]

\* Telegram has answered.  After a flood wait the caller reports it in a second
\* step; a reply of the bot that failed is not recorded.
Return(p) == \E answer \in {"idle", "flooded"} :
  /\ pc[p] = "calling" /\ (answer = "flooded" => floods < MaxFloods)
  /\ \/ /\ Chat(at[p], Recorded(p, Now(at[p])))
        /\ spaced' = [spaced EXCEPT ![at[p]] = IF p \in Uploaders THEN 0 ELSE @]
     \/ answer = "flooded" /\ p \in Careless \ Uploaders /\ UNCHANGED <<current, made, state, spaced>>
  /\ pc' = [pc EXCEPT ![p] = answer]
  /\ UNCHANGED <<global, at, ref, wake, floods, granted, penalty, forgotten>>

\* Wrong: the latest flood wait replaces a longer one.
NotifyLatest(p) == \E s \in Penalties :
  LET c == at[p] IN
  /\ pc[p] = "flooded" /\ floods < MaxFloods
  /\ Chat(c, [Now(c) EXCEPT !.flood = s])
  /\ penalty' = [penalty EXCEPT ![c] = Later(@, s)]
  /\ floods' = floods + 1
  /\ pc' = [pc EXCEPT ![p] = "idle"]
  /\ UNCHANGED <<global, at, ref, wake, granted, spaced, forgotten>>

NotifyFloodWait(p) == \E s \in Penalties :
  LET c == at[p] IN
  /\ pc[p] = "flooded" /\ floods < MaxFloods
  /\ Chat(c, [Now(c) EXCEPT !.flood = Later(@, s)])
  /\ penalty' = [penalty EXCEPT ![c] = Later(@, s)]
  /\ floods' = floods + 1
  /\ pc' = [pc EXCEPT ![p] = "idle"]
  /\ UNCHANGED <<global, at, ref, wake, granted, spaced, forgotten>>

\* A report that the bound leaves out.
DropReport(p) ==
  /\ pc[p] = "flooded" /\ floods = MaxFloods
  /\ pc' = [pc EXCEPT ![p] = "idle"]
  /\ UNCHANGED <<global, current, made, state, at, ref, wake, floods, history>>

----------------------------------------------------------------------------
(* The sweeper and the clock *)

InUse(c) == \E p \in Callers :
  at[p] = c /\ ref[p] = current[c] /\ pc[p] \in {"chat", "spacing"}

Sweep(c) ==
  /\ current[c] # 0 /\ c \notin Active /\ state[c][current[c]].touched <= -Stale
  /\ current' = [current EXCEPT ![c] = 0]
  /\ forgotten' = IF InUse(c) \/ state[c][current[c]].flood > 0 THEN forgotten \cup {c} ELSE forgotten
  /\ UNCHANGED <<global, made, state, callVars, floods, granted, spaced, penalty>>

\* A time one tick later, if it is not back to the floor already.
Older(t, floor) == Later(t - 1, floor)
Aged(h) == [i \in DOMAIN h |-> Older(h[i], -Later(Window, Gap) - 1)]

Tick ==
  /\ global' = Older(global, -Slot)
  /\ state' = [c \in Chats |-> [i \in 1..Objects |-> LET s == state[c][i] IN
       [lastCall |-> Older(s.lastCall, -Gap), lastUpload |-> Older(s.lastUpload, -UploadGap),
        flood |-> Older(s.flood, 0), touched |-> Older(s.touched, -Stale), history |-> Aged(s.history)]]]
  /\ wake' = [p \in Callers |-> Older(wake[p], 0)]
  /\ granted' = [c \in Chats |-> Aged(granted[c])]
  /\ spaced' = [c \in Chats |-> Older(spaced[c], -UploadGap)]
  /\ penalty' = [c \in Chats |-> Older(penalty[c], 0)]
  /\ UNCHANGED <<current, made, pc, at, ref, floods, forgotten>>

Acquire(p) == Begin(p) \/ Enter(p) \/ Wait(p) \/ Grant(p)
AcquireUpload(p) == EnterUpload(p) \/ WaitUpload(p) \/ GrantUpload(p)
Finish(p) == Return(p) \/ NotifyFloodWait(p) \/ DropReport(p)

Next ==
  \/ \E p \in Callers : Acquire(p) \/ AcquireUpload(p) \/ GiveUp(p) \/ Finish(p)
  \/ \E c \in Chats : Sweep(c)
  \/ Tick

Spec == Init /\ [][Next]_vars

----------------------------------------------------------------------------
(* Properties *)

LetIn(p, c) == pc[p] = "chat" /\ wake[p] = 0 /\ pc'[p] # "chat" /\ at[p] = c

\* Whoever waits, wakes late or gives up, two calls of a chat are let in at least
\* the gap apart and no more than MaxCalls of them in a window (pacing.go:156-211),
\* unless the sweeper took the state of the chat from under a caller; and what a
\* chat remembers of its calls stays as long as the window (TypeOK).
CallsPaced == []TypeOK /\ [][
  \A p \in Callers, c \in Chats \ forgotten : LetIn(p, c) =>
    /\ granted[c] # <<>> => granted[c][Len(granted[c])] <= -Gap
    /\ Len(granted[c]) = MaxCalls => granted[c][1] <= -Window ]_vars

\* No call is let in during the longest flood wait reported for its chat, also
\* when shorter ones are reported later and the call was waiting already; in a
\* chat without a job only if the flood is not older than a day (pacing.go:347).
FloodKept == [][
  \A p \in Callers, c \in Chats \ forgotten : LetIn(p, c) => penalty[c] <= 0 ]_vars

\* An upload starts at least the gap after the previous one of the chat was let
\* in, and after it ended (pacing.go:244-258 and 301-316).
UploadsSpaced == [][
  \A p \in Callers : pc[p] = "spacing" /\ wake[p] = 0 /\ pc'[p] = "calling" =>
    at[p] \in forgotten \/ spaced[at[p]] <= -UploadGap ]_vars

=============================================================================
