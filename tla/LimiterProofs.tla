---------------------------- MODULE LimiterProofs ----------------------------
(***************************************************************************)
(* Proofs about Limiter for any callers, chats, gaps and flood waits: the  *)
(* longest flood wait holds every call back, uploads keep their distance,  *)
(* and the calls of a chat keep the gap and the window.  All rest on the   *)
(* state a caller points to being the one of the chat, as long as the      *)
(* sweeper took none from under a caller; the last also on what that state *)
(* still remembers of the calls that were let in.                          *)
(***************************************************************************)
EXTENDS Limiter, SequenceTheorems, WellFoundedInduction, TLAPS

Sound(s) ==
  /\ DOMAIN s = {"lastCall", "lastUpload", "flood", "touched", "history"}
  /\ s.lastUpload \in Int /\ s.flood \in Int /\ s.touched \in Int

Shapes ==
  /\ current \in [Chats -> 0..Objects] /\ made \in [Chats -> 0..Objects]
  /\ DOMAIN state = Chats
  /\ \A c \in Chats : DOMAIN state[c] = 1..Objects
  /\ \A c \in Chats, i \in 1..Objects : Sound(state[c][i])
  /\ pc \in [Callers -> {"idle", "slot", "chat", "upload", "spacing", "calling", "flooded"}]
  /\ at \in [Callers -> Chats] /\ ref \in [Callers -> 1..Objects]
  /\ spaced \in [Chats -> Int] /\ penalty \in [Chats -> Int]

\* A caller that waits points to the state in the map.
Held == \A p \in Callers :
  pc[p] \in {"chat", "spacing"} /\ at[p] \notin forgotten => current[at[p]] # 0 /\ ref[p] = current[at[p]]

\* The state in the map remembers the longest flood wait and, if the sweeper waits
\* as long as an upload does, the last upload: no state old enough to be swept is
\* that of an upload that still counts.
Remembers(c) ==
  /\ penalty[c] <= Now(c).flood
  /\ Stale >= UploadGap =>
       /\ spaced[c] <= Now(c).lastUpload /\ spaced[c] <= 0
       /\ current[c] # 0 => spaced[c] <= Later(Now(c).touched, -UploadGap)

Remembered == \A c \in Chats \ forgotten : Remembers(c)

LimiterInv == Shapes /\ Held /\ Remembered

-----------------------------------------------------------------------------
(* The states of the chats *)

LEMMA Constants ==
  /\ UploadGap \in Nat /\ Gap \in Nat /\ Stale \in Nat /\ Objects \in Nat \ {0} /\ Penalties \subseteq Nat
  /\ 1 \in 1..Objects /\ 0 \in 0..Objects
BY LimiterAssumption

LEMMA FreshSound ==
  Sound(Fresh) /\ Fresh.flood = 0 /\ Fresh.lastUpload = -UploadGap /\ Fresh.touched = 0
BY Constants DEF Sound, Fresh

LEMMA InitLimiter == Init => LimiterInv
<1> SUFFICES ASSUME Init PROVE LimiterInv
  OBVIOUS
<1>1. current \in [Chats -> 0..Objects] /\ made \in [Chats -> 0..Objects] /\ ref \in [Callers -> 1..Objects]
  BY Constants DEF Init
<1>2. spaced \in [Chats -> Int] /\ penalty \in [Chats -> Int]
  BY Constants DEF Init
<1>3. Shapes
  BY <1>1, <1>2, FreshSound DEF Init, Shapes
<1>4. Held
  BY DEF Init, Held
<1>5. \A c \in Chats : Remembers(c)
  BY FreshSound, Constants DEF Init, Remembers, Now
<1>6. QED  BY <1>3, <1>4, <1>5 DEF LimiterInv, Remembered

LEMMA NowSound ==
  ASSUME Shapes, NEW c \in Chats
  PROVE  Sound(Now(c))
<1>1. CASE current[c] = 0
  BY <1>1, FreshSound DEF Now
<1>2. CASE current[c] # 0
  <2>1. current[c] \in 1..Objects
    BY <1>2, Constants DEF Shapes
  <2>2. QED  BY <1>2, <2>1 DEF Now, Shapes
<1>3. QED  BY <1>1, <1>2

\* l.chat(id) finds the state of the chat or makes one.
LEMMA ChatFacts ==
  ASSUME Shapes, NEW c \in Chats, NEW s, Sound(s), Chat(c, s)
  PROVE  /\ current' \in [Chats -> 0..Objects] /\ made' \in [Chats -> 0..Objects]
         /\ DOMAIN state' = Chats
         /\ \A e \in Chats : DOMAIN state'[e] = 1..Objects
         /\ \A e \in Chats, i \in 1..Objects : Sound(state'[e][i])
         /\ Found(c) \in 1..Objects /\ current'[c] = Found(c) /\ current'[c] # 0
         /\ current[c] # 0 => current'[c] = current[c]
         /\ Now(c)' = s
         /\ \A e \in Chats \ {c} : current'[e] = current[e] /\ Now(e)' = Now(e)
<1>1. current[c] \in 0..Objects /\ made[c] \in 0..Objects /\ Found(c) <= Objects /\ Objects \in Nat
  BY Constants DEF Shapes, Chat
<1>2. Found(c) \in 1..Objects
  BY <1>1 DEF Found
<1>3. /\ current' = [current EXCEPT ![c] = Found(c)]
      /\ made' = [made EXCEPT ![c] = Later(made[c], Found(c))]
      /\ state' = [state EXCEPT ![c] = [state[c] EXCEPT ![Found(c)] = s]]
  BY DEF Chat
<1>4. Later(made[c], Found(c)) \in 0..Objects
  BY <1>1, <1>2 DEF Later
<1>5. current' \in [Chats -> 0..Objects] /\ current'[c] = Found(c) /\ \A e \in Chats \ {c} : current'[e] = current[e]
  BY <1>2, <1>3, Constants DEF Shapes
<1>6. made' \in [Chats -> 0..Objects]
  BY <1>3, <1>4 DEF Shapes
<1>7. /\ DOMAIN state' = Chats
      /\ \A e \in Chats : DOMAIN state'[e] = 1..Objects
      /\ state'[c][Found(c)] = s
      /\ \A i \in 1..Objects : i # Found(c) => state'[c][i] = state[c][i]
      /\ \A e \in Chats \ {c} : state'[e] = state[e]
  BY <1>2, <1>3 DEF Shapes
<1>8. \A e \in Chats, i \in 1..Objects : Sound(state'[e][i])
  BY <1>7 DEF Shapes
<1>9. current'[c] # 0 /\ (current[c] # 0 => current'[c] = current[c])
  BY <1>2, <1>5 DEF Found
<1>10. Now(c)' = s
  BY <1>5, <1>7, <1>9 DEF Now
<1>11. \A e \in Chats \ {c} : Now(e)' = Now(e)
  BY <1>5, <1>7 DEF Now
<1>12. QED  BY <1>2, <1>5, <1>6, <1>7, <1>8, <1>9, <1>10, <1>11

\* A caller changes the state it points to, which is that of the chat if the chat
\* is not forgotten.
LEMMA MineFacts ==
  ASSUME Shapes, NEW p \in Callers, NEW c, at[p] = c, NEW s, Sound(s), SetMine(p, s), current' = current
  PROVE  /\ DOMAIN state' = Chats
         /\ \A e \in Chats : DOMAIN state'[e] = 1..Objects
         /\ \A e \in Chats, i \in 1..Objects : Sound(state'[e][i])
         /\ c \in Chats /\ ref[p] \in 1..Objects
         /\ ref[p] = current[c] /\ current[c] # 0 => Now(c) = Mine(p) /\ Now(c)' = s
         /\ \A e \in Chats \ {c} : Now(e)' = Now(e)
<1>1. c \in Chats /\ ref[p] \in 1..Objects
  BY DEF Shapes
<1>2. state' = [state EXCEPT ![c] = [state[c] EXCEPT ![ref[p]] = s]]
  BY DEF SetMine
<1>3. /\ DOMAIN state' = Chats
      /\ \A e \in Chats : DOMAIN state'[e] = 1..Objects
      /\ state'[c][ref[p]] = s
      /\ \A i \in 1..Objects : i # ref[p] => state'[c][i] = state[c][i]
      /\ \A e \in Chats \ {c} : state'[e] = state[e]
  BY <1>1, <1>2 DEF Shapes
<1>4. \A e \in Chats, i \in 1..Objects : Sound(state'[e][i])
  BY <1>1, <1>3 DEF Shapes
<1>5. ref[p] = current[c] /\ current[c] # 0 => Now(c) = Mine(p) /\ Now(c)' = s
  BY <1>3 DEF Now, Mine
<1>6. \A e \in Chats \ {c} : Now(e)' = Now(e)
  BY <1>3 DEF Now
<1>7. QED  BY <1>1, <1>3, <1>4, <1>5, <1>6

-----------------------------------------------------------------------------
(* The steps *)

\* A step that changes no chat but c, and none that is in the map.
LEMMA ChatKeeps ==
  ASSUME LimiterInv, Shapes', NEW c \in Chats, forgotten' = forgotten,
         Remembers(c) => Remembers(c)',
         \A e \in Chats \ {c} : current'[e] = current[e] /\ Now(e)' = Now(e)
                                 /\ penalty'[e] = penalty[e] /\ spaced'[e] = spaced[e]
  PROVE  Remembered'
<1>1. \A e \in Chats \ {c} : Remembers(e) => Remembers(e)'
  BY DEF Remembers, Later
<1>2. QED  BY <1>1 DEF LimiterInv, Remembered

\* The callers, other than p, keep their places.
LEMMA HeldKeeps ==
  ASSUME LimiterInv, NEW p \in Callers, forgotten' = forgotten,
         \A q \in Callers \ {p} : pc'[q] = pc[q] /\ at'[q] = at[q] /\ ref'[q] = ref[q],
         \A c \in Chats : current[c] # 0 => current'[c] = current[c],
         pc'[p] \in {"chat", "spacing"} =>
           \/ pc[p] \in {"chat", "spacing"} /\ at'[p] = at[p] /\ ref'[p] = ref[p]
           \/ current'[at'[p]] # 0 /\ ref'[p] = current'[at'[p]]
  PROVE  Held'
<1>1. \A q \in Callers : at[q] \in Chats
  BY DEF LimiterInv, Shapes
<1>2. SUFFICES ASSUME NEW q \in Callers, pc'[q] \in {"chat", "spacing"}, at'[q] \notin forgotten'
               PROVE  current'[at'[q]] # 0 /\ ref'[q] = current'[at'[q]]
  BY DEF Held
<1>3. CASE pc[q] \in {"chat", "spacing"} /\ at'[q] = at[q] /\ ref'[q] = ref[q]
  <2>1. current[at[q]] # 0 /\ ref[q] = current[at[q]]
    BY <1>2, <1>3 DEF LimiterInv, Held
  <2>2. QED  BY <1>1, <1>3, <2>1
<1>4. QED  BY <1>2, <1>3

\* Steps that touch no chat.
LEMMA BeginKeeps ==
  ASSUME LimiterInv, NEW p \in Callers,
         Begin(p) \/ WaitUpload(p) \/ GiveUp(p) \/ DropReport(p)
  PROVE  LimiterInv'
<1>1. UNCHANGED <<current, made, state, ref, penalty, spaced, forgotten>>
  BY DEF Begin, WaitUpload, GiveUp, DropReport, history
<1>2. Shapes'
  <2>1. /\ pc' \in [Callers -> {"idle", "slot", "chat", "upload", "spacing", "calling", "flooded"}]
        /\ at' \in [Callers -> Chats]
    <3>1. CASE Begin(p)
      BY <3>1 DEF LimiterInv, Shapes, Begin
    <3>2. CASE WaitUpload(p) \/ DropReport(p)
      BY <3>2 DEF LimiterInv, Shapes, WaitUpload, DropReport
    <3>3. CASE GiveUp(p)
      BY <3>3 DEF LimiterInv, Shapes, GiveUp
    <3>4. QED  BY <3>1, <3>2, <3>3
  <2>2. QED  BY <1>1, <2>1 DEF LimiterInv, Shapes, Sound
<1>3. Remembered'
  BY <1>1 DEF LimiterInv, Remembered, Remembers, Now, Later
<1>4. /\ \A q \in Callers \ {p} : pc'[q] = pc[q] /\ at'[q] = at[q]
      /\ pc'[p] \in {"chat", "spacing"} => pc[p] \in {"chat", "spacing"} /\ at'[p] = at[p]
  BY DEF LimiterInv, Shapes, Begin, WaitUpload, GiveUp, DropReport
<1>5. Held'
  BY <1>1, <1>4, HeldKeeps
<1>6. QED  BY <1>2, <1>3, <1>5 DEF LimiterInv

LEMMA EnterKeeps ==
  ASSUME LimiterInv, NEW p \in Callers, Enter(p) \/ EnterUpload(p)
  PROVE  LimiterInv'
<1> USE DEF LimiterInv
<1> DEFINE c == at[p]
<1>1. c \in Chats
  BY DEF Shapes
<1>2. Chat(c, Now(c)) /\ ref' = [ref EXCEPT ![p] = Found(c)] /\ at' = at
  BY DEF Enter, EnterUpload
<1>3. \E place \in {"chat", "spacing"} : pc' = [pc EXCEPT ![p] = place]
  BY DEF Enter, EnterUpload
<1>4. UNCHANGED <<spaced, penalty, forgotten>>
  BY DEF Enter, EnterUpload, history
<1>5. Sound(Now(c))
  BY <1>1, NowSound
<1>6. /\ current' \in [Chats -> 0..Objects] /\ made' \in [Chats -> 0..Objects]
      /\ DOMAIN state' = Chats
      /\ \A e \in Chats : DOMAIN state'[e] = 1..Objects
      /\ \A e \in Chats, i \in 1..Objects : Sound(state'[e][i])
      /\ Found(c) \in 1..Objects /\ current'[c] = Found(c) /\ current'[c] # 0
      /\ current[c] # 0 => current'[c] = current[c]
      /\ \A e \in Chats \ {c} : current'[e] = current[e] /\ Now(e)' = Now(e)
  BY <1>1, <1>2, <1>5, ChatFacts
<1>7. \A e \in Chats : e = c => Now(e)' = Now(e)
  <2>1. SUFFICES ASSUME NEW e \in Chats, e = c PROVE Now(e)' = Now(e)
    OBVIOUS
  <2>2. Chat(e, Now(e)) /\ Sound(Now(e))
    BY <1>2, <1>5, <2>1
  <2>3. QED  BY <2>2, ChatFacts
<1>8. Shapes'
  BY <1>2, <1>3, <1>4, <1>6 DEF Shapes, Sound
<1>9. Held'
  <2>1. /\ \A q \in Callers \ {p} : pc'[q] = pc[q] /\ at'[q] = at[q] /\ ref'[q] = ref[q]
        /\ at'[p] = c /\ ref'[p] = current'[c] /\ current'[c] # 0
    BY <1>2, <1>3, <1>6 DEF Shapes
  <2>2. QED  BY <1>4, <1>6, <2>1, HeldKeeps
<1>10. Remembered'
  <2>1. PICK e \in Chats : e = c
    BY <1>1
  <2>2. Remembers(e) => Remembers(e)'
    <3>1. current[e] = 0 => Now(e).touched = 0
      BY FreshSound DEF Now
    <3>2. Now(e)' = Now(e) /\ spaced'[e] = spaced[e] /\ penalty'[e] = penalty[e] /\ spaced[e] \in Int
      BY <1>4, <1>7, <2>1 DEF Shapes
    <3>3. QED  BY <3>1, <3>2, Constants DEF Remembers, Later
  <2>3. QED  BY <1>4, <1>6, <1>8, <2>1, <2>2, ChatKeeps
<1>11. QED  BY <1>8, <1>9, <1>10

\* A step in which a caller changes the state it points to.
LEMMA MineKeeps ==
  ASSUME LimiterInv, NEW p \in Callers, NEW c, at[p] = c, NEW s, Sound(s), SetMine(p, s),
         pc[p] \in {"chat", "spacing"},
         UNCHANGED <<current, made, at, ref, penalty, forgotten>>,
         pc' \in [Callers -> {"idle", "slot", "chat", "upload", "spacing", "calling", "flooded"}],
         spaced' \in [Chats -> Int],
         \A q \in Callers \ {p} : pc'[q] = pc[q],
         \A e \in Chats \ {c} : spaced'[e] = spaced[e],
         s.flood = Mine(p).flood,
         s.touched = Mine(p).touched \/ s.touched = 0,
         \/ s.lastUpload = Mine(p).lastUpload /\ spaced'[c] = spaced[c]
         \/ s.lastUpload = 0 /\ s.touched = 0 /\ spaced'[c] = 0
  PROVE  LimiterInv'
<1> USE DEF LimiterInv
<1>1. /\ DOMAIN state' = Chats
      /\ \A e \in Chats : DOMAIN state'[e] = 1..Objects
      /\ \A e \in Chats, i \in 1..Objects : Sound(state'[e][i])
      /\ c \in Chats
      /\ ref[p] = current[c] /\ current[c] # 0 => Now(c) = Mine(p) /\ Now(c)' = s
      /\ \A e \in Chats \ {c} : Now(e)' = Now(e)
  BY MineFacts
<1>2. Shapes'
  BY <1>1 DEF Shapes, Sound
<1>3. Held'
  BY HeldKeeps
<1>4. Remembered'
  <2>1. CASE c \in forgotten
    <3>1. \A e \in Chats \ {c} : Remembers(e) => Remembers(e)'
      BY <1>1 DEF Remembers, Later
    <3>2. QED  BY <2>1, <3>1 DEF Remembered
  <2>2. CASE c \notin forgotten
    <3>1. Now(c) = Mine(p) /\ Now(c)' = s
      BY <1>1, <2>2 DEF Held
    <3>2. Remembers(c) => Remembers(c)'
      <4>1. spaced[c] \in Int /\ penalty'[c] = penalty[c]
        BY <1>1 DEF Shapes
      <4>2. QED  BY <3>1, <4>1, Constants DEF Remembers, Later
    <3>3. QED  BY <1>1, <1>2, <3>2, ChatKeeps
  <2>3. QED  BY <2>1, <2>2
<1>5. QED  BY <1>2, <1>3, <1>4

LEMMA MineSound ==
  ASSUME Shapes, NEW p \in Callers
  PROVE  Sound(Mine(p)) /\ at[p] \in Chats
BY DEF Shapes, Mine

LEMMA WaitKeeps ==
  ASSUME LimiterInv, NEW p \in Callers, Wait(p)
  PROVE  LimiterInv'
<1>1. Sound(Mine(p)) /\ at[p] \in Chats
  BY MineSound DEF LimiterInv
<1>2. /\ Sound(Trimmed(Mine(p))) /\ Trimmed(Mine(p)).flood = Mine(p).flood
      /\ Trimmed(Mine(p)).lastUpload = Mine(p).lastUpload /\ Trimmed(Mine(p)).touched = Mine(p).touched
  BY <1>1 DEF Trimmed, Sound
<1>3. UNCHANGED <<pc, current, made, at, ref, penalty, spaced, forgotten>> /\ pc[p] = "chat"
      /\ SetMine(p, Trimmed(Mine(p)))
  BY DEF Wait, history
<1>4. /\ pc' \in [Callers -> {"idle", "slot", "chat", "upload", "spacing", "calling", "flooded"}]
      /\ spaced' \in [Chats -> Int]
  BY <1>3 DEF LimiterInv, Shapes
<1>5. QED  BY <1>1, <1>2, <1>3, <1>4, MineKeeps

LEMMA GrantKeeps ==
  ASSUME LimiterInv, NEW p \in Callers, Grant(p)
  PROVE  LimiterInv'
<1> DEFINE s == [Mine(p) EXCEPT !.lastCall = 0, !.touched = 0, !.history = Append(Recent(Mine(p)), 0)]
<1>1. Sound(Mine(p)) /\ at[p] \in Chats
  BY MineSound DEF LimiterInv
<1>2. Sound(s) /\ s.flood = Mine(p).flood /\ s.lastUpload = Mine(p).lastUpload /\ s.touched = 0
  BY <1>1 DEF Sound
<1>3. UNCHANGED <<current, made, at, ref, penalty, spaced, forgotten>> /\ pc[p] = "chat" /\ SetMine(p, s)
  BY DEF Grant
<1>4. /\ pc' \in [Callers -> {"idle", "slot", "chat", "upload", "spacing", "calling", "flooded"}]
      /\ spaced' \in [Chats -> Int]
      /\ \A q \in Callers \ {p} : pc'[q] = pc[q]
  BY <1>3 DEF LimiterInv, Shapes, Grant
<1> HIDE DEF s
<1>5. QED  BY <1>1, <1>2, <1>3, <1>4, MineKeeps

LEMMA GrantUploadKeeps ==
  ASSUME LimiterInv, NEW p \in Callers, GrantUpload(p)
  PROVE  LimiterInv'
<1> DEFINE s == [Mine(p) EXCEPT !.lastUpload = 0, !.touched = 0]
<1>1. Sound(Mine(p)) /\ at[p] \in Chats
  BY MineSound DEF LimiterInv
<1>2. Sound(s) /\ s.flood = Mine(p).flood /\ s.lastUpload = 0 /\ s.touched = 0
  BY <1>1 DEF Sound
<1>3. UNCHANGED <<current, made, at, ref, penalty, forgotten>> /\ pc[p] = "spacing" /\ SetMine(p, s)
  BY DEF GrantUpload
<1>4. /\ pc' \in [Callers -> {"idle", "slot", "chat", "upload", "spacing", "calling", "flooded"}]
      /\ spaced' \in [Chats -> Int] /\ spaced'[at[p]] = 0
      /\ \A e \in Chats \ {at[p]} : spaced'[e] = spaced[e]
      /\ \A q \in Callers \ {p} : pc'[q] = pc[q]
  BY <1>1 DEF LimiterInv, Shapes, GrantUpload
<1> HIDE DEF s
<1>5. QED  BY <1>1, <1>2, <1>3, <1>4, MineKeeps

\* A call ends: the state in the map forgets nothing that is remembered.
LEMMA ReturnKeeps ==
  ASSUME LimiterInv, NEW p \in Callers, Return(p)
  PROVE  LimiterInv'
<1> USE DEF LimiterInv
<1>1. PICK answer \in {"idle", "flooded"} :
        /\ pc[p] = "calling"
        /\ \/ /\ Chat(at[p], Recorded(p, Now(at[p])))
              /\ spaced' = [spaced EXCEPT ![at[p]] = IF p \in Uploaders THEN 0 ELSE @]
           \/ UNCHANGED <<current, made, state, spaced>>
        /\ pc' = [pc EXCEPT ![p] = answer]
        /\ UNCHANGED <<global, at, ref, wake, floods, granted, penalty, forgotten>>
  BY DEF Return
<1>2. PICK c \in Chats : c = at[p]
  BY DEF Shapes
<1>3. /\ pc' \in [Callers -> {"idle", "slot", "chat", "upload", "spacing", "calling", "flooded"}]
      /\ \A q \in Callers \ {p} : pc'[q] = pc[q]
      /\ pc'[p] \notin {"chat", "spacing"}
  BY <1>1 DEF Shapes
<1>4. CASE UNCHANGED <<current, made, state, spaced>>
  <2>1. Shapes'
    BY <1>1, <1>3, <1>4 DEF Shapes, Sound
  <2>2. Held'
    BY <1>1, <1>3, <1>4, HeldKeeps
  <2>3. Remembered'
    BY <1>1, <1>4 DEF Remembered, Remembers, Now, Later
  <2>4. QED  BY <2>1, <2>2, <2>3
<1>5. CASE /\ Chat(at[p], Recorded(p, Now(at[p])))
           /\ spaced' = [spaced EXCEPT ![at[p]] = IF p \in Uploaders THEN 0 ELSE @]
  <2>1. Sound(Now(c))
    BY NowSound
  <2> DEFINE s == Recorded(p, Now(c))
  <2>2. /\ Sound(s) /\ s.flood = Now(c).flood /\ s.touched = 0
        /\ s.lastUpload = IF p \in Uploaders THEN Later(Now(c).lastUpload, 0) ELSE Now(c).lastUpload
    BY <2>1 DEF Recorded, Sound, Later
  <2>3. Chat(c, s)
    BY <1>2, <1>5
  <2> HIDE DEF s
  <2>4. /\ current' \in [Chats -> 0..Objects] /\ made' \in [Chats -> 0..Objects]
        /\ DOMAIN state' = Chats
        /\ \A e \in Chats : DOMAIN state'[e] = 1..Objects
        /\ \A e \in Chats, i \in 1..Objects : Sound(state'[e][i])
        /\ current[c] # 0 => current'[c] = current[c]
        /\ Now(c)' = s
        /\ \A e \in Chats \ {c} : current'[e] = current[e] /\ Now(e)' = Now(e)
    BY <2>2, <2>3, ChatFacts
  <2>5. /\ spaced' \in [Chats -> Int]
        /\ spaced'[c] = IF p \in Uploaders THEN 0 ELSE spaced[c]
        /\ \A e \in Chats \ {c} : spaced'[e] = spaced[e]
    BY <1>2, <1>5 DEF Shapes
  <2>6. Shapes'
    BY <1>1, <1>3, <2>4, <2>5 DEF Shapes, Sound
  <2>7. Held'
    BY <1>1, <1>3, <2>4, HeldKeeps
  <2>8. Remembers(c) => Remembers(c)'
    <3>1. spaced[c] \in Int /\ penalty'[c] = penalty[c]
      BY <1>1 DEF Shapes
    <3>2. Now(c).lastUpload \in Int /\ Now(c).flood \in Int
      BY <2>1 DEF Sound
    <3>3. QED  BY <2>2, <2>4, <2>5, <3>1, <3>2, Constants DEF Remembers, Later
  <2>9. QED  BY <1>1, <2>4, <2>5, <2>6, <2>7, <2>8, ChatKeeps
<1>6. QED  BY <1>1, <1>4, <1>5

\* A flood wait is reported: the longer one stays.
LEMMA NotifyKeeps ==
  ASSUME LimiterInv, NEW p \in Callers, NotifyFloodWait(p)
  PROVE  LimiterInv'
<1> USE DEF LimiterInv
<1>1. PICK t \in Penalties :
        /\ Chat(at[p], [Now(at[p]) EXCEPT !.flood = Later(@, t)])
        /\ penalty' = [penalty EXCEPT ![at[p]] = Later(@, t)]
        /\ pc' = [pc EXCEPT ![p] = "idle"]
        /\ UNCHANGED <<global, at, ref, wake, granted, spaced, forgotten>>
  BY DEF NotifyFloodWait
<1>2. PICK c \in Chats : c = at[p]
  BY DEF Shapes
<1>3. /\ pc' \in [Callers -> {"idle", "slot", "chat", "upload", "spacing", "calling", "flooded"}]
      /\ \A q \in Callers \ {p} : pc'[q] = pc[q]
      /\ pc'[p] \notin {"chat", "spacing"}
  BY <1>1 DEF Shapes
<1>4. Sound(Now(c)) /\ t \in Int
  BY NowSound, Constants
<1> DEFINE s == [Now(c) EXCEPT !.flood = Later(@, t)]
<1>5. /\ Sound(s) /\ s.flood = Later(Now(c).flood, t) /\ s.touched = Now(c).touched
      /\ s.lastUpload = Now(c).lastUpload
  BY <1>4 DEF Sound, Later
<1>6. Chat(c, s)
  BY <1>1, <1>2
<1> HIDE DEF s
<1>7. /\ current' \in [Chats -> 0..Objects] /\ made' \in [Chats -> 0..Objects]
      /\ DOMAIN state' = Chats
      /\ \A e \in Chats : DOMAIN state'[e] = 1..Objects
      /\ \A e \in Chats, i \in 1..Objects : Sound(state'[e][i])
      /\ current[c] # 0 => current'[c] = current[c]
      /\ Now(c)' = s
      /\ \A e \in Chats \ {c} : current'[e] = current[e] /\ Now(e)' = Now(e)
  BY <1>5, <1>6, ChatFacts
<1>8. /\ penalty'[c] = Later(penalty[c], t)
      /\ \A e \in Chats \ {c} : penalty'[e] = penalty[e]
      /\ penalty' \in [Chats -> Int]
  BY <1>1, <1>2, <1>4 DEF Shapes, Later
<1>9. Shapes'
  BY <1>1, <1>3, <1>7, <1>8 DEF Shapes, Sound
<1>10. Held'
  BY <1>1, <1>3, <1>7, HeldKeeps
<1>11. Remembers(c) => Remembers(c)'
  <2>1. spaced[c] \in Int /\ penalty[c] \in Int /\ spaced'[c] = spaced[c]
    BY <1>1 DEF Shapes
  <2>2. Now(c).lastUpload \in Int /\ Now(c).flood \in Int
    BY <1>4 DEF Sound
  <2>3. current[c] = 0 => Now(c).touched = 0
    BY FreshSound DEF Now
  <2>4. QED  BY <1>4, <1>5, <1>7, <1>8, <2>1, <2>2, <2>3, Constants DEF Remembers, Later
<1>12. Remembered'
  BY <1>1, <1>7, <1>8, <1>9, <1>11, ChatKeeps
<1>13. QED  BY <1>9, <1>10, <1>12

\* The sweeper takes a state that is old, and marks the chat if it was in use.
LEMMA SweepKeeps ==
  ASSUME LimiterInv, NEW c \in Chats, Sweep(c)
  PROVE  LimiterInv'
<1> USE DEF LimiterInv
<1>1. /\ current[c] # 0 /\ state[c][current[c]].touched <= -Stale
      /\ current' = [current EXCEPT ![c] = 0]
      /\ forgotten' = IF InUse(c) \/ state[c][current[c]].flood > 0 THEN forgotten \cup {c} ELSE forgotten
      /\ UNCHANGED <<made, state, pc, at, ref, spaced, penalty>>
  BY DEF Sweep, callVars
<1>2. /\ current' \in [Chats -> 0..Objects] /\ current'[c] = 0
      /\ \A e \in Chats \ {c} : current'[e] = current[e]
  BY <1>1, Constants DEF Shapes
<1>3. Shapes'
  <2>1. \A e \in Chats, i \in 1..Objects : Sound(state'[e][i])
    BY <1>1 DEF Shapes
  <2>2. DOMAIN state' = Chats /\ \A e \in Chats : DOMAIN state'[e] = 1..Objects
    BY <1>1 DEF Shapes
  <2>3. QED  BY <1>1, <1>2, <2>1, <2>2 DEF Shapes
<1>4. forgotten \subseteq forgotten' /\ (c \notin forgotten' => ~InUse(c) /\ ~(state[c][current[c]].flood > 0))
  BY <1>1
<1>5. Held'
  <2>1. SUFFICES ASSUME NEW p \in Callers, pc[p] \in {"chat", "spacing"}, at[p] \notin forgotten'
                 PROVE  current'[at[p]] # 0 /\ ref[p] = current'[at[p]]
    BY <1>1 DEF Held
  <2>2. at[p] \in Chats /\ current[at[p]] # 0 /\ ref[p] = current[at[p]]
    BY <1>4, <2>1 DEF Held, Shapes
  <2>3. at[p] # c
    BY <1>4, <2>1, <2>2 DEF InUse
  <2>4. QED  BY <1>2, <2>2, <2>3
<1>6. \A e \in Chats \ forgotten' : Remembers(e)'
  <2>1. SUFFICES ASSUME NEW e \in Chats, e \notin forgotten' PROVE Remembers(e)'
    OBVIOUS
  <2>2. Remembers(e)
    BY <1>4, <2>1 DEF Remembered
  <2>3. CASE e # c
    BY <1>1, <1>2, <2>2, <2>3 DEF Remembers, Now, Later
  <2>4. CASE e = c
    <3>1. Now(e) = state[e][current[e]] /\ Now(e)' = Fresh
      BY <1>1, <1>2, <2>4 DEF Now, Fresh
    <3>2. Now(e).flood \in Int /\ Now(e).touched \in Int /\ penalty[e] \in Int /\ spaced[e] \in Int
      BY NowSound DEF Shapes, Sound
    <3>3. Now(e).touched <= -Stale /\ Now(e).flood <= 0 /\ current[e] # 0 /\ current'[e] = 0
      BY <1>1, <1>2, <1>4, <2>1, <2>4, <3>1, <3>2
    <3>4. penalty'[e] <= Now(e)'.flood
      BY <1>1, <2>2, <3>1, <3>2, <3>3, FreshSound DEF Remembers
    <3>5. Stale >= UploadGap => spaced'[e] <= Now(e)'.lastUpload /\ spaced'[e] <= 0
      BY <1>1, <2>2, <3>1, <3>2, <3>3, FreshSound, Constants DEF Remembers, Later
    <3>6. QED  BY <3>3, <3>4, <3>5 DEF Remembers
  <2>5. QED  BY <2>3, <2>4
<1>7. QED  BY <1>3, <1>5, <1>6 DEF Remembered

\* Time passes for what is remembered as for what is to be remembered.
LEMMA TickKeeps ==
  ASSUME LimiterInv, Tick
  PROVE  LimiterInv'
<1> USE DEF LimiterInv
<1>1. /\ UNCHANGED <<current, made, pc, at, ref, forgotten>>
      /\ spaced' = [c \in Chats |-> Older(spaced[c], -UploadGap)]
      /\ penalty' = [c \in Chats |-> Older(penalty[c], 0)]
  BY DEF Tick
<1>2. /\ DOMAIN state' = Chats /\ \A c \in Chats : DOMAIN state'[c] = 1..Objects
      /\ \A c \in Chats, i \in 1..Objects :
           /\ DOMAIN state'[c][i] = {"lastCall", "lastUpload", "flood", "touched", "history"}
           /\ state'[c][i].lastUpload = Older(state[c][i].lastUpload, -UploadGap)
           /\ state'[c][i].flood = Older(state[c][i].flood, 0)
           /\ state'[c][i].touched = Older(state[c][i].touched, -Stale)
  BY DEF Tick
<1>3. UploadGap \in Int /\ Stale \in Int
  BY Constants
<1>4. \A c \in Chats, i \in 1..Objects : Sound(state'[c][i])
  <2>1. SUFFICES ASSUME NEW c \in Chats, NEW i \in 1..Objects PROVE Sound(state'[c][i])
    OBVIOUS
  <2>2. Sound(state[c][i])
    BY DEF Shapes
  <2>3. \A t, n \in Int : Older(t, n) \in Int
    BY DEF Older, Later
  <2>4. /\ state'[c][i].lastUpload = Older(state[c][i].lastUpload, -UploadGap)
        /\ state'[c][i].flood = Older(state[c][i].flood, 0)
        /\ state'[c][i].touched = Older(state[c][i].touched, -Stale)
        /\ DOMAIN state'[c][i] = {"lastCall", "lastUpload", "flood", "touched", "history"}
    BY <1>2
  <2>5. -UploadGap \in Int /\ -Stale \in Int
    BY <1>3
  <2>6. /\ state[c][i].lastUpload \in Int /\ state[c][i].flood \in Int /\ state[c][i].touched \in Int
        /\ 0 \in Int
    BY <2>2 DEF Sound
  <2>7. state'[c][i].lastUpload \in Int
    BY <2>3, <2>4, <2>5, <2>6
  <2>8. state'[c][i].flood \in Int
    BY <2>3, <2>4, <2>6
  <2>9. state'[c][i].touched \in Int
    BY <2>3, <2>4, <2>5, <2>6
  <2>10. QED  BY <2>4, <2>7, <2>8, <2>9 DEF Sound
<1>5. spaced' \in [Chats -> Int] /\ penalty' \in [Chats -> Int]
  BY <1>1, <1>3 DEF Shapes, Older, Later
<1>6. Shapes'
  BY <1>1, <1>2, <1>4, <1>5 DEF Shapes
<1>7. Held'
  BY <1>1 DEF Held
<1>8. \A c \in Chats \ forgotten : Remembers(c)'
  <2>1. SUFFICES ASSUME NEW c \in Chats, Remembers(c) PROVE Remembers(c)'
    BY DEF Remembered
  <2>2. spaced[c] \in Int /\ penalty[c] \in Int /\ -UploadGap \in Int /\ -Stale \in Int /\ 0 \in Int
    BY Constants DEF Shapes
  <2>3. spaced'[c] = Older(spaced[c], -UploadGap) /\ penalty'[c] = Older(penalty[c], 0)
    BY <1>1
  <2>4. CASE current[c] = 0
    <3>1. Now(c) = Fresh /\ Now(c)' = Fresh /\ current'[c] = 0
      BY <1>1, <2>4 DEF Now, Fresh
    <3>2. penalty'[c] <= 0
      BY <2>1, <2>2, <2>3, <3>1, FreshSound DEF Remembers, Older, Later
    <3>3. Stale >= UploadGap => spaced'[c] <= -UploadGap /\ spaced'[c] <= 0
      BY <2>1, <2>2, <2>3, <3>1, FreshSound, Constants DEF Remembers, Older, Later
    <3>4. QED  BY <3>1, <3>2, <3>3, FreshSound DEF Remembers
  <2>5. CASE current[c] # 0
    <3>1. current[c] \in 1..Objects /\ current'[c] = current[c]
      BY <1>1, <2>5, Constants DEF Shapes
    <3>2. /\ Now(c)'.lastUpload = Older(Now(c).lastUpload, -UploadGap)
          /\ Now(c)'.flood = Older(Now(c).flood, 0)
          /\ Now(c)'.touched = Older(Now(c).touched, -Stale)
      BY <1>2, <2>5, <3>1 DEF Now
    <3>3. Now(c).lastUpload \in Int /\ Now(c).flood \in Int /\ Now(c).touched \in Int
      BY NowSound DEF Sound
    <3>4. penalty'[c] <= Now(c)'.flood
      BY <2>1, <2>2, <2>3, <3>2, <3>3 DEF Remembers, Older, Later
    <3>5. Stale >= UploadGap =>
            /\ spaced'[c] <= Now(c)'.lastUpload /\ spaced'[c] <= 0
            /\ spaced'[c] <= Later(Now(c)'.touched, -UploadGap)
      BY <2>1, <2>2, <2>3, <2>5, <3>2, <3>3, Constants DEF Remembers, Older, Later
    <3>6. QED  BY <3>4, <3>5 DEF Remembers
  <2>6. QED  BY <2>4, <2>5
<1>9. QED  BY <1>1, <1>6, <1>7, <1>8 DEF Remembered

LEMMA NextLimiter == LimiterInv /\ [Next]_vars => LimiterInv'
<1> SUFFICES ASSUME LimiterInv, [Next]_vars PROVE LimiterInv'
  OBVIOUS
<1>1. CASE UNCHANGED vars
  <2>1. UNCHANGED <<current, made, state, pc, at, ref, penalty, spaced, forgotten>>
    BY <1>1 DEF vars, callVars, history
  <2>2. QED  BY <2>1 DEF LimiterInv, Shapes, Sound, Held, Remembered, Remembers, Now, Later
<1>2. ASSUME NEW p \in Callers, Acquire(p) PROVE LimiterInv'
  BY <1>2, BeginKeeps, EnterKeeps, WaitKeeps, GrantKeeps DEF Acquire
<1>3. ASSUME NEW p \in Callers, AcquireUpload(p) \/ GiveUp(p) PROVE LimiterInv'
  BY <1>3, BeginKeeps, EnterKeeps, GrantUploadKeeps DEF AcquireUpload
<1>4. ASSUME NEW p \in Callers, Finish(p) PROVE LimiterInv'
  BY <1>4, BeginKeeps, ReturnKeeps, NotifyKeeps DEF Finish
<1>5. ASSUME NEW c \in Chats, Sweep(c) PROVE LimiterInv'
  BY <1>5, SweepKeeps
<1>6. CASE Tick
  BY <1>6, TickKeeps
<1>7. QED  BY <1>1, <1>2, <1>3, <1>4, <1>5, <1>6 DEF Next

\* Only Grant lets a call in, and by the state of its chat.
LEMMA LetInGrants ==
  ASSUME LimiterInv, Next, NEW p \in Callers, NEW c \in Chats \ forgotten, LetIn(p, c)
  PROVE  Grant(p) /\ Mine(p) = Now(c)
<1>1. pc[p] = "chat" /\ wake[p] = 0 /\ pc'[p] # "chat" /\ at[p] = c
  BY DEF LetIn
<1>2. Grant(p)
  <2>1. ASSUME NEW q \in Callers, q # p,
               Acquire(q) \/ AcquireUpload(q) \/ GiveUp(q) \/ Finish(q)
        PROVE  FALSE
    <3>1. \E place : pc' = [pc EXCEPT ![q] = place] \/ pc' = pc
      BY <2>1 DEF Acquire, AcquireUpload, GiveUp, Finish, Begin, Enter, Wait, Grant, EnterUpload,
                  WaitUpload, GrantUpload, Return, NotifyFloodWait, DropReport
    <3>2. QED  BY <1>1, <2>1, <3>1 DEF LimiterInv, Shapes
  <2>2. ASSUME NEW e \in Chats, Sweep(e) PROVE FALSE
    BY <1>1, <2>2 DEF Sweep, callVars
  <2>3. CASE Tick
    BY <1>1, <2>3 DEF Tick
  <2>4. CASE Acquire(p) \/ AcquireUpload(p) \/ GiveUp(p) \/ Finish(p)
    BY <1>1, <2>4 DEF Acquire, AcquireUpload, GiveUp, Finish, Begin, Enter, Wait, EnterUpload,
                      WaitUpload, GrantUpload, Return, NotifyFloodWait, DropReport
  <2>5. QED  BY <2>1, <2>2, <2>3, <2>4 DEF Next
<1>3. Mine(p) = Now(c)
  BY <1>1 DEF LimiterInv, Held, Mine, Now
<1>4. QED  BY <1>2, <1>3

-----------------------------------------------------------------------------
(* The window of a chat: what its state remembers of the calls let in *)

States == [lastCall : Int, lastUpload : Int, flood : Int, touched : Int, history : Seq(Int)]

Last(h) == h[Len(h)]

\* What every state remembers: at most one call more than the window takes, and
\* then the first of them is leaving the window.
Good(s) ==
  /\ s \in States
  /\ Len(s.history) <= MaxCalls + 1
  /\ \A k \in 1..Len(s.history) : s.history[k] <= 0
  /\ s.history # <<>> => Last(s.history) <= s.lastCall
  /\ Len(s.history) = MaxCalls + 1 =>
       s.history[1] <= -Window /\ (Last(s.history) < 0 => s.history[1] < -Window)

\* A call that no comparison can still tell from an older one.
Old(t) == t <= -Window /\ t <= -Gap

\* The ends of h and g are the same, and what h has lost has left the window.
Matches(h, g) ==
  \A j \in 1..Len(g) : LET k == j + Len(h) - Len(g) IN
    IF k >= 1 THEN h[k] = g[j] ELSE g[j] <= -Window

\* The state s remembers the calls g.
Follows(s, g) ==
  /\ \A j \in 1..Len(g) : g[j] <= 0 /\ (g[j] <= s.touched \/ Old(g[j]))
  /\ Matches(s.history, g)
  /\ g # <<>> => Last(g) <= s.lastCall \/ Last(g) <= -Gap

Typed ==
  /\ global \in Int /\ wake \in [Callers -> Nat] /\ floods \in 0..MaxFloods
  /\ state \in [Chats -> [1..Objects -> States]]
  /\ granted \in [Chats -> Seq(Int)] /\ forgotten \subseteq Chats

AllGood == \A c \in Chats, i \in 1..Objects : Good(state[c][i])

Counted == \A c \in Chats : Len(granted[c]) <= MaxCalls
Followed == \A c \in Chats \ forgotten : Follows(Now(c), granted[c])

PaceInv == LimiterInv /\ Typed /\ AllGood /\ Counted /\ Followed

LEMMA Numbers ==
  /\ Slot \in Nat /\ Gap \in Nat /\ UploadGap \in Nat /\ Window \in Nat /\ Stale \in Nat
  /\ MaxCalls \in Nat \ {0} /\ MaxFloods \in Nat /\ Objects \in Nat \ {0} /\ Penalties \subseteq Nat
BY LimiterAssumption

LEMMA PaceType == PaceInv => TypeOK
BY DEF PaceInv, TypeOK, Typed, States, AllGood, Good, LimiterInv, Shapes

LEMMA LeastNumber ==
  ASSUME NEW T, T \subseteq Nat, T # {}
  PROVE  \E m \in T : \A n \in T : ~(n < m)
<1> DEFINE R == OpToRel(<, Nat)
<1>1. IsWellFoundedOn(R, Nat)
  BY NatLessThanWellFounded
<1>2. \A m, n \in Nat : n < m => <<n, m>> \in R
  BY DEF OpToRel
<1> HIDE DEF R
<1>3. PICK m \in T : \A n \in T : <<n, m>> \notin R
  BY <1>1, WFMin
<1>4. QED  BY <1>2, <1>3

\* Where the loop over the history stops (pacing.go:181-188).
LEMMA ExpiredFacts ==
  ASSUME NEW h \in Seq(Int)
  PROVE  /\ Expired(h) \in 0..Len(h)
         /\ \A k \in 1..Expired(h) : h[k] < -Window
         /\ Expired(h) < Len(h) => h[Expired(h) + 1] >= -Window
<1> DEFINE T == {n \in Nat : n <= Len(h) /\ (n < Len(h) => h[n + 1] >= -Window)}
<1>1. Len(h) \in Nat /\ \A k \in 1..Len(h) : h[k] \in Int
  BY LenProperties, ElementOfSeq
<1>2. Len(h) \in T
  BY <1>1
<1>3. PICK m \in T : \A n \in T : ~(n < m)
  BY <1>2, LeastNumber
<1>4. m \in 0..Len(h) /\ (m < Len(h) => h[m + 1] >= -Window)
  BY <1>1
<1>5. \A k \in 1..m : h[k] < -Window
  <2>1. SUFFICES ASSUME NEW k \in 1..m, ~(h[k] < -Window) PROVE FALSE
    OBVIOUS
  <2>2. k - 1 \in Nat /\ k - 1 < m /\ k - 1 + 1 = k /\ k - 1 < Len(h) /\ k \in 1..Len(h)
    BY <1>1, <1>4
  <2>3. h[k] \in Int /\ -Window \in Int
    BY <1>1, <2>2, Numbers
  <2>4. h[k] >= -Window
    BY <2>1, <2>3
  <2>5. k - 1 \in T
    BY <1>1, <2>2, <2>4
  <2>6. QED  BY <1>3, <2>2, <2>5
<1> HIDE DEF T
<1>6. \E n \in 0..Len(h) : (\A k \in 1..n : h[k] < -Window) /\ (n < Len(h) => h[n + 1] >= -Window)
  BY <1>4, <1>5
<1>7. QED  BY <1>6 DEF Expired

LEMMA RecentFacts ==
  ASSUME NEW s, s.history \in Seq(Int)
  PROVE  /\ Recent(s) \in Seq(Int)
         /\ Len(Recent(s)) = Len(s.history) - Expired(s.history)
         /\ \A k \in 1..Len(Recent(s)) : Recent(s)[k] = s.history[k + Expired(s.history)]
<1> DEFINE n == Expired(s.history)
<1>1. n \in 0..Len(s.history) /\ Len(s.history) \in Nat
  BY ExpiredFacts, LenProperties
<1> HIDE DEF n
<1>2. /\ SubSeq(s.history, n + 1, Len(s.history)) \in Seq(Int)
      /\ Len(SubSeq(s.history, n + 1, Len(s.history))) = Len(s.history) - n
      /\ \A k \in 1..(Len(s.history) - n) : SubSeq(s.history, n + 1, Len(s.history))[k] = s.history[k + n]
  <2>1. n + 1 \in 1..Len(s.history)+1 /\ Len(s.history) \in n..Len(s.history)
    BY <1>1
  <2>2. SubSeq(s.history, n + 1, Len(s.history)) \in Seq(Int)
        /\ Len(SubSeq(s.history, n + 1, Len(s.history))) =
            (IF n + 1 <= Len(s.history) THEN Len(s.history) - (n + 1) + 1 ELSE 0)
        /\ \A k \in 1..(Len(s.history) - (n + 1) + 1) :
             SubSeq(s.history, n + 1, Len(s.history))[k] = s.history[(n + 1) + k - 1]
    BY <1>1, <2>1, SubSeqProperties
  <2>3. Len(s.history) - (n + 1) + 1 = Len(s.history) - n /\ (n + 1 <= Len(s.history) \/ Len(s.history) - n = 0)
    BY <1>1
  <2>4. \A k \in 1..(Len(s.history) - n) : (n + 1) + k - 1 = k + n
    BY <1>1
  <2>5. QED  BY <2>2, <2>3, <2>4
<1>3. QED  BY <1>2 DEF Recent, n

\* A history that is trimmed, or trimmed and added to, stays good.
LEMMA GoodFacts ==
  ASSUME NEW s, Good(s)
  PROVE  /\ Sound(s) /\ s.history \in Seq(Int) /\ Len(s.history) \in 0..(MaxCalls + 1)
         /\ s.lastCall \in Int /\ s.lastUpload \in Int /\ s.flood \in Int /\ s.touched \in Int
         /\ \A k \in 1..Len(s.history) : s.history[k] \in Int
         /\ s.history # <<>> => Len(s.history) > 0 /\ Last(s.history) \in Int
<1>1. /\ Sound(s) /\ s.history \in Seq(Int)
      /\ s.lastCall \in Int /\ s.lastUpload \in Int /\ s.flood \in Int /\ s.touched \in Int
  BY DEF Good, States, Sound
<1>2. Len(s.history) \in Nat /\ \A k \in 1..Len(s.history) : s.history[k] \in Int
  BY <1>1, LenProperties, ElementOfSeq
<1>3. s.history # <<>> => Len(s.history) > 0
  BY <1>1, <1>2, EmptySeq
<1>4. Len(s.history) \in 0..(MaxCalls + 1)
  BY <1>2, Numbers DEF Good
<1>5. QED  BY <1>1, <1>2, <1>3, <1>4 DEF Last

LEMMA FreshGood == Good(Fresh)
<1>1. <<>> \in Seq(Int) /\ Len(<<>>) = 0
  OBVIOUS
<1>2. Fresh \in States
  BY <1>1, Numbers DEF Fresh, States
<1>3. Fresh.history = <<>>
  BY DEF Fresh
<1>4. QED  BY <1>1, <1>2, <1>3, Numbers DEF Good

\* A round of the loop cuts what has left the window.
LEMMA RecentGood ==
  ASSUME NEW s, Good(s)
  PROVE  LET r == Recent(s) IN
         /\ Good([s EXCEPT !.history = r])
         /\ r \in Seq(Int) /\ Len(r) \in 0..(MaxCalls + 1)
         /\ r # <<>> => Len(r) > 0 /\ Last(r) <= s.lastCall
<1> DEFINE h == s.history
           n == Expired(s.history)
           r == Recent(s)
<1>1. /\ h \in Seq(Int) /\ Len(h) \in 0..(MaxCalls + 1) /\ \A k \in 1..Len(h) : h[k] \in Int
  BY GoodFacts
<1>2. n \in 0..Len(h)
  BY <1>1, ExpiredFacts
<1>3. /\ r \in Seq(Int) /\ Len(r) = Len(h) - n
      /\ \A k \in 1..Len(r) : r[k] = h[k + n]
  BY <1>1, RecentFacts
<1> HIDE DEF n, r
<1>4. MaxCalls + 1 \in Nat
  BY Numbers
<1>5. Len(r) \in 0..(MaxCalls + 1)
  BY <1>1, <1>2, <1>3, <1>4
<1>6. \A k \in 1..Len(r) : r[k] <= 0
  <2>1. SUFFICES ASSUME NEW k \in 1..Len(r) PROVE r[k] <= 0
    OBVIOUS
  <2>2. k + n \in 1..Len(h)
    BY <1>1, <1>2, <1>3
  <2>3. QED  BY <1>3, <2>2 DEF Good
<1>7. r # <<>> => Len(r) > 0 /\ Last(r) <= s.lastCall
  <2>1. SUFFICES ASSUME r # <<>> PROVE Len(r) > 0 /\ Last(r) <= s.lastCall
    OBVIOUS
  <2>2. Len(r) > 0
    BY <1>3, <1>5, <2>1, EmptySeq
  <2>3. Len(r) \in 1..Len(r) /\ Len(r) + n = Len(h) /\ h # <<>>
    BY <1>1, <1>2, <1>3, <2>2
  <2>4. Last(r) = Last(h)
    BY <1>3, <2>3 DEF Last
  <2>5. QED  BY <2>2, <2>3, <2>4 DEF Good
<1>8. Len(r) = MaxCalls + 1 => r[1] <= -Window /\ (Last(r) < 0 => r[1] < -Window)
  <2>1. SUFFICES ASSUME Len(r) = MaxCalls + 1 PROVE r[1] <= -Window /\ (Last(r) < 0 => r[1] < -Window)
    OBVIOUS
  <2>2. n = 0 /\ Len(h) = MaxCalls + 1 /\ 1 \in 1..Len(r) /\ Len(r) \in 1..Len(r)
    BY <1>1, <1>2, <1>3, <1>4, <2>1, Numbers
  <2>3. r[1] = h[1] /\ Last(r) = Last(h)
    BY <1>3, <2>1, <2>2 DEF Last
  <2>4. QED  BY <2>2, <2>3 DEF Good
<1>9. [s EXCEPT !.history = r] \in States /\ [s EXCEPT !.history = r].history = r
      /\ [s EXCEPT !.history = r].lastCall = s.lastCall
  BY <1>3 DEF Good, States
<1>10. Good([s EXCEPT !.history = r])
  BY <1>5, <1>6, <1>7, <1>8, <1>9 DEF Good
<1>11. QED  BY <1>3, <1>5, <1>7, <1>10 DEF r

\* When a call may go, the gap is over and the window has a place.
LEMMA MayGo ==
  ASSUME NEW s, Good(s), Delay(s) = 0, Gap > 0
  PROVE  LET r == Recent(s) IN
         /\ ~(s.flood > 0) /\ s.lastCall <= -Gap
         /\ Len(r) \in 0..MaxCalls
         /\ Len(r) = MaxCalls => r[1] <= -Window
<1> DEFINE h == s.history
           n == Expired(s.history)
           r == Recent(s)
<1>1. /\ h \in Seq(Int) /\ Len(h) \in 0..(MaxCalls + 1) /\ \A k \in 1..Len(h) : h[k] \in Int
      /\ s.flood \in Int /\ s.lastCall \in Int
      /\ h # <<>> => Len(h) > 0 /\ Last(h) \in Int
  BY GoodFacts
<1>2. /\ n \in 0..Len(h)
      /\ n < Len(h) => h[n + 1] >= -Window
  BY <1>1, ExpiredFacts
<1>3. /\ r \in Seq(Int) /\ Len(r) = Len(h) - n
      /\ \A k \in 1..Len(r) : r[k] = h[k + n]
  BY <1>1, RecentFacts
<1> HIDE DEF n
<1>4. ~(s.flood > 0)
  BY <1>1 DEF Delay
<1>5. ~(s.lastCall + Gap > 0) /\ s.lastCall <= -Gap
  BY <1>1, <1>4, Numbers DEF Delay
<1>6. Len(r) >= MaxCalls => Later(0, r[1] + Window) = 0
  BY <1>4, <1>5 DEF Delay
<1> HIDE DEF r
<1>7. Len(r) \in 0..MaxCalls
  <2>1. SUFFICES ASSUME Len(h) = MaxCalls + 1 PROVE n >= 1
    BY <1>1, <1>2, <1>3, Numbers
  <2>2. h # <<>> /\ Last(h) <= s.lastCall /\ Last(h) < 0
    <3>1. h # <<>>
      BY <2>1, Numbers
    <3>2. Last(h) <= s.lastCall /\ Last(h) \in Int
      BY <1>1, <3>1 DEF Good
    <3>3. QED  BY <1>1, <1>5, <3>1, <3>2, Numbers
  <2>3. h[1] < -Window
    BY <2>1, <2>2 DEF Good
  <2>4. 0 < Len(h) /\ h[1] \in Int
    BY <1>1, <2>1, Numbers
  <2>5. n # 0
    BY <1>2, <2>3, <2>4, Numbers
  <2>6. QED  BY <1>2, <2>5
<1>8. Len(r) = MaxCalls => r[1] <= -Window
  <2>1. SUFFICES ASSUME Len(r) = MaxCalls PROVE r[1] <= -Window
    OBVIOUS
  <2>2. 1 \in 1..Len(r)
    BY <2>1, Numbers
  <2>3. r[1] \in Int
    BY <1>3, <2>2, ElementOfSeq
  <2>4. Later(0, r[1] + Window) = 0
    BY <1>6, <2>1, Numbers
  <2>5. QED  BY <2>3, <2>4, Numbers DEF Later
<1>9. QED  BY <1>4, <1>5, <1>7, <1>8 DEF r

LEMMA GrantGood ==
  ASSUME NEW s, Good(s), Delay(s) = 0, Gap > 0
  PROVE  Good([s EXCEPT !.lastCall = 0, !.touched = 0, !.history = Append(Recent(s), 0)])
<1> DEFINE r == Recent(s)
           a == Append(r, 0)
           t == [s EXCEPT !.lastCall = 0, !.touched = 0, !.history = a]
<1>1. /\ r \in Seq(Int) /\ Len(r) \in 0..MaxCalls
      /\ Len(r) = MaxCalls => r[1] <= -Window
  BY RecentGood, MayGo
<1>2. Good([s EXCEPT !.history = r])
  BY RecentGood
<1>3. \A k \in 1..Len(r) : r[k] <= 0
  BY <1>2 DEF Good, States
<1> HIDE DEF r
<1>4. /\ a \in Seq(Int) /\ Len(a) = Len(r) + 1
      /\ \A k \in 1..Len(r) : a[k] = r[k]
      /\ a[Len(r) + 1] = 0
  BY <1>1, AppendProperties
<1> HIDE DEF a
<1>5. t \in States /\ t.history = a /\ t.lastCall = 0
  <2>1. s \in States
    BY DEF Good
  <2> DEFINE u == [s EXCEPT !.lastCall = 0]
             v == [u EXCEPT !.touched = 0]
  <2>2. v \in States
    <3>1. u \in States
      BY <2>1 DEF States
    <3> HIDE DEF u
    <3>2. QED  BY <3>1 DEF States
  <2>3. t = [v EXCEPT !.history = a]
    OBVIOUS
  <2>4. v.lastCall = 0
    BY <2>1 DEF States
  <2> HIDE DEF v, t
  <2>5. QED  BY <1>4, <2>2, <2>3, <2>4 DEF States
<1>6. Len(a) <= MaxCalls + 1 /\ Len(r) \in Nat /\ MaxCalls \in Nat \ {0}
  BY <1>1, <1>4, Numbers
<1>7. \A k \in 1..Len(a) : a[k] <= 0
  <2>1. SUFFICES ASSUME NEW k \in 1..Len(a) PROVE a[k] <= 0
    OBVIOUS
  <2>2. k \in 1..Len(r) \/ k = Len(r) + 1
    BY <1>4, <1>6
  <2>3. CASE k \in 1..Len(r)
    BY <1>3, <1>4, <2>3
  <2>4. QED  BY <1>4, <2>2, <2>3
<1>8. Last(a) = 0
  BY <1>4 DEF Last
<1>9. Len(a) = MaxCalls + 1 => a[1] <= -Window
  <2>1. SUFFICES ASSUME Len(r) = MaxCalls PROVE a[1] <= -Window
    BY <1>4, <1>6
  <2>2. 1 \in 1..Len(r)
    BY <1>6, <2>1
  <2>3. QED  BY <1>1, <1>4, <2>1, <2>2
<1> HIDE DEF t
<1>10. Good(t)
  BY <1>5, <1>6, <1>7, <1>8, <1>9 DEF Good
<1>11. QED  BY <1>10 DEF t, a, r

\* Other changes of a state leave its history alone.
LEMMA TouchGood ==
  ASSUME NEW s, Good(s), NEW t \in States,
         t.history = s.history, t.lastCall >= s.lastCall
  PROVE  Good(t)
<1>1. s.lastCall \in Int /\ t.lastCall \in Int /\ (s.history # <<>> => Last(s.history) \in Int)
  BY GoodFacts DEF States
<1>2. QED  BY <1>1 DEF Good

-----------------------------------------------------------------------------
(* What a state remembers of the calls let in *)

LEMMA CallFacts ==
  ASSUME NEW g \in Seq(Int)
  PROVE  /\ Len(g) \in Nat /\ \A j \in 1..Len(g) : g[j] \in Int
         /\ g # <<>> => Len(g) > 0 /\ Last(g) \in Int
<1>1. Len(g) \in Nat /\ \A j \in 1..Len(g) : g[j] \in Int
  BY LenProperties, ElementOfSeq
<1>2. g # <<>> => Len(g) > 0
  BY <1>1, EmptySeq
<1>3. QED  BY <1>1, <1>2 DEF Last

\* A state made anew remembers nothing, and need not if all calls are old.
LEMMA FreshFollows ==
  ASSUME NEW g \in Seq(Int), \A j \in 1..Len(g) : g[j] <= 0 /\ Old(g[j])
  PROVE  Follows(Fresh, g)
<1>1. Len(g) \in Nat /\ (g # <<>> => Len(g) \in 1..Len(g))
  BY CallFacts
<1>2. Fresh.history = <<>> /\ Len(<<>>) = 0
  BY DEF Fresh
<1>3. Matches(Fresh.history, g)
  BY <1>1, <1>2 DEF Matches, Old
<1>4. g # <<>> => Last(g) <= -Gap
  BY <1>1 DEF Last, Old
<1>5. QED  BY <1>3, <1>4 DEF Follows

\* Trimming loses only calls that have left the window.
LEMMA RecentFollows ==
  ASSUME NEW s, Good(s), NEW g \in Seq(Int), Matches(s.history, g)
  PROVE  Matches(Recent(s), g)
<1> DEFINE h == s.history
           n == Expired(s.history)
           r == Recent(s)
<1>1. h \in Seq(Int) /\ Len(h) \in Nat /\ Len(g) \in Nat /\ \A j \in 1..Len(g) : g[j] \in Int
  BY GoodFacts, CallFacts
<1>2. n \in 0..Len(h) /\ \A k \in 1..n : h[k] < -Window
  BY <1>1, ExpiredFacts
<1>3. /\ Len(r) = Len(h) - n
      /\ \A k \in 1..Len(r) : r[k] = h[k + n]
  BY <1>1, RecentFacts
<1> HIDE DEF n, r
<1>4. SUFFICES ASSUME NEW j \in 1..Len(g)
               PROVE  LET k == j + Len(r) - Len(g) IN IF k >= 1 THEN r[k] = g[j] ELSE g[j] <= -Window
  BY DEF Matches, r
<1> DEFINE k == j + Len(r) - Len(g)
           i == j + Len(h) - Len(g)
<1>5. k \in Int /\ i \in Int /\ i = k + n /\ k <= Len(r) /\ i <= Len(h)
  BY <1>1, <1>2, <1>3
<1>6. IF i >= 1 THEN h[i] = g[j] ELSE g[j] <= -Window
  BY DEF Matches
<1> HIDE DEF k, i
<1>7. CASE k >= 1
  <2>1. k \in 1..Len(r) /\ i >= 1
    BY <1>1, <1>2, <1>3, <1>5, <1>7
  <2>2. r[k] = g[j]
    BY <1>3, <1>5, <1>6, <2>1
  <2>3. QED  BY <1>7, <2>2 DEF k
<1>8. CASE ~(k >= 1)
  <2>1. g[j] <= -Window
    <3>1. CASE i >= 1
      <4>1. i \in 1..n
        BY <1>2, <1>5, <1>8, <3>1
      <4>2. h[i] < -Window /\ h[i] = g[j]
        BY <1>2, <1>6, <3>1, <4>1
      <4>3. QED  BY <1>1, <4>2, Numbers
    <3>2. QED  BY <1>6, <3>1
  <2>2. QED  BY <1>8, <2>1 DEF k
<1>9. QED  BY <1>7, <1>8

\* A call is let in: it is added to both, and the oldest may be dropped.
LEMMA GrantFollows ==
  ASSUME NEW s, Good(s), NEW g \in Seq(Int), Len(g) <= MaxCalls, Follows(s, g), NEW t,
         t.history = Append(Recent(s), 0), t.lastCall = 0, t.touched = 0
  PROVE  LET f == Append(IF Len(g) < MaxCalls THEN g ELSE Tail(g), 0) IN
         f \in Seq(Int) /\ Len(f) <= MaxCalls /\ Follows(t, f)
<1> DEFINE b == IF Len(g) < MaxCalls THEN g ELSE Tail(g)
           f == Append(b, 0)
           d == IF Len(g) < MaxCalls THEN 0 ELSE 1
           r == Recent(s)
           a == t.history
<1>1. Len(g) \in Nat /\ MaxCalls \in Nat \ {0} /\ r \in Seq(Int) /\ Len(r) \in Nat
  BY CallFacts, RecentGood, Numbers
<1>2. Matches(r, g)
  BY RecentFollows DEF Follows
<1> HIDE DEF r
<1>3. /\ d \in 0..1 /\ b \in Seq(Int) /\ Len(b) = Len(g) - d /\ Len(b) < MaxCalls
      /\ \A j \in 1..Len(b) : b[j] = g[j + d]
  <2>1. CASE Len(g) < MaxCalls
    BY <1>1, <2>1
  <2>2. CASE ~(Len(g) < MaxCalls)
    <3>1. Len(g) = MaxCalls /\ g # <<>>
      BY <1>1, <2>2
    <3>2. /\ Tail(g) \in Seq(Int) /\ Len(Tail(g)) = Len(g) - 1
          /\ \A j \in 1..Len(Tail(g)) : Tail(g)[j] = g[j + 1]
      BY <3>1, HeadTailProperties
    <3>3. b = Tail(g) /\ d = 1
      BY <2>2
    <3>4. QED  BY <1>1, <3>1, <3>2, <3>3
  <2>3. QED  BY <2>1, <2>2
<1> HIDE DEF b, d
<1>4. Len(b) \in Nat
  BY <1>3, LenProperties
<1>5. /\ f \in Seq(Int) /\ Len(f) = Len(b) + 1
      /\ \A j \in 1..Len(b) : f[j] = b[j]
      /\ f[Len(b) + 1] = 0
  BY <1>3, AppendProperties
<1>6. /\ Len(a) = Len(r) + 1
      /\ \A k \in 1..Len(r) : a[k] = r[k]
      /\ a[Len(r) + 1] = 0
  BY <1>1, AppendProperties DEF r
<1> HIDE DEF a, f
<1>7. Len(f) <= MaxCalls
  BY <1>1, <1>3, <1>4, <1>5
<1>8. \A j \in 1..Len(f) : f[j] <= 0
  <2>1. SUFFICES ASSUME NEW j \in 1..Len(f) PROVE f[j] <= 0
    OBVIOUS
  <2>2. CASE j \in 1..Len(b)
    <3>1. j + d \in 1..Len(g)
      BY <1>1, <1>3, <1>4, <2>2
    <3>2. f[j] = g[j + d]
      BY <1>3, <1>5, <2>2
    <3>3. QED  BY <3>1, <3>2 DEF Follows
  <2>3. CASE j = Len(b) + 1
    BY <1>5, <2>3
  <2>4. QED  BY <1>4, <1>5, <2>2, <2>3
<1>9. Matches(a, f)
  <2>1. SUFFICES ASSUME NEW j \in 1..Len(f)
                 PROVE  LET k == j + Len(a) - Len(f) IN
                          IF k >= 1 THEN a[k] = f[j] ELSE f[j] <= -Window
    BY DEF Matches
  <2> DEFINE k == j + Len(a) - Len(f)
  <2>2. k \in Int /\ k = j + Len(r) - Len(b)
    <3>1. Len(a) = Len(r) + 1 /\ Len(f) = Len(b) + 1
      BY <1>5, <1>6
    <3>2. Len(r) \in Nat /\ Len(b) \in Nat /\ j \in Int
      BY <1>1, <1>4, <3>1
    <3>3. QED  BY <3>1, <3>2
  <2>3. CASE j \in 1..Len(b)
    <3> HIDE DEF k
    <3>1. j + d \in 1..Len(g) /\ k = (j + d) + Len(r) - Len(g) /\ k <= Len(r)
      <4>1. Len(b) = Len(g) - d /\ Len(g) \in Nat /\ Len(r) \in Nat /\ d \in 0..1
        BY <1>1, <1>3
      <4>2. QED  BY <2>2, <2>3, <4>1
    <3>2. IF k >= 1 THEN r[k] = g[j + d] ELSE g[j + d] <= -Window
      BY <1>2, <3>1 DEF Matches
    <3>3. f[j] = g[j + d]
      BY <1>3, <1>5, <2>3
    <3>4. k >= 1 => k \in 1..Len(r)
      BY <1>1, <2>2, <3>1
    <3>5. IF k >= 1 THEN a[k] = f[j] ELSE f[j] <= -Window
      BY <1>6, <3>2, <3>3, <3>4
    <3>6. QED  BY <3>5 DEF k
  <2>4. CASE j = Len(b) + 1
    <3> HIDE DEF k
    <3>1. k = Len(r) + 1 /\ k >= 1
      BY <1>1, <1>4, <2>2, <2>4
    <3>2. IF k >= 1 THEN a[k] = f[j] ELSE f[j] <= -Window
      BY <1>5, <1>6, <2>4, <3>1
    <3>3. QED  BY <3>2 DEF k
  <2>5. QED  BY <1>4, <1>5, <2>3, <2>4
<1>10. Last(f) = 0
  BY <1>5 DEF Last
<1>11. Follows(t, f)
  BY <1>8, <1>9, <1>10 DEF Follows, a
<1>12. QED  BY <1>5, <1>7, <1>11 DEF f, b

\* A state that is touched, or sees a call end, remembers as much as before.
LEMMA TouchFollows ==
  ASSUME NEW s, Good(s), NEW g \in Seq(Int), Follows(s, g), NEW t,
         t.lastCall \in Int, t.touched \in Int,
         t.history = s.history \/ t.history = Recent(s),
         t.lastCall >= s.lastCall, t.touched = s.touched \/ t.touched = 0
  PROVE  Follows(t, g)
<1>1. \A j \in 1..Len(g) : g[j] <= 0 /\ (g[j] <= t.touched \/ Old(g[j]))
  BY DEF Follows
<1>2. Matches(t.history, g)
  BY RecentFollows DEF Follows
<1>3. g # <<>> => Last(g) <= t.lastCall \/ Last(g) <= -Gap
  <2>1. s.lastCall \in Int /\ (g # <<>> => Last(g) \in Int)
    BY GoodFacts, CallFacts
  <2>2. QED  BY <2>1 DEF Follows
<1>4. QED  BY <1>1, <1>2, <1>3 DEF Follows

\* No comparison of the code tells a time from an older one below this one.
Floor == -Later(Window, Gap) - 1

LEMMA FloorFacts == Floor \in Int /\ Floor < -Window /\ Floor < -Gap /\ Floor < 0
BY Numbers DEF Later, Floor

\* Time passes.
LEMMA AgedFacts ==
  ASSUME NEW h \in Seq(Int)
  PROVE  /\ Aged(h) \in Seq(Int) /\ Len(Aged(h)) = Len(h) /\ DOMAIN Aged(h) = 1..Len(h)
         /\ \A k \in 1..Len(h) : Aged(h)[k] = Older(h[k], Floor)
<1>1. Len(h) \in Nat /\ DOMAIN h = 1..Len(h) /\ \A k \in 1..Len(h) : h[k] \in Int
  BY LenProperties, ElementOfSeq
<1>2. \A k \in 1..Len(h) : Older(h[k], Floor) \in Int
  BY <1>1, FloorFacts DEF Older, Later
<1>3. Aged(h) = [k \in 1..Len(h) |-> Older(h[k], Floor)]
  BY <1>1 DEF Aged, Floor
<1>4. Aged(h) \in [1..Len(h) -> Int]
  BY <1>2, <1>3
<1>5. Aged(h) \in Seq(Int)
  BY <1>1, <1>4
<1>6. Len(Aged(h)) = Len(h)
  BY <1>1, <1>4, <1>5, LenProperties
<1>7. QED  BY <1>3, <1>5, <1>6

LEMMA OlderFacts ==
  ASSUME NEW t \in Int
  PROVE  /\ Older(t, Floor) \in Int
         /\ t <= 0 => Older(t, Floor) < 0
         /\ t <= -Window => Older(t, Floor) < -Window
         /\ Old(t) => Old(Older(t, Floor))
BY Numbers, FloorFacts DEF Older, Later, Old

\* The state of a chat a tick later.
Ticked(s) ==
  [lastCall |-> Older(s.lastCall, -Gap), lastUpload |-> Older(s.lastUpload, -UploadGap),
   flood |-> Older(s.flood, 0), touched |-> Older(s.touched, -Stale), history |-> Aged(s.history)]

LEMMA TickGood ==
  ASSUME NEW s, Good(s)
  PROVE  Good(Ticked(s))
<1> DEFINE h == s.history
           t == Ticked(s)
           a == Aged(h)
<1>1. /\ h \in Seq(Int) /\ Len(h) \in 0..(MaxCalls + 1) /\ \A k \in 1..Len(h) : h[k] \in Int
      /\ s.lastCall \in Int /\ s.lastUpload \in Int /\ s.flood \in Int /\ s.touched \in Int
      /\ h # <<>> => Len(h) > 0
  BY GoodFacts
<1>2. /\ a \in Seq(Int) /\ Len(a) = Len(h)
      /\ \A k \in 1..Len(h) : a[k] = Older(h[k], Floor)
  BY <1>1, AgedFacts
<1>3. /\ Older(s.lastCall, -Gap) \in Int /\ Older(s.lastUpload, -UploadGap) \in Int
      /\ Older(s.flood, 0) \in Int /\ Older(s.touched, -Stale) \in Int
  BY <1>1, Numbers DEF Older, Later
<1> HIDE DEF a
<1>4. t \in States /\ t.history = a /\ t.lastCall = Older(s.lastCall, -Gap)
  BY <1>2, <1>3 DEF States, Ticked, a
<1> HIDE DEF t
<1>5. \A k \in 1..Len(h) : h[k] \in Int /\ h[k] <= 0 /\ a[k] \in Int /\ a[k] < 0
  <2>1. \A k \in 1..Len(h) : h[k] \in Int /\ h[k] <= 0
    BY <1>1 DEF Good
  <2>2. QED  BY <1>2, <2>1, OlderFacts
<1>6. a # <<>> => Last(a) <= t.lastCall
  <2>1. SUFFICES ASSUME a # <<>> PROVE Last(a) <= t.lastCall
    OBVIOUS
  <2>2. h # <<>> /\ Len(h) \in 1..Len(h)
    BY <1>1, <1>2, <2>1, EmptySeq
  <2>3. h[Len(h)] \in Int /\ h[Len(h)] <= s.lastCall /\ Last(a) = Older(h[Len(h)], Floor)
    BY <1>1, <1>2, <2>2 DEF Good, Last
  <2>4. -Gap \in Int /\ Floor <= -Gap /\ Floor \in Int
    BY Numbers, FloorFacts
  <2>5. QED  BY <1>1, <1>4, <2>3, <2>4 DEF Older, Later
<1>7. Len(a) = MaxCalls + 1 => a[1] < -Window
  <2>1. SUFFICES ASSUME Len(h) = MaxCalls + 1 PROVE a[1] < -Window
    BY <1>2
  <2>2. 1 \in 1..Len(h) /\ h[1] <= -Window
    BY <2>1, Numbers DEF Good
  <2>3. h[1] \in Int /\ -Gap \in Int
    BY <1>1, <2>2, Numbers
  <2>4. QED  BY <1>2, <2>2, <2>3, OlderFacts
<1>8. Len(a) <= MaxCalls + 1 /\ \A k \in 1..Len(a) : a[k] <= 0
  BY <1>1, <1>2, <1>5, Numbers
<1>9. Len(a) = MaxCalls + 1 => a[1] <= -Window
  <2>1. SUFFICES ASSUME Len(a) = MaxCalls + 1 PROVE a[1] <= -Window
    OBVIOUS
  <2>2. a[1] \in Int
    BY <1>2, <1>5, <2>1, Numbers
  <2>3. QED  BY <1>7, <2>1, <2>2, Numbers
<1>10. Good(t)
  BY <1>4, <1>6, <1>7, <1>8, <1>9 DEF Good
<1>11. QED  BY <1>10 DEF t

LEMMA TickFollows ==
  ASSUME NEW s, Good(s), NEW g \in Seq(Int), Follows(s, g)
  PROVE  Follows(Ticked(s), Aged(g))
<1> DEFINE h == s.history
           t == Ticked(s)
           a == Aged(h)
           f == Aged(g)
<1>1. /\ h \in Seq(Int) /\ Len(h) \in Nat /\ \A k \in 1..Len(h) : h[k] \in Int
      /\ s.lastCall \in Int /\ s.touched \in Int
      /\ Len(g) \in Nat /\ \A j \in 1..Len(g) : g[j] \in Int /\ g[j] <= 0
      /\ g # <<>> => Len(g) > 0
  BY GoodFacts, CallFacts DEF Follows
<1>2. /\ a \in Seq(Int) /\ Len(a) = Len(h)
      /\ \A k \in 1..Len(h) : a[k] = Older(h[k], Floor)
  BY <1>1, AgedFacts
<1>3. /\ f \in Seq(Int) /\ Len(f) = Len(g)
      /\ \A j \in 1..Len(g) : f[j] = Older(g[j], Floor)
  BY <1>1, AgedFacts
<1> HIDE DEF a, f
<1>4. t.history = a /\ t.lastCall = Older(s.lastCall, -Gap) /\ t.touched = Older(s.touched, -Stale)
  BY DEF Ticked, a
<1> HIDE DEF t
<1>5. \A j \in 1..Len(f) : f[j] <= 0 /\ (f[j] <= t.touched \/ Old(f[j]))
  <2>1. SUFFICES ASSUME NEW j \in 1..Len(g) PROVE f[j] <= 0 /\ (f[j] <= t.touched \/ Old(f[j]))
    BY <1>3
  <2>2. /\ g[j] \in Int /\ g[j] <= 0 /\ (g[j] <= s.touched \/ Old(g[j]))
        /\ f[j] = Older(g[j], Floor)
    BY <1>1, <1>3 DEF Follows
  <2>3. -Stale \in Int
    BY Numbers
  <2>6. f[j] \in Int /\ f[j] <= 0 /\ (Old(g[j]) => Old(f[j]))
    BY <2>2, FloorFacts, Numbers DEF Older, Later, Old
  <2>4. CASE g[j] <= s.touched
    <3>1. f[j] <= t.touched \/ f[j] = Floor
      BY <1>1, <1>4, <2>2, <2>3, <2>4, FloorFacts DEF Older, Later
    <3>2. f[j] = Floor => Old(f[j])
      BY FloorFacts, Numbers DEF Old
    <3>3. QED  BY <2>6, <3>1, <3>2
  <2>5. QED  BY <2>2, <2>4, <2>6
<1>6. Matches(a, f)
  <2>1. SUFFICES ASSUME NEW j \in 1..Len(g)
                 PROVE  LET k == j + Len(a) - Len(f) IN IF k >= 1 THEN a[k] = f[j] ELSE f[j] <= -Window
    BY <1>3 DEF Matches
  <2> DEFINE k == j + Len(h) - Len(g)
  <2>2. k \in Int /\ k <= Len(h)
    BY <1>1
  <2>3. IF k >= 1 THEN h[k] = g[j] ELSE g[j] <= -Window
    BY DEF Follows, Matches
  <2>4. k = j + Len(a) - Len(f)
    BY <1>2, <1>3
  <2>5. g[j] \in Int /\ f[j] = Older(g[j], Floor)
    BY <1>1, <1>3
  <2> HIDE DEF k
  <2>6. k >= 1 => a[k] = f[j]
    <3>1. SUFFICES ASSUME k >= 1 PROVE a[k] = f[j]
      OBVIOUS
    <3>2. k \in 1..Len(h)
      BY <1>1, <2>2, <3>1
    <3>3. a[k] = Older(h[k], Floor) /\ h[k] = g[j]
      BY <1>2, <2>3, <3>1, <3>2
    <3>4. QED  BY <2>5, <3>3
  <2>7. ~(k >= 1) => f[j] <= -Window
    BY <2>3, <2>5, FloorFacts, Numbers DEF Older, Later
  <2>8. QED  BY <2>4, <2>6, <2>7
<1>7. f # <<>> => Last(f) <= t.lastCall \/ Last(f) <= -Gap
  <2>1. SUFFICES ASSUME f # <<>> PROVE Last(f) <= t.lastCall \/ Last(f) <= -Gap
    OBVIOUS
  <2>2. g # <<>> /\ Len(g) \in 1..Len(g)
    BY <1>1, <1>3, <2>1, EmptySeq
  <2>3. /\ g[Len(g)] \in Int /\ (g[Len(g)] <= s.lastCall \/ g[Len(g)] <= -Gap)
        /\ Last(f) = Older(g[Len(g)], Floor)
    BY <1>1, <1>3, <2>2 DEF Follows, Last
  <2>4. QED  BY <1>1, <1>4, <2>3, FloorFacts, Numbers DEF Older, Later
<1>8. Follows(t, f)
  BY <1>4, <1>5, <1>6, <1>7 DEF Follows
<1>9. QED  BY <1>8 DEF t, f

-----------------------------------------------------------------------------
(* The steps and the window *)

LEMMA NowGood ==
  ASSUME Shapes, AllGood, NEW c \in Chats
  PROVE  Good(Now(c))
<1>1. CASE current[c] = 0
  BY <1>1, FreshGood DEF Now
<1>2. CASE current[c] # 0
  <2>1. current[c] \in 1..Objects
    BY <1>2, Numbers DEF Shapes
  <2>2. QED  BY <1>2, <2>1 DEF Now, AllGood
<1>3. QED  BY <1>1, <1>2

LEMMA ChatGood ==
  ASSUME Shapes, Typed, AllGood, NEW c \in Chats, NEW s, Good(s), Chat(c, s)
  PROVE  state' \in [Chats -> [1..Objects -> States]] /\ AllGood'
<1>1. Sound(s) /\ s \in States
  BY GoodFacts DEF Good
<1>2. Found(c) \in 1..Objects
  BY <1>1, ChatFacts
<1>3. state' = [state EXCEPT ![c] = [state[c] EXCEPT ![Found(c)] = s]]
  BY DEF Chat
<1>4. [state[c] EXCEPT ![Found(c)] = s] \in [1..Objects -> States]
  BY <1>1, <1>2 DEF Typed
<1>5. state' \in [Chats -> [1..Objects -> States]]
  BY <1>3, <1>4 DEF Typed
<1>6. \A e \in Chats, i \in 1..Objects : state'[e][i] = state[e][i] \/ state'[e][i] = s
  BY <1>2, <1>3 DEF Typed
<1>7. \A e \in Chats, i \in 1..Objects : Good(state'[e][i])
  BY <1>6 DEF AllGood
<1>8. QED  BY <1>5, <1>7 DEF AllGood

LEMMA MineGood ==
  ASSUME Shapes, Typed, AllGood, NEW p \in Callers, NEW s, Good(s), SetMine(p, s)
  PROVE  state' \in [Chats -> [1..Objects -> States]] /\ AllGood'
<1>1. s \in States /\ at[p] \in Chats /\ ref[p] \in 1..Objects
  BY DEF Good, Shapes
<1>2. state' = [state EXCEPT ![at[p]] = [state[at[p]] EXCEPT ![ref[p]] = s]]
  BY DEF SetMine
<1>3. [state[at[p]] EXCEPT ![ref[p]] = s] \in [1..Objects -> States]
  BY <1>1 DEF Typed
<1>4. state' \in [Chats -> [1..Objects -> States]]
  BY <1>1, <1>2, <1>3 DEF Typed
<1>5. \A e \in Chats, i \in 1..Objects : state'[e][i] = state[e][i] \/ state'[e][i] = s
  BY <1>1, <1>2 DEF Typed
<1>6. \A e \in Chats, i \in 1..Objects : Good(state'[e][i])
  BY <1>5 DEF AllGood
<1>7. QED  BY <1>4, <1>6 DEF AllGood

\* A step that changes what is remembered of no chat but c.
LEMMA FollowedKeeps ==
  ASSUME PaceInv, NEW c \in Chats, forgotten' = forgotten,
         \A e \in Chats \ {c} : Now(e)' = Now(e) /\ granted'[e] = granted[e],
         c \notin forgotten => Follows(Now(c)', granted'[c])
  PROVE  Followed'
<1>1. \A e \in Chats \ forgotten : Follows(Now(e), granted[e])
  BY DEF PaceInv, Followed
<1>2. \A e \in Chats \ forgotten' : Follows(Now(e)', granted'[e])
  BY <1>1
<1>3. QED  BY <1>2 DEF Followed

LEMMA QuietPace ==
  ASSUME PaceInv, NEW p \in Callers,
         Begin(p) \/ WaitUpload(p) \/ GiveUp(p) \/ DropReport(p)
  PROVE  (Typed /\ AllGood /\ Counted /\ Followed)'
<1>1. UNCHANGED <<current, state, granted, forgotten, floods>>
  BY DEF Begin, WaitUpload, GiveUp, DropReport, history
<1>2. global' \in Int
  <2>1. CASE Begin(p)
    BY <2>1, Numbers DEF Begin, PaceInv, Typed, Later
  <2>2. CASE WaitUpload(p) \/ GiveUp(p) \/ DropReport(p)
    BY <2>2 DEF WaitUpload, GiveUp, DropReport, PaceInv, Typed
  <2>3. QED  BY <2>1, <2>2
<1>3. wake' \in [Callers -> Nat]
  <2>1. CASE Begin(p)
    <3>1. Later(global + Slot, 0) \in Nat
      BY Numbers DEF PaceInv, Typed, Later
    <3>2. QED  BY <2>1, <3>1 DEF Begin, PaceInv, Typed
  <2>2. CASE WaitUpload(p)
    <3>1. Mine(p).lastUpload \in Int
      BY MineSound DEF PaceInv, LimiterInv, Sound
    <3>2. Mine(p).lastUpload + UploadGap \in Nat
      BY <2>2, <3>1, Numbers DEF WaitUpload
    <3>3. QED  BY <2>2, <3>2 DEF WaitUpload, PaceInv, Typed
  <2>3. CASE GiveUp(p) \/ DropReport(p)
    BY <2>3 DEF GiveUp, DropReport, PaceInv, Typed
  <2>4. QED  BY <2>1, <2>2, <2>3
<1>4. Typed'
  BY <1>1, <1>2, <1>3 DEF PaceInv, Typed
<1>5. AllGood' /\ Counted'
  BY <1>1 DEF PaceInv, AllGood, Counted
<1>6. Followed'
  BY <1>1 DEF PaceInv, Followed, Now
<1>7. QED  BY <1>4, <1>5, <1>6

\* The pointer is taken: a state may be made, none is changed.
LEMMA EnterPace ==
  ASSUME PaceInv, NEW p \in Callers, Enter(p) \/ EnterUpload(p)
  PROVE  (Typed /\ AllGood /\ Counted /\ Followed)'
<1>1. PICK c \in Chats : c = at[p]
  BY DEF PaceInv, LimiterInv, Shapes
<1>2. Chat(c, Now(c)) /\ UNCHANGED <<global, wake, floods, granted, forgotten>>
  BY <1>1 DEF Enter, EnterUpload, history
<1>3. Shapes /\ Good(Now(c)) /\ Sound(Now(c))
  BY NowGood, GoodFacts DEF PaceInv, LimiterInv
<1>4. state' \in [Chats -> [1..Objects -> States]] /\ AllGood'
  BY <1>2, <1>3, ChatGood DEF PaceInv
<1>5. Now(c)' = Now(c) /\ \A e \in Chats \ {c} : Now(e)' = Now(e)
  BY <1>2, <1>3, ChatFacts
<1>6. Typed' /\ Counted'
  BY <1>2, <1>4 DEF PaceInv, Typed, Counted
<1>7. c \notin forgotten => Follows(Now(c)', granted'[c])
  <2>1. c \notin forgotten => Follows(Now(c), granted[c])
    BY DEF PaceInv, Followed
  <2>2. QED  BY <1>2, <1>5, <2>1
<1>8. Followed'
  BY <1>2, <1>5, <1>7, FollowedKeeps
<1>9. QED  BY <1>4, <1>6, <1>8

\* What a caller changes in its state is what the chat remembers, if the chat is not
\* forgotten.
LEMMA MinePace ==
  ASSUME PaceInv, NEW p \in Callers, NEW s, Good(s), SetMine(p, s), current' = current,
         pc[p] \in {"chat", "spacing"}, NEW c \in Chats, c = at[p]
  PROVE  /\ state' \in [Chats -> [1..Objects -> States]] /\ AllGood'
         /\ Good(Mine(p)) /\ granted[c] \in Seq(Int) /\ Len(granted[c]) <= MaxCalls
         /\ \A e \in Chats \ {c} : Now(e)' = Now(e)
         /\ c \notin forgotten => Now(c)' = s /\ Now(c) = Mine(p) /\ Follows(Mine(p), granted[c])
<1>1. Shapes /\ Typed /\ AllGood /\ Sound(s)
  BY GoodFacts DEF PaceInv, LimiterInv
<1>2. state' \in [Chats -> [1..Objects -> States]] /\ AllGood'
  BY <1>1, MineGood
<1>3. Good(Mine(p)) /\ granted[c] \in Seq(Int) /\ Len(granted[c]) <= MaxCalls
  BY <1>1 DEF AllGood, Mine, Shapes, Typed, PaceInv, Counted
<1>4. /\ ref[p] = current[c] /\ current[c] # 0 => Now(c) = Mine(p) /\ Now(c)' = s
      /\ \A e \in Chats \ {c} : Now(e)' = Now(e)
  BY <1>1, MineFacts
<1>5. c \notin forgotten => current[c] # 0 /\ ref[p] = current[c] /\ Follows(Now(c), granted[c])
  BY DEF PaceInv, LimiterInv, Held, Followed
<1>6. c \notin forgotten => Now(c)' = s /\ Now(c) = Mine(p) /\ Follows(Mine(p), granted[c])
  BY <1>4, <1>5
<1>7. QED  BY <1>2, <1>3, <1>4, <1>6

LEMMA WaitPace ==
  ASSUME PaceInv, NEW p \in Callers, Wait(p)
  PROVE  (Typed /\ AllGood /\ Counted /\ Followed)'
<1> DEFINE s == Mine(p)
           t == Trimmed(s)
<1>1. PICK c \in Chats : c = at[p]
  BY DEF PaceInv, LimiterInv, Shapes
<1>2. /\ SetMine(p, t) /\ pc[p] = "chat" /\ Delay(s) > 0
      /\ wake' = [wake EXCEPT ![p] = Delay(s)]
      /\ UNCHANGED <<global, current, floods, granted, forgotten>>
  BY DEF Wait, history
<1>3. Good(s)
  BY DEF PaceInv, LimiterInv, AllGood, Mine, Shapes
<1> HIDE DEF s
<1>4. /\ Good(t) /\ t.lastCall = s.lastCall /\ t.touched = s.touched
      /\ t.history = s.history \/ t.history = Recent(s)
  <2>1. CASE s.flood > 0 \/ s.lastCall + Gap > 0
    BY <1>3, <2>1 DEF Trimmed
  <2>2. CASE ~(s.flood > 0 \/ s.lastCall + Gap > 0)
    <3>1. t = [s EXCEPT !.history = Recent(s)] /\ Good(t)
      BY <1>3, <2>2, RecentGood DEF Trimmed
    <3>2. s \in States
      BY <1>3 DEF Good
    <3>3. QED  BY <3>1, <3>2 DEF States
  <2>3. QED  BY <2>1, <2>2
<1>5. Delay(s) \in Nat
  <2>1. s.flood \in Int /\ s.lastCall \in Int /\ Recent(s) \in Seq(Int)
    BY <1>3, GoodFacts, RecentGood
  <2>2. Len(Recent(s)) >= MaxCalls => Recent(s)[1] \in Int
    <3>1. Len(Recent(s)) \in Nat
      BY <2>1, LenProperties
    <3>2. Len(Recent(s)) >= MaxCalls => 1 \in 1..Len(Recent(s))
      BY <3>1, Numbers
    <3>3. QED  BY <2>1, <3>2, ElementOfSeq
  <2>3. Delay(s) \in Int
    BY <2>1, <2>2, Numbers DEF Delay, Later
  <2>4. QED  BY <1>2, <2>3
<1> HIDE DEF t
<1>6. /\ state' \in [Chats -> [1..Objects -> States]] /\ AllGood'
      /\ granted[c] \in Seq(Int)
      /\ \A e \in Chats \ {c} : Now(e)' = Now(e)
      /\ c \notin forgotten => Now(c)' = t /\ Follows(s, granted[c])
  BY <1>1, <1>2, <1>4, MinePace DEF s
<1>7. Typed' /\ Counted'
  BY <1>2, <1>5, <1>6 DEF PaceInv, Typed, Counted
<1>8. c \notin forgotten => Follows(Now(c)', granted'[c])
  <2>1. SUFFICES ASSUME c \notin forgotten PROVE Follows(t, granted[c])
    BY <1>2, <1>6
  <2>2. t.lastCall \in Int /\ t.touched \in Int /\ t.lastCall >= s.lastCall
    BY <1>3, <1>4, GoodFacts
  <2>3. QED  BY <1>3, <1>4, <1>6, <2>1, <2>2, TouchFollows
<1>9. Followed'
  BY <1>2, <1>6, <1>8, FollowedKeeps
<1>10. QED  BY <1>6, <1>7, <1>9

\* A call is let in.
LEMMA GrantPace ==
  ASSUME PaceInv, NEW p \in Callers, Grant(p), Gap > 0
  PROVE  (Typed /\ AllGood /\ Counted /\ Followed)'
<1> DEFINE s == Mine(p)
           t == [s EXCEPT !.lastCall = 0, !.touched = 0, !.history = Append(Recent(s), 0)]
<1>1. PICK c \in Chats : c = at[p]
  BY DEF PaceInv, LimiterInv, Shapes
<1> DEFINE g == granted[c]
           f == Append(IF Len(g) < MaxCalls THEN g ELSE Tail(g), 0)
<1>2. /\ SetMine(p, t) /\ pc[p] = "chat" /\ Delay(s) = 0
      /\ granted' = [granted EXCEPT ![c] = f]
      /\ UNCHANGED <<global, current, wake, floods, forgotten>>
  BY <1>1 DEF Grant
<1>3. Good(s)
  BY DEF PaceInv, LimiterInv, AllGood, Mine, Shapes
<1> HIDE DEF s
<1>4. Good(t)
  BY <1>2, <1>3, GrantGood
<1>5. t.history = Append(Recent(s), 0) /\ t.lastCall = 0 /\ t.touched = 0
  <2>1. s \in States
    BY <1>3 DEF Good
  <2>2. QED  BY <2>1 DEF States
<1> HIDE DEF t
<1>6. /\ state' \in [Chats -> [1..Objects -> States]] /\ AllGood'
      /\ g \in Seq(Int) /\ Len(g) <= MaxCalls
      /\ \A e \in Chats \ {c} : Now(e)' = Now(e)
      /\ c \notin forgotten => Now(c)' = t /\ Follows(s, g)
  BY <1>1, <1>2, <1>4, MinePace DEF s
<1>7. f \in Seq(Int) /\ Len(f) <= MaxCalls
  <2>1. Len(g) \in Nat /\ MaxCalls \in Nat \ {0}
    BY <1>6, LenProperties, Numbers
  <2>2. CASE Len(g) < MaxCalls
    <3>1. f \in Seq(Int) /\ Len(f) = Len(g) + 1
      BY <1>6, <2>2, AppendProperties
    <3>2. QED  BY <2>1, <2>2, <3>1
  <2>3. CASE ~(Len(g) < MaxCalls)
    <3>1. g # <<>>
      BY <2>1, <2>3
    <3>2. Tail(g) \in Seq(Int) /\ Len(Tail(g)) = Len(g) - 1
      BY <1>6, <3>1, HeadTailProperties
    <3>3. f \in Seq(Int) /\ Len(f) = Len(Tail(g)) + 1
      BY <2>3, <3>2, AppendProperties
    <3>4. QED  BY <1>6, <2>1, <3>2, <3>3
  <2>4. QED  BY <2>2, <2>3
<1>8. c \notin forgotten => Follows(t, f)
  BY <1>3, <1>5, <1>6, GrantFollows
<1> HIDE DEF g, f
<1>9. granted' \in [Chats -> Seq(Int)] /\ granted'[c] = f /\ \A e \in Chats \ {c} : granted'[e] = granted[e]
  BY <1>2, <1>7 DEF PaceInv, Typed
<1>10. Typed'
  BY <1>2, <1>6, <1>9 DEF PaceInv, Typed
<1>11. Counted'
  <2>1. \A e \in Chats : Len(granted'[e]) <= MaxCalls
    BY <1>7, <1>9 DEF PaceInv, Counted
  <2>2. QED  BY <2>1 DEF Counted
<1>12. Followed'
  BY <1>2, <1>6, <1>8, <1>9, FollowedKeeps
<1>13. QED  BY <1>6, <1>10, <1>11, <1>12

LEMMA GrantUploadPace ==
  ASSUME PaceInv, NEW p \in Callers, GrantUpload(p)
  PROVE  (Typed /\ AllGood /\ Counted /\ Followed)'
<1> DEFINE s == Mine(p)
           t == [s EXCEPT !.lastUpload = 0, !.touched = 0]
<1>1. PICK c \in Chats : c = at[p]
  BY DEF PaceInv, LimiterInv, Shapes
<1>2. /\ SetMine(p, t) /\ pc[p] = "spacing"
      /\ UNCHANGED <<global, current, wake, floods, granted, forgotten>>
  BY DEF GrantUpload
<1>3. Good(s)
  BY DEF PaceInv, LimiterInv, AllGood, Mine, Shapes
<1> HIDE DEF s
<1>4. t \in States /\ t.history = s.history /\ t.lastCall = s.lastCall /\ t.touched = 0 /\ s.lastCall \in Int
  <2>1. s \in States
    BY <1>3 DEF Good
  <2> DEFINE u == [s EXCEPT !.lastUpload = 0]
  <2>2. u \in States /\ u.history = s.history /\ u.lastCall = s.lastCall
    BY <2>1 DEF States
  <2>3. t = [u EXCEPT !.touched = 0]
    OBVIOUS
  <2> HIDE DEF u, t
  <2>4. QED  BY <2>1, <2>2, <2>3 DEF States
<1> HIDE DEF t
<1>5. Good(t)
  BY <1>3, <1>4, TouchGood
<1>6. /\ state' \in [Chats -> [1..Objects -> States]] /\ AllGood'
      /\ granted[c] \in Seq(Int)
      /\ \A e \in Chats \ {c} : Now(e)' = Now(e)
      /\ c \notin forgotten => Now(c)' = t /\ Follows(s, granted[c])
  BY <1>1, <1>2, <1>5, MinePace DEF s
<1>7. Typed' /\ Counted'
  BY <1>2, <1>6 DEF PaceInv, Typed, Counted
<1>8. c \notin forgotten => Follows(Now(c)', granted'[c])
  BY <1>2, <1>3, <1>4, <1>6, TouchFollows
<1>9. Followed'
  BY <1>2, <1>6, <1>8, FollowedKeeps
<1>10. QED  BY <1>6, <1>7, <1>9

\* What the end of a call, or of a flood wait, changes in the state of the chat.
LEMMA ChatPace ==
  ASSUME PaceInv, NEW c \in Chats, NEW t, Chat(c, t), t \in States,
         t.history = Now(c).history, t.lastCall >= Now(c).lastCall,
         t.touched = Now(c).touched \/ t.touched = 0,
         UNCHANGED <<global, wake, granted, forgotten>>, floods' \in 0..MaxFloods
  PROVE  (Typed /\ AllGood /\ Counted /\ Followed)'
<1>1. Shapes /\ Good(Now(c))
  BY NowGood DEF PaceInv, LimiterInv
<1>2. Good(t)
  BY <1>1, TouchGood
<1>3. Sound(t) /\ t.lastCall \in Int /\ t.touched \in Int
  BY <1>2, GoodFacts
<1>4. state' \in [Chats -> [1..Objects -> States]] /\ AllGood'
  BY <1>1, <1>2, ChatGood DEF PaceInv
<1>5. Now(c)' = t /\ \A e \in Chats \ {c} : Now(e)' = Now(e)
  BY <1>1, <1>3, ChatFacts
<1>6. Typed' /\ Counted'
  BY <1>4 DEF PaceInv, Typed, Counted
<1>7. granted[c] \in Seq(Int)
  BY DEF PaceInv, Typed
<1>8. c \notin forgotten => Follows(Now(c)', granted'[c])
  <2>1. SUFFICES ASSUME Follows(Now(c), granted[c]) PROVE Follows(t, granted[c])
    BY <1>5 DEF PaceInv, Followed
  <2>2. QED  BY <1>1, <1>3, <1>7, <2>1, TouchFollows
<1>9. Followed'
  BY <1>5, <1>8, FollowedKeeps
<1>10. QED  BY <1>4, <1>6, <1>9

LEMMA ReturnPace ==
  ASSUME PaceInv, NEW p \in Callers, Return(p)
  PROVE  (Typed /\ AllGood /\ Counted /\ Followed)'
<1>1. PICK c \in Chats : c = at[p]
  BY DEF PaceInv, LimiterInv, Shapes
<1>2. UNCHANGED <<global, wake, floods, granted, forgotten>>
  BY DEF Return
<1>3. floods' \in 0..MaxFloods
  BY <1>2 DEF PaceInv, Typed
<1>4. CASE Chat(c, Recorded(p, Now(c)))
  <2> DEFINE s == Now(c)
             t == Recorded(p, s)
  <2>1. s \in States
    BY NowGood DEF PaceInv, LimiterInv, Good
  <2> HIDE DEF s
  <2>2. t \in States /\ t.history = s.history /\ t.lastCall >= s.lastCall /\ t.touched = 0
    <3>1. s.lastCall \in Int /\ s.lastUpload \in Int
      BY <2>1 DEF States
    <3> DEFINE call == Later(s.lastCall, 0)
               upload == IF p \in Uploaders THEN Later(s.lastUpload, 0) ELSE s.lastUpload
    <3>2. call \in Int /\ call >= s.lastCall /\ upload \in Int
      BY <3>1 DEF Later
    <3>3. t = [s EXCEPT !.lastCall = call, !.touched = 0, !.lastUpload = upload]
      BY DEF Recorded
    <3> HIDE DEF call, upload, t
    <3> DEFINE u == [s EXCEPT !.lastCall = call]
               v == [u EXCEPT !.touched = 0]
    <3>4. u \in States /\ u.lastCall = call /\ u.history = s.history
      BY <2>1, <3>2 DEF States
    <3>5. t = [v EXCEPT !.lastUpload = upload]
      BY <3>3
    <3> HIDE DEF u
    <3>6. v \in States /\ v.lastCall = call /\ v.history = s.history /\ v.touched = 0
      BY <3>4 DEF States
    <3> HIDE DEF v
    <3>7. QED  BY <3>2, <3>5, <3>6 DEF States
  <2> HIDE DEF t
  <2>3. Chat(c, t)
    BY <1>4 DEF s, t
  <2>4. QED  BY <1>2, <1>3, <2>2, <2>3, ChatPace DEF s
<1>5. CASE UNCHANGED <<current, state>>
  <2>1. Typed' /\ AllGood' /\ Counted'
    BY <1>2, <1>5 DEF PaceInv, Typed, AllGood, Counted
  <2>2. Followed'
    BY <1>2, <1>5 DEF PaceInv, Followed, Now
  <2>3. QED  BY <2>1, <2>2
<1>6. QED  BY <1>1, <1>4, <1>5 DEF Return

LEMMA NotifyPace ==
  ASSUME PaceInv, NEW p \in Callers, NotifyFloodWait(p)
  PROVE  (Typed /\ AllGood /\ Counted /\ Followed)'
<1>1. PICK c \in Chats : c = at[p]
  BY DEF PaceInv, LimiterInv, Shapes
<1>2. PICK w \in Penalties :
        /\ floods < MaxFloods /\ floods' = floods + 1
        /\ Chat(c, [Now(c) EXCEPT !.flood = Later(@, w)])
        /\ UNCHANGED <<global, wake, granted, forgotten>>
  BY <1>1 DEF NotifyFloodWait
<1>3. floods' \in 0..MaxFloods
  BY <1>2, Numbers DEF PaceInv, Typed
<1> DEFINE s == Now(c)
           t == [s EXCEPT !.flood = Later(@, w)]
<1>4. s \in States /\ w \in Int
  BY NowGood, Numbers DEF PaceInv, LimiterInv, Good
<1> HIDE DEF s
<1>5. t \in States /\ t.history = s.history /\ t.lastCall = s.lastCall /\ t.touched = s.touched /\ s.lastCall \in Int
  BY <1>4 DEF States, Later
<1>6. Chat(c, t)
  BY <1>2 DEF s
<1> HIDE DEF t
<1>7. t.lastCall >= s.lastCall
  BY <1>5
<1>8. QED  BY <1>2, <1>3, <1>5, <1>6, <1>7, ChatPace DEF s

\* The sweeper takes a state only when all it remembers is old.
LEMMA SweepPace ==
  ASSUME PaceInv, NEW c \in Chats, Sweep(c), Stale >= Gap, Stale >= Window
  PROVE  (Typed /\ AllGood /\ Counted /\ Followed)'
<1>1. /\ current[c] # 0 /\ Now(c).touched <= -Stale
      /\ current' = [current EXCEPT ![c] = 0]
      /\ forgotten' = IF InUse(c) \/ state[c][current[c]].flood > 0 THEN forgotten \cup {c} ELSE forgotten
      /\ UNCHANGED <<global, state, wake, floods, granted>>
  BY DEF Sweep, callVars, Now
<1>2. current'[c] = 0 /\ \A e \in Chats \ {c} : current'[e] = current[e]
  BY <1>1 DEF PaceInv, LimiterInv, Shapes
<1>3. forgotten \subseteq forgotten' /\ forgotten' \subseteq Chats
  BY <1>1 DEF PaceInv, Typed
<1>4. Typed' /\ AllGood' /\ Counted'
  BY <1>1, <1>3 DEF PaceInv, Typed, AllGood, Counted
<1>5. \A e \in Chats \ forgotten' : Follows(Now(e)', granted'[e])
  <2>1. SUFFICES ASSUME NEW e \in Chats, Follows(Now(e), granted[e]) PROVE Follows(Now(e)', granted[e])
    BY <1>1, <1>3 DEF PaceInv, Followed
  <2>2. CASE e # c
    <3>1. Now(e)' = Now(e)
      BY <1>1, <1>2, <2>2 DEF Now
    <3>2. QED  BY <2>1, <3>1
  <2>3. CASE e = c
    <3>1. Now(e)' = Fresh
      BY <1>2, <2>3 DEF Now, Fresh
    <3>2. Now(e).touched <= -Stale /\ Now(e).touched \in Int
      BY <1>1, <2>3, NowGood, GoodFacts DEF PaceInv, LimiterInv
    <3>3. granted[e] \in Seq(Int) /\ \A j \in 1..Len(granted[e]) : granted[e][j] \in Int
      BY CallFacts DEF PaceInv, Typed
    <3>4. \A j \in 1..Len(granted[e]) : granted[e][j] <= 0 /\ Old(granted[e][j])
      BY <2>1, <3>2, <3>3, Numbers DEF Follows, Old
    <3>5. QED  BY <3>1, <3>3, <3>4, FreshFollows
  <2>4. QED  BY <2>2, <2>3
<1>6. Followed'
  BY <1>5 DEF Followed
<1>7. QED  BY <1>4, <1>6

\* A state made anew does not age, but the calls it need not remember do.
LEMMA FreshTicks ==
  ASSUME NEW g \in Seq(Int), Follows(Fresh, g)
  PROVE  Follows(Fresh, Aged(g))
<1> DEFINE f == Aged(g)
<1>1. Fresh.history = <<>> /\ Fresh.touched = 0 /\ Fresh.lastCall = -Gap /\ -Gap \in Int
  BY Numbers DEF Fresh
<1>2. /\ Len(g) \in Nat /\ \A j \in 1..Len(g) : g[j] \in Int /\ g[j] <= 0
      /\ g # <<>> => Len(g) > 0
  BY CallFacts DEF Follows
<1>3. /\ f \in Seq(Int) /\ Len(f) = Len(g)
      /\ \A j \in 1..Len(g) : f[j] = Older(g[j], Floor)
  BY AgedFacts
<1>4. \A j \in 1..Len(g) : g[j] <= -Window
  BY <1>1, <1>2 DEF Follows, Matches
<1> HIDE DEF f
<1>5. \A j \in 1..Len(f) : f[j] <= 0 /\ f[j] <= -Window
  <2>1. SUFFICES ASSUME NEW j \in 1..Len(g) PROVE f[j] <= 0 /\ f[j] <= -Window
    BY <1>3
  <2>2. g[j] \in Int /\ g[j] <= 0 /\ g[j] <= -Window /\ f[j] = Older(g[j], Floor)
    BY <1>2, <1>3, <1>4
  <2>3. QED  BY <2>2, FloorFacts, Numbers DEF Older, Later
<1>6. Matches(<<>>, f)
  BY <1>2, <1>3, <1>5 DEF Matches
<1>7. f # <<>> => Last(f) <= -Gap
  <2>1. SUFFICES ASSUME f # <<>> PROVE Last(f) <= -Gap
    OBVIOUS
  <2>2. g # <<>> /\ Len(g) \in 1..Len(g)
    BY <1>2, <1>3, <2>1, EmptySeq
  <2>3. g[Len(g)] \in Int /\ g[Len(g)] <= -Gap /\ Last(f) = Older(g[Len(g)], Floor)
    BY <1>1, <1>2, <1>3, <2>2 DEF Follows, Last
  <2>4. QED  BY <2>3, FloorFacts, Numbers DEF Older, Later
<1>8. Follows(Fresh, f)
  BY <1>1, <1>5, <1>6, <1>7 DEF Follows
<1>9. QED  BY <1>8 DEF f

LEMMA TickPace ==
  ASSUME PaceInv, Tick
  PROVE  (Typed /\ AllGood /\ Counted /\ Followed)'
<1>1. /\ state' = [c \in Chats |-> [i \in 1..Objects |-> Ticked(state[c][i])]]
      /\ granted' = [c \in Chats |-> Aged(granted[c])]
      /\ wake' = [p \in Callers |-> Older(wake[p], 0)]
      /\ global' = Older(global, -Slot)
      /\ UNCHANGED <<current, floods, forgotten>>
  BY DEF Tick, Ticked
<1>2. \A c \in Chats, i \in 1..Objects : Good(state[c][i]) /\ Good(Ticked(state[c][i]))
  BY TickGood DEF PaceInv, AllGood
<1>3. AllGood'
  <2>1. \A c \in Chats, i \in 1..Objects : Good(state'[c][i])
    BY <1>1, <1>2
  <2>2. QED  BY <2>1 DEF AllGood
<1>4. state' \in [Chats -> [1..Objects -> States]]
  <2>1. \A c \in Chats, i \in 1..Objects : Ticked(state[c][i]) \in States
    BY <1>2 DEF Good
  <2>2. QED  BY <1>1, <2>1
<1>5. \A c \in Chats : /\ granted[c] \in Seq(Int) /\ granted'[c] = Aged(granted[c])
                       /\ granted'[c] \in Seq(Int) /\ Len(granted'[c]) = Len(granted[c])
  BY <1>1, AgedFacts DEF PaceInv, Typed
<1>6. granted' \in [Chats -> Seq(Int)]
  BY <1>1, <1>5
<1>7. wake' \in [Callers -> Nat] /\ global' \in Int
  <2>1. \A p \in Callers : Older(wake[p], 0) \in Nat
    BY DEF PaceInv, Typed, Older, Later
  <2>2. QED  BY <1>1, <2>1, Numbers DEF PaceInv, Typed, Older, Later
<1>8. Typed'
  BY <1>1, <1>4, <1>6, <1>7 DEF PaceInv, Typed
<1>9. Counted'
  BY <1>5 DEF PaceInv, Counted
<1>10. \A c \in Chats \ forgotten : Follows(Now(c)', granted'[c])
  <2>1. SUFFICES ASSUME NEW c \in Chats, Follows(Now(c), granted[c]) PROVE Follows(Now(c)', Aged(granted[c]))
    BY <1>5 DEF PaceInv, Followed
  <2>2. CASE current[c] = 0
    <3>1. Now(c) = Fresh /\ Now(c)' = Fresh
      BY <1>1, <2>2 DEF Now, Fresh
    <3>2. QED  BY <1>5, <2>1, <3>1, FreshTicks
  <2>3. CASE current[c] # 0
    <3>1. current[c] \in 1..Objects
      BY <2>3, Numbers DEF PaceInv, LimiterInv, Shapes
    <3>2. Now(c)' = Ticked(Now(c))
      BY <1>1, <2>3, <3>1 DEF Now
    <3>3. Good(Now(c))
      BY NowGood DEF PaceInv, LimiterInv
    <3>4. QED  BY <1>5, <2>1, <3>2, <3>3, TickFollows
  <2>4. QED  BY <2>2, <2>3
<1>11. Followed'
  BY <1>1, <1>10 DEF Followed
<1>12. QED  BY <1>3, <1>8, <1>9, <1>11

LEMMA InitPace == Init => PaceInv
<1> SUFFICES ASSUME Init PROVE PaceInv
  OBVIOUS
<1>1. LimiterInv
  BY InitLimiter
<1>2. Good(Fresh) /\ Fresh \in States
  BY FreshGood DEF Good
<1>3. Follows(Fresh, <<>>)
  <2>1. PICK g \in Seq(Int) : g = <<>>
    <3>1. <<>> \in Seq(Int)
      OBVIOUS
    <3>2. QED  BY <3>1, Zenon
  <2>2. \A j \in 1..Len(g) : g[j] <= 0 /\ Old(g[j])
    BY <2>1
  <2>3. Follows(Fresh, g)
    BY <2>2, FreshFollows
  <2>4. QED  BY <2>1, <2>3
<1>4. state = [c \in Chats |-> [i \in 1..Objects |-> Fresh]] /\ granted = [c \in Chats |-> <<>>]
      /\ current = [c \in Chats |-> 0]
  BY DEF Init
<1>5. state \in [Chats -> [1..Objects -> States]] /\ granted \in [Chats -> Seq(Int)]
  BY <1>2, <1>4
<1>6. global \in Int /\ wake \in [Callers -> Nat] /\ floods \in 0..MaxFloods /\ forgotten \subseteq Chats
  BY Numbers DEF Init
<1>7. Typed
  BY <1>5, <1>6 DEF Typed
<1>8. AllGood
  BY <1>2, <1>4 DEF AllGood
<1>9. Counted
  BY <1>4, Numbers DEF Counted
<1>10. Followed
  BY <1>3, <1>4 DEF Followed, Now
<1>11. QED  BY <1>1, <1>7, <1>8, <1>9, <1>10 DEF PaceInv

LEMMA NextPace ==
  ASSUME PaceInv, [Next]_vars, Gap > 0, Stale >= Gap, Stale >= Window
  PROVE  PaceInv'
<1>1. LimiterInv'
  BY NextLimiter DEF PaceInv
<1>2. (Typed /\ AllGood /\ Counted /\ Followed)'
  <2>1. CASE UNCHANGED vars
    <3>1. UNCHANGED <<global, wake, floods, state, granted, forgotten, current>>
      BY <2>1 DEF vars, callVars, history
    <3>2. QED  BY <3>1 DEF PaceInv, Typed, AllGood, Counted, Followed, Now
  <2>2. ASSUME NEW p \in Callers, Acquire(p) PROVE (Typed /\ AllGood /\ Counted /\ Followed)'
    BY <2>2, QuietPace, EnterPace, WaitPace, GrantPace DEF Acquire
  <2>3. ASSUME NEW p \in Callers, AcquireUpload(p) \/ GiveUp(p)
        PROVE  (Typed /\ AllGood /\ Counted /\ Followed)'
    BY <2>3, QuietPace, EnterPace, GrantUploadPace DEF AcquireUpload
  <2>4. ASSUME NEW p \in Callers, Finish(p) PROVE (Typed /\ AllGood /\ Counted /\ Followed)'
    BY <2>4, QuietPace, ReturnPace, NotifyPace DEF Finish
  <2>5. ASSUME NEW c \in Chats, Sweep(c) PROVE (Typed /\ AllGood /\ Counted /\ Followed)'
    BY <2>5, SweepPace
  <2>6. CASE Tick
    BY <2>6, TickPace
  <2>7. QED  BY <2>1, <2>2, <2>3, <2>4, <2>5, <2>6 DEF Next
<1>3. QED  BY <1>1, <1>2 DEF PaceInv

-----------------------------------------------------------------------------
(* The theorems *)

\* No call is let in during the longest flood wait reported for its chat, whoever
\* waits, reports a shorter one or sweeps at the same time (pacing.go:156-211 and
\* 262-284), for all constants.
THEOREM FloodWaitKept == Spec => FloodKept
<1>1. LimiterInv /\ [Next]_vars =>
        [\A p \in Callers, c \in Chats \ forgotten : LetIn(p, c) => penalty[c] <= 0]_vars
  <2> SUFFICES ASSUME LimiterInv, Next, NEW p \in Callers, NEW c \in Chats \ forgotten, LetIn(p, c)
               PROVE  penalty[c] <= 0
    OBVIOUS
  <2>1. Grant(p) /\ Mine(p) = Now(c)
    BY LetInGrants
  <2>2. Remembers(c)
    BY DEF LimiterInv, Remembered
  <2>3. penalty[c] \in Int /\ Now(c).flood \in Int
    BY NowSound DEF LimiterInv, Shapes, Sound
  <2>4. Delay(Now(c)) = 0
    BY <2>1 DEF Grant
  <2>5. ~(Now(c).flood > 0)
    BY <2>3, <2>4 DEF Delay
  <2>6. QED  BY <2>2, <2>3, <2>5 DEF Remembers
<1>2. QED  BY <1>1, InitLimiter, NextLimiter, PTL DEF Spec, FloodKept

\* An upload keeps its distance from the previous one of its chat, also over the
\* end of that one and over a sweep (pacing.go:244-258, 301-316 and 340-357), if the
\* sweeper leaves a state alone for at least that distance.
THEOREM UploadsKeepTheirDistance ==
  ASSUME Stale >= UploadGap
  PROVE  Spec => UploadsSpaced
<1>1. LimiterInv /\ [Next]_vars =>
        [\A p \in Callers : pc[p] = "spacing" /\ wake[p] = 0 /\ pc'[p] = "calling" =>
           at[p] \in forgotten \/ spaced[at[p]] <= -UploadGap]_vars
  <2> SUFFICES ASSUME LimiterInv, Next, NEW p \in Callers,
                      pc[p] = "spacing", wake[p] = 0, pc'[p] = "calling", at[p] \notin forgotten
               PROVE  spaced[at[p]] <= -UploadGap
    OBVIOUS
  <2> DEFINE c == at[p]
  <2>1. c \in Chats
    BY DEF LimiterInv, Shapes
  <2>2. GrantUpload(p)
    <3>1. ASSUME NEW q \in Callers, q # p,
                 Acquire(q) \/ AcquireUpload(q) \/ GiveUp(q) \/ Finish(q)
          PROVE  FALSE
      <4>1. \E place : pc' = [pc EXCEPT ![q] = place] \/ pc' = pc
        BY <3>1 DEF Acquire, AcquireUpload, GiveUp, Finish, Begin, Enter, Wait, Grant, EnterUpload,
                    WaitUpload, GrantUpload, Return, NotifyFloodWait, DropReport
      <4>2. QED  BY <3>1, <4>1 DEF LimiterInv, Shapes
    <3>2. ASSUME NEW e \in Chats, Sweep(e) PROVE FALSE
      BY <3>2 DEF Sweep, callVars
    <3>3. CASE Tick
      BY <3>3 DEF Tick
    <3>4. CASE Acquire(p) \/ AcquireUpload(p) \/ GiveUp(p) \/ Finish(p)
      BY <3>4 DEF Acquire, AcquireUpload, GiveUp, Finish, Begin, Enter, Wait, Grant, EnterUpload,
                  WaitUpload, Return, NotifyFloodWait, DropReport
    <3>5. QED  BY <3>1, <3>2, <3>3, <3>4 DEF Next
  <2>3. Mine(p) = Now(c) /\ Remembers(c)
    BY <2>1 DEF LimiterInv, Held, Remembered, Mine, Now
  <2>4. spaced[c] \in Int /\ Now(c).lastUpload \in Int
    BY <2>1, NowSound DEF LimiterInv, Shapes, Sound
  <2>5. Now(c).lastUpload + UploadGap <= 0
    BY <2>2, <2>3 DEF GrantUpload
  <2>6. spaced[c] <= Now(c).lastUpload
    BY <2>3 DEF Remembers
  <2>7. QED  BY <2>4, <2>5, <2>6, Constants
<1>2. QED  BY <1>1, InitLimiter, NextLimiter, PTL DEF Spec, UploadsSpaced

\* Whoever waits, wakes late, gives up, reports or sweeps at the same time, two calls
\* of a chat are let in at least the gap apart and never more than MaxCalls in a
\* window (pacing.go:156-211), for all constants with a gap and with a sweeper that
\* leaves a state alone for at least the gap and the window (pacing.go:73-78: 3 s, 24 h
\* and 60 s).  The proof is by what the state of a chat remembers of its calls: the
\* trimmed history is the end of the calls let in, and what it lost has left the window.
THEOREM CallsKeepTheirPace ==
  ASSUME Gap > 0, Stale >= Gap, Stale >= Window
  PROVE  Spec => CallsPaced
<1>1. PaceInv /\ [Next]_vars => PaceInv'
  BY NextPace
<1>2. PaceInv /\ [Next]_vars =>
        [\A p \in Callers, c \in Chats \ forgotten : LetIn(p, c) =>
           /\ granted[c] # <<>> => granted[c][Len(granted[c])] <= -Gap
           /\ Len(granted[c]) = MaxCalls => granted[c][1] <= -Window]_vars
  <2> SUFFICES ASSUME PaceInv, Next, NEW p \in Callers, NEW c \in Chats \ forgotten, LetIn(p, c)
               PROVE  /\ granted[c] # <<>> => granted[c][Len(granted[c])] <= -Gap
                      /\ Len(granted[c]) = MaxCalls => granted[c][1] <= -Window
    OBVIOUS
  <2> DEFINE s == Now(c)
             g == granted[c]
             r == Recent(s)
  <2>1. Delay(s) = 0
    BY LetInGrants DEF PaceInv, Grant
  <2>2. Good(s) /\ Follows(s, g) /\ g \in Seq(Int)
    BY NowGood DEF PaceInv, LimiterInv, Followed, Typed
  <2> HIDE DEF s, g
  <2>3. s.lastCall <= -Gap /\ s.lastCall \in Int /\ r \in Seq(Int) /\ Len(r) \in 0..MaxCalls
        /\ (Len(r) = MaxCalls => r[1] <= -Window)
    BY <2>1, <2>2, MayGo, GoodFacts, RecentGood
  <2>4. Matches(r, g)
    BY <2>2, RecentFollows DEF Follows
  <2> HIDE DEF r
  <2>5. Len(g) \in Nat /\ (g # <<>> => Last(g) \in Int)
    BY <2>2, CallFacts
  <2>6. g # <<>> => Last(g) <= -Gap
    BY <2>2, <2>3, <2>5, Numbers DEF Follows
  <2>7. Len(g) = MaxCalls => g[1] <= -Window
    <3>1. SUFFICES ASSUME Len(g) = MaxCalls PROVE g[1] <= -Window
      OBVIOUS
    <3>2. 1 \in 1..Len(g)
      BY <3>1, Numbers
    <3>3. CASE Len(r) = MaxCalls
      <4>1. 1 + Len(r) - Len(g) = 1
        BY <3>1, <3>3, Numbers
      <4>2. r[1] = g[1]
        BY <2>4, <3>2, <4>1 DEF Matches
      <4>3. QED  BY <2>3, <3>3, <4>2
    <3>4. CASE Len(r) # MaxCalls
      <4>1. 1 + Len(r) - Len(g) \in Int /\ ~(1 + Len(r) - Len(g) >= 1)
        BY <2>3, <3>1, <3>4, Numbers
      <4>2. QED  BY <2>4, <3>2, <4>1 DEF Matches
    <3>5. QED  BY <3>3, <3>4
  <2>8. QED  BY <2>6, <2>7 DEF Last, g
<1>3. QED  BY <1>1, <1>2, InitPace, PaceType, PTL DEF Spec, CallsPaced

=============================================================================
