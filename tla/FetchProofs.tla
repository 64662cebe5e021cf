----------------------------- MODULE FetchProofs -----------------------------
(***************************************************************************)
(* Proofs about Fetch for any number of URLs, playlists, segments,         *)
(* attempts and retries: a playlist is joined of whole segments in order,  *)
(* what has reached the chat is not uploaded again, and no URL is given up *)
(* before everybody was asked for it.                                      *)
(***************************************************************************)
EXTENDS Fetch, SequenceTheorems, TLAPS

\* The output of a playlist: whole segments up to the one in turn, of which an
\* attempt that broke off may have left a part.
Streamed ==
  /\ ts \in Seq((1..NSegments) \X BOOLEAN)
  /\ seg \in 1..NSegments + 1 /\ try \in 0..Tries
  /\ Len(ts) = IF try = 0 THEN seg - 1 ELSE seg
  /\ seg = NSegments + 1 => try = 0
  /\ \A k \in 1..seg - 1 : ts[k] = <<k, TRUE>>

Joined == \A p \in DOMAIN joined : joined[p] = [k \in 1..NSegments |-> <<k, TRUE>>]

StreamInv == Streamed /\ Joined

-----------------------------------------------------------------------------
LEMMA Constants == NSegments \in Nat \ {0} /\ Tries \in Nat \ {0}
BY FetchAssumption

LEMMA ClosedStreamed ==
  ASSUME TsClosed
  PROVE  Streamed'
<1>1. ts' = <<>> /\ seg' = 1 /\ try' = 0
  BY DEF TsClosed
<1>2. ts' \in Seq((1..NSegments) \X BOOLEAN) /\ Len(ts') = 0
  BY <1>1
<1>3. seg' \in 1..NSegments + 1 /\ try' \in 0..Tries /\ NSegments \in Nat \ {0}
  BY <1>1, Constants
<1>4. QED  BY <1>1, <1>2, <1>3 DEF Streamed

LEMMA InitStream == Init => StreamInv
<1> SUFFICES ASSUME Init PROVE StreamInv
  OBVIOUS
<1>1. ts = <<>> /\ seg = 1 /\ try = 0 /\ DOMAIN joined = {}
  BY DEF Init
<1>2. seg \in 1..NSegments + 1 /\ try \in 0..Tries /\ NSegments \in Nat \ {0}
  BY <1>1, Constants
<1>3. ts \in Seq((1..NSegments) \X BOOLEAN) /\ Len(ts) = 0
  BY <1>1
<1>4. QED  BY <1>1, <1>2, <1>3 DEF StreamInv, Streamed, Joined

\* Cutting a sequence back and going on from there.
LEMMA Extended ==
  ASSUME NEW E, NEW s \in Seq(E), NEW n \in Nat, n <= Len(s), NEW e \in E,
         NEW t, t = Append(SubSeq(s, 1, n), e)
  PROVE  t \in Seq(E) /\ Len(t) = n + 1 /\ t[n + 1] = e /\ \A k \in 1..n : t[k] = s[k]
<1> DEFINE cut == SubSeq(s, 1, n)
<1>1. Len(s) \in Nat /\ 1..n \subseteq 1..Len(s)
  BY LenProperties
<1>2. \A k \in 1..n : s[k] \in E
  BY <1>1, ElementOfSeq
<1>3. cut \in Seq(E) /\ Len(cut) = n /\ \A k \in 1..n : cut[k] = s[k]
  BY <1>1, <1>2, SubSeqProperties
<1> HIDE DEF cut
<1>4. t = Append(cut, e)
  BY DEF cut
<1>5. QED  BY <1>3, <1>4, AppendProperties

\* An attempt begins where the segment does.
LEMMA SegmentKeeps ==
  ASSUME StreamInv, NEW whole \in BOOLEAN, SegmentStreams(whole)
  PROVE  StreamInv'
<1>1. /\ seg <= NSegments /\ try < Tries /\ joined' = joined
      /\ ts' = Append(SubSeq(ts, 1, seg - 1), <<seg, whole>>)
      /\ IF whole THEN seg' = seg + 1 /\ try' = 0 ELSE seg' = seg /\ try' = try + 1
  BY DEF SegmentStreams
<1>2. seg \in 1..NSegments /\ try \in 0..Tries - 1 /\ NSegments \in Nat \ {0} /\ Tries \in Nat \ {0}
  BY <1>1, Constants DEF StreamInv, Streamed
<1> DEFINE n == seg - 1
<1>3. n \in Nat /\ seg = n + 1 /\ 1..seg - 1 = 1..n /\ 1..seg + 1 - 1 = 1..n + 1
  BY <1>2
<1>4. ts \in Seq((1..NSegments) \X BOOLEAN) /\ \A k \in 1..n : ts[k] = <<k, TRUE>>
  BY DEF StreamInv, Streamed
<1>5. n <= Len(ts)
  <2>1. Len(ts) = IF try = 0 THEN seg - 1 ELSE seg
    BY DEF StreamInv, Streamed
  <2>2. QED  BY <1>2, <2>1
<1>6. <<seg, whole>> \in (1..NSegments) \X BOOLEAN
  BY <1>2
<1>7. ts' = Append(SubSeq(ts, 1, n), <<seg, whole>>)
  BY <1>1
<1> HIDE DEF n
<1>8. /\ ts' \in Seq((1..NSegments) \X BOOLEAN) /\ Len(ts') = n + 1 /\ ts'[n + 1] = <<seg, whole>>
      /\ \A k \in 1..n : ts'[k] = ts[k]
  BY <1>3, <1>4, <1>5, <1>6, <1>7, Extended
<1>9. Streamed'
  <2>1. \A k \in 1..n : ts'[k] = <<k, TRUE>>
    BY <1>4, <1>8
  <2>2. CASE whole
    <3>1. seg' = seg + 1 /\ try' = 0
      BY <1>1, <2>2
    <3>2. \A k \in 1..n + 1 : ts'[k] = <<k, TRUE>>
      <4>1. ts'[n + 1] = <<n + 1, TRUE>>
        BY <1>3, <1>8, <2>2
      <4>2. \A k \in 1..n + 1 : k \in 1..n \/ k = n + 1
        BY <1>3
      <4>3. QED  BY <2>1, <4>1, <4>2
    <3>3. seg' \in 1..NSegments + 1 /\ try' \in 0..Tries /\ Len(ts') = seg' - 1 /\ 1..seg' - 1 = 1..n + 1
      BY <1>2, <1>3, <1>8, <3>1
    <3>4. QED  BY <1>8, <3>1, <3>2, <3>3 DEF Streamed
  <2>3. CASE ~whole
    <3>1. seg' = seg /\ try' = try + 1
      BY <1>1, <2>3
    <3>2. seg' \in 1..NSegments + 1 /\ try' \in 0..Tries /\ try' # 0 /\ Len(ts') = seg' /\ seg' # NSegments + 1
          /\ 1..seg' - 1 = 1..n
      BY <1>2, <1>3, <1>8, <3>1
    <3>3. QED  BY <1>8, <2>1, <3>2 DEF Streamed
  <2>4. QED  BY <2>2, <2>3
<1>10. QED  BY <1>1, <1>9 DEF StreamInv, Joined

\* What is joined is all of it.
LEMMA RemuxKeeps ==
  ASSUME StreamInv, Remux
  PROVE  StreamInv'
<1>1. /\ seg > NSegments /\ TsClosed
      /\ joined' = [p \in DOMAIN joined \cup {url} |-> IF p = url THEN ts ELSE joined[p]]
  BY DEF Remux
<1>2. seg = NSegments + 1 /\ NSegments \in Nat /\ Len(ts) = NSegments
  BY <1>1, Constants DEF StreamInv, Streamed
<1>3. ts = [k \in 1..NSegments |-> <<k, TRUE>>]
  <2>1. ts \in Seq((1..NSegments) \X BOOLEAN) /\ \A k \in 1..NSegments : ts[k] = <<k, TRUE>>
    BY <1>2 DEF StreamInv, Streamed
  <2>2. DOMAIN ts = 1..NSegments /\ ts = [k \in DOMAIN ts |-> ts[k]]
    BY <1>2, <2>1
  <2>3. QED  BY <2>1, <2>2
<1>4. Joined'
  BY <1>1, <1>3 DEF StreamInv, Joined
<1>5. QED  BY <1>1, <1>4, ClosedStreamed DEF StreamInv

LEMMA NextStream == StreamInv /\ [Next]_vars => StreamInv'
<1> SUFFICES ASSUME StreamInv, [Next]_vars PROVE StreamInv'
  OBVIOUS
<1>1. ASSUME UNCHANGED tsVars PROVE StreamInv'
  BY <1>1 DEF StreamInv, Streamed, Joined, tsVars
<1>2. ASSUME TsClosed, joined' = joined PROVE StreamInv'
  BY <1>2, ClosedStreamed DEF StreamInv, Joined
<1>3. CASE UNCHANGED vars
  BY <1>1, <1>3 DEF vars
<1>4. CASE Transfer \/ Items
  <2>1. ASSUME NEW w \in BOOLEAN, SegmentStreams(w) PROVE StreamInv'
    BY <2>1, SegmentKeeps
  <2>2. CASE Remux
    BY <2>2, RemuxKeeps
  <2>3. CASE DirectFails \/ Playlist
    BY <1>2, <2>3 DEF DirectFails, Playlist
  <2>4. CASE DirectStarts \/ DirectGets \/ BulkOver
    BY <1>1, <2>4 DEF DirectStarts, DirectGets, BulkOver
  <2>5. QED  BY <1>4, <2>1, <2>2, <2>3, <2>4 DEF Transfer, Items
<1>5. CASE Run
  BY <1>1, <1>5 DEF Run, EngineMissing, EngineStarts, RunOver, Again
<1>6. CASE EngineWrites \/ EngineEnds
  BY <1>1, <1>6 DEF EngineWrites, EngineEnds, EngineExits
<1>7. CASE HearsEnd
  BY <1>2, <1>7 DEF HearsEnd
<1>8. CASE Upload \/ Cancel
  BY <1>1, <1>8 DEF Upload, Uploads, Cancel
<1>9. QED  BY <1>3, <1>4, <1>5, <1>6, <1>7, <1>8 DEF Next

\* A playlist of any length is joined of its segments, whole, once and in order,
\* however many attempts broke off (hls.go:320-399); and a file that has reached the
\* chat stays out of the upload stage's way, however often the engines fetch it
\* again (pipeline.go:98-103).
THEOREM PlaylistsAreWhole == Spec => WholeAndOnce
<1>1. StreamInv => \A p \in DOMAIN joined : joined[p] = [k \in 1..NSegments |-> <<k, TRUE>>]
  BY DEF StreamInv, Joined
<1>2. [Next]_vars => [~ended => delivered \cap dir \subseteq dir']_vars
  <2> SUFFICES ASSUME Next, ~ended PROVE delivered \cap dir \subseteq dir'
    OBVIOUS
  <2>1. CASE Transfer \/ Items
    BY <2>1 DEF Transfer, Items, DirectStarts, DirectGets, DirectFails, Playlist, SegmentStreams, Remux, BulkOver, Arrives
  <2>2. CASE Run
    BY <2>2 DEF Run, EngineMissing, EngineStarts, RunOver, Again
  <2>3. CASE EngineWrites \/ EngineEnds
    BY <2>3 DEF EngineWrites, EngineEnds, EngineExits, Arrives
  <2>4. CASE HearsEnd \/ Upload \/ Cancel
    BY <2>4 DEF HearsEnd, Upload, Uploads, Cancel
  <2>5. QED  BY <2>1, <2>2, <2>3, <2>4 DEF Next
<1>3. QED  BY <1>1, <1>2, InitStream, NextStream, PTL DEF Spec, WholeAndOnce

-----------------------------------------------------------------------------
(* Who has been asked.  The URLs before the one in turn are settled; of the  *)
(* one in turn, all before the engine in turn have been asked.               *)

Everybody == Engines \cup {"direct"}
Excused(u) == u \in shadowed \/ \E f \in Fetched : f[1] = u

\* Places in the chain that have been asked for the URL in turn.
Before == IF pc = "engine" THEN 1..eng
          ELSE IF pc \in {"direct", "segments"} /\ ~bulk THEN 1..2 ELSE 1..eng - 1

Turn ==
  /\ pc = "bulk" => bulk
  /\ pc \in {"chain", "engine", "sleep"} => ~bulk
  /\ bulk \/ url > NUrls \/ pc \in {"direct", "segments", "sleep"} => eng = 1
  /\ pc = "segments" => url \in Playlists

Through(u) == IF bulk THEN "direct" \in asked[u] ELSE asked[u] = Everybody

Seen == ~ended /\ pc # "over" =>
  /\ \A u \in Urls : u < url => Excused(u) \/ Through(u)
  /\ url \in Urls => Excused(url) \/ \A e \in Before : Chain[e] \in asked[url]

\* What the source leaves behind when it returns.
Left == ~ended /\ pc = "over" => \A u \in Urls :
  Excused(u) \/ asked[u] = Everybody \/ (DirectOnly /\ "direct" \in asked[u])

AskInv == StreamInv /\ TypeOK /\ Turn /\ Seen /\ Left

LEMMA Numbers ==
  /\ NUrls \in Nat \ {0} /\ MaxRetries \in Nat /\ Playlists \subseteq Urls
  /\ 1 \in 1..NUrls + 1 /\ 0 \in 0..MaxRetries
<1>1. NUrls \in Nat \ {0} /\ MaxRetries \in Nat /\ Playlists \subseteq Urls
  BY FetchAssumption
<1>2. QED  BY <1>1

LEMMA BothEngines == Chain[1] \in Engines /\ Chain[2] \in Engines /\ Engines = {Chain[1], Chain[2]}
<1>1. Chain = <<"cdl", "gdl">> \/ Chain = <<"gdl", "cdl">>
  BY DEF Chain
<1>2. QED  BY <1>1 DEF Engines

LEMMA EngineKnown ==
  ASSUME TypeOK
  PROVE  Engine \in Everybody
<1>1. eng \in 1..2
  BY DEF TypeOK
<1>2. eng = 1 \/ eng = 2
  BY <1>1
<1>3. QED  BY <1>2, BothEngines DEF Engine, Everybody

LEMMA UrlInTurn ==
  ASSUME TypeOK
  PROVE  /\ url <= NUrls => url \in Urls
         /\ url > NUrls => url \notin Urls /\ \A u \in Urls : u < url
<1>1. url \in 1..NUrls + 1
  BY DEF TypeOK
<1>2. QED  BY <1>1, Numbers DEF Urls

LEMMA InitAsk == Init => AskInv
<1> SUFFICES ASSUME Init PROVE AskInv
  OBVIOUS
<1>1. StreamInv
  BY InitStream
<1>2. /\ pc \in {"bulk", "chain"} /\ url = 1 /\ eng = 1
      /\ retries = 0 /\ dir = {} /\ delivered = {} /\ shadowed = {}
  BY DEF Init
<1>3. bulk \in BOOLEAN /\ (pc = "bulk" <=> bulk)
  BY DEF Init
<1>4. TypeOK
  <2>1. url \in 1..NUrls + 1 /\ eng \in 1..2 /\ retries \in 0..MaxRetries /\ bulk \in BOOLEAN
    BY <1>2, <1>3, Numbers
  <2>2. asked \in [Urls -> SUBSET (Engines \cup {"direct"})] /\ DOMAIN joined \subseteq Playlists
    BY DEF Init
  <2>3. /\ source \in Sources /\ limited \in BOOLEAN /\ junk \in BOOLEAN /\ ended \in BOOLEAN
        /\ result \in {"", "ok", "failed", "cancelled"} /\ (pc = "over" <=> result # "")
    BY <1>2 DEF Init
  <2>4. QED  BY <1>1, <1>2, <2>1, <2>2, <2>3 DEF TypeOK, StreamInv, Streamed
<1>5. Turn
  BY <1>2, <1>3, Numbers DEF Turn
<1>6. Seen
  <2>1. Before = 1..0
    BY <1>2 DEF Before
  <2>2. \A u \in Urls : ~(u < 1)
    BY Numbers DEF Urls
  <2>3. QED  BY <1>2, <2>1, <2>2 DEF Seen
<1>7. Left
  BY <1>2 DEF Left
<1>8. QED  BY <1>1, <1>4, <1>5, <1>6, <1>7 DEF AskInv

-----------------------------------------------------------------------------
(* What an answer, or the lack of one, does to the record *)

\* Of a URL nobody had, the record only grows; who has a URL keeps it.
Grows == \A u \in Urls : (Excused(u) => Excused(u)') /\ (Excused(u)' \/ asked[u] \subseteq asked'[u])

LEMMA AsksGrow ==
  ASSUME TypeOK, url \in Urls, NEW who \in Everybody, Asks(who), UNCHANGED <<dir, delivered>>,
         shadowed \subseteq shadowed'
  PROVE  /\ asked' \in [Urls -> SUBSET Everybody]
         /\ Grows
         /\ Excused(url) \/ asked'[url] = asked[url] \cup {who}
<1>1. /\ asked \in [Urls -> SUBSET Everybody]
      /\ asked' = [asked EXCEPT ![url] =
           IF \E f \in Fetched : f[1] = url THEN {} ELSE asked[url] \cup {who}]
  BY DEF TypeOK, Asks, Everybody
<1>2. Fetched' = Fetched
  BY DEF Fetched
<1>3. asked' \in [Urls -> SUBSET Everybody]
  BY <1>1
<1>4. Excused(url) \/ asked'[url] = asked[url] \cup {who}
  BY <1>1 DEF Excused
<1>5. \A u \in Urls : Excused(u) => Excused(u)'
  BY <1>2 DEF Excused
<1>6. ASSUME NEW u \in Urls PROVE Excused(u)' \/ asked[u] \subseteq asked'[u]
  <2>1. CASE u = url
    <3>1. Excused(u)' \/ asked'[u] = asked[u] \cup {who}
      BY <1>1, <1>2, <2>1 DEF Excused
    <3>2. QED  BY <3>1
  <2>2. CASE u # url
    BY <1>1, <2>2
  <2>3. QED  BY <2>1, <2>2
<1>7. QED  BY <1>3, <1>4, <1>5, <1>6 DEF Grows

LEMMA ArrivesGrow ==
  ASSUME TypeOK, url \in Urls, NEW who \in Everybody, Arrives(<<url, who>>), UNCHANGED <<delivered, shadowed>>
  PROVE  /\ asked' \in [Urls -> SUBSET Everybody] /\ dir' \subseteq Files
         /\ Grows
         /\ <<url, who>> \in Fetched'
<1>1. /\ asked \in [Urls -> SUBSET Everybody] /\ dir' = dir \cup {<<url, who>>}
      /\ asked' = [asked EXCEPT ![url] = {}]
  BY DEF TypeOK, Arrives, Everybody
<1>2. Fetched \subseteq Fetched' /\ <<url, who>> \in Fetched'
  BY <1>1 DEF Fetched
<1>3. asked' \in [Urls -> SUBSET Everybody] /\ dir' \subseteq Files
  <2>1. <<url, who>> \in Files
    BY DEF Files, Everybody
  <2>2. QED  BY <1>1, <2>1 DEF TypeOK
<1>4. \A u \in Urls : Excused(u) => Excused(u)'
  BY <1>2 DEF Excused
<1>5. \A u \in Urls : Excused(u)' \/ asked[u] \subseteq asked'[u]
  <2>1. \A u \in Urls : u = url \/ asked'[u] = asked[u]
    BY <1>1
  <2>2. ASSUME NEW u \in Urls, u = url PROVE Excused(u)'
    BY <1>2, <2>2 DEF Excused
  <2>3. QED  BY <2>1, <2>2
<1>6. QED  BY <1>2, <1>3, <1>4, <1>5 DEF Grows

LEMMA SameGrow ==
  ASSUME Fetched \subseteq Fetched', shadowed \subseteq shadowed', asked' = asked
  PROVE  Grows
BY DEF Grows, Excused

\* A step that stays where it is.
LEMMA StaysAt ==
  ASSUME AskInv, UNCHANGED <<source, pc, url, bulk, eng>>,
         ended' \/ (~ended /\ Grows /\ asked' \in [Urls -> SUBSET Everybody] /\ Fetched \subseteq Fetched')
  PROVE  Turn' /\ Seen' /\ Left'
<1>1. Turn'
  BY DEF AskInv, Turn
<1>2. CASE ended'
  BY <1>1, <1>2 DEF Seen, Left
<1>3. CASE ~ended /\ Grows /\ asked' \in [Urls -> SUBSET Everybody] /\ Fetched \subseteq Fetched'
  <2>1. \A u \in Urls : Through(u) => Excused(u)' \/ Through(u)'
    BY <1>3 DEF Through, Grows
  <2>2. Seen'
    <3>1. Chain' = Chain /\ Before' = Before
      BY DEF Chain, Before
    <3>2. ASSUME url \in Urls, Excused(url) \/ \A e \in Before : Chain[e] \in asked[url]
          PROVE  Excused(url)' \/ \A e \in Before : Chain[e] \in asked'[url]
      <4>1. PICK v \in Urls : v = url
        BY <3>2
      <4>2. Excused(v)' \/ \A e \in Before : Chain[e] \in asked'[v]
        BY <1>3, <3>2, <4>1 DEF Grows
      <4>3. Excused(v)' <=> Excused(url)'
        BY <4>1 DEF Excused
      <4>4. QED  BY <4>1, <4>2, <4>3
    <3>3. QED  BY <1>3, <2>1, <3>1, <3>2 DEF AskInv, Seen, Grows
  <2>3. Left'
    <3>1. DirectOnly => DirectOnly'
      BY <1>3 DEF DirectOnly
    <3>2. QED  BY <1>3, <3>1 DEF AskInv, Left, Grows
  <2>4. QED  BY <1>1, <2>2, <2>3
<1>4. QED  BY <1>2, <1>3

\* A step that goes on with the same URL: each place of the chain that is behind it
\* now was so before, or has been asked in the step.
LEMMA GoesOn ==
  ASSUME AskInv, ~ended, ~ended', pc # "over", pc' # "over", UNCHANGED <<source, url, bulk>>,
         Grows, asked' \in [Urls -> SUBSET Everybody],
         url \in Urls => Excused(url) \/ \A e \in Before' : e \in Before \/ Chain[e] \in asked'[url]
  PROVE  Seen' /\ Left'
<1>1. \A u \in Urls : Through(u) => Excused(u)' \/ Through(u)'
  BY DEF Through, Grows
<1>2. Chain' = Chain
  BY DEF Chain
<1>3. ASSUME url \in Urls PROVE Excused(url)' \/ \A e \in Before' : Chain[e] \in asked'[url]
  <2>1. PICK v \in Urls : v = url
    BY <1>3
  <2>2. Excused(v) \/ \A e \in Before : Chain[e] \in asked[v]
    BY <2>1 DEF AskInv, Seen
  <2>3. Excused(v)' \/ \A e \in Before' : Chain[e] \in asked'[v]
    BY <2>1, <2>2 DEF Grows
  <2>4. Excused(v)' <=> Excused(url)'
    BY <2>1 DEF Excused
  <2>5. QED  BY <2>1, <2>3, <2>4
<1>4. Seen'
  BY <1>1, <1>2, <1>3 DEF AskInv, Seen, Grows
<1>5. QED  BY <1>4 DEF Left

\* A step to the next URL, of which nobody has been asked yet.
LEMMA NextUrl ==
  ASSUME AskInv, ~ended, ~ended', pc # "over", NEW v \in Urls, v = url,
         url' = url + 1, bulk' = bulk, eng' = 1, pc' = IF bulk THEN "bulk" ELSE "chain",
         Grows, asked' \in [Urls -> SUBSET Everybody], Excused(v)' \/ Through(v)'
  PROVE  Turn' /\ Seen' /\ Left'
<1>1. \A u \in Urls : Through(u) => Excused(u)' \/ Through(u)'
  BY DEF Through, Grows
<1>2. Turn'
  BY DEF Turn
<1>3. Before' = 1..0
  BY DEF Before
<1>4. \A u \in Urls : u < url' => u < url \/ u = v
  BY Numbers DEF Urls
<1>5. Seen'
  BY <1>1, <1>3, <1>4 DEF AskInv, Seen, Grows
<1>6. QED  BY <1>2, <1>5 DEF Left

-----------------------------------------------------------------------------
(* The direct download *)

LEMMA DirectMovesKeep ==
  ASSUME AskInv, DirectStarts \/ Playlist
  PROVE  AskInv'
<1>1. StreamInv'
  BY NextStream DEF AskInv, Next, Transfer, Items
<1>2. /\ url \in Urls /\ ~ended /\ eng = 1
      /\ \/ pc = "bulk" /\ pc' = "direct"
         \/ pc = "direct" /\ pc' = "segments" /\ url \in Playlists
      /\ UNCHANGED <<source, url, bulk, eng, retries, limited, result, dir, junk, joined, ended, delivered, asked, shadowed>>
  BY UrlInTurn DEF AskInv, TypeOK, Turn, DirectStarts, Playlist, tsVars, logVars
<1>3. TypeOK'
  <2>1. pc # "over" /\ pc' # "over"
    BY <1>2
  <2>2. QED  BY <1>1, <1>2, <2>1 DEF AskInv, TypeOK, StreamInv, Streamed
<1>4. Turn'
  BY <1>2 DEF AskInv, Turn
<1>5. Seen' /\ Left'
  <2>1. Grows
    BY <1>2, SameGrow DEF Fetched
  <2>2. asked' \in [Urls -> SUBSET Everybody]
    BY <1>2 DEF AskInv, TypeOK, Everybody
  <2>3. \A e \in Before' : e \in Before
    BY <1>2 DEF Before, AskInv, Turn
  <2>4. QED  BY <1>2, <2>1, <2>2, <2>3, GoesOn
<1>6. QED  BY <1>1, <1>3, <1>4, <1>5 DEF AskInv

LEMMA DirectGetsKeep ==
  ASSUME AskInv, DirectGets \/ Remux
  PROVE  AskInv'
<1>1. StreamInv'
  BY NextStream DEF AskInv, Next, Transfer, Items
<1>2. /\ url \in Urls /\ ~ended /\ pc \in {"direct", "segments"} /\ (pc = "segments" => url \in Playlists)
      /\ Arrives(<<url, "direct">>)
      /\ UNCHANGED <<source, bulk, retries, limited, result, junk, ended, delivered, shadowed>>
      /\ url' = url + 1 /\ eng' = 1 /\ pc' = IF bulk THEN "bulk" ELSE "chain"
      /\ DOMAIN joined' \subseteq DOMAIN joined \cup {url}
      /\ pc = "direct" => joined' = joined
  BY DEF AskInv, TypeOK, Turn, DirectGets, Remux, ItemOver, tsVars
<1>3. "direct" \in Everybody
  BY DEF Everybody
<1>4. asked' \in [Urls -> SUBSET Everybody] /\ dir' \subseteq Files /\ Grows /\ <<url, "direct">> \in Fetched'
  BY <1>2, <1>3, ArrivesGrow DEF AskInv
<1>5. url' \in 1..NUrls + 1
  BY <1>2, Numbers DEF Urls
<1>6. TypeOK'
  <2>1. DOMAIN joined' \subseteq Playlists
    BY <1>2 DEF AskInv, TypeOK
  <2>2. pc # "over" /\ pc' # "over" /\ pc' \in {"bulk", "chain"}
    BY <1>2
  <2>3. eng' \in 1..2
    BY <1>2
  <2>4. QED  BY <1>1, <1>2, <1>4, <1>5, <2>1, <2>2, <2>3 DEF AskInv, TypeOK, StreamInv, Streamed, Everybody
<1>7. PICK v \in Urls : v = url
  BY <1>2
<1>8. Excused(v)'
  BY <1>4, <1>7 DEF Excused
<1>9. Turn' /\ Seen' /\ Left'
  BY <1>2, <1>4, <1>7, <1>8, NextUrl
<1>10. QED  BY <1>1, <1>6, <1>9 DEF AskInv

LEMMA DirectFailsKeeps ==
  ASSUME AskInv, DirectFails
  PROVE  AskInv'
<1>1. StreamInv'
  BY NextStream DEF AskInv, Next, Transfer, Items
<1>2. /\ url \in Urls /\ ~ended /\ pc \in {"direct", "segments"}
      /\ Asks("direct")
      /\ UNCHANGED <<source, bulk, retries, limited, result, dir, junk, joined, ended, delivered, shadowed>>
      /\ url' = url + 1 /\ eng' = 1 /\ pc' = IF bulk THEN "bulk" ELSE "chain"
  BY DEF AskInv, TypeOK, DirectFails, ItemOver
<1>3. "direct" \in Everybody
  BY DEF Everybody
<1>4. asked' \in [Urls -> SUBSET Everybody] /\ Grows /\ (Excused(url) \/ asked'[url] = asked[url] \cup {"direct"})
  BY <1>2, <1>3, AsksGrow DEF AskInv
<1>5. url' \in 1..NUrls + 1
  BY <1>2, Numbers DEF Urls
<1>6. TypeOK'
  <2>1. pc # "over" /\ pc' # "over" /\ pc' \in {"bulk", "chain"}
    BY <1>2
  <2>2. eng' \in 1..2
    BY <1>2
  <2>3. QED  BY <1>1, <1>2, <1>4, <1>5, <2>1, <2>2 DEF AskInv, TypeOK, StreamInv, Streamed, Everybody
<1>7. PICK v \in Urls : v = url
  BY <1>2
<1>8. Excused(v)' \/ Through(v)'
  <2>1. CASE Excused(v)
    BY <1>4, <2>1 DEF Grows
  <2>2. CASE ~Excused(v)
    <3>1. asked'[v] = asked[v] \cup {"direct"}
      BY <1>4, <1>7, <2>2
    <3>2. ~bulk => Engines \subseteq asked[v]
      <4>1. ~bulk => \A e \in 1..2 : Chain[e] \in asked[v]
        BY <1>2, <1>7, <2>2 DEF AskInv, Seen, Before
      <4>2. QED  BY <4>1, BothEngines
    <3>3. asked'[v] \subseteq Everybody
      BY <1>4
    <3>4. QED  BY <1>2, <3>1, <3>2, <3>3 DEF Through, Everybody
  <2>3. QED  BY <2>1, <2>2
<1>9. Turn' /\ Seen' /\ Left'
  BY <1>2, <1>4, <1>7, <1>8, NextUrl
<1>10. QED  BY <1>1, <1>6, <1>9 DEF AskInv

\* All items are through, or the engines are next, with the first URL again.
LEMMA BulkOverKeeps ==
  ASSUME AskInv, BulkOver
  PROVE  AskInv'
<1>1. StreamInv'
  BY NextStream DEF AskInv, Next, Transfer, Items
<1>2. /\ url > NUrls /\ ~ended /\ pc = "bulk" /\ bulk /\ eng = 1
      /\ UNCHANGED <<source, eng, retries, limited, dir, junk, joined, ended, delivered, asked, shadowed>>
  BY DEF AskInv, Turn, BulkOver, tsVars, logVars
<1>3. \/ pc' = "over" /\ result' \in {"ok", "failed"} /\ UNCHANGED <<url, bulk>>
      \/ pc' = "chain" /\ url' = 1 /\ bulk' = FALSE /\ UNCHANGED result
  BY DEF BulkOver, Over
<1>4. TypeOK'
  <2>1. url' \in 1..NUrls + 1 /\ bulk' \in BOOLEAN
    BY <1>3, Numbers DEF AskInv, TypeOK
  <2>2. pc # "over" /\ pc' \in {"over", "chain"} /\ (pc' = "over" <=> result' # "")
        /\ result' \in {"", "ok", "failed", "cancelled"}
    BY <1>2, <1>3 DEF AskInv, TypeOK
  <2>3. QED  BY <1>1, <1>2, <2>1, <2>2 DEF AskInv, TypeOK, StreamInv, Streamed
<1>5. Turn'
  BY <1>2, <1>3 DEF Turn
<1>6. Seen'
  <2>1. CASE pc' = "over"
    BY <2>1 DEF Seen
  <2>2. CASE url' = 1 /\ pc' = "chain"
    <3>1. \A u \in Urls : ~(u < 1)
      BY Numbers DEF Urls
    <3>2. Before' = 1..0
      BY <1>2, <2>2 DEF Before
    <3>3. QED  BY <2>2, <3>1, <3>2 DEF Seen
  <2>3. QED  BY <1>3, <2>1, <2>2
<1>7. Left'
  <2>1. \A u \in Urls : u < url
    BY <1>2, UrlInTurn DEF AskInv
  <2>2. \A u \in Urls : Excused(u) \/ "direct" \in asked[u]
    BY <1>2, <2>1 DEF AskInv, Seen, Through
  <2>3. \A u \in Urls : Excused(u) <=> Excused(u)'
    BY <1>2 DEF Excused, Fetched
  <2>4. pc' = "over" => DirectOnly'
    <3>1. pc' = "over" => source = "direct" \/ \E f \in Fetched : f[2] = "direct"
      BY DEF BulkOver
    <3>2. QED  BY <1>2, <1>3, <3>1 DEF DirectOnly, Fetched
  <2>5. QED  BY <1>2, <2>2, <2>3, <2>4 DEF Left
<1>8. QED  BY <1>1, <1>4, <1>5, <1>6, <1>7 DEF AskInv

-----------------------------------------------------------------------------
(* The engines *)

\* The next place of the chain, or the direct download, once this one was asked.
LEMMA NextEngineKeeps ==
  ASSUME AskInv, ~ended, ~ended', url \in Urls, pc \in {"chain", "engine"}, NextEngine,
         UNCHANGED <<source, url, bulk>>, Grows, asked' \in [Urls -> SUBSET Everybody],
         pc = "engine" \/ Excused(url) \/ Engine \in asked'[url]
  PROVE  Turn' /\ Seen' /\ Left' /\ eng' \in 1..2 /\ pc' \in {"chain", "direct"}
<1>1. eng \in 1..2 /\ ~bulk
  BY DEF AskInv, TypeOK, Turn
<1>2. \/ eng = 1 /\ eng' = 2 /\ pc' = "chain"
      \/ eng = 2 /\ eng' = 1 /\ pc' = "direct"
  BY <1>1 DEF NextEngine
<1>3. Turn'
  BY <1>1, <1>2, Numbers DEF Turn, Urls
<1>4. Excused(url) \/ \A e \in Before' : e \in Before \/ Chain[e] \in asked'[url]
  <2>1. Before' = 1..eng
    <3>1. CASE eng = 1
      BY <1>1, <1>2, <3>1 DEF Before
    <3>2. CASE eng = 2
      BY <1>1, <1>2, <3>2 DEF Before
    <3>3. QED  BY <1>1, <3>1, <3>2
  <2>2. pc = "engine" => Before = 1..eng
    BY DEF Before
  <2>3. pc = "chain" => Before = 1..eng - 1
    BY DEF Before
  <2>4. \A e \in 1..eng : e \in 1..eng - 1 \/ e = eng
    BY <1>1
  <2>5. QED  BY <2>1, <2>2, <2>3, <2>4 DEF Engine
<1>5. pc # "over" /\ pc' # "over"
  BY <1>2
<1>6. Seen' /\ Left'
  BY <1>4, <1>5, GoesOn
<1>7. QED  BY <1>2, <1>3, <1>6

LEMMA EngineAsks ==
  ASSUME AskInv, EngineMissing \/ EngineStarts
  PROVE  AskInv'
<1>1. StreamInv'
  BY NextStream DEF AskInv, Next, Run
<1>2. /\ url \in Urls /\ ~ended /\ pc = "chain" /\ Asks(Engine)
      /\ UNCHANGED <<source, url, bulk, retries, limited, result, dir, junk, joined, ended, delivered, shadowed>>
  BY UrlInTurn DEF AskInv, EngineMissing, EngineStarts, tsVars
<1>3. Engine \in Everybody
  BY EngineKnown DEF AskInv
<1>4. asked' \in [Urls -> SUBSET Everybody] /\ Grows /\ (Excused(url) \/ asked'[url] = asked[url] \cup {Engine})
  BY <1>2, <1>3, AsksGrow DEF AskInv
<1>5. Turn' /\ Seen' /\ Left' /\ eng' \in 1..2 /\ pc' \in {"chain", "direct", "engine"}
  <2>1. CASE EngineMissing
    BY <1>2, <1>4, <2>1, NextEngineKeeps DEF EngineMissing
  <2>2. CASE EngineStarts
    <3>1. pc' = "engine" /\ eng' = eng
      BY <2>2 DEF EngineStarts
    <3>2. Turn'
      BY <1>2, <3>1 DEF AskInv, Turn
    <3>3. Excused(url) \/ \A e \in Before' : e \in Before \/ Chain[e] \in asked'[url]
      <4>1. Before' = 1..eng /\ Before = 1..eng - 1 /\ eng \in 1..2
        BY <1>2, <3>1 DEF Before, AskInv, TypeOK
      <4>2. \A e \in 1..eng : e \in 1..eng - 1 \/ e = eng
        BY <4>1
      <4>3. QED  BY <1>4, <4>1, <4>2 DEF Engine
    <3>4. Seen' /\ Left'
      BY <1>2, <1>4, <3>1, <3>3, GoesOn
    <3>5. QED  BY <3>1, <3>2, <3>4 DEF AskInv, TypeOK
  <2>3. QED  BY <2>1, <2>2
<1>6. TypeOK'
  <2>1. pc # "over" /\ pc' # "over"
    BY <1>2, <1>5
  <2>2. QED  BY <1>1, <1>2, <1>4, <1>5, <2>1 DEF AskInv, TypeOK, StreamInv, Streamed, Everybody
<1>7. QED  BY <1>1, <1>5, <1>6 DEF AskInv

LEMMA EngineWritesKeeps ==
  ASSUME AskInv, EngineWrites
  PROVE  AskInv'
<1>1. StreamInv'
  BY NextStream DEF AskInv, Next
<1>2. /\ url \in Urls /\ ~ended /\ pc = "engine" /\ Arrives(<<url, Engine>>)
      /\ UNCHANGED <<source, pc, url, bulk, eng, retries, limited, result, junk, joined, ended, delivered, shadowed>>
  BY DEF AskInv, TypeOK, EngineWrites, runVars, tsVars
<1>3. Engine \in Everybody
  BY EngineKnown DEF AskInv
<1>4. asked' \in [Urls -> SUBSET Everybody] /\ dir' \subseteq Files /\ Grows
  BY <1>2, <1>3, ArrivesGrow DEF AskInv
<1>5. TypeOK'
  BY <1>1, <1>2, <1>4 DEF AskInv, TypeOK, StreamInv, Streamed, Everybody
<1>6. Turn' /\ Seen' /\ Left'
  <2>1. Fetched \subseteq Fetched'
    BY <1>2 DEF Fetched, Arrives
  <2>2. QED  BY <1>2, <1>4, <2>1, StaysAt
<1>7. QED  BY <1>1, <1>5, <1>6 DEF AskInv

LEMMA EngineExitsKeeps ==
  ASSUME AskInv, NEW code \in {0, 1}, NEW counts \in BOOLEAN, NEW rate \in BOOLEAN, EngineExits(code, counts, rate)
  PROVE  AskInv'
<1>1. StreamInv'
  BY NextStream DEF AskInv, Next, EngineEnds
<1>2. /\ url \in Urls /\ ~ended /\ pc = "engine" /\ ~bulk
      /\ UNCHANGED <<source, bulk, retries, result, dir, joined, ended, delivered, asked>>
  BY DEF AskInv, TypeOK, Turn, EngineExits, tsVars
<1>3. junk' \in BOOLEAN /\ limited' \in BOOLEAN
  BY DEF AskInv, TypeOK, EngineExits
<1>4. \/ /\ url' = url + 1 /\ eng' = 1 /\ pc' = "chain"
         /\ shadowed' = IF <<url, Engine>> \in Fetched THEN shadowed ELSE shadowed \cup {url}
      \/ NextEngine /\ UNCHANGED <<url, shadowed>>
  BY DEF EngineExits
<1>5. asked' \in [Urls -> SUBSET Everybody] /\ Grows /\ shadowed' \subseteq Urls
  <2>1. shadowed \subseteq shadowed' /\ shadowed' \subseteq Urls
    BY <1>2, <1>4 DEF AskInv, TypeOK
  <2>2. Grows
    BY <1>2, <2>1, SameGrow DEF Fetched
  <2>3. QED  BY <1>2, <2>1, <2>2 DEF AskInv, TypeOK, Everybody
<1>6. Turn' /\ Seen' /\ Left' /\ eng' \in 1..2 /\ pc' \in {"chain", "direct"} /\ url' \in 1..NUrls + 1
      /\ (pc' = "direct" => url' \in Urls)
  <2>1. CASE /\ url' = url + 1 /\ eng' = 1 /\ pc' = "chain"
             /\ shadowed' = IF <<url, Engine>> \in Fetched THEN shadowed ELSE shadowed \cup {url}
    <3>1. PICK v \in Urls : v = url
      BY <1>2
    <3>2. Excused(v)'
      <4>1. <<url, Engine>>[1] = url
        OBVIOUS
      <4>2. Excused(v) \/ v \in shadowed'
        BY <2>1, <3>1, <4>1 DEF Excused
      <4>3. QED  BY <1>5, <4>2 DEF Grows, Excused
    <3>3. url' \in 1..NUrls + 1
      BY <1>2, <2>1, Numbers DEF Urls
    <3>4. QED  BY <1>2, <1>5, <2>1, <3>1, <3>2, <3>3, NextUrl
  <2>2. CASE NextEngine /\ UNCHANGED <<url, shadowed>>
    <3>1. url' \in 1..NUrls + 1 /\ url' \in Urls
      BY <1>2, <2>2 DEF AskInv, TypeOK
    <3>2. QED  BY <1>2, <1>5, <2>2, <3>1, NextEngineKeeps
  <2>3. QED  BY <1>4, <2>1, <2>2
<1>7. TypeOK'
  <2>1. pc # "over" /\ pc' # "over"
    BY <1>2, <1>6
  <2>2. QED  BY <1>1, <1>2, <1>3, <1>5, <1>6, <2>1 DEF AskInv, TypeOK, StreamInv, Streamed, Everybody
<1>8. QED  BY <1>1, <1>6, <1>7 DEF AskInv

\* The last URL is through.
LEMMA RunOverKeeps ==
  ASSUME AskInv, RunOver
  PROVE  AskInv'
<1>1. StreamInv'
  BY NextStream DEF AskInv, Next, Run
<1>2. /\ url > NUrls /\ ~ended /\ pc = "chain" /\ ~bulk /\ eng = 1
      /\ UNCHANGED <<source, url, bulk, eng, retries, limited, dir, junk, joined, ended, delivered, asked, shadowed>>
  BY DEF AskInv, Turn, RunOver, tsVars, logVars
<1>3. \/ pc' = "over" /\ result' \in {"ok", "failed"}
      \/ pc' = "sleep" /\ UNCHANGED result
  BY DEF RunOver, Over
<1>4. TypeOK'
  <2>1. pc # "over" /\ pc' \in {"over", "sleep"} /\ (pc' = "over" <=> result' # "")
        /\ result' \in {"", "ok", "failed", "cancelled"}
    BY <1>2, <1>3 DEF AskInv, TypeOK
  <2>2. QED  BY <1>1, <1>2, <2>1 DEF AskInv, TypeOK, StreamInv, Streamed
<1>5. Turn'
  BY <1>2, <1>3 DEF Turn
<1>6. url \notin Urls /\ \A u \in Urls : u < url
  BY <1>2, UrlInTurn DEF AskInv
<1>7. CASE pc' = "over"
  <2>1. \A u \in Urls : Excused(u) \/ asked[u] = Everybody
    BY <1>2, <1>6 DEF AskInv, Seen, Through
  <2>2. \A u \in Urls : Excused(u) <=> Excused(u)'
    BY <1>2 DEF Excused, Fetched
  <2>3. Seen' /\ Left'
    BY <1>2, <1>7, <2>1, <2>2 DEF Seen, Left
  <2>4. QED  BY <1>1, <1>4, <1>5, <2>3 DEF AskInv
<1>8. CASE pc' = "sleep"
  <2>1. Grows /\ asked' \in [Urls -> SUBSET Everybody]
    BY <1>2, SameGrow DEF Fetched, AskInv, TypeOK, Everybody
  <2>2. Seen' /\ Left'
    BY <1>2, <1>6, <1>8, <2>1, GoesOn
  <2>3. QED  BY <1>1, <1>4, <1>5, <2>2 DEF AskInv
<1>9. QED  BY <1>3, <1>7, <1>8

LEMMA AgainKeeps ==
  ASSUME AskInv, Again
  PROVE  AskInv'
<1>1. StreamInv'
  BY NextStream DEF AskInv, Next, Run
<1>2. /\ ~ended /\ pc = "sleep" /\ ~bulk /\ eng = 1 /\ pc' = "chain" /\ url' = 1
      /\ retries' = IF retries < MaxRetries THEN retries + 1 ELSE retries
      /\ UNCHANGED <<source, bulk, eng, limited, result, dir, junk, joined, ended, delivered, asked, shadowed>>
  BY DEF AskInv, Turn, Again, tsVars, logVars
<1>3. TypeOK'
  <2>1. retries \in 0..MaxRetries /\ MaxRetries \in Nat
    BY Numbers DEF AskInv, TypeOK
  <2>2. retries' \in 0..MaxRetries /\ url' \in 1..NUrls + 1
    BY <1>2, <2>1, Numbers
  <2>3. pc # "over" /\ pc' # "over"
    BY <1>2
  <2>4. QED  BY <1>1, <1>2, <2>2, <2>3 DEF AskInv, TypeOK, StreamInv, Streamed
<1>4. Turn'
  BY <1>2 DEF Turn
<1>5. Seen' /\ Left'
  <2>1. \A u \in Urls : ~(u < 1)
    BY Numbers DEF Urls
  <2>2. Before' = 1..0
    BY <1>2 DEF Before
  <2>3. QED  BY <1>2, <2>1, <2>2 DEF Seen, Left
<1>6. QED  BY <1>1, <1>3, <1>4, <1>5 DEF AskInv

-----------------------------------------------------------------------------
(* The rest *)

LEMMA QuietKeeps ==
  ASSUME AskInv, (\E w \in BOOLEAN : SegmentStreams(w)) \/ Upload \/ Cancel \/ UNCHANGED vars
  PROVE  AskInv'
<1>1. StreamInv'
  BY NextStream DEF AskInv, Next, Transfer, Items
<1>2. /\ UNCHANGED <<source, pc, url, bulk, eng, retries, limited, result, junk, joined, asked, shadowed>>
      /\ ended' \in BOOLEAN /\ (ended' \/ ~ended)
  BY DEF AskInv, TypeOK, SegmentStreams, Upload, Uploads, Cancel, vars, runVars, tsVars, logVars
<1>3. Fetched' = Fetched /\ dir' \subseteq Files /\ delivered' \subseteq Files
  BY DEF Fetched, AskInv, TypeOK, SegmentStreams, Upload, Uploads, Cancel, vars
<1>4. TypeOK'
  BY <1>1, <1>2, <1>3 DEF AskInv, TypeOK, StreamInv, Streamed
<1>5. Grows /\ asked' \in [Urls -> SUBSET Everybody]
  BY <1>2, <1>3, SameGrow DEF AskInv, TypeOK, Everybody
<1>6. Turn' /\ Seen' /\ Left'
  BY <1>2, <1>3, <1>5, StaysAt
<1>7. QED  BY <1>1, <1>4, <1>6 DEF AskInv

LEMMA HearsEndKeeps ==
  ASSUME AskInv, HearsEnd
  PROVE  AskInv'
<1>1. StreamInv'
  BY NextStream DEF AskInv, Next
<1>2. /\ pc' = "over" /\ result' = "cancelled" /\ ended /\ dir' = {} /\ junk' = FALSE
      /\ UNCHANGED <<source, url, bulk, eng, retries, limited, joined, ended, delivered, asked, shadowed>>
  BY DEF HearsEnd, Over, logVars
<1>3. TypeOK'
  <2>1. result' \in {"", "ok", "failed", "cancelled"} /\ (pc' = "over" <=> result' # "")
    BY <1>2
  <2>2. QED  BY <1>1, <1>2, <2>1 DEF AskInv, TypeOK, StreamInv, Streamed
<1>4. Turn' /\ Seen' /\ Left'
  BY <1>2 DEF AskInv, Turn, Seen, Left
<1>5. QED  BY <1>1, <1>3, <1>4 DEF AskInv

LEMMA NextAsk == AskInv /\ [Next]_vars => AskInv'
<1> SUFFICES ASSUME AskInv, [Next]_vars PROVE AskInv'
  OBVIOUS
<1>1. CASE Transfer \/ Items
  BY <1>1, DirectMovesKeep, DirectGetsKeep, DirectFailsKeeps, BulkOverKeeps, QuietKeeps DEF Transfer, Items
<1>2. CASE Run
  BY <1>2, EngineAsks, RunOverKeeps, AgainKeeps DEF Run
<1>3. CASE EngineWrites \/ EngineEnds
  BY <1>3, EngineWritesKeeps, EngineExitsKeeps DEF EngineEnds
<1>4. CASE HearsEnd \/ Upload \/ Cancel \/ UNCHANGED vars
  BY <1>4, HearsEndKeeps, QuietKeeps
<1>5. QED  BY <1>1, <1>2, <1>3, <1>4 DEF Next

\* Of any number of URLs, each has been asked of the whole chain and the direct
\* download when the source returns, unless somebody had it, or the direct download got
\* another of the URLs and the engines were not asked at all (direct.go:239), or a file
\* of another one stood in for it (subproc.go:371, 416); and a job fails only if nothing reached the
\* chat and nothing is left on the disk (subproc.go:507, manager.go:814).
THEOREM NobodyLeftOut == Spec => []EveryUrlAsked
<1>1. AskInv => EveryUrlAsked
  <2> SUFFICES ASSUME AskInv PROVE EveryUrlAsked
    OBVIOUS
  <2>1. Idle /\ Verdict = "failed" => Fetched = {}
    BY DEF Idle, Verdict, Fetched
  <2>2. QED  BY <2>1 DEF AskInv, Left, Excused, Everybody, EveryUrlAsked
<1>2. QED  BY <1>1, InitAsk, NextAsk, PTL DEF Spec
=============================================================================
