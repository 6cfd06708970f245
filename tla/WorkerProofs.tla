---------------------------- MODULE WorkerProofs ----------------------------
(***************************************************************************)
(* Proofs about the two workers, for any number of sessions, files and     *)
(* participants: MusicIsStoppable of the hold-music worker, ReadsItsData   *)
(* of its WAV decoder, and RosterAgrees of the AI worker.                  *)
(***************************************************************************)
EXTENDS HoldMusic, AIJob, Wav, FiniteSetTheorems, SequenceTheorems, TLAPS

-----------------------------------------------------------------------------
(***************************************************************************)
(* Hold music.  The map of worker.ts holds a session from moh.start on,    *)
(* long before it plays: the invariant therefore follows a session from its *)
(* first await, and says what a stop during an await leaves behind.        *)
(***************************************************************************)
\* The awaits of a session on its way to playing, and all of them.
Coming == {"resolve", "connect", "publish", "play"}
Awaits == Coming \cup {"fresh", "silent", "leave", "over"}

\* Sessions whose downloads, if they wait for any, are those of A.
SessionsAwaiting(A) ==
  [Sessions -> [pc: Awaits, cancelled: BOOLEAN, music: Files \cup {Synth}, awaits: A,
                loop: Files \cup {Synth}]]

\* A session nobody stopped is the one in the map, unless an entry was deleted by
\* another session; a session stopped while its join was awaited has not published.
\* Whose download a session waits for does not matter.
MusicInv ==
  /\ \E A : run \in SessionsAwaiting(A)
  /\ entry \in Sessions \cup {None}
  /\ shadowed \in BOOLEAN
  /\ \A s \in Sessions : run[s].cancelled => run[s].pc \notin {"publish", "play"}
  /\ \A s \in Sessions :
       ~run[s].cancelled /\ run[s].pc \in Coming => entry = s \/ shadowed

-----------------------------------------------------------------------------
LEMMA MusicInitInv == MusicInit => MusicInv
<1> SUFFICES ASSUME MusicInit PROVE MusicInv
  OBVIOUS
<1>1. run \in SessionsAwaiting({None})
  BY DEF MusicInit, SessionsAwaiting, Fresh, Awaits, Coming
<1> QED
  BY <1>1 DEF MusicInit, MusicInv, Fresh, Coming

\* The map entry goes, and the session that drops it no longer plays.
LEMMA Dropped ==
  ASSUME MusicInv, NEW s \in Sessions, NEW p \in Awaits \ Coming, NEW c \in BOOLEAN,
         Forget(s),
         run' = [run EXCEPT ![s].cancelled = c, ![s].pc = p]
  PROVE  MusicInv'
<1>1. PICK A : run \in SessionsAwaiting(A)
  BY DEF MusicInv
<1>2. run' \in SessionsAwaiting(A)
  BY <1>1 DEF SessionsAwaiting
<1>3. ASSUME NEW t \in Sessions
      PROVE  /\ t # s => run'[t] = run[t]
             /\ run'[s].pc = p
  BY <1>1 DEF SessionsAwaiting
<1>4. /\ entry' = None
      /\ shadowed' = (shadowed \/ entry \notin {s, None})
  BY DEF Forget
<1>5. \A t \in Sessions : run'[t].cancelled => run'[t].pc \notin {"publish", "play"}
  BY <1>3 DEF MusicInv, Coming
<1>6. ASSUME NEW t \in Sessions, ~run'[t].cancelled, run'[t].pc \in Coming
      PROVE  entry' = t \/ shadowed'
  <2>1. t # s /\ run'[t] = run[t]
    BY <1>3, <1>6
  <2>2. entry = t \/ shadowed
    BY <1>6, <2>1 DEF MusicInv
  <2>3. CASE shadowed
    BY <2>3, <1>4
  <2>4. CASE entry = t
    BY <2>1, <2>4, <1>4, HoldMusicAssumption
  <2> QED
    BY <2>2, <2>3, <2>4
<1> QED
  BY <1>2, <1>4, <1>5, <1>6 DEF MusicInv

\* A session moves on, and the map stays: if it was not stopped it is still the one.
LEMMA Moved ==
  ASSUME MusicInv, NEW s \in Sessions, NEW p \in Awaits, NEW l \in Files \cup {Synth},
         run' = [run EXCEPT ![s].loop = l, ![s].pc = p],
         UNCHANGED <<entry, shadowed>>,
         run[s].cancelled => p \notin {"publish", "play"},
         p \in Coming => run[s].pc \in Coming
  PROVE  MusicInv'
<1>1. PICK A : run \in SessionsAwaiting(A)
  BY DEF MusicInv
<1>2. run' \in SessionsAwaiting(A)
  BY <1>1 DEF SessionsAwaiting
<1>3. ASSUME NEW t \in Sessions
      PROVE  /\ t # s => run'[t] = run[t]
             /\ run'[s].pc = p /\ run'[s].cancelled = run[s].cancelled
  BY <1>1 DEF SessionsAwaiting
<1>4. ASSUME NEW t \in Sessions, run'[t].cancelled
      PROVE  run'[t].pc \notin {"publish", "play"}
  BY <1>3, <1>4 DEF MusicInv
<1>5. ASSUME NEW t \in Sessions, ~run'[t].cancelled, run'[t].pc \in Coming
      PROVE  entry' = t \/ shadowed'
  BY <1>3, <1>5 DEF MusicInv
<1> QED
  BY <1>2, <1>4, <1>5 DEF MusicInv

\* moh.start: the new session takes the place that is free.
LEMMA Started ==
  ASSUME MusicInv, NEW s \in Sessions, NEW f \in Files \cup {Synth}, MohStart(s, f)
  PROVE  MusicInv'
<1>1. PICK A : run \in SessionsAwaiting(A)
  BY DEF MusicInv
<1>2. shadowed' = shadowed
  BY DEF MohStart
<1>3. CASE entry # None
  <2>1. UNCHANGED <<entry, run>>
    BY <1>3 DEF MohStart
  <2> QED
    BY <1>2, <2>1 DEF MusicInv
<1>4. CASE entry = None
  <2> DEFINE w == IF f = Synth THEN None ELSE Pending(s, f)
             r == [Fresh EXCEPT !.pc = "resolve", !.music = f, !.awaits = w]
  <2>1. entry' = s /\ run' = [run EXCEPT ![s] = r]
    BY <1>4 DEF MohStart
  <2> HIDE DEF w
  <2>2. /\ r \in [pc: Awaits, cancelled: BOOLEAN, music: Files \cup {Synth}, awaits: A \cup {w},
                  loop: Files \cup {Synth}]
        /\ r.pc = "resolve" /\ r.cancelled = FALSE
    BY DEF Fresh, Awaits, Coming
  <2> HIDE DEF r
  <2>3. run \in SessionsAwaiting(A \cup {w})
    BY <1>1 DEF SessionsAwaiting
  <2>4. run' \in SessionsAwaiting(A \cup {w})
    BY <2>1, <2>2, <2>3 DEF SessionsAwaiting
  <2>5. \A t \in Sessions : run'[t] = IF t = s THEN r ELSE run[t]
    BY <2>1, <1>1 DEF SessionsAwaiting
  <2>6. \A t \in Sessions : ~run'[t].cancelled /\ run'[t].pc \in Coming => entry' = t \/ shadowed'
    BY <2>1, <2>5, <1>2, <1>4, HoldMusicAssumption DEF MusicInv
  <2>7. \A t \in Sessions : run'[t].cancelled => run'[t].pc \notin {"publish", "play"}
    BY <2>2, <2>5 DEF MusicInv
  <2> QED
    BY <2>1, <2>4, <2>6, <2>7, <1>2 DEF MusicInv
<1> QED
  BY <1>3, <1>4

\* Nobody but its own handler touches a session, except for the stop.
LEMMA SessionSteps ==
  ASSUME MusicInv, NEW s \in Sessions, SessionStep(s) \/ Failed(s)
  PROVE  MusicInv'
<1>1. PICK A : run \in SessionsAwaiting(A)
  BY DEF MusicInv
<1> USE DEF Awaits, Coming
<1>2. CASE Downloaded(s)
  BY <1>2 DEF Downloaded, MusicInv
<1>3. CASE Resolved(s)
  <2>1. PICK l \in Files \cup {Synth} :
          run[s].pc = "resolve" /\ \E kept : Resolve(s, l, kept)
    <3>1. run[s].music \in Files \cup {Synth}
      BY <1>1 DEF SessionsAwaiting
    <3> QED
      BY <1>3, <3>1 DEF Resolved
  <2> DEFINE p == IF run[s].cancelled THEN "over" ELSE "connect"
  <2>2. run' = [run EXCEPT ![s].loop = l, ![s].pc = p] /\ UNCHANGED <<entry, shadowed>>
    BY <2>1 DEF Resolve
  <2>3. p \in Awaits \ {"publish", "play"} /\ run[s].pc \in Coming
    BY <2>1
  <2> HIDE DEF p
  <2> QED
    BY <2>2, <2>3, Moved
<1>4. CASE Connected(s)
  <2> DEFINE p == IF run[s].cancelled THEN "leave" ELSE "publish"
             l == run[s].loop
  <2>1. l \in Files \cup {Synth} /\ run[s].cancelled \in BOOLEAN
    BY <1>1 DEF SessionsAwaiting
  <2>2. run' = [run EXCEPT ![s].loop = l, ![s].pc = p]
    BY <1>1, <1>4 DEF SessionsAwaiting, Connected
  <2>3. /\ p \in Awaits /\ run[s].pc \in Coming
        /\ run[s].cancelled => p \notin {"publish", "play"}
        /\ UNCHANGED <<entry, shadowed>>
    BY <1>4 DEF Connected
  <2> HIDE DEF p, l
  <2> QED
    BY <2>1, <2>2, <2>3, Moved
<1>5. CASE Published(s)
  <2> DEFINE l == run[s].loop
  <2>1. l \in Files \cup {Synth}
    BY <1>1 DEF SessionsAwaiting
  <2>2. run' = [run EXCEPT ![s].loop = l, ![s].pc = "play"]
    BY <1>1, <1>5 DEF SessionsAwaiting, Published
  <2>3. ~run[s].cancelled /\ run[s].pc = "publish"
    BY <1>5 DEF Published, MusicInv
  <2> QED
    BY <1>5, <2>1, <2>2, <2>3, Moved DEF Published
<1>6. CASE Left(s)
  <2> DEFINE l == run[s].loop
  <2>1. l \in Files \cup {Synth}
    BY <1>1 DEF SessionsAwaiting
  <2>2. run' = [run EXCEPT ![s].loop = l, ![s].pc = "over"]
    BY <1>1, <1>6 DEF SessionsAwaiting, Left
  <2>3. UNCHANGED <<entry, shadowed>> /\ "over" \in Awaits \ Coming
    BY <1>6 DEF Left
  <2> HIDE DEF l
  <2> QED
    BY <2>1, <2>2, <2>3, Moved
<1>7. CASE Closed(s)
  <2>1. run' = [run EXCEPT ![s].cancelled = TRUE, ![s].pc = "over"]
    BY <1>1, <1>7 DEF SessionsAwaiting, Closed, Cancelled
  <2> QED
    BY <1>7, <2>1, Dropped DEF Closed
<1>8. CASE Failed(s)
  <2> DEFINE p == IF run[s].pc = "connect" THEN "over" ELSE "silent"
             c == run[s].cancelled
  <2>1. c \in BOOLEAN
    BY <1>1 DEF SessionsAwaiting
  <2>2. run' = [run EXCEPT ![s].cancelled = c, ![s].pc = p]
    BY <1>1, <1>8 DEF SessionsAwaiting, Failed
  <2> QED
    BY <1>8, <2>1, <2>2, Dropped DEF Failed
<1> QED
  BY <1>2, <1>3, <1>4, <1>5, <1>6, <1>7, <1>8 DEF SessionStep

LEMMA MusicStep == MusicInv /\ [MusicNext]_musicVars => MusicInv'
<1> SUFFICES ASSUME MusicInv, [MusicNext]_musicVars PROVE MusicInv'
  OBVIOUS
<1>1. PICK A : run \in SessionsAwaiting(A)
  BY DEF MusicInv
<1>2. CASE \E s \in Sessions : SessionStep(s) \/ Failed(s)
  BY <1>2, SessionSteps
<1>3. CASE \E s \in Sessions, f \in Files \cup {Synth} : MohStart(s, f)
  BY <1>3, Started
<1>4. CASE MohStop
  <2>1. CASE entry = None
    BY <1>4, <2>1 DEF MohStop, MusicInv
  <2>2. CASE entry # None
    <3> DEFINE p == IF run[entry].pc \in {"publish", "play"} THEN "leave" ELSE run[entry].pc
    <3>1. /\ entry \in Sessions /\ entry' = None /\ shadowed' = shadowed
          /\ run' = [run EXCEPT ![entry].cancelled = TRUE, ![entry].pc = p]
      BY <1>1, <1>4, <2>2 DEF SessionsAwaiting, MohStop, Forget, Cancelled, MusicInv
    <3>2. run[entry].pc \in Awaits
      BY <1>1, <3>1 DEF SessionsAwaiting
    <3>3. p \in Awaits \ {"publish", "play"}
      BY <3>2 DEF Awaits, Coming
    <3> HIDE DEF p
    <3>4. run' \in SessionsAwaiting(A)
      BY <1>1, <3>1, <3>3 DEF SessionsAwaiting
    <3>5. \A t \in Sessions : t # entry => run'[t] = run[t]
      BY <1>1, <3>1 DEF SessionsAwaiting
    <3>6. run'[entry].cancelled = TRUE /\ run'[entry].pc = p
      BY <1>1, <3>1 DEF SessionsAwaiting
    <3>7. \A t \in Sessions : run'[t].cancelled => run'[t].pc \notin {"publish", "play"}
      BY <3>3, <3>5, <3>6 DEF MusicInv
    <3>8. \A t \in Sessions :
            ~run'[t].cancelled /\ run'[t].pc \in Coming => entry' = t \/ shadowed'
      BY <3>1, <3>5, <3>6 DEF MusicInv
    <3> QED
      BY <3>1, <3>4, <3>7, <3>8 DEF MusicInv
  <2> QED
    BY <2>1, <2>2
<1>5. CASE RoomDeleted
  BY <1>5 DEF RoomDeleted, MusicInv
<1>6. CASE Restart
  <2> DEFINE r(s) == IF run[s].pc = "fresh" THEN run[s] ELSE [Fresh EXCEPT !.pc = "over"]
  <2>1. run' = [s \in Sessions |-> r(s)] /\ entry' = None /\ shadowed' = shadowed
    BY <1>6 DEF Restart
  <2>2. ASSUME NEW s \in Sessions
        PROVE  /\ r(s) \in [pc: Awaits, cancelled: BOOLEAN, music: Files \cup {Synth},
                            awaits: A \cup {None}, loop: Files \cup {Synth}]
               /\ r(s).pc \in {"fresh", "over"}
    BY <1>1 DEF SessionsAwaiting, Fresh, Awaits, Coming
  <2> HIDE DEF r
  <2>3. run' \in SessionsAwaiting(A \cup {None})
    BY <2>1, <2>2 DEF SessionsAwaiting
  <2>4. \A s \in Sessions : run'[s].pc \notin Coming
    BY <2>1, <2>2 DEF Coming
  <2> QED
    BY <2>1, <2>3, <2>4 DEF MusicInv, Coming
<1>7. CASE UNCHANGED musicVars
  BY <1>7 DEF musicVars, MusicInv
<1> QED
  BY <1>2, <1>3, <1>4, <1>5, <1>6, <1>7 DEF MusicNext

-----------------------------------------------------------------------------
\* What a session of worker.ts is on the way to playing is in the map, or its entry
\* was deleted by an older session.
THEOREM MusicInvariant == MusicSpec => []MusicInv
  BY MusicInitInv, MusicStep, PTL DEF MusicSpec

\* Music that plays is found by the next moh.stop (worker.ts:52-58), unless an older
\* session's failure or disconnect deleted the entry.
THEOREM MusicIsStoppableHolds == MusicSpec => []MusicIsStoppable
<1>1. MusicInv => MusicIsStoppable
  BY DEF MusicInv, MusicIsStoppable, Playing, Coming
<1> QED
  BY <1>1, MusicInvariant, PTL

-----------------------------------------------------------------------------
\* The cache of decoded files, in order of use: each file once, with the promise of a download
\* of that file that a session has started.
CacheEntry == [url: Files, by: Sessions]

Cached(q, d, r) ==
  /\ q \in Seq(CacheEntry)
  /\ \A i, j \in 1..Len(q) : q[i].url = q[j].url => i = j
  /\ \A i \in 1..Len(q) : d[q[i].by] # "none" /\ r[q[i].by].music = q[i].url

\* A session that resolves a file waits for a download of that file.
HasDownload(s) ==
  /\ run[s].awaits \in Sessions /\ download[run[s].awaits] # "none"
  /\ run[run[s].awaits].music = run[s].music

CacheInv ==
  /\ run \in SessionsAwaiting(Sessions \cup {None})
  /\ inRoom \in Sessions \cup {None}
  /\ download \in [Sessions -> {"none", "pending", "good", "bad"}]
  /\ Cached(files, download, run) /\ Len(files) <= MaxFiles
  /\ \A s \in Sessions : run[s].pc = "fresh" => download[s] = "none"
  /\ \A s \in Sessions : run[s].pc = "resolve" /\ run[s].music # Synth => HasDownload(s)

\* r is left of q.
LeftOf(r, q) ==
  /\ r \in Seq(CacheEntry) /\ Len(r) <= Len(q)
  /\ \E m \in [1..Len(r) -> 1..Len(q)] :
       /\ \A i \in 1..Len(r) : r[i] = q[m[i]]
       /\ \A i, j \in 1..Len(r) : m[i] = m[j] => i = j

LEMMA LeftOfItself == ASSUME NEW q \in Seq(CacheEntry) PROVE LeftOf(q, q)
<1> DEFINE m == [i \in 1..Len(q) |-> i]
<1>1. /\ m \in [1..Len(q) -> 1..Len(q)]
      /\ \A i \in 1..Len(q) : q[i] = q[m[i]]
      /\ \A i, j \in 1..Len(q) : m[i] = m[j] => i = j
  OBVIOUS
<1> HIDE DEF m
<1>2. Len(q) \in Nat /\ Len(q) <= Len(q)
  OBVIOUS
<1> QED
  BY <1>1, <1>2 DEF LeftOf

LEMMA CachedLeft ==
  ASSUME NEW q, NEW r, NEW d, NEW x, Cached(q, d, x), LeftOf(r, q) PROVE Cached(r, d, x)
<1>1. PICK m \in [1..Len(r) -> 1..Len(q)] :
        /\ \A i \in 1..Len(r) : r[i] = q[m[i]]
        /\ \A i, j \in 1..Len(r) : m[i] = m[j] => i = j
  BY DEF LeftOf
<1>2. r \in Seq(CacheEntry)
  BY DEF LeftOf
<1>3. ASSUME NEW i \in 1..Len(r)
      PROVE  r[i] = q[m[i]] /\ m[i] \in 1..Len(q)
  BY <1>1
<1>4. ASSUME NEW i \in 1..Len(r), NEW j \in 1..Len(r), r[i].url = r[j].url PROVE i = j
  <2>1. m[i] = m[j]
    BY <1>3, <1>4 DEF Cached
  <2> QED
    BY <1>1, <2>1
<1>5. ASSUME NEW i \in 1..Len(r) PROVE d[r[i].by] # "none" /\ x[r[i].by].music = r[i].url
  BY <1>3 DEF Cached
<1> QED
  BY <1>2, <1>4, <1>5 DEF Cached

LEMMA EntriesAre ==
  ASSUME NEW q \in Seq(CacheEntry) PROVE \A i \in 1..Len(q) : q[i].by \in Sessions
<1>1. \A i \in 1..Len(q) : q[i] \in CacheEntry
  OBVIOUS
<1> QED
  BY <1>1 DEF CacheEntry

\* Without a file, the cache has the others.
LEMMA WithoutLeft ==
  ASSUME NEW f, files \in Seq(CacheEntry),
         \A i, j \in 1..Len(files) : files[i].url = files[j].url => i = j
  PROVE  LeftOf(Without(f), files) /\ \A i \in 1..Len(Without(f)) : Without(f)[i].url # f
<1>1. CASE Position(f) = {}
  <2>1. Without(f) = files /\ \A i \in 1..Len(files) : files[i].url # f
    BY <1>1 DEF Without, Position
  <2> QED
    BY <2>1, LeftOfItself
<1>2. CASE Position(f) # {}
  <2> DEFINE p == CHOOSE i \in Position(f) : TRUE
             n == Len(files)
             a == SubSeq(files, 1, p - 1)
             b == SubSeq(files, p + 1, n)
             r == a \o b
  <2>1. p \in 1..n /\ files[p].url = f
    <3>1. p \in Position(f)
      BY <1>2
    <3> HIDE DEF p
    <3> QED
      BY <3>1 DEF Position
  <2>2. Without(f) = r
    BY <1>2 DEF Without
  <2> HIDE DEF p
  <2>3. n \in Nat /\ \A i \in 1..n : files[i] \in CacheEntry
    OBVIOUS
  <2>4. a \in Seq(CacheEntry) /\ Len(a) = p - 1 /\ \A i \in 1..(p - 1) : a[i] = files[i]
    <3>1. \A i \in 1..(p - 1) : files[i] \in CacheEntry
      BY <2>1, <2>3
    <3>2. 1 \in Int /\ (p - 1) \in Int
      BY <2>1, <2>3
    <3>3. /\ a \in Seq(CacheEntry)
          /\ Len(a) = (IF 1 <= p - 1 THEN ((p - 1) - 1) + 1 ELSE 0)
          /\ \A i \in 1..(((p - 1) - 1) + 1) : a[i] = files[(1 + i) - 1]
      BY <3>1, <3>2, SubSeqProperties
    <3> QED
      BY <2>1, <2>3, <3>3
  <2>5. b \in Seq(CacheEntry) /\ Len(b) = n - p /\ \A i \in 1..(n - p) : b[i] = files[p + i]
    <3>1. \A i \in (p + 1)..n : files[i] \in CacheEntry
      BY <2>1, <2>3
    <3>2. (p + 1) \in Int /\ n \in Int
      BY <2>1, <2>3
    <3>3. /\ b \in Seq(CacheEntry)
          /\ Len(b) = (IF p + 1 <= n THEN (n - (p + 1)) + 1 ELSE 0)
          /\ \A i \in 1..((n - (p + 1)) + 1) : b[i] = files[((p + 1) + i) - 1]
      BY <3>1, <3>2, SubSeqProperties
    <3>4. (n - (p + 1)) + 1 = n - p
      BY <2>1, <2>3
    <3>5. ASSUME NEW i \in 1..(n - p) PROVE b[i] = files[p + i]
      <4>1. ((p + 1) + i) - 1 = p + i
        BY <2>1, <2>3
      <4> QED
        BY <3>3, <3>4, <4>1
    <3>6. Len(b) = n - p
      BY <2>1, <2>3, <3>3
    <3> QED
      BY <3>3, <3>5, <3>6
  <2> HIDE DEF a, b
  <2>6. /\ r \in Seq(CacheEntry) /\ Len(r) = n - 1
        /\ \A i \in 1..(n - 1) : r[i] = IF i < p THEN files[i] ELSE files[i + 1]
    <3>1. r \in Seq(CacheEntry) /\ Len(r) = Len(a) + Len(b)
          /\ \A i \in 1..(Len(a) + Len(b)) : r[i] = IF i <= Len(a) THEN a[i] ELSE b[i - Len(a)]
      BY <2>4, <2>5, ConcatProperties
    <3>2. Len(a) + Len(b) = n - 1
      BY <2>1, <2>3, <2>4, <2>5
    <3>3. ASSUME NEW i \in 1..(n - 1) PROVE r[i] = IF i < p THEN files[i] ELSE files[i + 1]
      <4>1. CASE i < p
        BY <2>1, <2>3, <2>4, <3>1, <3>2, <4>1
      <4>2. CASE ~(i < p)
        <5>1. i - Len(a) \in 1..(n - p) /\ p + (i - Len(a)) = i + 1
          BY <2>1, <2>3, <2>4, <4>2
        <5>2. r[i] = b[i - Len(a)]
          BY <2>1, <2>3, <2>4, <3>1, <3>2, <4>2
        <5> QED
          BY <2>5, <4>2, <5>1, <5>2
      <4> QED
        BY <4>1, <4>2
    <3> QED
      BY <3>1, <3>2, <3>3
  <2> HIDE DEF r
  <2> DEFINE m == [i \in 1..(n - 1) |-> IF i < p THEN i ELSE i + 1]
  <2>7. m \in [1..(n - 1) -> 1..n]
    BY <2>1, <2>3
  <2>8. \A i \in 1..(n - 1) : r[i] = files[m[i]] /\ m[i] # p
    BY <2>1, <2>3, <2>6
  <2>9. \A i, j \in 1..(n - 1) : m[i] = m[j] => i = j
    BY <2>1, <2>3
  <2> HIDE DEF m
  <2>10. LeftOf(r, files)
    <3>1. Len(r) <= n
      BY <2>3, <2>6
    <3> QED
      BY <2>6, <2>7, <2>8, <2>9, <3>1 DEF LeftOf
  <2>11. \A i \in 1..Len(r) : r[i].url # f
    BY <2>1, <2>6, <2>7, <2>8
  <2> QED
    BY <2>2, <2>10, <2>11
<1> QED
  BY <1>1, <1>2

\* The cache keeps the most recent entries, MaxFiles at most.
LEMMA RecentLeft ==
  ASSUME NEW q \in Seq(CacheEntry) PROVE LeftOf(Recent(q), q) /\ Len(Recent(q)) <= MaxFiles
<1> DEFINE n == Len(q)
           k == IF n > MaxFiles THEN n - MaxFiles ELSE 0
           r == SubSeq(q, k + 1, n)
<1>1. MaxFiles \in Nat \ {0} /\ n \in Nat /\ \A i \in 1..n : q[i] \in CacheEntry
  BY HoldMusicAssumption
<1>2. k \in 0..n /\ n - k <= MaxFiles
  BY <1>1
<1>3. Recent(q) = r
  <2>1. CASE n > MaxFiles
    BY <2>1 DEF Recent
  <2>2. CASE ~(n > MaxFiles)
    BY <1>1, <2>2 DEF Recent
  <2> QED
    BY <2>1, <2>2
<1> HIDE DEF k
<1>4. /\ r \in Seq(CacheEntry) /\ Len(r) = n - k
      /\ \A i \in 1..(n - k) : r[i] = q[k + i]
  <2>1. \A i \in (k + 1)..n : q[i] \in CacheEntry
    BY <1>1, <1>2
  <2>2. (k + 1) \in Int /\ n \in Int
    BY <1>1, <1>2
  <2>3. /\ r \in Seq(CacheEntry)
        /\ Len(r) = (IF k + 1 <= n THEN (n - (k + 1)) + 1 ELSE 0)
        /\ \A i \in 1..((n - (k + 1)) + 1) : r[i] = q[((k + 1) + i) - 1]
    BY <2>1, <2>2, SubSeqProperties
  <2>4. (n - (k + 1)) + 1 = n - k
    BY <1>1, <1>2
  <2>5. ASSUME NEW i \in 1..(n - k) PROVE r[i] = q[k + i]
    <3>1. ((k + 1) + i) - 1 = k + i
      BY <1>1, <1>2
    <3> QED
      BY <2>3, <2>4, <3>1
  <2>6. Len(r) = n - k
    BY <1>1, <1>2, <2>3
  <2> QED
    BY <2>3, <2>5, <2>6
<1> HIDE DEF r
<1> DEFINE m == [i \in 1..(n - k) |-> k + i]
<1>5. m \in [1..(n - k) -> 1..n] /\ (\A i \in 1..(n - k) : r[i] = q[m[i]])
      /\ \A i, j \in 1..(n - k) : m[i] = m[j] => i = j
  BY <1>1, <1>2, <1>4
<1> HIDE DEF m
<1>6. Len(r) <= n
  BY <1>1, <1>2, <1>4
<1>7. LeftOf(r, q)
  BY <1>4, <1>5, <1>6 DEF LeftOf
<1> QED
  BY <1>2, <1>3, <1>4, <1>7

LEMMA CachedMore ==
  ASSUME NEW q, NEW d, NEW x, Cached(q, d, x), NEW e \in CacheEntry,
         \A i \in 1..Len(q) : q[i].url # e.url, d[e.by] # "none", x[e.by].music = e.url
  PROVE  Cached(Append(q, e), d, x)
<1> DEFINE r == Append(q, e)
<1>1. q \in Seq(CacheEntry) /\ Len(q) \in Nat
  BY DEF Cached
<1>2. /\ r \in Seq(CacheEntry) /\ Len(r) = Len(q) + 1 /\ r[Len(q) + 1] = e
      /\ \A i \in 1..Len(q) : r[i] = q[i]
  BY <1>1
<1> HIDE DEF r
<1>3. ASSUME NEW i \in 1..Len(r), NEW j \in 1..Len(r), r[i].url = r[j].url PROVE i = j
  <2>1. CASE i = Len(q) + 1
    BY <1>1, <1>2, <1>3, <2>1
  <2>2. CASE j = Len(q) + 1
    BY <1>1, <1>2, <1>3, <2>2
  <2>3. CASE i # Len(q) + 1 /\ j # Len(q) + 1
    BY <1>1, <1>2, <1>3, <2>3 DEF Cached
  <2> QED
    BY <2>1, <2>2, <2>3
<1>4. ASSUME NEW i \in 1..Len(r) PROVE d[r[i].by] # "none" /\ x[r[i].by].music = r[i].url
  <2>1. CASE i = Len(q) + 1
    BY <1>2, <2>1
  <2>2. CASE i # Len(q) + 1
    BY <1>1, <1>2, <2>2 DEF Cached
  <2> QED
    BY <2>1, <2>2
<1>5. Cached(r, d, x)
  BY <1>2, <1>3, <1>4 DEF Cached
<1> QED
  BY <1>5 DEF r

\* Sessions move on, downloads end and files go.
LEMMA SessionsGoOn ==
  ASSUME CacheInv, run' \in SessionsAwaiting(Sessions \cup {None}),
         \A s \in Sessions : /\ run'[s].music = run[s].music /\ run'[s].awaits = run[s].awaits
                             /\ run'[s].pc \in {"fresh", "resolve"} => run'[s].pc = run[s].pc,
         inRoom' \in Sessions \cup {None}, LeftOf(files', files),
         download' \in [Sessions -> {"none", "pending", "good", "bad"}],
         \A s \in Sessions : download'[s] = "none" <=> download[s] = "none"
  PROVE  CacheInv'
<1>1. files \in Seq(CacheEntry) /\ \A i \in 1..Len(files) : files[i].by \in Sessions
  BY EntriesAre DEF CacheInv, Cached
<1>2. Cached(files, download', run')
  BY <1>1 DEF CacheInv, Cached
<1>3. Cached(files', download', run')
  BY <1>2, CachedLeft
<1>4. Len(files') <= MaxFiles
  <2>1. Len(files') \in Nat /\ Len(files) \in Nat /\ Len(files') <= Len(files)
    BY <1>1 DEF LeftOf
  <2> QED
    BY <2>1, HoldMusicAssumption DEF CacheInv
<1>5. \A s \in Sessions : run'[s].pc = "fresh" => download'[s] = "none"
  BY DEF CacheInv
<1>6. ASSUME NEW s \in Sessions, run'[s].pc = "resolve", run'[s].music # Synth
      PROVE  HasDownload(s)'
  <2>1. HasDownload(s)
    BY <1>6 DEF CacheInv
  <2> QED
    BY <2>1 DEF HasDownload
<1> QED
  BY <1>3, <1>4, <1>5, <1>6 DEF CacheInv

LEMMA MusicInitCache == MusicInit => CacheInv
<1> SUFFICES ASSUME MusicInit PROVE CacheInv
  OBVIOUS
<1>1. run \in SessionsAwaiting(Sessions \cup {None})
  BY DEF MusicInit, SessionsAwaiting, Fresh, Awaits, Coming
<1>2. files = <<>> /\ Len(files) = 0 /\ files \in Seq(CacheEntry)
  BY EmptySeq DEF MusicInit
<1>3. Cached(files, download, run)
  BY <1>2 DEF Cached
<1>4. \A s \in Sessions : run[s].pc = "fresh" /\ download[s] = "none"
  BY DEF MusicInit, Fresh
<1> QED
  BY <1>1, <1>2, <1>3, <1>4, HoldMusicAssumption DEF MusicInit, CacheInv

\* moh.start: a session that finds its file cached waits for the promise of that file.
LEMMA StartedCache ==
  ASSUME CacheInv, NEW s \in Sessions, NEW f \in Files \cup {Synth}, MohStart(s, f)
  PROVE  CacheInv'
<1>1. run[s].pc = "fresh" /\ inRoom' = inRoom /\ download[s] = "none"
  BY DEF MohStart, CacheInv
<1>2. /\ files \in Seq(CacheEntry) /\ run \in SessionsAwaiting(Sessions \cup {None})
      /\ \A i, j \in 1..Len(files) : files[i].url = files[j].url => i = j
      /\ \A i \in 1..Len(files) : /\ files[i].by \in Sessions /\ files[i].by # s
                                  /\ download[files[i].by] # "none"
                                  /\ run[files[i].by].music = files[i].url
  BY <1>1, EntriesAre DEF CacheInv, Cached
<1>3. CASE entry # None
  <2>1. UNCHANGED <<run, download, files>>
    BY <1>3 DEF MohStart
  <2> QED
    BY <1>1, <1>2, <2>1, SessionsGoOn, LeftOfItself DEF CacheInv
<1>4. CASE entry = None
  <2> DEFINE w == IF f = Synth THEN None ELSE Pending(s, f)
             r == [Fresh EXCEPT !.pc = "resolve", !.music = f, !.awaits = w]
  <2>1. run' = [run EXCEPT ![s] = r]
    BY <1>4 DEF MohStart
  <2>2. f # Synth => Lookup(s, f)
    BY <1>4 DEF MohStart
  <2>3. f = Synth => UNCHANGED <<download, files>>
    BY <1>4 DEF MohStart
  <2>4. f # Synth /\ Position(f) = {} => w = s
    BY DEF Pending
  <2>5. f # Synth /\ Position(f) # {} =>
          \E i \in 1..Len(files) : files[i].url = f /\ w = files[i].by
    BY DEF Pending, Position
  <2>6. w \in Sessions \cup {None}
    BY <1>2, <2>4, <2>5
  <2> HIDE DEF w
  <2>7. /\ r \in [pc: Awaits, cancelled: BOOLEAN, music: Files \cup {Synth},
                  awaits: Sessions \cup {None}, loop: Files \cup {Synth}]
        /\ r.pc = "resolve" /\ r.music = f /\ r.awaits = w
    BY <2>6 DEF Fresh, Awaits, Coming
  <2> HIDE DEF r
  <2>8. /\ run' \in SessionsAwaiting(Sessions \cup {None})
        /\ \A t \in Sessions : run'[t] = IF t = s THEN r ELSE run[t]
    BY <1>2, <2>1, <2>7 DEF SessionsAwaiting
  <2>9. download' = IF f # Synth /\ Position(f) = {} THEN [download EXCEPT ![s] = "pending"]
                    ELSE download
    BY <2>2, <2>3 DEF Lookup
  <2>10. /\ download' \in [Sessions -> {"none", "pending", "good", "bad"}]
         /\ \A t \in Sessions : t # s => download'[t] = download[t]
         /\ f # Synth /\ Position(f) = {} => download'[s] = "pending"
    BY <2>9 DEF CacheInv
  <2>11. Cached(files, download', run')
    BY <1>2, <2>8, <2>10 DEF Cached
  <2>12. f # Synth => /\ w \in Sessions /\ download'[w] # "none" /\ run'[w].music = f
    <3>1. CASE f # Synth /\ Position(f) = {}
      BY <2>4, <2>7, <2>8, <2>10, <3>1
    <3>2. CASE f # Synth /\ Position(f) # {}
      <4>1. PICK i \in 1..Len(files) : files[i].url = f /\ w = files[i].by
        BY <2>5, <3>2
      <4> QED
        BY <1>2, <2>8, <2>10, <4>1
    <3> QED
      BY <3>1, <3>2
  <2>13. Cached(files', download', run') /\ Len(files') <= MaxFiles
    <3>1. CASE f = Synth
      BY <2>3, <2>11, <3>1 DEF CacheInv
    <3>2. CASE f # Synth
      <4> DEFINE kept == Without(f)
                 e == [url |-> f, by |-> w]
                 more == Append(kept, e)
      <4>1. files' = Recent(more)
        BY <2>2, <3>2 DEF Lookup, w
      <4>2. LeftOf(kept, files) /\ \A i \in 1..Len(kept) : kept[i].url # f
        BY <1>2, WithoutLeft
      <4> HIDE DEF kept
      <4>3. Cached(kept, download', run')
        BY <2>11, <4>2, CachedLeft
      <4>4. e \in CacheEntry /\ e.url = f /\ e.by = w
        BY <2>12, <3>2 DEF CacheEntry
      <4> HIDE DEF e
      <4>5. Cached(more, download', run')
        BY <2>12, <3>2, <4>2, <4>3, <4>4, CachedMore
      <4>6. more \in Seq(CacheEntry)
        BY <4>5 DEF Cached
      <4> HIDE DEF more
      <4>7. LeftOf(Recent(more), more) /\ Len(Recent(more)) <= MaxFiles
        BY <4>6, RecentLeft
      <4> QED
        BY <4>1, <4>5, <4>7, CachedLeft
    <3> QED
      BY <3>1, <3>2
  <2>14. \A t \in Sessions : run'[t].pc = "fresh" => download'[t] = "none"
    BY <2>7, <2>8, <2>10 DEF CacheInv
  <2>15. ASSUME NEW t \in Sessions, run'[t].pc = "resolve", run'[t].music # Synth
         PROVE  HasDownload(t)'
    <3>1. CASE t = s
      BY <2>7, <2>8, <2>12, <2>15, <3>1 DEF HasDownload
    <3>2. CASE t # s
      <4>1. HasDownload(t)
        BY <2>8, <2>15, <3>2 DEF CacheInv
      <4>2. run[t].awaits # s
        BY <1>1, <4>1 DEF HasDownload
      <4> QED
        BY <2>8, <2>10, <3>2, <4>1, <4>2 DEF HasDownload
    <3> QED
      BY <3>1, <3>2
  <2> QED
    BY <1>1, <2>8, <2>10, <2>13, <2>14, <2>15 DEF CacheInv
<1> QED
  BY <1>3, <1>4

\* One session moves on.
LEMMA SessionMoves ==
  ASSUME CacheInv, NEW s \in Sessions, NEW p \in Awaits \ {"fresh", "resolve"}, NEW c \in BOOLEAN,
         NEW l \in Files \cup {Synth},
         run' = [run EXCEPT ![s].loop = l, ![s].cancelled = c, ![s].pc = p],
         inRoom' \in Sessions \cup {None}, LeftOf(files', files), download' = download
  PROVE  CacheInv'
<1>1. run \in SessionsAwaiting(Sessions \cup {None})
  BY DEF CacheInv
<1>2. run' \in SessionsAwaiting(Sessions \cup {None})
  BY <1>1 DEF SessionsAwaiting
<1>3. ASSUME NEW t \in Sessions
      PROVE  /\ run'[t].music = run[t].music /\ run'[t].awaits = run[t].awaits
             /\ run'[t].pc \in {"fresh", "resolve"} => run'[t].pc = run[t].pc
  BY <1>1 DEF SessionsAwaiting
<1> QED
  BY <1>2, <1>3, SessionsGoOn DEF CacheInv

LEMMA SessionStepsCache ==
  ASSUME CacheInv, NEW s \in Sessions, SessionStep(s) \/ Failed(s) PROVE CacheInv'
<1>1. /\ run \in SessionsAwaiting(Sessions \cup {None}) /\ inRoom \in Sessions \cup {None}
      /\ run[s].loop \in Files \cup {Synth} /\ run[s].music \in Files \cup {Synth}
      /\ run[s].cancelled \in BOOLEAN /\ run[s].pc \in Awaits /\ LeftOf(files, files)
      /\ files \in Seq(CacheEntry)
  BY LeftOfItself DEF CacheInv, Cached, SessionsAwaiting
<1>2. CASE Downloaded(s)
  <2>1. PICK o \in {"good", "bad"} : download' = [download EXCEPT ![s] = o]
    BY <1>2 DEF Downloaded
  <2>2. download[s] = "pending" /\ UNCHANGED <<run, files, inRoom>>
    BY <1>2 DEF Downloaded
  <2> QED
    BY <1>1, <2>1, <2>2, SessionsGoOn DEF CacheInv
<1>3. CASE Resolved(s)
  <2>0. PICK l \in Files \cup {Synth} : \E kept : LeftOf(kept, files) /\ Resolve(s, l, kept)
    <3>1. LeftOf(Without(run[s].music), files)
      BY WithoutLeft DEF CacheInv, Cached
    <3> QED
      BY <1>1, <1>3, <3>1 DEF Resolved
  <2>1. PICK kept : LeftOf(kept, files) /\ Resolve(s, l, kept)
    BY <2>0
  <2> DEFINE p == IF run[s].cancelled THEN "over" ELSE "connect"
  <2>2. run' = [run EXCEPT ![s].loop = l, ![s].cancelled = run[s].cancelled, ![s].pc = p]
    BY <1>1, <2>1 DEF Resolve, SessionsAwaiting
  <2>3. p \in Awaits \ {"fresh", "resolve"} /\ files' = kept /\ UNCHANGED <<download, inRoom>>
    BY <2>1 DEF Resolve, Awaits, Coming
  <2> HIDE DEF p
  <2> QED
    BY <1>1, <2>1, <2>2, <2>3, SessionMoves
<1>4. CASE Connected(s)
  <2> DEFINE p == IF run[s].cancelled THEN "leave" ELSE "publish"
  <2>1. run' = [run EXCEPT ![s].loop = run[s].loop, ![s].cancelled = run[s].cancelled, ![s].pc = p]
    BY <1>1, <1>4 DEF Connected, SessionsAwaiting
  <2>2. p \in Awaits \ {"fresh", "resolve"} /\ UNCHANGED <<files, download>> /\ inRoom' = s
    BY <1>4 DEF Connected, Awaits, Coming
  <2> HIDE DEF p
  <2> QED
    BY <1>1, <2>1, <2>2, SessionMoves
<1>5. CASE Published(s)
  <2>1. run' = [run EXCEPT ![s].loop = run[s].loop, ![s].cancelled = run[s].cancelled, ![s].pc = "play"]
    BY <1>1, <1>5 DEF Published, SessionsAwaiting
  <2>2. "play" \in Awaits \ {"fresh", "resolve"} /\ UNCHANGED <<files, download, inRoom>>
    BY <1>5 DEF Published, Awaits, Coming
  <2> QED
    BY <1>1, <2>1, <2>2, SessionMoves
<1>6. CASE Left(s)
  <2>1. run' = [run EXCEPT ![s].loop = run[s].loop, ![s].cancelled = run[s].cancelled, ![s].pc = "over"]
    BY <1>1, <1>6 DEF Left, SessionsAwaiting
  <2>2. "over" \in Awaits \ {"fresh", "resolve"} /\ UNCHANGED <<files, download>>
        /\ inRoom' \in Sessions \cup {None}
    BY <1>1, <1>6 DEF Left, Awaits, Coming
  <2> QED
    BY <1>1, <2>1, <2>2, SessionMoves
<1>7. CASE Closed(s)
  <2>1. run' = [run EXCEPT ![s].loop = run[s].loop, ![s].cancelled = TRUE, ![s].pc = "over"]
    BY <1>1, <1>7 DEF Closed, Cancelled, SessionsAwaiting
  <2>2. "over" \in Awaits \ {"fresh", "resolve"} /\ UNCHANGED <<files, download, inRoom>>
    BY <1>7 DEF Closed, Awaits, Coming
  <2> QED
    BY <1>1, <2>1, <2>2, SessionMoves
<1>8. CASE Failed(s)
  <2> DEFINE p == IF run[s].pc = "connect" THEN "over" ELSE "silent"
  <2>1. run' = [run EXCEPT ![s].loop = run[s].loop, ![s].cancelled = run[s].cancelled, ![s].pc = p]
    BY <1>1, <1>8 DEF Failed, SessionsAwaiting
  <2>2. p \in Awaits \ {"fresh", "resolve"} /\ UNCHANGED <<files, download, inRoom>>
    BY <1>8 DEF Failed, Awaits, Coming
  <2> HIDE DEF p
  <2> QED
    BY <1>1, <2>1, <2>2, SessionMoves
<1> QED
  BY <1>2, <1>3, <1>4, <1>5, <1>6, <1>7, <1>8 DEF SessionStep

LEMMA StopCache == ASSUME CacheInv, entry \in Sessions \cup {None}, MohStop PROVE CacheInv'
<1>1. /\ run \in SessionsAwaiting(Sessions \cup {None}) /\ UNCHANGED <<files, download, inRoom>>
      /\ LeftOf(files, files) /\ inRoom \in Sessions \cup {None}
  BY LeftOfItself DEF CacheInv, Cached, MohStop
<1>2. CASE entry = None
  <2>1. run' = run
    BY <1>2 DEF MohStop
  <2> QED
    BY <1>1, <2>1, SessionsGoOn DEF CacheInv
<1>3. CASE entry # None
  <2> DEFINE p == IF run[entry].pc \in {"publish", "play"} THEN "leave" ELSE run[entry].pc
  <2>1. entry \in Sessions /\ run' = [run EXCEPT ![entry].cancelled = TRUE, ![entry].pc = p]
    BY <1>1, <1>3 DEF MohStop, Cancelled, SessionsAwaiting
  <2>2. p \in Awaits /\ (p \in {"fresh", "resolve"} => p = run[entry].pc)
    BY <1>1, <2>1 DEF SessionsAwaiting, Awaits, Coming
  <2> HIDE DEF p
  <2>3. run' \in SessionsAwaiting(Sessions \cup {None})
    BY <1>1, <2>1, <2>2 DEF SessionsAwaiting
  <2>4. ASSUME NEW t \in Sessions
        PROVE  /\ run'[t].music = run[t].music /\ run'[t].awaits = run[t].awaits
               /\ run'[t].pc \in {"fresh", "resolve"} => run'[t].pc = run[t].pc
    BY <1>1, <2>1, <2>2 DEF SessionsAwaiting
  <2> QED
    BY <1>1, <2>3, <2>4, SessionsGoOn DEF CacheInv
<1> QED
  BY <1>2, <1>3

LEMMA RestartCache == ASSUME CacheInv, Restart PROVE CacheInv'
<1> DEFINE r(s) == IF run[s].pc = "fresh" THEN run[s] ELSE [Fresh EXCEPT !.pc = "over"]
<1>1. /\ run' = [s \in Sessions |-> r(s)] /\ inRoom' = None /\ files' = <<>>
      /\ download' = [s \in Sessions |-> "none"]
  BY DEF Restart
<1>2. ASSUME NEW s \in Sessions
      PROVE  /\ r(s) \in [pc: Awaits, cancelled: BOOLEAN, music: Files \cup {Synth},
                          awaits: Sessions \cup {None}, loop: Files \cup {Synth}]
             /\ r(s).pc # "resolve"
  BY DEF CacheInv, SessionsAwaiting, Fresh, Awaits, Coming
<1> HIDE DEF r
<1>3. run' \in SessionsAwaiting(Sessions \cup {None}) /\ \A s \in Sessions : run'[s].pc # "resolve"
  BY <1>1, <1>2 DEF SessionsAwaiting
<1>4. files' \in Seq(CacheEntry) /\ Len(files') = 0
  BY <1>1, EmptySeq
<1>5. Cached(files', download', run')
  BY <1>4 DEF Cached
<1> QED
  BY <1>1, <1>3, <1>4, <1>5, HoldMusicAssumption DEF CacheInv

LEMMA CacheStep == MusicInv /\ CacheInv /\ [MusicNext]_musicVars => CacheInv'
<1> SUFFICES ASSUME MusicInv, CacheInv, [MusicNext]_musicVars PROVE CacheInv'
  OBVIOUS
<1>1. LeftOf(files, files)
  BY LeftOfItself DEF CacheInv, Cached
<1>2. CASE RoomDeleted
  BY <1>1, <1>2, SessionsGoOn DEF RoomDeleted, CacheInv
<1>3. CASE UNCHANGED musicVars
  BY <1>1, <1>3, SessionsGoOn DEF musicVars, CacheInv
<1>4. CASE MohStop
  BY <1>4, StopCache DEF MusicInv
<1> QED
  BY <1>2, <1>3, <1>4, SessionStepsCache, StartedCache, RestartCache DEF MusicNext

\* The inductive invariant of the cache of loops.ts.
THEOREM CacheInvariant == MusicSpec => []CacheInv
<1>1. MusicInv /\ CacheInv /\ [MusicNext]_musicVars => CacheInv'
  BY CacheStep
<1> QED
  BY <1>1, MusicInitCache, MusicInvariant, PTL DEF MusicSpec

\* The cache of decoded files never holds more than MaxFiles nor a file twice, and a promise in
\* it is of a download of its own file: a session that finds its file cached waits for a
\* download that was started, and of no other file, for any number of sessions and files
\* (loops.ts, get: re-insert, evict, forget a failure).
CacheIsSound ==
  /\ Len(files) <= MaxFiles
  /\ \A i, j \in 1..Len(files) : files[i].url = files[j].url => i = j
  /\ \A i \in 1..Len(files) : run[files[i].by].music = files[i].url
  /\ \A s \in Sessions : run[s].pc = "resolve" /\ run[s].music # Synth => HasDownload(s)

\* The cache keeps to its bound and to the files asked for, whatever sessions and failed
\* downloads interleave (loops.ts, get).
THEOREM CacheIsSoundHolds == MusicSpec => []CacheIsSound
<1>1. CacheInv => CacheIsSound
  BY DEF CacheInv, Cached, CacheIsSound
<1> QED
  BY <1>1, CacheInvariant, PTL

\* Every reachable state of the hold-music worker is well typed.
THEOREM MusicTypeHolds == MusicSpec => []MusicTypeOK
<1>1. MusicInv /\ CacheInv => MusicTypeOK
  BY DEF MusicInv, CacheInv, SessionsAwaiting, Awaits, Coming, MusicTypeOK
<1> QED
  BY <1>1, CacheInvariant, MusicInvariant, PTL

-----------------------------------------------------------------------------
(***************************************************************************)
(* The AI worker.  The roster is reported over HTTP beside the work itself, *)
(* so it is true only at some awaits: the invariant says what was told at  *)
(* each await of entry(), of the handoff and of the shutdown, and that only *)
(* one human is ever handed to.                                            *)
(***************************************************************************)
\* The one open row of the worker says k.
OneRow(k) == [NoRows EXCEPT ![k] = 1]

\* What the desk is told until somebody joins,
EntryTells ==
  /\ transcribers = {}
  /\ job \in {"participant", "scan", "greeted"} => role = "ai"
  /\ rows = (IF job \in {"scan", "greeted"} THEN OneRow("ai") ELSE NoRows)

\* and at each await of the handoff to h.
HandoffTells(h) ==
  \/ /\ handoff[h] \in {"event", "close"} /\ voice = "open" /\ transcribers = {}
     /\ role = "ai" /\ rows = OneRow("ai")
  \/ /\ handoff[h] = "attribute" /\ voice = "closed" /\ transcribers = {}
     /\ role = "ai" /\ rows = OneRow("ai")
  \/ /\ handoff[h] = "left" /\ voice = "closed" /\ transcribers = {}
     /\ role = "transcriber" /\ rows = OneRow("ai")
  \/ /\ handoff[h] = "joined" /\ voice = "closed" /\ transcribers = {}
     /\ role = "transcriber" /\ rows = NoRows
  \/ /\ handoff[h] = "done" /\ transcribers = {h}
     /\ \/ voice = "muted" /\ role = "ai" /\ rows = OneRow("ai")
        \/ voice = "closed" /\ role = "transcriber" /\ rows = OneRow("transcriber")

\* Only one human is handed to.  Until the shutdown the roster is told at each await,
\* unless a request was lost or the handoff overtook entry(); a shutdown that met
\* neither finds the last row closed after its first report.
JobInv ==
  /\ JobTypeOK /\ handedOff \in BOOLEAN /\ early \in BOOLEAN /\ cut \in BOOLEAN
  /\ \A h, k \in Agents : handoff[h] # "none" => handedOff /\ (handoff[k] # "none" => k = h)
  /\ handedOff => \E h \in Agents : handoff[h] # "none"
  /\ job = "start" => voice = "idle"
  /\ job # "start" /\ ~handedOff => voice = "open"
  /\ handedOff => job \notin {"start", "connect"}
  /\ handedOff /\ ~early => job \in {"scan", "greeted"}
  /\ lost = 0 /\ ~early /\ shutdown = "none" /\ ~handedOff => EntryTells
  /\ lost = 0 /\ ~early /\ shutdown = "none" =>
       \A h \in Agents : handoff[h] # "none" => HandoffTells(h)
  /\ shutdown # "none" /\ ~cut => ~InHandoff /\ job = "greeted"
  /\ shutdown \in {"status", "over"} /\ lost = 0 /\ ~cut => rows = NoRows

LEMMA RowsAre ==
  /\ OneRow("ai") # NoRows /\ DOMAIN NoRows = {"ai", "transcriber"}
  /\ \A k \in {"ai", "transcriber"} :
       [NoRows EXCEPT ![k] = @ + 1] = OneRow(k) /\ DOMAIN OneRow(k) = DOMAIN NoRows
  BY DEF OneRow, NoRows

LEMMA JobInitInv == JobInit => JobInv
<1> SUFFICES ASSUME JobInit PROVE JobInv
  OBVIOUS
<1>1. JobTypeOK
  BY AIJobAssumption DEF JobInit, JobTypeOK
<1>2. EntryTells
  BY DEF JobInit, EntryTells
<1> QED
  BY <1>1, <1>2 DEF JobInit, JobInv

\* A request fails or does what it asks for.
LEMMA PostEffect ==
  ASSUME JobInv, NEW change, NEW same, Post(change, same)
  PROVE  /\ lost' \in 0..MaxLost /\ (lost' = 0 => lost = 0 /\ change)
         /\ change \/ same
  BY AIJobAssumption DEF Post, JobInv, JobTypeOK

\* The handoff to h is at another await.
LEMMA HandoffMoves ==
  ASSUME JobInv, NEW h \in Agents, handoff[h] \notin {"none", "done"},
         NEW pc \in {"close", "attribute", "left", "joined", "done"}, Proceed(h, pc),
         UNCHANGED <<behavior, job, handedOff, shutdown, humans, customer, ended, early, cut>>,
         voice' \in {"idle", "open", "muted", "closed"}, role' \in {"none", "ai", "transcriber"},
         transcribers' \subseteq Agents, DOMAIN rows' = DOMAIN NoRows, lost' \in 0..MaxLost,
         lost' = 0 => lost = 0,
         lost' = 0 /\ ~early /\ shutdown = "none" => HandoffTells(h)'
  PROVE  JobInv'
<1>1. handoff \in [Agents -> {"none", "event", "close", "attribute", "left", "joined", "done"}]
  BY DEF JobInv, JobTypeOK
<1>2. handedOff /\ \A k \in Agents : k # h => handoff[k] = "none"
  BY DEF JobInv
<1>3. \A k \in Agents : handoff'[k] = IF k = h THEN pc ELSE "none"
  BY <1>1, <1>2 DEF Proceed
<1>4. handoff' \in [Agents -> {"none", "event", "close", "attribute", "left", "joined", "done"}]
  BY <1>1 DEF Proceed
<1>5. JobTypeOK'
  BY <1>4 DEF JobInv, JobTypeOK
<1>6. InHandoff /\ job # "start"
  BY <1>2 DEF InHandoff, JobInv
<1>7. shutdown = "none" \/ cut
  BY <1>6 DEF JobInv
<1> QED
  BY <1>2, <1>3, <1>5, <1>6, <1>7 DEF JobInv

LEMMA HandoffSteps == ASSUME JobInv, NEW h \in Agents, HandoffStep(h) PROVE JobInv'
<1>0. DOMAIN rows = DOMAIN NoRows /\ transcribers \subseteq Agents /\ lost \in 0..MaxLost
      /\ voice \in {"idle", "open", "muted", "closed"} /\ role \in {"none", "ai", "transcriber"}
  BY DEF JobInv, JobTypeOK
<1>h. handoff[h] # "none" /\ lost = 0 /\ ~early /\ shutdown = "none" => HandoffTells(h)
  BY DEF JobInv
<1>p. ASSUME NEW pc, Proceed(h, pc) PROVE handoff'[h] = pc
  BY <1>p DEF Proceed, JobInv, JobTypeOK
<1>1. CASE KeepListening(h)
  <2>1. lost' \in 0..MaxLost /\ (lost' = 0 => lost = 0)
    BY <1>1, PostEffect DEF KeepListening, Event
  <2>2. lost' = 0 /\ ~early /\ shutdown = "none" => HandoffTells(h)'
    BY <1>1, <1>h, <1>p, <2>1 DEF KeepListening, HandoffTells
  <2> QED
    BY <1>0, <1>1, <2>1, <2>2, HandoffMoves DEF KeepListening
<1>2. CASE Closing(h)
  <2>1. lost' \in 0..MaxLost /\ (lost' = 0 => lost = 0)
    BY <1>2, PostEffect DEF Closing, Event
  <2>2. lost' = 0 /\ ~early /\ shutdown = "none" => HandoffTells(h)'
    BY <1>2, <1>h, <1>p, <2>1 DEF Closing, HandoffTells
  <2> QED
    BY <1>0, <1>2, <2>1, <2>2, HandoffMoves DEF Closing
<1>3. CASE VoiceClosed(h)
  <2>2. lost' = 0 /\ ~early /\ shutdown = "none" => HandoffTells(h)'
    BY <1>3, <1>h, <1>p DEF VoiceClosed, HandoffTells
  <2> QED
    BY <1>0, <1>3, <2>2, HandoffMoves DEF VoiceClosed
<1>4. CASE BecomeTranscriber(h)
  <2>2. lost' = 0 /\ ~early /\ shutdown = "none" => HandoffTells(h)'
    BY <1>4, <1>h, <1>p DEF BecomeTranscriber, HandoffTells
  <2> QED
    BY <1>0, <1>4, <2>2, HandoffMoves DEF BecomeTranscriber
<1>5. CASE LeaveAsAI(h)
  <2>1. lost' \in 0..MaxLost /\ (lost' = 0 => lost = 0 /\ rows' = NoRows)
    BY <1>5, PostEffect DEF LeaveAsAI, ReportLeft
  <2>2. DOMAIN rows' = DOMAIN NoRows
    BY <1>0, <1>5, PostEffect DEF LeaveAsAI, ReportLeft
  <2>3. lost' = 0 /\ ~early /\ shutdown = "none" => HandoffTells(h)'
    BY <1>5, <1>h, <1>p, <2>1 DEF LeaveAsAI, HandoffTells
  <2> QED
    BY <1>0, <1>5, <2>1, <2>2, <2>3, HandoffMoves DEF LeaveAsAI
<1>6. CASE JoinAsTranscriber(h)
  <2>1. lost' \in 0..MaxLost
        /\ (lost' = 0 => lost = 0 /\ rows' = [rows EXCEPT !["transcriber"] = @ + 1])
    BY <1>6, PostEffect DEF JoinAsTranscriber, Report
  <2>2. DOMAIN rows' = DOMAIN NoRows
    BY <1>0, <1>6, PostEffect DEF JoinAsTranscriber, Report
  <2>3. lost' = 0 /\ ~early /\ shutdown = "none" => HandoffTells(h)'
    <3> SUFFICES ASSUME lost' = 0, ~early, shutdown = "none" PROVE HandoffTells(h)'
      OBVIOUS
    <3>1. handoff[h] = "joined" /\ HandoffTells(h)
      BY <1>6, <1>h, <2>1 DEF JoinAsTranscriber
    <3>2. rows' = OneRow("transcriber")
      BY <2>1, <3>1, RowsAre DEF HandoffTells
    <3>3. transcribers' = {h} /\ voice' = "closed" /\ role' = "transcriber" /\ handoff'[h] = "done"
      BY <1>6, <1>p, <3>1 DEF JoinAsTranscriber, HandoffTells
    <3> QED
      BY <3>2, <3>3 DEF HandoffTells
  <2> QED
    BY <1>0, <1>6, <2>1, <2>2, <2>3, HandoffMoves DEF JoinAsTranscriber
<1> QED
  BY <1>1, <1>2, <1>3, <1>4, <1>5, <1>6 DEF HandoffStep

\* A human is noticed by a worker in its room.
LEMMA Noticed ==
  ASSUME JobInv, NEW h \in Agents, HumanJoined(h),
         UNCHANGED <<voice, role, transcribers, rows, shutdown>>
  PROVE  /\ handoff' \in [Agents -> {"none", "event", "close", "attribute", "left", "joined", "done"}]
         /\ handedOff' = TRUE /\ early' \in BOOLEAN /\ (~early' => ~early)
         /\ \A x, k \in Agents : handoff'[x] # "none" /\ handoff'[k] # "none" => k = x
         /\ \E x \in Agents : handoff'[x] # "none"
         /\ \/ handedOff /\ UNCHANGED <<handoff, early>>
            \/ /\ ~handedOff /\ (~early' => job \notin {"attribute", "participant"})
               /\ \A x \in Agents : handoff'[x] = IF x = h THEN "event" ELSE "none"
<1>1. handoff \in [Agents -> {"none", "event", "close", "attribute", "left", "joined", "done"}]
  BY DEF JobInv, JobTypeOK
<1>2. CASE handedOff
  BY <1>1, <1>2 DEF HumanJoined, MayHandOff, JobInv
<1>3. CASE ~handedOff
  <2>1. \A x \in Agents : handoff[x] = "none"
    BY <1>3 DEF JobInv
  <2>2. handoff' = [handoff EXCEPT ![h] = "event"]
        /\ early' = (early \/ job \in {"attribute", "participant"}) /\ handedOff' = TRUE
    BY <1>3 DEF HumanJoined, MayHandOff
  <2>3. \A x \in Agents : handoff'[x] = IF x = h THEN "event" ELSE "none"
    BY <1>1, <2>1, <2>2
  <2>4. handoff' \in [Agents -> {"none", "event", "close", "attribute", "left", "joined", "done"}]
    BY <1>1, <2>2
  <2>5. early' \in BOOLEAN
    BY <2>2 DEF JobInv
  <2> QED
    BY <1>3, <2>2, <2>3, <2>4, <2>5
<1> QED
  BY <1>2, <1>3 DEF JobInv

\* The roster, told through what HumanJoined does.
LEMMA NoticedTells ==
  ASSUME JobInv, NEW h \in Agents, HumanJoined(h),
         job \notin {"start", "connect"}, job' \in {job, "greeted"},
         UNCHANGED <<voice, role, transcribers, rows, shutdown>>,
         lost' = 0 => lost = 0, lost' = 0, ~early', shutdown = "none"
  PROVE  \A x \in Agents : handoff'[x] # "none" => HandoffTells(x)'
<1>1. lost = 0 /\ ~early
  BY Noticed
<1>2. CASE handedOff /\ UNCHANGED <<handoff, early>>
  BY <1>1, <1>2 DEF JobInv, HandoffTells
<1>3. CASE ~handedOff /\ job \notin {"attribute", "participant"}
           /\ \A x \in Agents : handoff'[x] = IF x = h THEN "event" ELSE "none"
  <2>1. job \in {"scan", "greeted"}
    BY <1>3 DEF JobInv, JobTypeOK
  <2>2. voice = "open" /\ EntryTells
    BY <1>1, <1>3, <2>1 DEF JobInv
  <2> QED
    BY <1>3, <2>1, <2>2 DEF EntryTells, HandoffTells
<1> QED
  BY <1>2, <1>3, Noticed

LEMMA HumanStep == ASSUME JobInv, NEW h \in Agents, HumanEvent(h) PROVE JobInv'
<1>1. /\ humans' = humans \cup {h}
      /\ cut' = (cut \/ (shutdown # "none" /\ handedOff' # handedOff))
      /\ UNCHANGED <<behavior, job, shutdown, voice, role, transcribers, rows, customer, ended, lost>>
      /\ shutdown # "over"
  BY DEF HumanEvent, Alive
<1>2. CASE InRoom /\ HumanJoined(h)
  <2>1. job \notin {"start", "connect"}
    BY <1>2 DEF InRoom
  <2>2. JobTypeOK'
    <3>1. handoff' \in [Agents -> {"none", "event", "close", "attribute", "left", "joined", "done"}]
      BY <1>1, <1>2, Noticed
    <3> QED
      BY <1>1, <3>1 DEF JobInv, JobTypeOK
  <2>3. lost' = 0 /\ ~early' /\ shutdown' = "none" =>
          \A x \in Agents : handoff'[x] # "none" => HandoffTells(x)'
    BY <1>1, <1>2, <2>1, NoticedTells
  <2>4. handedOff' /\ ~early' => job' \in {"scan", "greeted"}
    BY <1>1, <1>2, <2>1, Noticed DEF JobInv, JobTypeOK
  <2>5. shutdown' # "none" /\ ~cut' => ~InHandoff' /\ job' = "greeted"
    <3>1. CASE handedOff
      BY <1>1, <1>2, <3>1, Noticed DEF JobInv, InHandoff
    <3>2. CASE ~handedOff
      <4>1. handedOff' = TRUE /\ handedOff = FALSE
        BY <1>2, <3>2, Noticed, <1>1 DEF JobInv
      <4>2. shutdown # "none" => cut'
        BY <1>1, <4>1
      <4> QED
        BY <4>2, <1>1
    <3> QED
      BY <3>1, <3>2
  <2>6. shutdown' \in {"status", "over"} /\ lost' = 0 /\ ~cut' => rows' = NoRows
    BY <1>1 DEF JobInv
  <2>7. cut' \in BOOLEAN
    BY <1>1 DEF JobInv
  <2> QED
    BY <1>1, <1>2, <2>1, <2>2, <2>3, <2>4, <2>5, <2>6, <2>7, Noticed DEF JobInv
<1>3. CASE UNCHANGED <<handedOff, handoff, early>>
  <2>1. JobTypeOK'
    BY <1>1, <1>3 DEF JobInv, JobTypeOK
  <2>2. cut' = cut
    BY <1>1, <1>3 DEF JobInv
  <2> QED
    BY <1>1, <1>3, <2>1, <2>2 DEF JobInv, EntryTells, HandoffTells, InHandoff
<1> QED
  BY <1>2, <1>3 DEF HumanEvent

LEMMA EntrySteps == ASSUME JobInv, EntryStep PROVE JobInv'
<1>0. DOMAIN rows = DOMAIN NoRows
  BY DEF JobInv, JobTypeOK
<1>1. CASE StartSession
  BY <1>1 DEF StartSession, JobInv, JobTypeOK, EntryTells, HandoffTells, InHandoff
<1>2. CASE ConnectRoom
  BY <1>2 DEF ConnectRoom, JobInv, JobTypeOK, EntryTells, HandoffTells, InHandoff
<1>3. CASE SetRole
  BY <1>3 DEF SetRole, JobInv, JobTypeOK, EntryTells, HandoffTells, InHandoff
<1>4. CASE Announce
  <2>1. lost' \in 0..MaxLost /\ (lost' = 0 => lost = 0 /\ rows' = [rows EXCEPT !["ai"] = @ + 1])
    BY <1>4, PostEffect DEF Announce, Report
  <2>2. DOMAIN rows' = DOMAIN NoRows
    BY <1>0, <1>4, PostEffect DEF Announce, Report
  <2>3. lost' = 0 /\ ~early /\ shutdown = "none" /\ ~handedOff => EntryTells'
    BY <1>4, <2>1, RowsAre DEF Announce, JobInv, EntryTells
  <2>4. JobTypeOK'
    BY <1>4, <2>1, <2>2 DEF Announce, JobInv, JobTypeOK
  <2>5. job = "participant" /\ job' = "scan" /\ (handedOff => early)
    BY <1>4 DEF Announce, JobInv
  <2>6. shutdown = "none" \/ cut
    BY <2>5 DEF JobInv
  <2> QED
    BY <1>4, <2>3, <2>4, <2>5, <2>6 DEF Announce, JobInv, InHandoff
<1>5. CASE Scan
  <2>1. lost' \in 0..MaxLost /\ (lost' = 0 => lost = 0)
    BY <1>5, PostEffect DEF Scan, Event
  <2>2. job = "scan" /\ job' = "greeted"
        /\ UNCHANGED <<behavior, shutdown, voice, role, transcribers, rows, humans, customer, ended, cut>>
    BY <1>5 DEF Scan
  <2>3. shutdown = "none" \/ cut
    BY <2>2 DEF JobInv
  <2>4. CASE UNCHANGED <<handedOff, handoff, early>>
    <3>1. JobTypeOK'
      BY <2>1, <2>2, <2>4 DEF JobInv, JobTypeOK
    <3> QED
      BY <2>1, <2>2, <2>3, <2>4, <3>1 DEF JobInv, EntryTells, HandoffTells
  <2>5. ASSUME NEW h \in humans, HumanJoined(h) PROVE JobInv'
    <3>1. h \in Agents
      BY DEF JobInv, JobTypeOK
    <3>2. JobTypeOK'
      BY <2>1, <2>2, <2>5, <3>1, Noticed DEF JobInv, JobTypeOK
    <3>3. lost' = 0 /\ ~early' /\ shutdown' = "none" =>
            \A x \in Agents : handoff'[x] # "none" => HandoffTells(x)'
      BY <2>1, <2>2, <2>5, <3>1, NoticedTells
    <3> QED
      BY <2>1, <2>2, <2>3, <2>5, <3>1, <3>2, <3>3, Noticed DEF JobInv
  <2> QED
    BY <1>5, <2>4, <2>5 DEF Scan
<1> QED
  BY <1>1, <1>2, <1>3, <1>4, <1>5 DEF EntryStep

LEMMA ShutdownSteps ==
  ASSUME JobInv, CustomerLeaves \/ Told \/ ShutdownStep PROVE JobInv'
<1>0. DOMAIN rows = DOMAIN NoRows
  BY DEF JobInv, JobTypeOK
<1>1. ASSUME StopJob,
             UNCHANGED <<behavior, job, handoff, handedOff, voice, role, rows, humans, ended, lost, early>>
      PROVE  JobInv'
  <2>1. InHandoff' <=> InHandoff
    BY <1>1 DEF InHandoff
  <2>2. cut' \in BOOLEAN /\ (~cut' => ~InHandoff /\ job = "greeted")
    BY <1>1 DEF StopJob
  <2> QED
    BY <1>1, <2>1, <2>2 DEF StopJob, JobInv, JobTypeOK
<1>2. CASE CustomerLeaves
  <2>1. CASE StopJob
    BY <1>1, <1>2, <2>1 DEF CustomerLeaves
  <2>2. CASE UNCHANGED <<shutdown, transcribers, cut>>
    BY <1>2, <2>2 DEF CustomerLeaves, JobInv, JobTypeOK, EntryTells, HandoffTells, InHandoff
  <2> QED
    BY <1>2, <2>1, <2>2 DEF CustomerLeaves
<1>3. CASE Told
  BY <1>1, <1>3 DEF Told
<1>4. CASE Summarize
  BY <1>4 DEF Summarize, JobInv, JobTypeOK, InHandoff
<1>5. CASE ReportGone
  <2>1. lost' \in 0..MaxLost /\ (lost' = 0 => lost = 0 /\ rows' = NoRows)
    BY <1>5, PostEffect DEF ReportGone, ReportLeft
  <2>2. DOMAIN rows' = DOMAIN NoRows
    BY <1>0, <1>5, PostEffect DEF ReportGone, ReportLeft
  <2> QED
    BY <1>5, <2>1, <2>2 DEF ReportGone, JobInv, JobTypeOK, InHandoff
<1>6. CASE ReportEnded
  <2>1. lost' \in 0..MaxLost /\ (lost' = 0 => lost = 0)
    BY <1>6, PostEffect DEF ReportEnded
  <2> QED
    BY <1>6, <2>1 DEF ReportEnded, JobInv, JobTypeOK, InHandoff
<1> QED
  BY <1>2, <1>3, <1>4, <1>5, <1>6 DEF ShutdownStep

LEMMA JobStep == JobInv /\ [JobNext]_jobVars => JobInv'
<1>1. ASSUME JobInv, UNCHANGED jobVars PROVE JobInv'
  BY <1>1 DEF jobVars, JobInv, JobTypeOK, EntryTells, HandoffTells, InHandoff
<1> QED
  BY <1>1, EntrySteps, ShutdownSteps, HumanStep, HandoffSteps DEF JobNext


-----------------------------------------------------------------------------
\* At every await of entry(), of the handoff and of the shutdown (agent.ts) the desk
\* has been told what JobInv says, for any number of humans who join or leave.
THEOREM JobInvariant == JobSpec => []JobInv
  BY JobInitInv, JobStep, PTL DEF JobSpec

\* Once greeted and outside a handoff, the one open row of the roster is the role the
\* worker really has, and a human is transcribed exactly after a handoff (agent.ts),
\* unless a request was lost or the handoff overtook entry().
THEOREM RosterAgreesHolds == JobSpec => []RosterAgrees
<1>1. JobInv => RosterAgrees
  <2> SUFFICES ASSUME JobInv, job = "greeted", ~InHandoff, shutdown = "none", lost = 0, ~early
               PROVE  /\ role = (IF voice = "closed" THEN "transcriber" ELSE "ai")
                      /\ rows = OneRow(role)
                      /\ Cardinality(transcribers) = (IF handedOff THEN 1 ELSE 0)
    BY DEF RosterAgrees, JobInv, OneRow
  <2>1. CASE ~handedOff
    <3>1. EntryTells /\ voice = "open"
      BY <2>1 DEF JobInv
    <3> QED
      BY <2>1, <3>1, FS_EmptySet DEF EntryTells
  <2>2. CASE handedOff
    <3>1. PICK h \in Agents : handoff[h] # "none"
      BY <2>2 DEF JobInv
    <3>2. HandoffTells(h) /\ handoff[h] = "done"
      BY <3>1 DEF JobInv, InHandoff
    <3>3. Cardinality({h}) = 1
      BY FS_Singleton
    <3> QED
      BY <2>2, <3>2, <3>3 DEF HandoffTells
  <2> QED
    BY <2>1, <2>2
<1> QED
  BY <1>1, JobInvariant, PTL
-----------------------------------------------------------------------------
(***************************************************************************)
(* The WAV decoder, for files of any size whose headers claim any sizes.    *)
(* That a read stays in its chunk is about the numbers of a decoded file;   *)
(* what the walk has to keep for it is where the data chunk ends, which is  *)
(* not what its header says but what the file has left.                     *)
(***************************************************************************)

Decoder ==
  [pc: {"walk", "decoded", "unusable"}, size: Nat, pos: Nat, fmt: Formats \cup {NoFormat},
   hasFmt: BOOLEAN, data: [offset: Nat, length: Nat, found: BOOLEAN]]

\* The data chunk, once it is found, ends in the file; and what is decoded passed the checks.
WavInv ==
  /\ decoder \in Decoder
  /\ decoder.data.found => decoder.data.offset + decoder.data.length <= decoder.size
  /\ decoder.pc = "decoded" => decoder.data.found /\ Usable(decoder.fmt)

LEMMA DivNat == \A a \in Nat, b \in Nat \ {0} : a \div b \in Nat
  OBVIOUS

LEMMA SmallerNat ==
  ASSUME NEW a \in Nat, NEW b \in Nat
  PROVE  Smaller(a, b) \in Nat /\ Smaller(a, b) <= a /\ Smaller(a, b) <= b
  BY DEF Smaller

LEMMA WavInitInv == WavInit => WavInv
<1> SUFFICES ASSUME WavInit PROVE WavInv
  OBVIOUS
<1>1. PICK size \in FileSizes : decoder = Start(size)
  BY DEF WavInit
<1>2. Start(size) \in Decoder
  BY WavAssumption DEF Start, Decoder, Missing
<1> QED
  BY <1>1, <1>2 DEF WavInv, Start, Missing

LEMMA AfterNat ==
  ASSUME WavInv, NEW size \in ChunkSizes PROVE After(size) \in Nat
  BY WavAssumption DEF WavInv, Decoder, After

\* A step that keeps the data chunk or finds one in the file.
LEMMA WalkKeeps ==
  ASSUME WavInv, Header, NEW p \in Nat, decoder' = [decoder EXCEPT !.pos = p]
  PROVE  WavInv'
<1> DEFINE d == [decoder EXCEPT !.pos = p]
<1>1. d \in Decoder /\ d.pc = "walk" /\ d.data = decoder.data /\ d.size = decoder.size
  BY DEF WavInv, Decoder, Header
<1> HIDE DEF d
<1> QED
  BY <1>1 DEF WavInv, d

LEMMA ThrowKeeps == ASSUME WavInv, Throw PROVE WavInv'
  BY DEF WavInv, Throw, Decoder

LEMMA WavNextInv == WavInv /\ [WavNext]_wavVars => WavInv'
<1> SUFFICES ASSUME WavInv, [WavNext]_wavVars PROVE WavInv'
  OBVIOUS
<1>1. ASSUME NEW size \in ChunkSizes, NEW fmt \in Formats, FmtChunk(size, fmt) PROVE WavInv'
  <2> DEFINE d == [decoder EXCEPT !.fmt = fmt, !.hasFmt = TRUE, !.pos = After(size)]
  <2>1. CASE Throw
    BY <2>1, ThrowKeeps
  <2>2. CASE decoder' = d
    <3>1. After(size) \in Nat
      BY AfterNat
    <3>2. d \in Decoder /\ d.pc = "walk" /\ d.data = decoder.data /\ d.size = decoder.size
      BY <1>1, <3>1 DEF WavInv, Decoder, FmtChunk, Header
    <3> HIDE DEF d
    <3> QED
      BY <2>2, <3>2 DEF WavInv
  <2> QED
    BY <1>1, <2>1, <2>2 DEF FmtChunk
<1>2. ASSUME NEW size \in ChunkSizes, DataChunk(size) PROVE WavInv'
  <2> DEFINE chunk == [offset |-> decoder.pos + 8, length |-> Extent(size), found |-> TRUE]
             d == [decoder EXCEPT !.pos = After(size), !.data = chunk]
  <2>1. /\ decoder \in Decoder /\ decoder.pos \in Nat /\ decoder.size \in Nat /\ size \in Nat
        /\ decoder.pos + 8 <= decoder.size /\ decoder.pc = "walk" /\ After(size) \in Nat
    BY <1>2, AfterNat, WavAssumption DEF WavInv, Decoder, DataChunk, Header
  <2>2. Extent(size) \in Nat /\ Extent(size) <= decoder.size - (decoder.pos + 8)
    BY <2>1 DEF Extent, Smaller
  <2>3. /\ chunk \in [offset: Nat, length: Nat, found: BOOLEAN]
        /\ chunk.offset + chunk.length <= decoder.size
    BY <2>1, <2>2
  <2> HIDE DEF chunk
  <2>4. d \in Decoder /\ d.pc = "walk" /\ d.data = chunk /\ d.size = decoder.size
    BY <2>1, <2>3 DEF Decoder
  <2>5. decoder' = d
    BY <1>2 DEF DataChunk, chunk
  <2> HIDE DEF d
  <2> QED
    BY <2>3, <2>4, <2>5 DEF WavInv
<1>3. ASSUME NEW size \in ChunkSizes, OtherChunk(size) PROVE WavInv'
  BY <1>3, AfterNat, WalkKeeps DEF OtherChunk
<1>4. CASE Check
  <2>1. CASE decoder.data.found /\ Usable(decoder.fmt) /\ decoder' = [decoder EXCEPT !.pc = "decoded"]
    BY <2>1 DEF WavInv, Decoder
  <2> QED
    BY <1>4, <2>1, ThrowKeeps DEF Check
<1>5. CASE UNCHANGED wavVars
  BY <1>5 DEF WavInv, wavVars
<1> QED
  BY <1>1, <1>2, <1>3, <1>4, <1>5 DEF WavNext

\* Sample i of the whole samples that fit ends within them.
LEMMA SampleFits ==
  ASSUME NEW len \in Nat, NEW b \in {1, 2, 3, 4}, NEW i \in 0..((len \div b) - 1)
  PROVE  i \in Nat /\ i * b \in Nat /\ i * b + b <= len
<1>1. CASE b = 1
  BY <1>1
<1>2. CASE b = 2
  BY <1>2
<1>3. CASE b = 3
  BY <1>3
<1>4. CASE b = 4
  BY <1>4
<1> QED
  BY <1>1, <1>2, <1>3, <1>4

LEMMA InvReadsItsData == WavInv => ReadsItsData
<1> SUFFICES ASSUME WavInv, decoder.pc = "decoded"
             PROVE  /\ \A i \in 0..(Count - 1) : SampleBytes(i) \subseteq
                         decoder.data.offset..(Smaller(decoder.size, decoder.data.offset + decoder.data.length) - 1)
                    /\ Frames > 0 => \A i \in 0..(OutLength - 1) : Between(i) \subseteq 0..(Frames - 1)
  BY DEF ReadsItsData
<1>1. /\ decoder.size \in Nat /\ decoder.data.offset \in Nat /\ decoder.data.length \in Nat
      /\ decoder.data.offset + decoder.data.length <= decoder.size
      /\ decoder.fmt.bits \in {8, 16, 24, 32}
      /\ decoder.fmt.channels \in Nat \ {0} /\ decoder.fmt.rate \in Nat \ {0}
  BY WavAssumption DEF WavInv, Decoder, Usable, NoFormat
<1>2. BytesPer \in {1, 2, 3, 4} /\ (decoder.fmt.bits = 24 => BytesPer = 3)
  BY <1>1 DEF BytesPer
<1>3. Smaller(decoder.size, decoder.data.offset + decoder.data.length)
        = decoder.data.offset + decoder.data.length
  BY <1>1 DEF Smaller
<1>4. ASSUME NEW i \in 0..(Count - 1)
      PROVE  SampleBytes(i) \subseteq
               decoder.data.offset..(decoder.data.offset + decoder.data.length - 1)
  <2> DEFINE o == decoder.data.offset
             len == decoder.data.length
             b == BytesPer
  <2>1. i \in Nat /\ i * b \in Nat /\ i * b + b <= len
    BY <1>1, <1>2, <1>4, SampleFits DEF Count
  <2> DEFINE ib == i * b
  <2>2. SampleBytes(i) = IF decoder.fmt.bits = 24 THEN (o + ib + 1)..(o + ib + 2)
                         ELSE (o + ib)..(o + ib + b - 1)
    BY DEF SampleBytes
  <2>3. ib \in Nat /\ ib + b <= len /\ b \in {1, 2, 3, 4} /\ o \in Nat /\ len \in Nat
        /\ (decoder.fmt.bits = 24 => b = 3)
    BY <1>1, <1>2, <2>1
  <2> HIDE DEF o, len, b, ib
  <2>4. SampleBytes(i) \subseteq o..(o + len - 1)
    BY <2>2, <2>3
  <2> QED
    BY <2>4 DEF o, len
<1>5. ASSUME Frames > 0, NEW i \in 0..(OutLength - 1)
      PROVE  Between(i) \subseteq 0..(Frames - 1)
  <2>1. Count \in Nat
    BY <1>1, <1>2, DivNat DEF Count
  <2>2. Frames \in Nat
    BY <1>1, <2>1, DivNat DEF Frames
  <2>3. OutLength \in Nat
    <3>1. Frames * TargetRate \in Nat
      BY <2>2, WavAssumption
    <3>2. \A a \in Nat : Rounded(a, decoder.fmt.rate) \in Nat
      <4> SUFFICES ASSUME NEW a \in Nat PROVE Rounded(a, decoder.fmt.rate) \in Nat
        OBVIOUS
      <4>1. 2 * a + decoder.fmt.rate \in Nat /\ 2 * decoder.fmt.rate \in Nat \ {0}
        BY <1>1
      <4> QED
        BY <4>1, DivNat DEF Rounded
    <3> QED
      BY <2>2, <3>1, <3>2 DEF OutLength
  <2>4. i \in Nat
    BY <1>5, <2>3
  <2>5. (i * decoder.fmt.rate) \div TargetRate \in Nat
    <3>1. i * decoder.fmt.rate \in Nat
      BY <1>1, <2>4
    <3> QED
      BY <3>1, DivNat, WavAssumption
  <2> DEFINE x == (i * decoder.fmt.rate) \div TargetRate
             F == Frames
  <2>6. Between(i) = {Smaller(F - 1, x), Smaller(F - 1, Smaller(F - 1, x) + 1)}
    BY DEF Between
  <2>7. F \in Nat /\ F > 0 /\ x \in Nat
    BY <1>5, <2>2, <2>5
  <2> HIDE DEF x, F
  <2>8. Between(i) \subseteq 0..(F - 1)
    BY <2>6, <2>7 DEF Smaller
  <2> QED
    BY <2>8 DEF F
<1>6. \A i \in 0..(Count - 1) : SampleBytes(i) \subseteq
        decoder.data.offset..(Smaller(decoder.size, decoder.data.offset + decoder.data.length) - 1)
  <2> DEFINE last == Smaller(decoder.size, decoder.data.offset + decoder.data.length)
  <2>1. last = decoder.data.offset + decoder.data.length
    BY <1>3
  <2> HIDE DEF last
  <2>2. \A i \in 0..(Count - 1) : SampleBytes(i) \subseteq decoder.data.offset..(last - 1)
    <3>1. last - 1 = decoder.data.offset + decoder.data.length - 1
      BY <1>1, <2>1
    <3> QED
      BY <1>4, <3>1
  <2> QED
    BY <2>2 DEF last
<1>7. Frames > 0 => \A i \in 0..(OutLength - 1) : Between(i) \subseteq 0..(Frames - 1)
  BY <1>5
<1> QED
  BY <1>6, <1>7

\* The walk and the checks of the decoder keep the data chunk in the file.
THEOREM WavInvariant == WavSpec => []WavInv
  BY WavInitInv, WavNextInv, PTL DEF WavSpec

\* Whatever the headers claim, decodeWav reads its own data chunk and toMono48k frames
\* that exist, for every length of the file and every rate.
THEOREM ReadsItsDataHolds == WavSpec => []ReadsItsData
  BY InvReadsItsData, WavInvariant, PTL
=============================================================================
