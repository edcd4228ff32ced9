-------------------------- MODULE CameraStream_proofs --------------------------
(***************************************************************************)
(* Proofs about FrameSpool and about CameraStream, which extends it, for   *)
(* every limit, batch, number of frames, steps of the clock and kills, and *)
(* whatever signals, faults and the world do.                              *)
(*                                                                         *)
(* First FrameSpool by itself: the directory is bounded and complete, and  *)
(* what the trim removes is the oldest.  Then both threads of              *)
(* camera-stream.c together: the frame buffer and the counters of the main *)
(* thread are sound, and the push thread is given frames as FrameSpool     *)
(* says, so that what is proved of it holds here.                          *)
(***************************************************************************)
EXTENDS CameraStream, SequenceTheorems, TLAPS

-----------------------------------------------------------------------------
(* Sequences without repetitions.                                          *)

Distinct(s) == \A i, j \in DOMAIN s : s[i] = s[j] => i = j

Increasing(s) == \A i, j \in DOMAIN s : i < j => s[i] < s[j]

LEMMA InsertPlaces ==
    ASSUME NEW S, NEW s \in Seq(S), NEW e \in S, NEW i \in 1 .. Len(s) + 1
    PROVE  /\ InsertAt(s, i, e) \in Seq(S) /\ Len(InsertAt(s, i, e)) = Len(s) + 1
           /\ \A j \in 1 .. Len(s) + 1 :
                InsertAt(s, i, e)[j] = IF j < i THEN s[j] ELSE IF j = i THEN e ELSE s[j - 1]
<1> DEFINE front == SubSeq(s, 1, i - 1)
           back == SubSeq(s, i, Len(s))
<1>1. /\ front \in Seq(S) /\ Len(front) = i - 1
      /\ \A j \in 1 .. i - 1 : front[j] = s[j]
  OBVIOUS
<1>2. /\ back \in Seq(S) /\ Len(back) = Len(s) - i + 1
      /\ \A j \in 1 .. Len(s) - i + 1 : back[j] = s[i + j - 1]
  OBVIOUS
<1> HIDE DEF front, back
<1>3. /\ front \o <<e>> \in Seq(S) /\ Len(front \o <<e>>) = i
      /\ \A j \in 1 .. i : (front \o <<e>>)[j] = IF j < i THEN s[j] ELSE e
  BY <1>1
<1>4. InsertAt(s, i, e) = (front \o <<e>>) \o back
  BY DEF InsertAt, front, back
<1> DEFINE most == front \o <<e>>
<1> HIDE DEF most
<1>5. /\ most \in Seq(S) /\ Len(most) = i
      /\ \A j \in 1 .. i : most[j] = IF j < i THEN s[j] ELSE e
  BY <1>3 DEF most
<1>6. /\ most \o back \in Seq(S) /\ Len(most \o back) = Len(s) + 1
      /\ \A j \in 1 .. Len(s) + 1 :
           (most \o back)[j] = IF j <= i THEN most[j] ELSE back[j - i]
  <2> DEFINE m == Len(back)
  <2>1. /\ most \o back \in Seq(S) /\ Len(most \o back) = i + m
        /\ \A j \in 1 .. i + m : (most \o back)[j] = IF j <= i THEN most[j] ELSE back[j - i]
    <3> HIDE DEF m
    <3>1. m = Len(back)
      BY DEF m
    <3> QED  BY <1>2, <1>5, <3>1, ConcatProperties
  <2>2. i + m = Len(s) + 1
    BY <1>2
  <2> QED  BY <2>1, <2>2
<1>7. ASSUME NEW j \in 1 .. Len(s) + 1
      PROVE  (most \o back)[j] = IF j < i THEN s[j] ELSE IF j = i THEN e ELSE s[j - 1]
  <2>1. CASE j <= i
    BY <1>5, <1>6, <2>1
  <2>2. CASE j > i
    <3>1. j - i \in 1 .. Len(s) - i + 1 /\ i + (j - i) - 1 = j - 1
      BY <2>2
    <3>2. back[j - i] = s[j - 1]
      BY <1>2, <3>1
    <3>3. (most \o back)[j] = back[j - i]
      BY <1>6, <2>2
    <3> QED  BY <2>2, <3>2, <3>3
  <2>3. j <= i \/ j > i
    OBVIOUS
  <2> QED  BY <2>1, <2>2, <2>3
<1> QED  BY <1>4, <1>6, <1>7 DEF most

LEMMA InsertMembers ==
    ASSUME NEW S, NEW s \in Seq(S), NEW e \in S, NEW i \in 1 .. Len(s) + 1
    PROVE  /\ ToSet(InsertAt(s, i, e)) = ToSet(s) \cup {e}
           /\ Distinct(s) /\ e \notin ToSet(s) => Distinct(InsertAt(s, i, e))
<1> DEFINE r == InsertAt(s, i, e)
<1>1. /\ r \in Seq(S) /\ Len(r) = Len(s) + 1
      /\ \A j \in 1 .. Len(s) + 1 :
           r[j] = IF j < i THEN s[j] ELSE IF j = i THEN e ELSE s[j - 1]
  BY InsertPlaces
<1>2. \A j \in 1 .. Len(s) : s[j] = IF j < i THEN r[j] ELSE r[j + 1]
  BY <1>1
<1>3. e = r[i]
  BY <1>1
<1> HIDE DEF r
<1>4. ToSet(r) = ToSet(s) \cup {e}
  <2>1. ToSet(r) \subseteq ToSet(s) \cup {e}
    BY <1>1 DEF ToSet
  <2>2. i \in DOMAIN r /\ \A j \in DOMAIN s : IF j < i THEN j \in DOMAIN r ELSE j + 1 \in DOMAIN r
    BY <1>1
  <2>3. \A j \in DOMAIN s : s[j] \in ToSet(r)
    BY <1>2, <2>2 DEF ToSet
  <2>4. e \in ToSet(r)
    BY <1>3, <2>2 DEF ToSet
  <2> QED  BY <2>1, <2>3, <2>4 DEF ToSet
<1>5. ASSUME Distinct(s), e \notin ToSet(s) PROVE Distinct(r)
  <2>1. \A j \in 1 .. Len(s) : s[j] # e
    BY <1>5 DEF ToSet
  <2>2. \A j, k \in 1 .. Len(s) : s[j] = s[k] => j = k
    BY <1>5 DEF Distinct
  <2> SUFFICES ASSUME NEW j \in 1 .. Len(s) + 1, NEW k \in 1 .. Len(s) + 1, j < k
               PROVE  r[j] # r[k]
    BY <1>1 DEF Distinct
  <2>3. CASE k < i
    BY <1>1, <2>2, <2>3
  <2>4. CASE k = i
    BY <1>1, <2>1, <2>4
  <2>5. CASE k > i /\ j < i
    <3>1. k - 1 \in 1 .. Len(s) /\ j \in 1 .. Len(s) /\ j # k - 1
      BY <2>5
    <3> QED  BY <1>1, <2>2, <2>5, <3>1
  <2>6. CASE k > i /\ j = i
    <3>1. k - 1 \in 1 .. Len(s)
      BY <2>6
    <3> QED  BY <1>1, <2>1, <2>6, <3>1
  <2>7. CASE k > i /\ j > i
    <3>1. k - 1 \in 1 .. Len(s) /\ j - 1 \in 1 .. Len(s) /\ j - 1 # k - 1
      BY <2>7
    <3> QED  BY <1>1, <2>2, <2>7, <3>1
  <2> QED  BY <2>3, <2>4, <2>5, <2>6, <2>7
<1> QED  BY <1>4, <1>5 DEF r

LEMMA RemovePlaces ==
    ASSUME NEW S, NEW s \in Seq(S), NEW i \in 1 .. Len(s)
    PROVE  /\ RemoveAt(s, i) \in Seq(S) /\ Len(RemoveAt(s, i)) = Len(s) - 1
           /\ \A j \in 1 .. Len(s) - 1 : RemoveAt(s, i)[j] = IF j < i THEN s[j] ELSE s[j + 1]
<1> DEFINE front == SubSeq(s, 1, i - 1)
           back == SubSeq(s, i + 1, Len(s))
<1>1. /\ front \in Seq(S) /\ Len(front) = i - 1
      /\ \A j \in 1 .. i - 1 : front[j] = s[j]
  OBVIOUS
<1>2. /\ back \in Seq(S) /\ Len(back) = Len(s) - i
      /\ \A j \in 1 .. Len(s) - i : back[j] = s[i + j]
  OBVIOUS
<1> HIDE DEF front, back
<1>3. RemoveAt(s, i) = front \o back
  BY DEF RemoveAt, front, back
<1>4. /\ front \o back \in Seq(S) /\ Len(front \o back) = Len(s) - 1
      /\ \A j \in 1 .. Len(s) - 1 :
           (front \o back)[j] = IF j <= i - 1 THEN front[j] ELSE back[j - (i - 1)]
  <2> DEFINE m == Len(back)
             n == Len(front)
  <2>1. /\ front \o back \in Seq(S) /\ Len(front \o back) = n + m
        /\ \A j \in 1 .. n + m : (front \o back)[j] = IF j <= n THEN front[j] ELSE back[j - n]
    BY <1>1, <1>2, ConcatProperties
  <2>2. n + m = Len(s) - 1 /\ n = i - 1
    BY <1>1, <1>2
  <2> QED  BY <2>1, <2>2
<1>5. ASSUME NEW j \in 1 .. Len(s) - 1
      PROVE  (front \o back)[j] = IF j < i THEN s[j] ELSE s[j + 1]
  <2>1. CASE j < i
    BY <1>1, <1>4, <2>1
  <2>2. CASE j >= i
    <3>1. j - (i - 1) \in 1 .. Len(s) - i /\ i + (j - (i - 1)) = j + 1
      BY <2>2
    <3>2. back[j - (i - 1)] = s[j + 1]
      BY <1>2, <3>1
    <3>3. (front \o back)[j] = back[j - (i - 1)]
      BY <1>4, <2>2
    <3> QED  BY <2>2, <3>2, <3>3
  <2>3. j < i \/ j >= i
    OBVIOUS
  <2> QED  BY <2>1, <2>2, <2>3
<1> QED  BY <1>3, <1>4, <1>5

LEMMA RemoveMembers ==
    ASSUME NEW S, NEW s \in Seq(S), NEW i \in 1 .. Len(s), Distinct(s)
    PROVE  /\ ToSet(RemoveAt(s, i)) = ToSet(s) \ {s[i]}
           /\ Distinct(RemoveAt(s, i))
           /\ S \subseteq Int /\ Increasing(s) => Increasing(RemoveAt(s, i))
<1> DEFINE r == RemoveAt(s, i)
<1>1. /\ r \in Seq(S) /\ Len(r) = Len(s) - 1
      /\ \A j \in 1 .. Len(s) - 1 : r[j] = IF j < i THEN s[j] ELSE s[j + 1]
  BY RemovePlaces
<1>2. \A j \in 1 .. Len(s) : j # i => s[j] = IF j < i THEN r[j] ELSE r[j - 1]
  BY <1>1
<1> HIDE DEF r
<1>3. ToSet(r) \subseteq ToSet(s) \ {s[i]}
  BY <1>1 DEF ToSet, Distinct
<1>4. ToSet(s) \ {s[i]} \subseteq ToSet(r)
  <2> SUFFICES ASSUME NEW j \in 1 .. Len(s), j # i PROVE s[j] \in ToSet(r)
    BY DEF ToSet
  <2>1. CASE j < i
    <3>1. j \in DOMAIN r /\ r[j] = s[j]
      BY <1>1, <2>1
    <3> QED  BY <3>1 DEF ToSet
  <2>2. CASE j > i
    <3>1. j - 1 \in DOMAIN r /\ r[j - 1] = s[j]
      BY <1>1, <2>2
    <3> QED  BY <3>1 DEF ToSet
  <2> QED  BY <2>1, <2>2
<1> DEFINE from(j) == IF j < i THEN j ELSE j + 1
<1>7. \A j \in DOMAIN r : from(j) \in DOMAIN s /\ r[j] = s[from(j)]
  BY <1>1
<1>8. \A j, k \in DOMAIN r : /\ from(j) = from(k) => j = k
                             /\ j < k => from(j) < from(k)
  BY <1>1
<1> HIDE DEF from
<1>5. Distinct(r)
  BY <1>7, <1>8 DEF Distinct
<1>6. Increasing(s) => Increasing(r)
  BY <1>7, <1>8 DEF Increasing
<1> QED  BY <1>3, <1>4, <1>5, <1>6 DEF r

LEMMA TailMembers ==
    ASSUME NEW S, NEW s \in Seq(S), s # <<>>, Distinct(s)
    PROVE  /\ Tail(s) \in Seq(S) /\ Head(s) \in ToSet(s)
           /\ ToSet(Tail(s)) \subseteq ToSet(s) \ {Head(s)}
           /\ Distinct(Tail(s))
<1>1. /\ Tail(s) \in Seq(S) /\ Len(Tail(s)) = Len(s) - 1 /\ Head(s) = s[1] /\ Len(s) > 0
      /\ \A j \in 1 .. Len(s) - 1 : Tail(s)[j] = s[j + 1]
  OBVIOUS
<1> QED  BY <1>1 DEF ToSet, Distinct

\* What is cut off at the front, and what stays.
LEMMA CutPlaces ==
    ASSUME NEW S, NEW s \in Seq(S), NEW k \in 0 .. Len(s)
    PROVE  /\ SubSeq(s, 1, k) \in Seq(S) /\ Len(SubSeq(s, 1, k)) = k
           /\ \A j \in 1 .. k : SubSeq(s, 1, k)[j] = s[j]
           /\ SubSeq(s, k + 1, Len(s)) \in Seq(S) /\ Len(SubSeq(s, k + 1, Len(s))) = Len(s) - k
           /\ \A j \in 1 .. Len(s) - k : SubSeq(s, k + 1, Len(s))[j] = s[k + j]
OBVIOUS

LEMMA CutMembers ==
    ASSUME NEW S, NEW s \in Seq(S), NEW k \in 0 .. Len(s)
    PROVE  /\ ToSet(SubSeq(s, 1, k)) = {s[j] : j \in 1 .. k}
           /\ ToSet(SubSeq(s, k + 1, Len(s))) = {s[j] : j \in k + 1 .. Len(s)}
<1> DEFINE front == SubSeq(s, 1, k)
           back == SubSeq(s, k + 1, Len(s))
<1>1. front \in Seq(S) /\ Len(front) = k /\ \A j \in 1 .. k : front[j] = s[j]
  BY CutPlaces
<1>2. /\ back \in Seq(S) /\ Len(back) = Len(s) - k
      /\ \A j \in 1 .. Len(s) - k : back[j] = s[k + j]
  BY CutPlaces
<1> HIDE DEF front, back
<1>3. ToSet(front) = {s[j] : j \in 1 .. k}
  BY <1>1 DEF ToSet
<1>4. \A j \in k + 1 .. Len(s) : j - k \in DOMAIN back /\ back[j - k] = s[j]
  BY <1>2
<1>5. \A j \in DOMAIN back : k + j \in k + 1 .. Len(s) /\ back[j] = s[k + j]
  BY <1>2
<1>6. ToSet(back) = {s[j] : j \in k + 1 .. Len(s)}
  BY <1>4, <1>5 DEF ToSet
<1> QED  BY <1>3, <1>6 DEF front, back

LEMMA CutOrder ==
    ASSUME NEW S, NEW s \in Seq(S), NEW k \in 0 .. Len(s)
    PROVE  /\ Distinct(s) => Distinct(SubSeq(s, k + 1, Len(s)))
           /\ S \subseteq Int /\ Increasing(s) => Increasing(SubSeq(s, k + 1, Len(s)))
<1> DEFINE back == SubSeq(s, k + 1, Len(s))
           from(j) == k + j
<1>1. /\ back \in Seq(S) /\ Len(back) = Len(s) - k
      /\ \A j \in 1 .. Len(s) - k : back[j] = s[k + j]
  BY CutPlaces
<1> HIDE DEF back
<1>2. \A j \in DOMAIN back : from(j) \in DOMAIN s /\ back[j] = s[from(j)]
  BY <1>1
<1>3. \A i, j \in DOMAIN back : (from(i) = from(j) => i = j) /\ (i < j => from(i) < from(j))
  BY <1>1
<1> HIDE DEF from
<1>4. Distinct(s) => Distinct(back)
  BY <1>2, <1>3 DEF Distinct
<1>5. Increasing(s) => Increasing(back)
  BY <1>2, <1>3 DEF Increasing
<1> QED  BY <1>4, <1>5 DEF back

-----------------------------------------------------------------------------
(* The invariant.                                                          *)

\* Which phases have a frame in hand, and whether it has its file by then.
Places ==
    /\ phase \in InMemory \cup {"write"} => cur \in taken
    /\ phase \in InMemory => cur \notin ToSet(dir)
    /\ phase = "write" => cur \in ToSet(dir)

\* The drain works on names that are there, each of them once.
Lists ==
    /\ Distinct(dir) /\ Distinct(todo)
    /\ ToSet(todo) \subseteq ToSet(dir)
    /\ phase # "drain" => todo = <<>>

\* The trim has made room for the file.
Room == phase = "create" => Len(dir) <= MAX_OFFLINE_FRAMES

\* The names are in the order of capture while the clock was not stepped.
Sorted ==
    steps = 0 => /\ ahead = 0
                 /\ Increasing(dir)
                 /\ phase \in InMemory => \A f \in ToSet(dir) : f < cur

SpoolInv == DirSound /\ Places /\ Lists /\ Room /\ Sorted

LEMMA SpoolInit == Init => SpoolInv
BY OfflineAssumption, BoundsAssumption
DEF Init, SpoolInv, DirSound, TypeOK, Phases, DirBounded, FramesAccounted, Places, Lists, Room,
    Sorted, InMemory, ToSet, Distinct, Increasing

-----------------------------------------------------------------------------
(* Steps that leave the directory alone.                                   *)

\* Of the files only torn may change.
SameDir == dir' = dir /\ ahead' = ahead

LEMMA TakeKeeps ==
    ASSUME SpoolInv, NEW f \in Frames, TakeFrame(f)
    PROVE  SpoolInv'
<1> USE OfflineAssumption, BoundsAssumption DEF SpoolInv, TakeFrame, fileVars, fateVars, worldVars
<1>1. DirSound'
  BY DEF DirSound, TypeOK, Phases, Frames, DirBounded, FramesAccounted, InMemory
<1>2. dir \in Seq(taken) /\ ToSet(dir) \subseteq taken /\ f \notin taken
  BY DEF DirSound, TypeOK, ToSet, Frames
<1>3. Places' /\ Room'
  BY <1>2 DEF Places, Room, InMemory
<1>4. Lists'
  BY DEF Lists
<1>5. Sorted'
  BY <1>2 DEF Sorted
<1> QED  BY <1>1, <1>3, <1>4, <1>5

LEMMA PushKeeps ==
    ASSUME SpoolInv, PostAccepted \/ PostFailed \/ CheckSpace \/ WriteFile
    PROVE  SpoolInv'
<1> USE OfflineAssumption, BoundsAssumption
    DEF SpoolInv, PostAccepted, PostFailed, CheckSpace, WriteFile, Accepted, Failed, DropFrame,
        Done, fileVars, fateVars, worldVars, InMemory
<1>1. TypeOK'
  BY DEF DirSound, TypeOK, Phases, Places
<1>2. DirBounded' /\ Room'
  BY DEF DirSound, DirBounded, Room
<1>3. FramesAccounted'
  BY DEF DirSound, FramesAccounted, Places
<1>4. Places' /\ Lists' /\ Sorted'
  BY DEF Places, Lists, Sorted
<1> QED  BY <1>1, <1>2, <1>3, <1>4 DEF DirSound

LEMMA DrainKeeps ==
    ASSUME SpoolInv, ListFrames \/ DrainSkips \/ DrainStops
    PROVE  SpoolInv'
<1> USE OfflineAssumption, BoundsAssumption
    DEF SpoolInv, fileVars, fateVars, worldVars, InMemory
<1>1. CASE ListFrames
  <2> USE <1>1 DEF ListFrames, Done
  <2>1. DirSound'
    BY DEF DirSound, TypeOK, Phases, DirBounded, FramesAccounted
  <2>2. Places' /\ Lists' /\ Room' /\ Sorted'
    BY DEF Places, Lists, Room, Sorted
  <2> QED  BY <2>1, <2>2
<1>2. CASE DrainSkips
  <2> USE <1>2 DEF DrainSkips, Draining
  <2>1. /\ todo' \in Seq(taken) /\ Distinct(todo') /\ ToSet(todo') \subseteq ToSet(dir)
    BY TailMembers DEF DirSound, TypeOK, Lists
  <2>2. DirSound'
    BY <2>1 DEF DirSound, TypeOK, Phases, DirBounded, FramesAccounted
  <2>3. Places' /\ Lists' /\ Room' /\ Sorted'
    BY <2>1 DEF Places, Lists, Room, Sorted
  <2> QED  BY <2>2, <2>3
<1>3. CASE DrainStops
  <2> USE <1>3 DEF DrainStops, Draining, Done, Failed
  <2>1. delivered' \subseteq taken /\ delivered \subseteq delivered'
    BY TailMembers DEF DirSound, TypeOK, Lists, ToSet
  <2>2. phase = "drain" /\ phase' = "idle" /\ todo' = <<>> /\ cur' = 0 /\ sent' = 0
    OBVIOUS
  <2>3. DirSound'
    BY <2>1, <2>2 DEF DirSound, TypeOK, Phases, DirBounded, FramesAccounted
  <2>4. Places' /\ Lists' /\ Room' /\ Sorted'
    BY <2>2 DEF Places, Lists, Room, Sorted, ToSet, Distinct
  <2> QED  BY <2>3, <2>4
<1> QED  BY <1>1, <1>2, <1>3

LEMMA WorldKeeps ==
    ASSUME SpoolInv, Killed \/ World
    PROVE  SpoolInv'
<1> USE OfflineAssumption, BoundsAssumption
    DEF SpoolInv, World, Killed, ServerFlips, ClockStepped, ClockCatchesUp, Done,
        fileVars, fateVars, worldVars, InMemory
<1>1. TypeOK'
  <2>1. CASE ServerFlips
    BY <2>1 DEF DirSound, TypeOK
  <2>2. CASE ClockStepped \/ ClockCatchesUp
    <3>1. ahead \in 0 .. Len(dir) /\ dir \in Seq(taken)
      BY DEF DirSound, TypeOK
    <3>2. ahead' \in 0 .. Len(dir) /\ steps' \in 0 .. MaxSteps
      BY <2>2, <3>1 DEF DirSound, TypeOK
    <3> QED  BY <2>2, <3>2 DEF DirSound, TypeOK
  <2>3. CASE Killed
    <3>1. perished' \subseteq taken /\ crashes' \in 0 .. MaxCrashes
      BY <2>3 DEF DirSound, TypeOK, Places
    <3> QED  BY <2>3, <3>1 DEF DirSound, TypeOK, Phases
  <2> QED  BY <2>1, <2>2, <2>3
<1>2. DirBounded' /\ Room'
  BY DEF DirSound, DirBounded, Room
<1>3. FramesAccounted'
  BY DEF DirSound, FramesAccounted, Places
<1>4. Places' /\ Lists'
  BY DEF Places, Lists, ToSet, Distinct
<1>5. Sorted'
  <2>1. CASE ServerFlips \/ Killed
    BY <2>1 DEF Sorted
  <2>2. CASE ClockStepped
    <3>1. steps' # 0
      BY <2>2 DEF DirSound, TypeOK
    <3> QED  BY <3>1 DEF Sorted
  <2>3. CASE ClockCatchesUp
    <3>1. steps' = steps /\ dir' = dir /\ phase' = phase /\ cur' = cur
      BY <2>3
    <3>2. ahead # 0
      BY <2>3 DEF DirSound, TypeOK
    <3> QED  BY <3>1, <3>2 DEF Sorted
  <2> QED  BY <2>1, <2>2, <2>3
<1> QED  BY <1>1, <1>2, <1>3, <1>4, <1>5 DEF DirSound

-----------------------------------------------------------------------------
(* Steps that change the directory.                                        *)

LEMMA CreateKeeps ==
    ASSUME SpoolInv, CreateFile
    PROVE  SpoolInv'
<1> USE OfflineAssumption, BoundsAssumption
    DEF SpoolInv, CreateFile, fileVars, fateVars, worldVars, InMemory
<1>1. CASE DropFrame /\ UNCHANGED <<dir, torn>>
  <2> USE <1>1 DEF DropFrame, Done
  <2>1. TypeOK'
    BY DEF DirSound, TypeOK, Phases, Places
  <2>2. DirBounded' /\ Room' /\ FramesAccounted'
    BY DEF DirSound, DirBounded, Room, FramesAccounted
  <2>3. Places' /\ Lists' /\ Sorted'
    BY DEF Places, Lists, Sorted
  <2> QED  BY <2>1, <2>2, <2>3 DEF DirSound
<1>2. CASE dir' = InsertAt(dir, Len(dir) - ahead + 1, cur)
  <2> DEFINE i == Len(dir) - ahead + 1
  <2>1. cur \in taken /\ cur \notin ToSet(dir) /\ dir \in Seq(taken) /\ i \in 1 .. Len(dir) + 1
    BY DEF DirSound, TypeOK, Places
  <2>2. dir' = InsertAt(dir, i, cur)
    BY <1>2
  <2>3. torn' = torn \cup {cur} /\ phase' = "write" /\ cur' = cur /\ dropped' = dropped
    <3>1. ~UNCHANGED <<dir, torn>>
      BY <2>1, <2>2, InsertPlaces
    <3> QED  BY <3>1
  <2> HIDE DEF i
  <2>4. /\ dir' \in Seq(taken) /\ Len(dir') = Len(dir) + 1 /\ ToSet(dir') = ToSet(dir) \cup {cur}
        /\ Distinct(dir')
    BY <2>1, <2>2, InsertPlaces, InsertMembers DEF Lists
  <2>5. TypeOK'
    BY <2>1, <2>3, <2>4 DEF DirSound, TypeOK, Phases
  <2>6. DirBounded' /\ Room'
    BY <2>1, <2>3, <2>4 DEF DirBounded, Room
  <2>7. FramesAccounted'
    BY <2>3, <2>4 DEF DirSound, FramesAccounted
  <2>8. Places' /\ Lists'
    BY <2>1, <2>3, <2>4 DEF Places, Lists
  <2>9. Sorted'
    <3> SUFFICES ASSUME steps = 0 PROVE Increasing(dir')
      BY <2>3 DEF Sorted
    <3>1. i = Len(dir) + 1 /\ Increasing(dir) /\ \A j \in 1 .. Len(dir) : dir[j] < cur
      BY <2>1 DEF Sorted, i, ToSet
    <3>2. \A j \in 1 .. Len(dir) + 1 : dir'[j] = IF j <= Len(dir) THEN dir[j] ELSE cur
      BY <2>1, <2>2, <3>1, InsertPlaces
    <3> QED  BY <2>1, <2>4, <3>1, <3>2 DEF Increasing
  <2> QED  BY <2>5, <2>6, <2>7, <2>8, <2>9 DEF DirSound
<1> QED  BY <1>1, <1>2

\* The number of names that go, and what goes with them.
LEMMA TrimCuts ==
    ASSUME SpoolInv, Trim
    PROVE  \E k \in 0 .. Len(dir) :
             /\ dir' = SubSeq(dir, k + 1, Len(dir))
             /\ Len(dir) - k <= MAX_OFFLINE_FRAMES
             /\ dropped' = dropped \cup ToSet(SubSeq(dir, 1, k))
             /\ ahead' = IF ahead <= Len(dir') THEN ahead ELSE Len(dir')
<1> DEFINE k == IF Len(dir) <= MAX_OFFLINE_FRAMES THEN 0 ELSE Len(dir) - MAX_OFFLINE_FRAMES
<1>1. k \in 0 .. Len(dir) /\ Len(dir) - k <= MAX_OFFLINE_FRAMES
  BY OfflineAssumption DEF SpoolInv, DirSound, TypeOK
<1> QED  BY <1>1 DEF Trim

LEMMA TrimKeeps ==
    ASSUME SpoolInv, Trim
    PROVE  SpoolInv'
<1> USE OfflineAssumption, BoundsAssumption DEF SpoolInv, fileVars, fateVars, worldVars, InMemory
<1>1. PICK k \in 0 .. Len(dir) :
        /\ dir' = SubSeq(dir, k + 1, Len(dir))
        /\ Len(dir) - k <= MAX_OFFLINE_FRAMES
        /\ dropped' = dropped \cup ToSet(SubSeq(dir, 1, k))
        /\ ahead' = IF ahead <= Len(dir') THEN ahead ELSE Len(dir')
  BY TrimCuts
<1>2. dir \in Seq(taken) /\ Distinct(dir) /\ taken \subseteq Int
  BY DEF DirSound, TypeOK, Lists, Frames
<1>3. /\ dir' \in Seq(taken) /\ Len(dir') = Len(dir) - k /\ Distinct(dir')
      /\ Increasing(dir) => Increasing(dir')
      /\ ToSet(dir') = {dir[j] : j \in k + 1 .. Len(dir)}
      /\ dropped' = dropped \cup {dir[j] : j \in 1 .. k}
  <2> HIDE DEF SpoolInv
  <2>1. /\ SubSeq(dir, k + 1, Len(dir)) \in Seq(taken)
        /\ Len(SubSeq(dir, k + 1, Len(dir))) = Len(dir) - k
    BY <1>2, CutPlaces
  <2>2. /\ ToSet(SubSeq(dir, 1, k)) = {dir[j] : j \in 1 .. k}
        /\ ToSet(SubSeq(dir, k + 1, Len(dir))) = {dir[j] : j \in k + 1 .. Len(dir)}
    BY <1>2, CutMembers, Zenon
  <2>3. /\ Distinct(SubSeq(dir, k + 1, Len(dir)))
        /\ Increasing(dir) => Increasing(SubSeq(dir, k + 1, Len(dir)))
    BY <1>2, CutOrder
  <2> QED  BY <1>1, <2>1, <2>2, <2>3
<1>4. ToSet(dir') \subseteq ToSet(dir) /\ ToSet(dir) \subseteq ToSet(dir') \cup dropped'
  <2>1. ToSet(dir) = {dir[j] : j \in 1 .. Len(dir)} /\ Len(dir) \in Nat
    BY <1>2 DEF ToSet
  <2> HIDE DEF SpoolInv
  <2> QED  BY <1>3, <2>1
<1>5. dropped' \subseteq taken
  <2>1. dropped \subseteq taken /\ \A j \in 1 .. k : dir[j] \in taken
    BY <1>2 DEF DirSound, TypeOK
  <2> QED  BY <1>3, <2>1
<1> USE DEF Trim
<1>6. TypeOK'
  <2>1. ahead' \in 0 .. Len(dir')
    <3>1. ahead \in 0 .. Len(dir) /\ Len(dir) \in Nat
      BY <1>2 DEF DirSound, TypeOK
    <3> HIDE DEF SpoolInv, Trim
    <3> QED  BY <1>1, <1>3, <3>1
  <2> QED  BY <1>3, <1>5, <2>1 DEF DirSound, TypeOK, Phases
<1>7. DirBounded' /\ Room'
  <2>1. Len(dir') <= MAX_OFFLINE_FRAMES
    BY <1>1, <1>3
  <2>2. Len(dir') \in Nat
    BY <1>3
  <2> HIDE DEF SpoolInv, Trim
  <2> QED  BY <2>1, <2>2 DEF DirBounded, Room
<1>8. FramesAccounted'
  BY <1>3, <1>4 DEF DirSound, FramesAccounted
<1>9. Places' /\ Lists'
  <2>1. todo = <<>> /\ todo' = todo /\ phase' = "create" /\ cur' = cur
    BY DEF Lists
  <2>2. ToSet(todo') = {} /\ Distinct(todo')
    BY <2>1 DEF ToSet, Distinct
  <2> QED  BY <1>3, <1>4, <2>1, <2>2 DEF Places, Lists
<1>10. Sorted'
  BY <1>1, <1>2, <1>3, <1>4 DEF Sorted
<1> QED  BY <1>6, <1>7, <1>8, <1>9, <1>10 DEF DirSound

LEMMA SentKeeps ==
    ASSUME SpoolInv, DrainSent
    PROVE  SpoolInv'
<1> USE OfflineAssumption, BoundsAssumption
    DEF SpoolInv, DrainSent, Draining, Accepted, fileVars, fateVars, worldVars, InMemory
<1> DEFINE at == CHOOSE i \in DOMAIN dir : dir[i] = Head(todo)
<1>1. /\ todo' \in Seq(taken) /\ Distinct(todo') /\ Head(todo) \in ToSet(dir)
      /\ ToSet(todo') \subseteq ToSet(dir) \ {Head(todo)}
  BY TailMembers DEF DirSound, TypeOK, Lists
<1>2. at \in DOMAIN dir /\ dir[at] = Head(todo)
  BY <1>1 DEF ToSet
<1>3. dir' = RemoveAt(dir, at) /\ ahead' = IF at > Len(dir) - ahead THEN ahead - 1 ELSE ahead
  OBVIOUS
<1> HIDE DEF at
<1>4. dir \in Seq(taken) /\ Distinct(dir) /\ taken \subseteq Int /\ at \in 1 .. Len(dir)
  BY <1>2 DEF DirSound, TypeOK, Lists, Frames
<1>5. /\ dir' \in Seq(taken) /\ Len(dir') = Len(dir) - 1 /\ Distinct(dir')
      /\ Increasing(dir) => Increasing(dir')
      /\ ToSet(dir') = ToSet(dir) \ {Head(todo)}
  <2> HIDE DEF SpoolInv, DrainSent
  <2>1. /\ RemoveAt(dir, at) \in Seq(taken) /\ Len(RemoveAt(dir, at)) = Len(dir) - 1
        /\ Distinct(RemoveAt(dir, at))
        /\ Increasing(dir) => Increasing(RemoveAt(dir, at))
        /\ ToSet(RemoveAt(dir, at)) = ToSet(dir) \ {dir[at]}
    BY <1>4, RemovePlaces, RemoveMembers
  <2> QED  BY <1>2, <1>3, <2>1
<1>6. ahead' \in 0 .. Len(dir')
  <2>1. ahead \in 0 .. Len(dir) /\ Len(dir) \in Nat /\ at \in 1 .. Len(dir)
    BY <1>4 DEF DirSound, TypeOK
  <2> HIDE DEF SpoolInv, DrainSent
  <2> QED  BY <1>3, <1>5, <2>1
<1>7. TypeOK'
  <2>1. delivered' \subseteq taken
    <3>1. Head(todo) \in taken /\ delivered \subseteq taken
      BY <1>1, <1>4 DEF DirSound, TypeOK, ToSet
    <3> QED  BY <3>1
  <2>2. sent' \in 0 .. BATCH
    BY DEF DirSound, TypeOK
  <2>3. TypeOK /\ UNCHANGED <<taken, cur, phase, torn, dropped, perished, steps, crashes, server>>
    BY DEF DirSound
  <2> HIDE DEF SpoolInv, DrainSent
  <2> QED  BY <1>1, <1>5, <1>6, <2>1, <2>2, <2>3 DEF TypeOK
<1>8. DirBounded' /\ Room'
  <2>1. Len(dir) \in Nat /\ phase' = "drain" /\ Len(dir) <= MAX_OFFLINE_FRAMES + 1
    BY <1>4 DEF DirSound, DirBounded
  <2> HIDE DEF SpoolInv, DrainSent
  <2> QED  BY <1>5, <2>1 DEF DirBounded, Room
<1>9. FramesAccounted'
  BY <1>5 DEF DirSound, FramesAccounted
<1>10. Places' /\ Lists'
  BY <1>1, <1>5 DEF Places, Lists
<1>11. Sorted'
  <2> SUFFICES ASSUME steps = 0 PROVE ahead' = 0 /\ Increasing(dir')
    BY DEF Sorted
  <2>1. ahead = 0 /\ Increasing(dir) /\ Len(dir) \in Nat /\ at <= Len(dir) - 0
    BY <1>4 DEF Sorted
  <2> HIDE DEF SpoolInv, DrainSent
  <2> QED  BY <1>3, <1>4, <1>5, <2>1
<1> QED  BY <1>7, <1>8, <1>9, <1>10, <1>11 DEF DirSound

-----------------------------------------------------------------------------
(* The theorems.                                                           *)

LEMMA SpoolNext == SpoolInv /\ [Next]_vars => SpoolInv'
<1> SUFFICES ASSUME SpoolInv, [Next]_vars PROVE SpoolInv'
  OBVIOUS
<1>1. CASE UNCHANGED vars
  BY <1>1 DEF vars, fileVars, fateVars, worldVars, SpoolInv, DirSound, TypeOK, DirBounded,
              FramesAccounted, Places, Lists, Room, Sorted
<1>2. CASE Next
  BY <1>2, TakeKeeps, PushKeeps, DrainKeeps, WorldKeeps, CreateKeeps, TrimKeeps, SentKeeps
  DEF Next, PushStep
<1> QED  BY <1>1, <1>2

LEMMA SpoolInvariant == Spec => []SpoolInv
<1>1. Init => SpoolInv
  BY SpoolInit
<1>2. SpoolInv /\ [Next]_vars => SpoolInv'
  BY SpoolNext
<1> QED  BY <1>1, <1>2, PTL DEF Spec

\* However the server, the clock and the disk behave and whenever the process
\* is killed, the offline directory never holds more than one file above its
\* limit, and every whole frame taken is in memory, in the directory, at the
\* server, given up or lost in a kill (push_thread, offline_frames_trim,
\* offline_frames_store, offline_frames_drain_batch).
THEOREM DirCorrect == Spec => []DirSound
<1>1. SpoolInv => DirSound
  BY DEF SpoolInv
<1> QED  BY <1>1, SpoolInvariant, PTL

\* While the clock was not stepped, the trim of offline_frames_trim removes
\* frames that are older than all it keeps.
THEOREM TrimCorrect == Spec => TrimDropsOldest
<1> DEFINE Oldest ==
      phase = "trim" /\ steps = 0 =>
          \A old \in ToSet(dir) \ ToSet(dir'), new \in ToSet(dir') : old < new
<1>1. SpoolInv /\ [Next]_vars => [Oldest]_vars
  <2> SUFFICES ASSUME SpoolInv, [Next]_vars, phase = "trim", steps = 0,
                      NEW old \in ToSet(dir) \ ToSet(dir'), NEW new \in ToSet(dir')
               PROVE  old < new
    OBVIOUS
  <2>1. dir' # dir
    OBVIOUS
  <2>2. Trim
    BY <2>1 DEF Next, PushStep, World, vars, fileVars, TakeFrame, PostAccepted, PostFailed,
                CheckSpace, CreateFile, WriteFile, ListFrames, DrainSkips, DrainSent, DrainStops,
                Draining, Killed, ServerFlips, ClockStepped, ClockCatchesUp
  <2>3. PICK k \in 0 .. Len(dir) : dir' = SubSeq(dir, k + 1, Len(dir))
    BY <2>2, TrimCuts
  <2>4. dir \in Seq(taken) /\ taken \subseteq Int /\ Increasing(dir)
    BY DEF SpoolInv, DirSound, TypeOK, Frames, Sorted
  <2>5. ToSet(dir') = {dir[j] : j \in k + 1 .. Len(dir)}
    BY <2>3, <2>4, CutMembers
  <2>6. PICK i \in 1 .. Len(dir) : old = dir[i] /\ i <= k
    <3>1. PICK i \in 1 .. Len(dir) : old = dir[i]
      BY <2>4 DEF ToSet
    <3>2. i \notin k + 1 .. Len(dir)
      BY <2>5, <3>1
    <3> QED  BY <2>4, <3>1, <3>2
  <2>7. PICK j \in k + 1 .. Len(dir) : new = dir[j]
    BY <2>5
  <2> QED  BY <2>4, <2>6, <2>7 DEF Increasing
<1> QED  BY <1>1, SpoolInvariant, PTL DEF Spec, TrimDropsOldest

-----------------------------------------------------------------------------
(* The places of the threads, the signals and the configuration.           *)

ControlInv ==
    /\ proc \in {"up", "down", "aborted"}
    /\ running \in BOOLEAN /\ reload_flag \in BOOLEAN /\ missed \in BOOLEAN
    /\ mpc \in MainPlaces /\ ppc \in PushPlaces
    /\ conf \in 0 .. MaxConfigs /\ cfg \in 0 .. conf /\ hup_due \in BOOLEAN

LEMMA ControlStep ==
    ASSUME ControlInv, StreamNext
    PROVE  ControlInv'
<1> USE DEF vars, fileVars, fateVars, worldVars, flags, buffer, device, config
<1>1. CASE MainLoops
  BY <1>1 DEF MainLoops, Up, ControlInv, MainPlaces, PushPlaces
<1>2. CASE Reload
  BY <1>2 DEF Reload, Up, Fault, ControlInv, MainPlaces, PushPlaces
<1>3. CASE ClearFlag
  BY <1>3 DEF ClearFlag, Up, ControlInv, MainPlaces, PushPlaces
<1>4. CASE TimesOut
  BY <1>4 DEF TimesOut, Up, ControlInv, MainPlaces, PushPlaces
<1>5. CASE NothingReady
  BY <1>5 DEF NothingReady, Up, ControlInv, MainPlaces, PushPlaces
<1>6. CASE Captures
  BY <1>6 DEF Captures, Up, Fault, ControlInv, MainPlaces, PushPlaces
<1>7. CASE CaptureFails
  BY <1>7 DEF CaptureFails, Up, ControlInv, MainPlaces, PushPlaces
<1>8. CASE Reopen
  BY <1>8 DEF Reopen, Up, Fault, ControlInv, MainPlaces, PushPlaces
<1>9. CASE HandOver
  BY <1>9 DEF HandOver, Up, ControlInv, MainPlaces, PushPlaces
<1>10. CASE Stops
  BY <1>10 DEF Stops, Up, ControlInv, MainPlaces, PushPlaces
<1>11. CASE Broadcasts
  BY <1>11 DEF Broadcasts, Up, ControlInv, MainPlaces, PushPlaces
<1>12. CASE Exits
  BY <1>12 DEF Exits, Up, Gone, ControlInv, MainPlaces, PushPlaces
<1>13. CASE SetsBadDescriptor
  BY <1>13 DEF SetsBadDescriptor, Up, Aborts, Gone, Killed, Done, ControlInv, MainPlaces, PushPlaces
<1>14. CASE ReleasesTwice
  BY <1>14 DEF ReleasesTwice, Up, Aborts, Gone, Killed, Done, ControlInv, MainPlaces, PushPlaces
<1>15. CASE PushLoops
  BY <1>15 DEF PushLoops, ControlInv, MainPlaces, PushPlaces
<1>16. CASE PushLocks
  BY <1>16 DEF PushLocks, ControlInv, MainPlaces, PushPlaces
<1>17. CASE FindsNothing
  BY <1>17 DEF FindsNothing, ControlInv, MainPlaces, PushPlaces
<1>18. CASE Waits
  BY <1>18 DEF Waits, ControlInv, MainPlaces, PushPlaces
<1>19. CASE FindsEnd
  BY <1>19 DEF FindsEnd, ControlInv, MainPlaces, PushPlaces
<1>20. CASE Takes
  BY <1>20 DEF Takes, Fault, ControlInv, MainPlaces, PushPlaces
<1>21. CASE Pushes
  BY <1>21 DEF Pushes, ControlInv, MainPlaces, PushPlaces
<1>22. CASE WakesForNothing
  BY <1>22 DEF WakesForNothing, ControlInv, MainPlaces, PushPlaces
<1>23. CASE Term
  BY <1>23 DEF Term, Interrupts, ControlInv, MainPlaces, PushPlaces
<1>24. CASE ConfigChanges
  BY <1>24, StreamAssumption DEF ConfigChanges, ControlInv, MainPlaces, PushPlaces
<1>25. CASE Hup
  BY <1>25 DEF Hup, Interrupts, ControlInv, MainPlaces, PushPlaces
<1>26. CASE Launch
  BY <1>26 DEF Launch, ControlInv, MainPlaces, PushPlaces
<1>27. CASE Kill9
  BY <1>27 DEF Kill9, Gone, Killed, Done, ControlInv, MainPlaces, PushPlaces
<1>28. CASE StreamWorld
  BY <1>28 DEF StreamWorld, streamVars, ControlInv, MainPlaces, PushPlaces
<1> QED
  BY <1>1, <1>2, <1>3, <1>4, <1>5, <1>6, <1>7, <1>8, <1>9, <1>10, <1>11, <1>12, <1>13, <1>14,
     <1>15, <1>16, <1>17, <1>18, <1>19, <1>20, <1>21, <1>22, <1>23, <1>24, <1>25, <1>26, <1>27,
     <1>28
  DEF StreamNext, MainStep, PushThread

-----------------------------------------------------------------------------
(* The counters of the main thread.                                        *)

\* A thread that is about to wait for a frame has timeouts left, unless the camera
\* is lost, and reopens left.
CounterInv ==
    /\ timeouts \in 0 .. STALL_MAX_TIMEOUTS + 1 /\ attempts \in 0 .. MAX_REOPEN_ATTEMPTS
    /\ mpc \in {"loop", "select", "handover"} => timeouts <= STALL_MAX_TIMEOUTS
    /\ mpc \notin {"stop", "broadcast", "join"} => attempts < MAX_REOPEN_ATTEMPTS
    /\ camera \in {"open", "lost"}
    /\ camera = "lost" => mpc \notin {"clear", "handover"}
    /\ RetryArmed

LEMMA CounterStep ==
    ASSUME ControlInv, CounterInv, StreamNext
    PROVE  CounterInv'
<1> USE DEF vars, fileVars, fateVars, worldVars, flags, buffer, device, config
<1>1. CASE MainLoops
  BY <1>1, StreamAssumption DEF MainLoops, Up, ControlInv, MainPlaces, CounterInv, RetryArmed
<1>2. CASE Reload
  BY <1>2, StreamAssumption DEF Reload, Up, Fault, ControlInv, MainPlaces, CounterInv, RetryArmed
<1>3. CASE ClearFlag
  BY <1>3, StreamAssumption DEF ClearFlag, Up, ControlInv, MainPlaces, CounterInv, RetryArmed
<1>4. CASE TimesOut
  BY <1>4, StreamAssumption DEF TimesOut, Up, ControlInv, MainPlaces, CounterInv, RetryArmed
<1>5. CASE NothingReady
  BY <1>5, StreamAssumption DEF NothingReady, Up, ControlInv, MainPlaces, CounterInv, RetryArmed
<1>6. CASE Captures
  BY <1>6, StreamAssumption DEF Captures, Up, Fault, ControlInv, MainPlaces, CounterInv, RetryArmed
<1>7. CASE CaptureFails
  BY <1>7, StreamAssumption DEF CaptureFails, Up, ControlInv, MainPlaces, CounterInv, RetryArmed
<1>8. CASE Reopen
  BY <1>8, StreamAssumption DEF Reopen, Up, Fault, ControlInv, MainPlaces, CounterInv, RetryArmed
<1>9. CASE HandOver
  BY <1>9, StreamAssumption DEF HandOver, Up, ControlInv, MainPlaces, CounterInv, RetryArmed
<1>10. CASE Stops
  BY <1>10, StreamAssumption DEF Stops, Up, ControlInv, MainPlaces, CounterInv, RetryArmed
<1>11. CASE Broadcasts
  BY <1>11, StreamAssumption DEF Broadcasts, Up, ControlInv, MainPlaces, CounterInv, RetryArmed
<1>12. CASE Exits
  BY <1>12, StreamAssumption DEF Exits, Up, Gone, ControlInv, MainPlaces, CounterInv, RetryArmed
<1>13. CASE SetsBadDescriptor
  BY <1>13, StreamAssumption
  DEF SetsBadDescriptor, Up, Aborts, Gone, Killed, Done, ControlInv, MainPlaces, CounterInv,
      RetryArmed
<1>14. CASE ReleasesTwice
  BY <1>14, StreamAssumption
  DEF ReleasesTwice, Up, Aborts, Gone, Killed, Done, ControlInv, MainPlaces, CounterInv,
      RetryArmed
<1>15. CASE PushLoops
  BY <1>15, StreamAssumption DEF PushLoops, ControlInv, MainPlaces, CounterInv, RetryArmed
<1>16. CASE PushLocks
  BY <1>16, StreamAssumption DEF PushLocks, ControlInv, MainPlaces, CounterInv, RetryArmed
<1>17. CASE FindsNothing
  BY <1>17, StreamAssumption DEF FindsNothing, ControlInv, MainPlaces, CounterInv, RetryArmed
<1>18. CASE Waits
  BY <1>18, StreamAssumption DEF Waits, ControlInv, MainPlaces, CounterInv, RetryArmed
<1>19. CASE FindsEnd
  BY <1>19, StreamAssumption DEF FindsEnd, ControlInv, MainPlaces, CounterInv, RetryArmed
<1>20. CASE Takes
  BY <1>20, StreamAssumption DEF Takes, Fault, ControlInv, MainPlaces, CounterInv, RetryArmed
<1>21. CASE Pushes
  BY <1>21, StreamAssumption DEF Pushes, ControlInv, MainPlaces, CounterInv, RetryArmed
<1>22. CASE WakesForNothing
  BY <1>22, StreamAssumption DEF WakesForNothing, ControlInv, MainPlaces, CounterInv, RetryArmed
<1>23. CASE Term
  BY <1>23, StreamAssumption DEF Term, Interrupts, ControlInv, MainPlaces, CounterInv, RetryArmed
<1>24. CASE ConfigChanges
  BY <1>24, StreamAssumption DEF ConfigChanges, ControlInv, MainPlaces, CounterInv, RetryArmed
<1>25. CASE Hup
  BY <1>25, StreamAssumption DEF Hup, Interrupts, ControlInv, MainPlaces, CounterInv, RetryArmed
<1>26. CASE Launch
  BY <1>26, StreamAssumption DEF Launch, ControlInv, MainPlaces, CounterInv, RetryArmed
<1>27. CASE Kill9
  BY <1>27, StreamAssumption
  DEF Kill9, Gone, Killed, Done, ControlInv, MainPlaces, CounterInv, RetryArmed
<1>28. CASE StreamWorld
  BY <1>28, StreamAssumption
  DEF StreamWorld, streamVars, ControlInv, MainPlaces, CounterInv, RetryArmed
<1> QED
  BY <1>1, <1>2, <1>3, <1>4, <1>5, <1>6, <1>7, <1>8, <1>9, <1>10, <1>11, <1>12, <1>13, <1>14,
     <1>15, <1>16, <1>17, <1>18, <1>19, <1>20, <1>21, <1>22, <1>23, <1>24, <1>25, <1>26, <1>27,
     <1>28
  DEF StreamNext, MainStep, PushThread

-----------------------------------------------------------------------------
(* The frame between the threads.                                          *)

\* The frame to be handed over is newer than the one in frame_buf, which is newer
\* than all that were taken as long as it is ready.
BufferInv ==
    /\ scenario \in Scenarios
    /\ captured \in 0 .. MaxFrames
    /\ slot \in 0 .. captured /\ jpeg \in 0 .. captured /\ ready \in BOOLEAN
    /\ taken \subseteq 1 .. captured
    /\ mpc = "handover" => jpeg # 0 /\ slot < jpeg /\ \A f \in taken : f < jpeg
    /\ ready => slot # 0 /\ \A f \in taken : f < slot
    /\ ~ready /\ slot # 0 => slot \in taken \/ Fault("nomem")
    /\ ppc # "busy" => phase = "idle"

\* A push leaves the set of the frames taken alone.
LEMMA PushKeepsTaken == ASSUME PushStep PROVE taken' = taken
BY DEF PushStep, PostAccepted, PostFailed, CheckSpace, Trim, CreateFile, WriteFile, ListFrames,
       DrainSkips, DrainSent, DrainStops

\* The world does not touch the push thread.
LEMMA WorldKeepsTaken == ASSUME World PROVE taken' = taken /\ phase' = phase
BY DEF World, ServerFlips, ClockStepped, ClockCatchesUp

\* The process ends, in whatever way.
LEMMA GoneKeepsBuffer ==
    ASSUME BufferInv, NEW how \in {"down", "aborted"}, Gone(how), taken' = taken, phase' = "idle"
    PROVE  BufferInv'
<1>1. UNCHANGED <<scenario, captured, taken>> /\ slot' = 0 /\ jpeg' = 0
  BY DEF Gone
<1>2. ready' = FALSE /\ mpc' = "loop" /\ ppc' = "loop" /\ phase' = "idle"
  BY DEF Gone
<1>3. captured \in Nat
  BY BoundsAssumption DEF BufferInv
<1>4. /\ scenario' \in Scenarios /\ captured' \in 0 .. MaxFrames /\ taken' \subseteq 1 .. captured'
      /\ slot' \in 0 .. captured' /\ jpeg' \in 0 .. captured'
  BY <1>1, <1>3 DEF BufferInv
<1>5. mpc' # "handover" /\ ~ready' /\ ready' \in BOOLEAN /\ ~(slot' # 0)
  BY <1>1, <1>2
<1> QED  BY <1>1, <1>2, <1>4, <1>5 DEF BufferInv

LEMMA KilledKeepsTaken == ASSUME Killed PROVE taken' = taken /\ phase' = "idle"
BY DEF Killed, Done

LEMMA BufferStep ==
    ASSUME BufferInv, StreamNext
    PROVE  BufferInv'
<1> USE DEF vars, fileVars, fateVars, worldVars, flags, buffer, device, config
<1>1. CASE MainLoops
  BY <1>1, BoundsAssumption DEF MainLoops, Up, BufferInv, Fault
<1>2. CASE Reload
  BY <1>2, BoundsAssumption DEF Reload, Up, Fault, BufferInv
<1>3. CASE ClearFlag
  BY <1>3, BoundsAssumption DEF ClearFlag, Up, BufferInv, Fault
<1>4. CASE TimesOut
  BY <1>4, BoundsAssumption DEF TimesOut, Up, BufferInv, Fault
<1>5. CASE NothingReady
  BY <1>5, BoundsAssumption DEF NothingReady, Up, BufferInv, Fault
<1>6. CASE Captures
  BY <1>6, BoundsAssumption, StreamAssumption DEF Captures, Up, Fault, BufferInv, ScenarioType
<1>7. CASE CaptureFails
  BY <1>7, BoundsAssumption DEF CaptureFails, Up, BufferInv, Fault
<1>8. CASE Reopen
  BY <1>8, BoundsAssumption DEF Reopen, Up, Fault, BufferInv
<1>9. CASE HandOver
  BY <1>9, BoundsAssumption DEF HandOver, Up, BufferInv, Fault
<1>10. CASE Stops
  BY <1>10, BoundsAssumption DEF Stops, Up, BufferInv, Fault
<1>11. CASE Broadcasts
  BY <1>11, BoundsAssumption DEF Broadcasts, Up, BufferInv, Fault
<1>12. CASE Exits
  BY <1>12, GoneKeepsBuffer, KilledKeepsTaken DEF Exits, Up, BufferInv, vars
<1>13. CASE SetsBadDescriptor
  BY <1>13, GoneKeepsBuffer, KilledKeepsTaken DEF SetsBadDescriptor, Aborts
<1>14. CASE ReleasesTwice
  BY <1>14, GoneKeepsBuffer, KilledKeepsTaken DEF ReleasesTwice, Aborts
<1>15. CASE PushLoops
  BY <1>15, BoundsAssumption DEF PushLoops, BufferInv, Fault
<1>16. CASE PushLocks
  BY <1>16, BoundsAssumption DEF PushLocks, BufferInv, Fault
<1>17. CASE FindsNothing
  BY <1>17, BoundsAssumption DEF FindsNothing, BufferInv, Fault
<1>18. CASE Waits
  BY <1>18, BoundsAssumption DEF Waits, BufferInv, Fault
<1>19. CASE FindsEnd
  BY <1>19, BoundsAssumption DEF FindsEnd, BufferInv, Fault
<1>20. CASE Takes
  <2>1. /\ slot # 0 /\ slot \in 1 .. captured /\ phase = "idle" /\ captured \in Nat
        /\ UNCHANGED <<scenario, captured, slot, jpeg, mpc>> /\ ready' = FALSE
    BY <1>20, BoundsAssumption DEF Takes, BufferInv
  <2>2. CASE taken' = taken \cup {slot} /\ ppc' = "busy"
    <3>1. mpc = "handover" => \A f \in taken' : f < jpeg
      BY <2>2 DEF BufferInv
    <3> QED  BY <2>1, <2>2, <3>1 DEF BufferInv
  <2>3. CASE Fault("nomem") /\ UNCHANGED <<taken, cur, phase>>
    BY <2>1, <2>3 DEF BufferInv, Fault
  <2> QED  BY <1>20, <2>2, <2>3 DEF Takes
<1>21. CASE Pushes
  BY <1>21, PushKeepsTaken DEF Pushes, BufferInv, Fault
<1>22. CASE WakesForNothing
  BY <1>22, BoundsAssumption DEF WakesForNothing, BufferInv, Fault
<1>23. CASE Term
  BY <1>23, BoundsAssumption DEF Term, Interrupts, BufferInv, Fault
<1>24. CASE ConfigChanges
  BY <1>24, BoundsAssumption DEF ConfigChanges, BufferInv, Fault
<1>25. CASE Hup
  BY <1>25, BoundsAssumption DEF Hup, Interrupts, BufferInv, Fault
<1>26. CASE Launch
  BY <1>26, BoundsAssumption DEF Launch, BufferInv, Fault
<1>27. CASE Kill9
  BY <1>27, GoneKeepsBuffer, KilledKeepsTaken DEF Kill9
<1>28. CASE StreamWorld
  BY <1>28, WorldKeepsTaken DEF StreamWorld, streamVars, BufferInv, Fault
<1> QED
  BY <1>1, <1>2, <1>3, <1>4, <1>5, <1>6, <1>7, <1>8, <1>9, <1>10, <1>11, <1>12, <1>13, <1>14,
     <1>15, <1>16, <1>17, <1>18, <1>19, <1>20, <1>21, <1>22, <1>23, <1>24, <1>25, <1>26, <1>27,
     <1>28
  DEF StreamNext, MainStep, PushThread

-----------------------------------------------------------------------------
(* The theorems.                                                           *)

StreamInv == ControlInv /\ CounterInv /\ BufferInv

LEMMA InvStarts == ASSUME StreamInit PROVE StreamInv
<1>1. ControlInv
  <2>1. 0 \in 0 .. MaxConfigs
    BY StreamAssumption
  <2>2. /\ proc = "up" /\ running /\ ~reload_flag /\ ~missed /\ ~hup_due
        /\ {running, reload_flag, missed, hup_due} \subseteq BOOLEAN
    BY DEF StreamInit
  <2>3. mpc = "loop" /\ ppc = "loop" /\ conf = 0 /\ cfg = 0
    BY DEF StreamInit
  <2> QED  BY <2>1, <2>2, <2>3 DEF ControlInv, MainPlaces, PushPlaces
<1>2. CounterInv
  BY StreamAssumption DEF StreamInit, CounterInv, RetryArmed
<1>3. BufferInv
  <2>1. /\ scenario \in Scenarios /\ captured = 0 /\ slot = 0 /\ jpeg = 0
        /\ ready = FALSE /\ mpc = "loop"
    BY DEF StreamInit
  <2>2. taken = {} /\ phase = "idle"
    BY DEF StreamInit, Init
  <2>3. /\ captured \in 0 .. MaxFrames /\ slot \in 0 .. captured /\ jpeg \in 0 .. captured
        /\ taken \subseteq 1 .. captured
    BY <2>1, <2>2, BoundsAssumption
  <2>4. mpc # "handover" /\ ~ready /\ ready \in BOOLEAN /\ ~(slot # 0)
    BY <2>1
  <2> QED  BY <2>1, <2>2, <2>3, <2>4 DEF BufferInv
<1> QED  BY <1>1, <1>2, <1>3 DEF StreamInv

LEMMA InvStays == ASSUME StreamInv, [StreamNext]_allVars PROVE StreamInv'
<1>1. CASE StreamNext
  BY <1>1, ControlStep, CounterStep, BufferStep DEF StreamInv
<1>2. CASE UNCHANGED allVars
  <2> USE DEF allVars, streamVars, vars, flags, buffer, device, config
  <2>1. ControlInv'
    BY <1>2 DEF StreamInv, ControlInv, MainPlaces, PushPlaces
  <2>2. CounterInv'
    BY <1>2 DEF StreamInv, CounterInv, RetryArmed
  <2>3. BufferInv'
    BY <1>2 DEF StreamInv, BufferInv, Fault
  <2> QED  BY <2>1, <2>2, <2>3 DEF StreamInv
<1> QED  BY <1>1, <1>2

\* The main thread always has a reopen left while it waits without a camera, and the
\* newest frame handed over is in frame_buf or was taken (frame_buf, main).
THEOREM StreamCorrect == StreamSpec => []StreamSound
<1>1. StreamInit => StreamInv
  BY InvStarts
<1>2. StreamInv /\ [StreamNext]_allVars => StreamInv'
  BY InvStays
<1>3. StreamInv => StreamSound
  <2> SUFFICES ASSUME StreamInv PROVE StreamSound
    OBVIOUS
  <2>1. StreamTypeOK
    BY DEF StreamInv, ControlInv, CounterInv, BufferInv, StreamTypeOK
  <2>2. RetryArmed
    BY DEF StreamInv, CounterInv
  <2>3. NewestKept
    BY DEF StreamInv, BufferInv, NewestKept
  <2> QED  BY <2>1, <2>2, <2>3 DEF StreamSound
<1> QED  BY <1>1, <1>2, <1>3, PTL DEF StreamSpec

\* A frame that is taken is newer than all taken before it, so taking it is a step of
\* FrameSpool; the rest of the two threads does not touch what FrameSpool describes.
LEMMA StreamStep == ASSUME BufferInv, [StreamNext]_allVars PROVE [Next]_vars
<1>1. CASE UNCHANGED vars
  BY <1>1
<1>2. CASE Pushes \/ StreamWorld
  BY <1>2 DEF Pushes, StreamWorld, Next
<1>3. CASE SetsBadDescriptor \/ ReleasesTwice \/ Kill9
  BY <1>3 DEF SetsBadDescriptor, ReleasesTwice, Kill9, Aborts, Next
<1>4. CASE Takes
  <2>1. phase = "idle" /\ slot \in Frames /\ \A g \in taken : g < slot
    BY <1>4, BoundsAssumption DEF Takes, BufferInv, Frames
  <2>2. UNCHANGED <<fileVars, todo, sent, fateVars, worldVars>>
    BY <1>4 DEF Takes
  <2>3. CASE taken' = taken \cup {slot} /\ cur' = slot /\ phase' = "posting"
    <3>1. TakeFrame(slot)
      BY <2>1, <2>2, <2>3 DEF TakeFrame
    <3> QED  BY <2>1, <3>1 DEF Next
  <2>4. CASE UNCHANGED <<taken, cur, phase>>
    BY <2>2, <2>4 DEF vars
  <2> QED  BY <1>4, <2>3, <2>4 DEF Takes
<1>5. CASE MainStep
  <2> UNCHANGED vars
    BY <1>5
    DEF MainStep, MainLoops, Reload, ClearFlag, TimesOut, NothingReady, Captures, CaptureFails,
        Reopen, HandOver, Stops, Broadcasts, Exits
  <2> QED  OBVIOUS
<1>6. CASE PushLoops \/ PushLocks \/ FindsNothing \/ Waits \/ FindsEnd \/ WakesForNothing
  <2> UNCHANGED vars
    BY <1>6 DEF PushLoops, PushLocks, FindsNothing, Waits, FindsEnd, WakesForNothing
  <2> QED  OBVIOUS
<1>7. CASE Term \/ ConfigChanges \/ Hup \/ Launch
  <2> UNCHANGED vars
    BY <1>7 DEF Term, ConfigChanges, Hup, Launch
  <2> QED  OBVIOUS
<1>8. CASE UNCHANGED allVars
  BY <1>8 DEF allVars
<1> QED  BY <1>2, <1>3, <1>4, <1>5, <1>6, <1>7, <1>8 DEF StreamNext, PushThread

\* Both threads together implement FrameSpool: the push thread takes every frame once
\* and none older than one it has taken (push_thread).
THEOREM StreamCarries == StreamSpec => PushesFrames
<1>1. StreamInit => StreamInv /\ Init
  BY InvStarts DEF StreamInit
<1>2. StreamInv /\ [StreamNext]_allVars => StreamInv'
  BY InvStays
<1>3. StreamInv /\ [StreamNext]_allVars => [Next]_vars
  BY StreamStep DEF StreamInv
<1> QED  BY <1>1, <1>2, <1>3, PTL DEF StreamSpec, PushesFrames, Spec

\* So the offline directory is bounded and loses nothing, with both threads, signals and
\* the camera's failures around it (offline_frames_trim, offline_frames_store).
THEOREM StreamDirCorrect == StreamSpec => []DirSound /\ TrimDropsOldest
BY StreamCarries, DirCorrect, TrimCorrect DEF PushesFrames

=============================================================================
