-------------------------- MODULE MCTransfers_proofs --------------------------
(***************************************************************************)
(* Proofs about the transfers that MCTransfers composes, for any sizes,    *)
(* numbers of calls and of faults: ResumableDownloadFile, ResumableUpload  *)
(* and uploadFile.  FileDownload_proofs has those about DownloadFile.      *)
(*                                                                         *)
(* Both uploads know of every identifier which version of which file it    *)
(* was begun with, its owner.  The owners are no part of the state: the    *)
(* invariants say that some assignment of them explains all calls, handles *)
(* and saved states.                                                       *)
(***************************************************************************)
EXTENDS MCTransfers, FiniteSetTheorems, WellFoundedInduction, TLAPS

\* Every nonempty set of numbers has a least element.
LEMMA LeastNumber ==
  ASSUME NEW T \in SUBSET Nat, T # {}
  PROVE  \E x \in T : \A y \in T : x <= y
<1> DEFINE R == OpToRel(<, Nat)
<1> HIDE DEF R
<1>1. IsWellFoundedOn(R, Nat)  BY NatLessThanWellFounded DEF R
<1>2. T \subseteq Nat          OBVIOUS
<1>3. PICK x \in T : \A y \in T : ~ (<<y, x>> \in R)  BY <1>1, <1>2, WFMin
<1>4. \A y \in T : x <= y
  <2> TAKE y \in T
  <2>1. x \in Nat /\ y \in Nat  OBVIOUS
  <2>2. ~ (y < x)               BY <1>3, <2>1 DEF R, OpToRel
  <2> QED  BY <2>1, <2>2
<1> QED  BY <1>4

\* Induction over the numbers, for a set of them.
LEMMA SetInduction ==
  ASSUME NEW T \in SUBSET Nat, 0 \in T, \A n \in T : n + 1 \in T
  PROVE  T = Nat
<1>1. SUFFICES ASSUME Nat \ T # {} PROVE FALSE  OBVIOUS
<1>2. PICK x \in Nat \ T : \A y \in Nat \ T : x <= y
  <2>1. Nat \ T \in SUBSET Nat  OBVIOUS
  <2> QED  BY <1>1, <2>1, LeastNumber
<1>3. x - 1 \in Nat /\ ~ (x <= x - 1)  BY <1>2
<1>4. x - 1 \in T              BY <1>2, <1>3
<1>5. (x - 1) + 1 = x          BY <1>2
<1> QED  BY <1>2, <1>4, <1>5

\* A function from a finite set to numbers has a bound.
LEMMA Bounded ==
  ASSUME NEW S, IsFiniteSet(S), NEW g \in [S -> Nat]
  PROVE  \E b \in Nat : \A x \in S : g[x] <= b
<1>1. PICK n \in Nat : ExistsSurjection(1 .. n, S)  BY FS_NatSurjection
<1>2. PICK f \in [1 .. n -> S] : \A x \in S : \E i \in 1 .. n : f[i] = x
  BY <1>1 DEF ExistsSurjection, Surjection
<1> DEFINE Under(k, b) == \A i \in 1 .. n : i <= k => g[f[i]] <= b
           T == {k \in Nat : \E b \in Nat : Under(k, b)}
<1>3. 0 \in T
  <2>1. Under(0, 0)  OBVIOUS
  <2> QED  BY <2>1
<1>4. ASSUME NEW k \in T PROVE k + 1 \in T
  <2>1. PICK b \in Nat : Under(k, b)  OBVIOUS
  <2>2. CASE k + 1 \in 1 .. n
    <3>1. f[k + 1] \in S  BY <2>2
    <3>2. g[f[k + 1]] \in Nat  BY <3>1
    <3> DEFINE c == IF b <= g[f[k + 1]] THEN g[f[k + 1]] ELSE b
    <3>3. c \in Nat /\ b <= c /\ g[f[k + 1]] <= c  BY <3>2
    <3> HIDE DEF c
    <3>4. ASSUME NEW i \in 1 .. n, i <= k + 1 PROVE g[f[i]] <= c
      <4>1. g[f[i]] \in Nat  OBVIOUS
      <4>2. i <= k \/ i = k + 1  BY <3>4
      <4>3. CASE i <= k  BY <4>1, <4>3, <2>1, <3>3
      <4>4. CASE i = k + 1  BY <4>4, <3>3
      <4> QED  BY <4>2, <4>3, <4>4
    <3> QED  BY <3>3, <3>4
  <2>3. CASE k + 1 \notin 1 .. n
    <3>1. \A i \in 1 .. n : i <= k + 1 => i <= k  BY <2>3
    <3>2. Under(k + 1, b)  BY <2>1, <3>1
    <3> QED  BY <3>2
  <2> QED  BY <2>2, <2>3
<1>5. n \in T
  <2> HIDE DEF T
  <2>1. T \in SUBSET Nat  BY DEF T
  <2> QED  BY <1>3, <1>4, <2>1, SetInduction
<1>6. PICK b \in Nat : Under(n, b)  BY <1>5
<1>7. \A x \in S : g[x] <= b
  <2> TAKE x \in S
  <2>1. PICK i \in 1 .. n : f[i] = x  BY <1>2
  <2> QED  BY <1>6, <2>1
<1> QED  BY <1>7

\* ... and a greatest value.
LEMMA GreatestValue ==
  ASSUME NEW S, IsFiniteSet(S), S # {}, NEW g \in [S -> Nat]
  PROVE  \E m \in {g[x] : x \in S} : \A x \in S : g[x] <= m
<1> DEFINE B == {b \in Nat : \A x \in S : g[x] <= b}
<1>1. B \in SUBSET Nat /\ B # {}  BY Bounded
<1>2. PICK m \in B : \A b \in B : m <= b
  <2> HIDE DEF B
  <2> QED  BY <1>1, LeastNumber
<1>3. m \in Nat /\ \A x \in S : g[x] <= m  OBVIOUS
<1>4. m \in {g[x] : x \in S}
  <2>1. SUFFICES ASSUME \A x \in S : g[x] # m PROVE FALSE  OBVIOUS
  <2>2. \A x \in S : g[x] \in Nat /\ g[x] < m  BY <1>3, <2>1
  <2>3. m - 1 \in Nat /\ ~ (m <= m - 1)  BY <1>3, <2>2
  <2>4. \A x \in S : g[x] <= m - 1  BY <1>3, <2>2
  <2> QED  BY <1>2, <2>3, <2>4
<1> QED  BY <1>3, <1>4

-----------------------------------------------------------------------------
-----------------------------------------------------------------------------
\* A file f holds the bytes 1 .. n of version v.
HoldsIn(f, v, n) == \A b \in 1 .. n : \E i \in 1 .. Len(f) : f[i] = <<v, b>>

\* A longer file holds what the shorter one held.
LEMMA HoldsMore ==
  ASSUME NEW X, NEW f \in Seq(X), NEW c \in Seq(X), NEW v, NEW n \in Nat, HoldsIn(f, v, n)
  PROVE  HoldsIn(f \o c, v, n)
<1> SUFFICES ASSUME NEW b \in 1 .. n
             PROVE  \E i \in 1 .. Len(f \o c) : (f \o c)[i] = <<v, b>>
  BY DEF HoldsIn
<1>1. PICK i \in 1 .. Len(f) : f[i] = <<v, b>>  BY DEF HoldsIn
<1>2. i \in 1 .. Len(f \o c) /\ (f \o c)[i] = f[i]  OBVIOUS
<1> QED  BY <1>1, <1>2

\* A chunk that is appended at the offset adds its bytes to those held.
LEMMA HoldsChunk ==
  ASSUME NEW X, NEW f \in Seq(X), NEW c \in Seq(X), NEW v, NEW o \in Nat, NEW m \in Nat,
         HoldsIn(f, v, o), c = [i \in 1 .. m |-> <<v, o + i>>]
  PROVE  HoldsIn(f \o c, v, o + m)
<1> SUFFICES ASSUME NEW b \in 1 .. o + m
             PROVE  \E i \in 1 .. Len(f \o c) : (f \o c)[i] = <<v, b>>
  BY DEF HoldsIn
<1>1. CASE b <= o
  <2>1. b \in 1 .. o  BY <1>1
  <2>2. HoldsIn(f \o c, v, o)  BY HoldsMore
  <2> QED  BY <2>1, <2>2 DEF HoldsIn
<1>2. CASE b > o
  <2> DEFINE i == Len(f) + (b - o)
  <2>1. Len(c) = m /\ b - o \in 1 .. m  BY <1>2
  <2>2. c[b - o] = <<v, b>>  BY <2>1
  <2>3. i \in 1 .. Len(f \o c)  BY <2>1
  <2>4. (f \o c)[i] = c[b - o]  BY <2>1
  <2> QED  BY <2>2, <2>3, <2>4
<1>3. b <= o \/ b > o  OBVIOUS
<1> QED  BY <1>1, <1>2, <1>3

\* A chunk is a sequence of bytes of one version.
LEMMA ChunkType ==
  ASSUME NEW v \in 1 .. MediaVersions, NEW o \in Nat, NEW n \in Nat
  PROVE  [i \in 1 .. n |-> <<v, o + i>>] \in Seq((1 .. MediaVersions) \X Nat)
<1>1. \A i \in 1 .. n : <<v, o + i>> \in (1 .. MediaVersions) \X Nat  OBVIOUS
<1> QED  BY <1>1

\* What is known of the transfer state on disk: it was saved for a version
\* that some call resolved, and it does not run ahead of the file.
SavedKnown ==
  saved.present =>
    /\ \E v \in 1 .. ver : saved.total = MediaSize[v]
    /\ saved.total = MediaSize[ver] =>
         saved.done <= MediaSize[ver] /\ (kept => HoldsIn(part, ver, saved.done))

\* What is known of the call that runs.
CallKnown ==
  at # "idle" =>
    /\ kept => HoldsIn(part, ver, position)
    /\ at \in {"saveLast", "delete"} => position = MediaSize[ver]

TransferInv ==
  Transfer!TypeOK /\ ver <= remote /\ SavedKnown /\ CallKnown /\ Transfer!NothingMissing

\* The types of the constants of ResumableDownloadFile.
LEMMA MediaConstants == MediaSize \in [1 .. MediaVersions -> Nat] /\ MediaVersions \in Nat \ {0}
BY TransferAssumption DEF Transfer!ParametersOK

\* The invariant of ResumableDownloadFile holds when nothing has been called.
LEMMA TransferInit == Transfer!Init => TransferInv
<1> SUFFICES ASSUME Transfer!Init PROVE TransferInv  OBVIOUS
<1>1. Transfer!TypeOK
  BY MediaConstants, TransferAssumption DEF Transfer!Init, Transfer!TypeOK, Transfer!NoState, Transfer!ParametersOK
<1>2. ver <= remote /\ SavedKnown /\ CallKnown /\ Transfer!NothingMissing
  BY DEF Transfer!Init, Transfer!NoState, SavedKnown, CallKnown, Transfer!NothingMissing
<1> QED  BY <1>1, <1>2 DEF TransferInv

\* A call that resumes finds the state of the version it resolves: sizes differ.
LEMMA TransferResume == TransferInv /\ Transfer!Resume => TransferInv'
<1> SUFFICES ASSUME TransferInv, Transfer!Resume PROVE TransferInv'  OBVIOUS
<1> USE MediaConstants
<1>1. /\ remote \in 1 .. MediaVersions /\ ver \in 1 .. MediaVersions
      /\ ver <= remote /\ saved.present /\ saved.total = MediaSize[remote]
      /\ saved \in [present : BOOLEAN, total : Nat, done : Nat] /\ kept \in BOOLEAN
      /\ part \in Seq((1 .. MediaVersions) \X Nat)
  BY DEF TransferInv, Transfer!TypeOK, Transfer!Resume, Transfer!Resumable
<1>2. /\ ver' = remote /\ position' = saved.done /\ at' = "fetch" /\ answer' = "none"
      /\ part' = IF saved.done > 0 THEN part ELSE << >>
      /\ kept' = (kept \/ saved.done = 0)
      /\ UNCHANGED <<remote, saved, losses>>
  BY DEF Transfer!Resume
<1>3. ver = remote
  <2>1. PICK v \in 1 .. ver : saved.total = MediaSize[v]  BY <1>1 DEF TransferInv, SavedKnown
  <2>2. v \in 1 .. MediaVersions  BY <1>1, <2>1
  <2>3. v = remote  BY <1>1, <2>1, <2>2, SizesDiffer
  <2> QED  BY <1>1, <2>3
<1>4. saved.done \in Nat /\ saved.done <= MediaSize[ver] /\ (kept => HoldsIn(part, ver, saved.done))
  BY <1>1, <1>3 DEF TransferInv, SavedKnown
<1>5. kept' => HoldsIn(part', ver', saved.done)
  <2>1. CASE saved.done > 0
    <3>1. kept' = kept /\ part' = part  BY <1>1, <1>2, <2>1
    <3> QED  BY <1>2, <1>3, <1>4, <3>1
  <2>2. CASE saved.done = 0  BY <2>2 DEF HoldsIn
  <2> QED  BY <1>4, <2>1, <2>2
<1>6. Transfer!TypeOK'
  <2>1. position' \in 0 .. MediaSize[ver]'  BY <1>1, <1>2, <1>3, <1>4
  <2> QED  BY <1>1, <1>2, <2>1 DEF TransferInv, Transfer!TypeOK
<1>7. SavedKnown'  BY <1>1, <1>2, <1>3, <1>4, <1>5 DEF SavedKnown
<1>8. CallKnown'   BY <1>2, <1>5 DEF CallKnown
<1>9. (ver <= remote)' /\ Transfer!NothingMissing'  BY <1>1, <1>2 DEF Transfer!NothingMissing
<1> QED  BY <1>6, <1>7, <1>8, <1>9 DEF TransferInv

\* A call that begins anew truncates the file; an old state, if its replacement
\* failed, has another size.
LEMMA TransferRestart == TransferInv /\ Transfer!Restart => TransferInv'
<1> SUFFICES ASSUME TransferInv, Transfer!Restart PROVE TransferInv'  OBVIOUS
<1> USE MediaConstants
<1>1. /\ remote \in 1 .. MediaVersions /\ ver \in 1 .. MediaVersions /\ ver <= remote
      /\ saved \in [present : BOOLEAN, total : Nat, done : Nat]
      /\ ~ (saved.present /\ saved.total = MediaSize[remote])
  BY DEF TransferInv, Transfer!TypeOK, Transfer!Restart, Transfer!Resumable
<1>2. /\ ver' = remote /\ position' = 0 /\ at' = "fetch" /\ answer' = "none"
      /\ part' = << >> /\ kept' = TRUE /\ remote' = remote
      /\ saved' \in {Transfer!State(MediaSize[remote], 0), saved}
  BY DEF Transfer!Restart, Transfer!Store, Transfer!Fault
<1>3. losses' \in 0 .. MaxLosses
  BY TransferAssumption
  DEF TransferInv, Transfer!TypeOK, Transfer!Restart, Transfer!Store, Transfer!Fault, Transfer!ParametersOK
<1>4. HoldsIn(part', ver', 0)  BY DEF HoldsIn
<1>5. Transfer!TypeOK'
  <2>1. saved' \in [present : BOOLEAN, total : Nat, done : Nat]
    <3>1. Transfer!State(MediaSize[remote], 0) \in [present : BOOLEAN, total : Nat, done : Nat]
      BY <1>1 DEF Transfer!State
    <3> QED  BY <1>1, <1>2, <3>1
  <2> QED  BY <1>1, <1>2, <1>3, <2>1 DEF Transfer!TypeOK
<1>6. SavedKnown'
  <2>1. CASE saved' = saved
    <3>1. SUFFICES ASSUME saved.present PROVE \E v \in 1 .. remote : saved.total = MediaSize[v]
      BY <1>1, <1>2, <2>1 DEF SavedKnown
    <3> QED  BY <1>1, <3>1 DEF TransferInv, SavedKnown
  <2>2. CASE saved' = Transfer!State(MediaSize[remote], 0)
    BY <1>1, <1>2, <1>4, <2>2 DEF SavedKnown, Transfer!State
  <2> QED  BY <1>2, <2>1, <2>2
<1>7. CallKnown'   BY <1>2, <1>4 DEF CallKnown
<1>8. (ver <= remote)' /\ Transfer!NothingMissing'  BY <1>1, <1>2 DEF Transfer!NothingMissing
<1> QED  BY <1>5, <1>6, <1>7, <1>8 DEF TransferInv

\* A chunk is appended and counted.
LEMMA TransferGetChunk == TransferInv /\ Transfer!GetChunk => TransferInv'
<1> SUFFICES ASSUME TransferInv, Transfer!GetChunk PROVE TransferInv'  OBVIOUS
<1> USE MediaConstants
<1> DEFINE n == Transfer!ChunkLen
<1>1. /\ ver \in 1 .. MediaVersions /\ ver <= remote /\ MediaSize[ver] \in Nat
      /\ position \in Nat /\ position < MediaSize[ver]
      /\ part \in Seq((1 .. MediaVersions) \X Nat)
      /\ PartSize \in Nat \ {0}
      /\ at = "fetch"
  BY PartAssumption DEF TransferInv, Transfer!TypeOK, Transfer!GetChunk
<1>2. n \in Nat /\ position + n <= MediaSize[ver] /\ (n < PartSize => position + n = MediaSize[ver])
  <2> DEFINE left == MediaSize[ver] - position
  <2>1. left \in Nat /\ left > 0 /\ position + left = MediaSize[ver]  BY <1>1
  <2>2. n = IF left < PartSize THEN left ELSE PartSize  BY DEF Transfer!ChunkLen
  <2> HIDE DEF n, left
  <2>3. CASE left < PartSize  BY <1>1, <2>1, <2>2, <2>3
  <2>4. CASE ~ (left < PartSize)  BY <1>1, <2>1, <2>2, <2>4
  <2> QED  BY <2>3, <2>4
<1>3. /\ part' = part \o [i \in 1 .. n |-> <<ver, position + i>>]
      /\ position' = position + n
      /\ at' = IF n < PartSize THEN "saveLast" ELSE "save"
      /\ UNCHANGED <<remote, saved, ver, answer, kept, losses>>
  BY DEF Transfer!GetChunk, Transfer!Chunk
<1> HIDE DEF n
<1>4. /\ [i \in 1 .. n |-> <<ver, position + i>>] \in Seq((1 .. MediaVersions) \X Nat)
      /\ part' \in Seq((1 .. MediaVersions) \X Nat)
  BY <1>1, <1>2, <1>3, ChunkType
<1>5. \A v, m : m \in Nat /\ HoldsIn(part, v, m) => HoldsIn(part', v, m)
  BY <1>1, <1>3, <1>4, HoldsMore
<1>6. HoldsIn(part, ver, position) => HoldsIn(part', ver, position + n)
  BY <1>1, <1>2, <1>3, <1>4, HoldsChunk
<1>7. Transfer!TypeOK'
  <2>1. position' \in 0 .. MediaSize[ver]'  BY <1>1, <1>2, <1>3
  <2>2. at' \in {"idle", "fetch", "save", "saveLast", "delete"}  BY <1>3
  <2> QED  BY <1>3, <1>4, <2>1, <2>2 DEF TransferInv, Transfer!TypeOK
<1>8. SavedKnown'
  <2>1. saved.done \in Nat  BY DEF TransferInv, Transfer!TypeOK
  <2> QED  BY <1>3, <1>5, <2>1 DEF TransferInv, SavedKnown
<1>9. CallKnown'   BY <1>1, <1>2, <1>3, <1>6 DEF TransferInv, CallKnown
<1>10. Transfer!NothingMissing'
  BY <1>1, <1>3, <1>5 DEF TransferInv, Transfer!NothingMissing, Transfer!Holds, HoldsIn
<1> QED  BY <1>1, <1>3, <1>7, <1>8, <1>9, <1>10 DEF TransferInv

\* A part of a chunk that is not counted does no harm.
LEMMA TransferWriteFails == TransferInv /\ Transfer!WriteFails => TransferInv'
<1> SUFFICES ASSUME TransferInv, Transfer!WriteFails PROVE TransferInv'  OBVIOUS
<1> USE MediaConstants
<1>1. /\ ver \in 1 .. MediaVersions /\ ver <= remote /\ MediaSize[ver] \in Nat
      /\ position \in Nat /\ position < MediaSize[ver]
      /\ part \in Seq((1 .. MediaVersions) \X Nat)
      /\ PartSize \in Nat \ {0}
  BY PartAssumption DEF TransferInv, Transfer!TypeOK, Transfer!WriteFails
<1>2. Transfer!ChunkLen \in Nat  BY <1>1 DEF Transfer!ChunkLen
<1>3. PICK n \in 0 .. Transfer!ChunkLen - 1 : part' = part \o [i \in 1 .. n |-> <<ver, position + i>>]
  BY DEF Transfer!WriteFails, Transfer!Chunk
<1>4. n \in Nat  BY <1>2
<1>5. /\ at' = "idle" /\ answer' = "error" /\ losses' = losses + 1 /\ losses < MaxLosses
      /\ UNCHANGED <<remote, saved, ver, position, kept>>
  BY DEF Transfer!WriteFails, Transfer!Fault
<1>6. /\ [i \in 1 .. n |-> <<ver, position + i>>] \in Seq((1 .. MediaVersions) \X Nat)
      /\ part' \in Seq((1 .. MediaVersions) \X Nat)
  <2> DEFINE d == [i \in 1 .. n |-> <<ver, position + i>>]
  <2>1. d \in Seq((1 .. MediaVersions) \X Nat)  BY <1>1, <1>4, ChunkType
  <2> HIDE DEF d
  <2>2. part \o d \in Seq((1 .. MediaVersions) \X Nat)  BY <1>1, <2>1
  <2> QED  BY <1>3, <2>1, <2>2 DEF d
<1>7. \A v, m : m \in Nat /\ HoldsIn(part, v, m) => HoldsIn(part', v, m)
  BY <1>1, <1>3, <1>6, HoldsMore
<1>8. Transfer!TypeOK'
  <2>1. losses' \in 0 .. MaxLosses
    BY <1>5, TransferAssumption DEF TransferInv, Transfer!TypeOK, Transfer!ParametersOK
  <2> QED  BY <1>5, <1>6, <2>1 DEF TransferInv, Transfer!TypeOK
<1>9. SavedKnown'
  <2>1. saved.done \in Nat  BY DEF TransferInv, Transfer!TypeOK
  <2> QED  BY <1>5, <1>7, <2>1 DEF TransferInv, SavedKnown
<1>10. CallKnown' /\ Transfer!NothingMissing'  BY <1>5 DEF CallKnown, Transfer!NothingMissing
<1> QED  BY <1>1, <1>5, <1>8, <1>9, <1>10 DEF TransferInv

\* A save for the version of the call, no further than its offset.
LEMMA TransferStored ==
  ASSUME TransferInv, UNCHANGED <<remote, part, ver, position, kept>>, at # "idle",
         \/ saved' = saved
         \/ saved' = Transfer!NoState
         \/ saved' = Transfer!State(MediaSize[ver], position)
  PROVE  /\ saved' \in [present : BOOLEAN, total : Nat, done : Nat]
         /\ SavedKnown'
<1> USE MediaConstants
<1>1. /\ ver \in 1 .. MediaVersions /\ MediaSize[ver] \in Nat
      /\ position \in Nat /\ position <= MediaSize[ver]
      /\ saved \in [present : BOOLEAN, total : Nat, done : Nat]
      /\ kept => HoldsIn(part, ver, position)
  BY DEF TransferInv, Transfer!TypeOK, CallKnown
<1>2. CASE saved' = saved  BY <1>1, <1>2 DEF TransferInv, SavedKnown
<1>3. CASE saved' = Transfer!NoState  BY <1>3 DEF Transfer!NoState, SavedKnown
<1>4. CASE saved' = Transfer!State(MediaSize[ver], position)
  <2>1. Transfer!State(MediaSize[ver], position) \in [present : BOOLEAN, total : Nat, done : Nat]
    BY <1>1 DEF Transfer!State
  <2>2. ver \in 1 .. ver  BY <1>1
  <2>3. /\ saved'.present /\ saved'.total = MediaSize[ver] /\ saved'.done = position
    BY <1>4 DEF Transfer!State
  <2> QED  BY <1>1, <1>4, <2>1, <2>2, <2>3 DEF SavedKnown
<1> QED  BY <1>2, <1>3, <1>4

\* After a save the state is that of the call.
LEMMA TransferSaveProgress == TransferInv /\ Transfer!SaveProgress => TransferInv'
<1> SUFFICES ASSUME TransferInv, Transfer!SaveProgress PROVE TransferInv'  OBVIOUS
<1>1. /\ at \in {"save", "saveLast"}
      /\ at' = IF at = "save" THEN "fetch" ELSE "delete"
      /\ saved' \in {saved, Transfer!State(MediaSize[ver], position)}
      /\ UNCHANGED <<remote, part, ver, position, answer, kept>>
  BY DEF Transfer!SaveProgress, Transfer!Store, Transfer!Fault
<1>2. losses' \in 0 .. MaxLosses
  BY TransferAssumption
  DEF TransferInv, Transfer!TypeOK, Transfer!SaveProgress, Transfer!Store, Transfer!Fault, Transfer!ParametersOK
<1>3. saved' \in [present : BOOLEAN, total : Nat, done : Nat] /\ SavedKnown'
  BY <1>1, TransferStored
<1>4. Transfer!TypeOK'
  <2>1. at' \in {"fetch", "delete"}  BY <1>1
  <2> QED  BY <1>1, <1>2, <1>3, <2>1 DEF TransferInv, Transfer!TypeOK
<1>5. CallKnown'  BY <1>1 DEF TransferInv, CallKnown
<1>6. Transfer!NothingMissing'
  BY <1>1 DEF TransferInv, Transfer!NothingMissing, Transfer!Holds
<1> QED  BY <1>1, <1>3, <1>4, <1>5, <1>6 DEF TransferInv

\* The call saves its offset and ends.
LEMMA TransferGetFails == TransferInv /\ Transfer!GetFails => TransferInv'
<1> SUFFICES ASSUME TransferInv, Transfer!GetFails PROVE TransferInv'  OBVIOUS
<1>1. /\ at = "fetch" /\ at' = "idle" /\ answer' = "error"
      /\ saved' \in {saved, Transfer!State(MediaSize[ver], position)}
      /\ UNCHANGED <<remote, part, ver, position, kept>>
  BY DEF Transfer!GetFails, Transfer!Store, Transfer!Fault
<1>2. losses' \in 0 .. MaxLosses
  BY TransferAssumption
  DEF TransferInv, Transfer!TypeOK, Transfer!GetFails, Transfer!Store, Transfer!Fault, Transfer!ParametersOK
<1>3. saved' \in [present : BOOLEAN, total : Nat, done : Nat] /\ SavedKnown'
  BY <1>1, TransferStored
<1>4. Transfer!TypeOK'  BY <1>1, <1>2, <1>3 DEF TransferInv, Transfer!TypeOK
<1>5. CallKnown' /\ Transfer!NothingMissing'  BY <1>1 DEF CallKnown, Transfer!NothingMissing
<1> QED  BY <1>1, <1>3, <1>4, <1>5 DEF TransferInv

\* A call ends without an error only with its offset at the end.
LEMMA TransferFinish == TransferInv /\ Transfer!Finish => TransferInv'
<1> SUFFICES ASSUME TransferInv, Transfer!Finish PROVE TransferInv'  OBVIOUS
<1>1. /\ at = "delete" /\ at' = "idle" /\ answer' = "ok"
      /\ saved' \in {saved, Transfer!NoState}
      /\ UNCHANGED <<remote, part, ver, position, kept>>
  BY DEF Transfer!Finish, Transfer!Store, Transfer!Fault
<1>2. losses' \in 0 .. MaxLosses
  BY TransferAssumption
  DEF TransferInv, Transfer!TypeOK, Transfer!Finish, Transfer!Store, Transfer!Fault, Transfer!ParametersOK
<1>3. saved' \in [present : BOOLEAN, total : Nat, done : Nat] /\ SavedKnown'
  BY <1>1, TransferStored
<1>4. Transfer!TypeOK'  BY <1>1, <1>2, <1>3 DEF TransferInv, Transfer!TypeOK
<1>5. Transfer!NothingMissing'
  BY <1>1 DEF TransferInv, CallKnown, Transfer!NothingMissing, Transfer!Holds, HoldsIn
<1>6. CallKnown'  BY <1>1 DEF CallKnown
<1> QED  BY <1>1, <1>3, <1>4, <1>5, <1>6 DEF TransferInv

\* The steps that leave the transfer state alone.
LEMMA TransferOthers ==
  ASSUME TransferInv,
         Transfer!GetNothing \/ Transfer!Crash \/ Transfer!EditMedia \/ Transfer!RemoveFile
  PROVE  TransferInv'
<1> USE MediaConstants
<1>0. /\ remote \in 1 .. MediaVersions /\ ver \in 1 .. MediaVersions /\ ver <= remote
      /\ position \in 0 .. MediaSize[ver] /\ MediaSize[ver] \in Nat /\ MediaVersions \in Nat
      /\ losses \in 0 .. MaxLosses /\ MaxLosses \in Nat
  BY TransferAssumption DEF TransferInv, Transfer!TypeOK, Transfer!ParametersOK
<1>1. CASE Transfer!GetNothing
  <2>1. /\ at = "fetch" /\ at' = "delete" /\ position >= MediaSize[ver]
        /\ UNCHANGED <<remote, part, saved, ver, position, answer, kept, losses>>
    BY <1>1 DEF Transfer!GetNothing
  <2>2. position = MediaSize[ver]  BY <1>0, <2>1
  <2>3. Transfer!TypeOK'  BY <2>1 DEF TransferInv, Transfer!TypeOK
  <2>4. SavedKnown' /\ CallKnown'  BY <2>1, <2>2 DEF TransferInv, SavedKnown, CallKnown
  <2>5. Transfer!NothingMissing'  BY <2>1 DEF TransferInv, Transfer!NothingMissing, Transfer!Holds
  <2> QED  BY <1>0, <2>1, <2>3, <2>4, <2>5 DEF TransferInv
<1>2. CASE Transfer!Crash
  <2>1. /\ at' = "idle" /\ answer' = "error" /\ losses < MaxLosses /\ losses' = losses + 1
        /\ UNCHANGED <<remote, part, saved, ver, position, kept>>
    BY <1>2 DEF Transfer!Crash, Transfer!Fault
  <2>2. losses' \in 0 .. MaxLosses  BY <1>0, <2>1
  <2>3. Transfer!TypeOK'  BY <2>1, <2>2 DEF TransferInv, Transfer!TypeOK
  <2>4. SavedKnown' /\ CallKnown' /\ Transfer!NothingMissing'
    BY <2>1 DEF TransferInv, SavedKnown, CallKnown, Transfer!NothingMissing
  <2> QED  BY <1>0, <2>1, <2>3, <2>4 DEF TransferInv
<1>3. CASE Transfer!EditMedia
  <2>1. /\ remote < MediaVersions /\ remote' = remote + 1
        /\ UNCHANGED <<part, saved, at, ver, position, answer, kept, losses>>
    BY <1>3 DEF Transfer!EditMedia
  <2>2. remote' \in 1 .. MediaVersions /\ ver <= remote'  BY <1>0, <2>1
  <2>3. Transfer!TypeOK'  BY <2>1, <2>2 DEF TransferInv, Transfer!TypeOK
  <2>4. SavedKnown' /\ CallKnown'  BY <2>1 DEF TransferInv, SavedKnown, CallKnown
  <2>5. Transfer!NothingMissing'  BY <2>1 DEF TransferInv, Transfer!NothingMissing, Transfer!Holds
  <2> QED  BY <2>1, <2>2, <2>3, <2>4, <2>5 DEF TransferInv
<1>4. CASE Transfer!RemoveFile
  <2>1. /\ at = "idle" /\ part' = << >> /\ kept' = FALSE /\ answer' = "none"
        /\ losses < MaxLosses /\ losses' = losses + 1
        /\ UNCHANGED <<remote, saved, at, ver, position>>
    BY <1>4 DEF Transfer!RemoveFile, Transfer!Fault
  <2>2. losses' \in 0 .. MaxLosses  BY <1>0, <2>1
  <2>3. Transfer!TypeOK'
    <3>0. << >> \in Seq((1 .. MediaVersions) \X Nat)  OBVIOUS
    <3>1. part' \in Seq((1 .. MediaVersions) \X Nat) /\ kept' \in BOOLEAN  BY <2>1, <3>0
    <3>2. position' \in 0 .. MediaSize[ver]'  BY <1>0, <2>1
    <3> QED  BY <2>1, <2>2, <3>1, <3>2 DEF TransferInv, Transfer!TypeOK
  <2>4. SavedKnown' /\ CallKnown' /\ Transfer!NothingMissing'
    BY <2>1 DEF TransferInv, SavedKnown, CallKnown, Transfer!NothingMissing
  <2> QED  BY <1>0, <2>1, <2>3, <2>4 DEF TransferInv
<1> QED  BY <1>1, <1>2, <1>3, <1>4

\* The steps of the other subjects leave the download alone.
LEMMA TransferIdle == TransferInv /\ UNCHANGED transferVars => TransferInv'
<1> SUFFICES ASSUME TransferInv, UNCHANGED transferVars PROVE TransferInv'  OBVIOUS
<1>1. UNCHANGED <<remote, part, saved, at, ver, position, answer, kept, losses>>  BY DEF transferVars
<1>2. Transfer!TypeOK'  BY <1>1 DEF TransferInv, Transfer!TypeOK
<1>3. SavedKnown' /\ CallKnown'  BY <1>1 DEF TransferInv, SavedKnown, CallKnown
<1>4. Transfer!NothingMissing'  BY <1>1 DEF TransferInv, Transfer!NothingMissing, Transfer!Holds
<1> QED  BY <1>1, <1>2, <1>3, <1>4 DEF TransferInv

\* In every state, after any number of calls, failed steps, crashes and replaced
\* media: when a call of ResumableDownloadFile has returned without an error and
\* nobody removed the file, it holds every byte (transfers.go:204-373).
THEOREM ResumedWholeHolds == AllSpec => []ResumedWhole
<1>1. AllInit => TransferInv  BY TransferInit DEF AllInit
<1>2. TransferInv /\ [AllNext]_allVars => TransferInv'
  <2> SUFFICES ASSUME TransferInv, [AllNext]_allVars PROVE TransferInv'  OBVIOUS
  <2>1. CASE UNCHANGED transferVars  BY <2>1, TransferIdle
  <2>2. CASE Transfer!Next
    BY <2>2, TransferResume, TransferRestart, TransferGetChunk, TransferWriteFails, TransferSaveProgress,
       TransferGetFails, TransferFinish, TransferOthers DEF Transfer!Next
  <2> QED  BY <2>1, <2>2 DEF AllNext, allVars
<1>3. TransferInv => ResumedWhole  BY DEF TransferInv, ResumedWhole
<1> QED  BY <1>1, <1>2, <1>3, PTL DEF AllSpec

-----------------------------------------------------------------------------
\* The parts 0 .. n - 1 of upload i hold, in order, the version that it was begun with.
Sent(srv, own, i, n) == \A p \in 0 .. n - 1 : srv[i][p] = Upload!Content(own[i], p)

\* What is known of a call, a handle and the progress on disk: their upload is
\* one that was begun, with their version of the file, and unless a read of it
\* failed, what they count as sent is on the server.
CallOf(srv, bad, new, own, x) ==
  x.pc # "idle" =>
    /\ x.id < new
    /\ x.ver = own[x.id]
    /\ x.part <= Parts[x.ver]
    /\ x.pc = "save" => x.part > 0
    /\ x.id \notin bad =>
         ~ x.shifted /\ Sent(srv, own, x.id, x.part) /\ (x.pc = "delete" => x.part = Parts[x.ver])

HandleOf(srv, bad, new, own, h) ==
  h.id # 0 =>
    /\ h.id < new
    /\ h.ver = own[h.id]
    /\ h.parts = Parts[h.ver]
    /\ h.id \notin bad => Sent(srv, own, h.id, h.parts)

ProgressOf(srv, bad, new, own, s) ==
  s.present =>
    /\ s.id < new
    /\ s.size = LocalSize[own[s.id]]
    /\ s.done <= Parts[own[s.id]]
    /\ s.id \notin bad => Sent(srv, own, s.id, s.done)

UploadKnown(own) ==
  /\ \A u \in Uploaders : CallOf(server, unread, nextId, own, up[u])
  /\ \A u \in Uploaders : HandleOf(server, unread, nextId, own, handle[u])
  /\ ProgressOf(server, unread, nextId, own, progress)

UploadInv == Upload!TypeOK /\ \E own \in [1 .. Ids -> 1 .. Versions] : UploadKnown(own)

CallType == [pc : {"idle", "part", "save", "delete"}, ver : 1 .. Versions,
             id : 1 .. Ids, part : 0 .. Upload!MaxParts, shifted : BOOLEAN]
HandleType == [id : 0 .. Ids, ver : 1 .. Versions, parts : 0 .. Upload!MaxParts]
ProgressType == [present : BOOLEAN, size : Nat, id : 1 .. Ids, done : 0 .. Upload!MaxParts]
PartType == [ver : 0 .. Versions, part : 0 .. Upload!MaxParts, whole : BOOLEAN]
ServerType == [1 .. Ids -> [0 .. Upload!MaxParts - 1 -> PartType]]

\* The types of the constants of ResumableUpload.
LEMMA UploadConstants ==
  /\ Versions \in Nat \ {0} /\ Ids \in Nat \ {0} /\ MaxFailures \in Nat
  /\ Parts \in [1 .. Versions -> Nat]
  /\ LocalSize \in [1 .. Versions -> Nat]
BY TransferAssumption DEF Upload!ParametersOK

\* No version of the file has more than MaxParts parts.
LEMMA UploadMaxParts ==
  /\ Upload!MaxParts \in Nat
  /\ \A v \in 1 .. Versions : Parts[v] \in 0 .. Upload!MaxParts
<1> USE UploadConstants
<1>1. IsFiniteSet(1 .. Versions)  BY FS_Interval
<1>2. 1 .. Versions # {}
  <2>1. 1 \in 1 .. Versions  OBVIOUS
  <2> QED  BY <2>1
<1>3. \E m \in {Parts[v] : v \in 1 .. Versions} : \A v \in 1 .. Versions : Parts[v] <= m
  BY <1>1, <1>2, GreatestValue
<1>4. /\ Upload!MaxParts \in {Parts[v] : v \in 1 .. Versions}
      /\ \A v \in 1 .. Versions : Parts[v] <= Upload!MaxParts
  BY <1>3 DEF Upload!MaxParts
<1> QED  BY <1>4

\* The type invariant of ResumableUpload by named sets.
LEMMA UploadTypes ==
  Upload!TypeOK <=>
    /\ local \in 1 .. Versions /\ server \in ServerType /\ progress \in ProgressType
    /\ nextId \in 1 .. Ids + 1 /\ up \in [Uploaders -> CallType] /\ handle \in [Uploaders -> HandleType]
    /\ unread \subseteq 1 .. Ids /\ failures \in 0 .. MaxFailures
BY DEF Upload!TypeOK, CallType, HandleType, ProgressType, ServerType, PartType

\* What is known stays known while identifiers are given out, read errors are
\* remembered, and good parts of the other uploads are not overwritten.
LEMMA UploadStays ==
  ASSUME NEW own, NEW srv, NEW srv2, NEW bad, NEW bad2, bad \subseteq bad2,
         NEW new \in Nat, NEW new2 \in Nat, new <= new2,
         \A i \in 1 .. Ids \ bad2 : \A p \in 0 .. Upload!MaxParts - 1 :
           srv[i][p] = Upload!Content(own[i], p) => srv2[i][p] = Upload!Content(own[i], p)
  PROVE  /\ \A x \in CallType : CallOf(srv, bad, new, own, x) => CallOf(srv2, bad2, new2, own, x)
         /\ \A h \in HandleType : HandleOf(srv, bad, new, own, h) => HandleOf(srv2, bad2, new2, own, h)
         /\ \A s \in ProgressType : ProgressOf(srv, bad, new, own, s) => ProgressOf(srv2, bad2, new2, own, s)
<1>1. \A i \in 1 .. Ids : \A n \in 0 .. Upload!MaxParts :
        i \notin bad2 /\ Sent(srv, own, i, n) => Sent(srv2, own, i, n)
  <2> SUFFICES ASSUME NEW i \in 1 .. Ids, i \notin bad2, NEW n \in 0 .. Upload!MaxParts, Sent(srv, own, i, n),
                      NEW p \in 0 .. n - 1
               PROVE  srv2[i][p] = Upload!Content(own[i], p)
    BY DEF Sent
  <2>1. p \in 0 .. Upload!MaxParts - 1  BY UploadMaxParts
  <2> QED  BY <2>1 DEF Sent
<1>2. \A i \in 1 .. Ids : i < new => i < new2  OBVIOUS
<1>3. ASSUME NEW x \in CallType, CallOf(srv, bad, new, own, x)
      PROVE  CallOf(srv2, bad2, new2, own, x)
  <2>1. x.id \in 1 .. Ids /\ x.part \in 0 .. Upload!MaxParts  BY DEF CallType
  <2> QED  BY <1>1, <1>2, <1>3, <2>1 DEF CallOf
<1>4. ASSUME NEW h \in HandleType, HandleOf(srv, bad, new, own, h)
      PROVE  HandleOf(srv2, bad2, new2, own, h)
  <2>1. h.id \in 0 .. Ids /\ h.parts \in 0 .. Upload!MaxParts  BY DEF HandleType
  <2>2. h.id # 0 => h.id \in 1 .. Ids  BY <2>1
  <2> QED  BY <1>1, <1>2, <1>4, <2>1, <2>2 DEF HandleOf
<1>5. ASSUME NEW s \in ProgressType, ProgressOf(srv, bad, new, own, s)
      PROVE  ProgressOf(srv2, bad2, new2, own, s)
  <2>1. s.id \in 1 .. Ids /\ s.done \in 0 .. Upload!MaxParts  BY DEF ProgressType
  <2> QED  BY <1>1, <1>2, <1>5, <2>1 DEF ProgressOf
<1> QED  BY <1>3, <1>4, <1>5

\* What begins nothing and counts nothing.
LEMMA UploadEmpty ==
  /\ Upload!Idle \in CallType /\ Upload!NoHandle \in HandleType /\ Upload!NoState \in ProgressType
  /\ \A srv, bad, new, own :
       /\ CallOf(srv, bad, new, own, Upload!Idle)
       /\ HandleOf(srv, bad, new, own, Upload!NoHandle)
       /\ ProgressOf(srv, bad, new, own, Upload!NoState)
<1>1. 1 \in 1 .. Versions /\ 1 \in 1 .. Ids /\ 0 \in 0 .. Upload!MaxParts /\ 0 \in 0 .. Ids
  BY UploadConstants, UploadMaxParts
<1>2. Upload!Idle \in CallType  BY <1>1 DEF Upload!Idle, CallType
<1>3. Upload!NoHandle \in HandleType  BY <1>1 DEF Upload!NoHandle, HandleType
<1>4. Upload!NoState \in ProgressType  BY <1>1 DEF Upload!NoState, ProgressType
<1>5. \A srv, bad, new, own :
       /\ CallOf(srv, bad, new, own, Upload!Idle)
       /\ HandleOf(srv, bad, new, own, Upload!NoHandle)
       /\ ProgressOf(srv, bad, new, own, Upload!NoState)
  BY DEF CallOf, HandleOf, ProgressOf, Upload!Idle, Upload!NoHandle, Upload!NoState
<1> QED  BY <1>2, <1>3, <1>4, <1>5

\* The invariant of ResumableUpload holds at first, for any owners.
LEMMA UploadInit == Upload!Init => UploadInv
<1> SUFFICES ASSUME Upload!Init PROVE UploadInv  OBVIOUS
<1> USE UploadConstants, UploadMaxParts, UploadEmpty
<1>1. /\ local = 1 /\ progress = Upload!NoState /\ nextId = 1 /\ unread = {} /\ failures = 0
      /\ up = [u \in Uploaders |-> Upload!Idle] /\ handle = [u \in Uploaders |-> Upload!NoHandle]
      /\ server = [i \in 1 .. Ids |-> [p \in 0 .. Upload!MaxParts - 1 |-> Upload!Nothing]]
  BY DEF Upload!Init
<1>2. server \in ServerType
  <2>1. Upload!Nothing \in PartType
    BY UploadConstants, UploadMaxParts DEF Upload!Nothing, PartType
  <2> QED  BY <1>1, <2>1 DEF ServerType
<1>3. Upload!TypeOK  BY <1>1, <1>2, UploadTypes
<1>4. [i \in 1 .. Ids |-> 1] \in [1 .. Ids -> 1 .. Versions]  OBVIOUS
<1>5. UploadKnown([i \in 1 .. Ids |-> 1])  BY <1>1 DEF UploadKnown
<1> QED  BY <1>3, <1>4, <1>5 DEF UploadInv

Grows(own) ==
  /\ unread \subseteq unread'
  /\ nextId <= nextId'
  /\ \A i \in 1 .. Ids \ unread' : \A p \in 0 .. Upload!MaxParts - 1 :
       server[i][p] = Upload!Content(own[i], p) => server'[i][p] = Upload!Content(own[i], p)

\* A step keeps what is known when it keeps good parts and what it changes is known.
LEMMA UploadStep ==
  ASSUME NEW own, Upload!TypeOK, UploadKnown(own), Grows(own), nextId' \in Nat,
         \A w \in Uploaders : up'[w] = up[w] \/ CallOf(server', unread', nextId', own, up'[w]),
         \A w \in Uploaders : handle'[w] = handle[w] \/ HandleOf(server', unread', nextId', own, handle'[w]),
         progress' = progress \/ ProgressOf(server', unread', nextId', own, progress')
  PROVE  UploadKnown(own)'
<1>1. /\ up \in [Uploaders -> CallType] /\ handle \in [Uploaders -> HandleType]
      /\ progress \in ProgressType /\ nextId \in Nat
  BY UploadTypes, UploadConstants
<1>2. /\ \A x \in CallType : CallOf(server, unread, nextId, own, x) => CallOf(server', unread', nextId', own, x)
      /\ \A h \in HandleType : HandleOf(server, unread, nextId, own, h) => HandleOf(server', unread', nextId', own, h)
      /\ \A s \in ProgressType : ProgressOf(server, unread, nextId, own, s) => ProgressOf(server', unread', nextId', own, s)
  BY <1>1, UploadStays DEF Grows
<1>3. \A u \in Uploaders : CallOf(server', unread', nextId', own, up'[u])
  BY <1>1, <1>2 DEF UploadKnown
<1>4. \A u \in Uploaders : HandleOf(server', unread', nextId', own, handle'[u])
  BY <1>1, <1>2 DEF UploadKnown
<1>5. ProgressOf(server', unread', nextId', own, progress')
  BY <1>1, <1>2 DEF UploadKnown
<1> QED  BY <1>3, <1>4, <1>5 DEF UploadKnown

\* Only the owners of identifiers that have been given out matter.
LEMMA UploadOwners ==
  ASSUME Upload!TypeOK, NEW own, NEW own2, UploadKnown(own), \A i \in 1 .. Ids : i < nextId => own2[i] = own[i]
  PROVE  UploadKnown(own2)
<1>1. /\ up \in [Uploaders -> CallType] /\ handle \in [Uploaders -> HandleType]
      /\ progress \in ProgressType
  BY UploadTypes
<1>2. \A i \in 1 .. Ids : i < nextId => \A n : Sent(server, own, i, n) => Sent(server, own2, i, n)
  BY DEF Sent
<1>3. ASSUME NEW u \in Uploaders PROVE CallOf(server, unread, nextId, own2, up[u])
  <2>1. up[u].id \in 1 .. Ids  BY <1>1 DEF CallType
  <2> QED  BY <1>2, <2>1 DEF UploadKnown, CallOf
<1>4. ASSUME NEW u \in Uploaders PROVE HandleOf(server, unread, nextId, own2, handle[u])
  <2>1. handle[u].id # 0 => handle[u].id \in 1 .. Ids  BY <1>1 DEF HandleType
  <2> QED  BY <1>2, <2>1 DEF UploadKnown, HandleOf
<1>5. ProgressOf(server, unread, nextId, own2, progress)
  <2>1. progress.id \in 1 .. Ids  BY <1>1 DEF ProgressType
  <2> QED  BY <1>2, <2>1 DEF UploadKnown, ProgressOf
<1> QED  BY <1>3, <1>4, <1>5 DEF UploadKnown

\* A call that resumes opens the version that the upload was begun with: sizes differ.
LEMMA UploadResume ==
  ASSUME UploadInv, NEW u \in Uploaders, Upload!Resume(u)
  PROVE  UploadInv'
<1> USE UploadConstants
<1>1. PICK own \in [1 .. Ids -> 1 .. Versions] : UploadKnown(own)  BY DEF UploadInv
<1>2. /\ local \in 1 .. Versions /\ server \in ServerType /\ progress \in ProgressType
      /\ nextId \in 1 .. Ids + 1 /\ up \in [Uploaders -> CallType] /\ handle \in [Uploaders -> HandleType]
  BY UploadTypes DEF UploadInv
<1> DEFINE x == [pc |-> "part", ver |-> local, id |-> progress.id, part |-> progress.done, shifted |-> FALSE]
<1>3. /\ progress.present /\ progress.size = LocalSize[local]
      /\ up' = [up EXCEPT ![u] = x]
      /\ handle' = [handle EXCEPT ![u] = Upload!NoHandle]
      /\ UNCHANGED <<local, server, progress, nextId, unread, failures>>
  BY DEF Upload!Resume, Upload!Goto
<1>4. x \in CallType
  BY <1>2 DEF CallType, ProgressType
<1>5. CallOf(server, unread, nextId, own, x)
  <2>1. progress.id \in 1 .. Ids  BY <1>2 DEF ProgressType
  <2>2. ProgressOf(server, unread, nextId, own, progress)  BY <1>1 DEF UploadKnown
  <2>3. own[progress.id] = local
    <3>1. own[progress.id] \in 1 .. Versions  BY <2>1
    <3> QED  BY <1>2, <1>3, <2>2, <3>1, SizesDiffer DEF ProgressOf
  <2> QED  BY <1>3, <2>2, <2>3 DEF ProgressOf, CallOf
<1> HIDE DEF x
<1>6. Upload!TypeOK'
  <2>1. up' \in [Uploaders -> CallType] /\ handle' \in [Uploaders -> HandleType]
    BY <1>2, <1>3, <1>4, UploadEmpty
  <2> QED  BY <1>3, <2>1, UploadTypes DEF UploadInv, CallType, HandleType, ProgressType, ServerType, Upload!TypeOK
<1>7. UploadKnown(own)'
  <2>1. Grows(own) /\ nextId' \in Nat  BY <1>2, <1>3 DEF Grows
  <2>2. \A w \in Uploaders : up'[w] = up[w] \/ CallOf(server', unread', nextId', own, up'[w])
    BY <1>2, <1>3, <1>5
  <2>3. \A w \in Uploaders : handle'[w] = handle[w] \/ HandleOf(server', unread', nextId', own, handle'[w])
    BY <1>2, <1>3, UploadEmpty
  <2> QED  BY <1>1, <1>3, <2>1, <2>2, <2>3, UploadStep DEF UploadInv
<1> QED  BY <1>1, <1>6, <1>7 DEF UploadInv

\* The type invariant after a step, by named sets.
LEMMA UploadTypesAfter ==
  ASSUME local' \in 1 .. Versions, server' \in ServerType, progress' \in ProgressType,
         nextId' \in 1 .. Ids + 1, up' \in [Uploaders -> CallType], handle' \in [Uploaders -> HandleType],
         unread' \subseteq 1 .. Ids, failures' \in 0 .. MaxFailures
  PROVE  Upload!TypeOK'
BY DEF Upload!TypeOK, CallType, HandleType, ProgressType, ServerType, PartType

\* The types of the variables.
LEMMA UploadTypesNow ==
  ASSUME UploadInv
  PROVE  /\ local \in 1 .. Versions /\ server \in ServerType /\ progress \in ProgressType
         /\ nextId \in 1 .. Ids + 1 /\ up \in [Uploaders -> CallType] /\ handle \in [Uploaders -> HandleType]
         /\ unread \subseteq 1 .. Ids /\ failures \in 0 .. MaxFailures
         /\ Upload!TypeOK
BY UploadTypes DEF UploadInv

\* A new identifier is owned by the version that the call opens.
LEMMA UploadBegin ==
  ASSUME UploadInv, NEW u \in Uploaders, Upload!Begin(u)
  PROVE  UploadInv'
<1> USE UploadConstants
<1>1. PICK own \in [1 .. Ids -> 1 .. Versions] : UploadKnown(own)  BY DEF UploadInv
<1>2. /\ local \in 1 .. Versions /\ nextId \in 1 .. Ids + 1
      /\ up \in [Uploaders -> CallType] /\ handle \in [Uploaders -> HandleType]
  BY UploadTypesNow
<1> DEFINE x == [pc |-> "part", ver |-> local, id |-> nextId, part |-> 0, shifted |-> FALSE]
           s == Upload!State(LocalSize[local], nextId, 0)
<1>3. /\ nextId <= Ids /\ nextId' = nextId + 1
      /\ progress' = s
      /\ up' = [up EXCEPT ![u] = x]
      /\ handle' = [handle EXCEPT ![u] = Upload!NoHandle]
      /\ UNCHANGED <<local, server, unread, failures>>
  BY DEF Upload!Begin, Upload!Goto
<1>4. nextId \in 1 .. Ids  BY <1>2, <1>3
<1>5. x \in CallType /\ s \in ProgressType
  <2>1. 0 \in 0 .. Upload!MaxParts /\ LocalSize[local] \in Nat  BY <1>2, UploadMaxParts
  <2>2. x \in CallType      BY <1>2, <1>4, <2>1 DEF CallType
  <2>3. s \in ProgressType  BY <1>4, <2>1 DEF ProgressType, Upload!State
  <2> QED  BY <2>2, <2>3
<1>6. PICK own2 \in [1 .. Ids -> 1 .. Versions] :
        own2[nextId] = local /\ \A i \in 1 .. Ids : i < nextId => own2[i] = own[i]
  <2> DEFINE o == [own EXCEPT ![nextId] = local]
  <2>1. o \in [1 .. Ids -> 1 .. Versions] /\ o[nextId] = local  BY <1>2, <1>4
  <2>2. \A i \in 1 .. Ids : i < nextId => o[i] = own[i]  BY <1>4
  <2> QED  BY <2>1, <2>2
<1>7. UploadKnown(own2)  BY <1>1, <1>6, UploadOwners, UploadTypesNow
<1>8. 0 <= Parts[local]
  <2>1. Parts[local] \in Nat  BY <1>2
  <2> DEFINE n == Parts[local]
  <2>2. n \in Nat  BY <2>1
  <2> HIDE DEF n
  <2>3. 0 <= n  BY <2>2
  <2> QED  BY <2>3 DEF n
<1>9. CallOf(server', unread', nextId', own2, x) /\ ProgressOf(server', unread', nextId', own2, s)
  <2>1. \A srv : Sent(srv, own2, nextId, 0)  BY DEF Sent
  <2>2. nextId < nextId'  BY <1>3, <1>4
  <2>3. CallOf(server', unread', nextId', own2, x)
    <3>1. x.pc = "part" /\ x.id = nextId /\ x.ver = local /\ x.part = 0 /\ x.shifted = FALSE  OBVIOUS
    <3> HIDE DEF x
    <3>2. x.part <= Parts[x.ver]  BY <1>8, <3>1
    <3> QED  BY <1>6, <2>1, <2>2, <3>1, <3>2 DEF CallOf
  <2>4. ProgressOf(server', unread', nextId', own2, s)
    <3>1. s.id = nextId /\ s.size = LocalSize[local] /\ s.done = 0  BY DEF Upload!State
    <3> HIDE DEF s
    <3>2. own2[s.id] = local  BY <1>6, <3>1
    <3>3. s.done <= Parts[local]  BY <1>8, <3>1
    <3> QED  BY <1>6, <2>1, <2>2, <3>1, <3>2, <3>3 DEF ProgressOf
  <2> QED  BY <2>3, <2>4
<1> HIDE DEF x, s
<1>10. Upload!TypeOK'
  <2>1. up' \in [Uploaders -> CallType] /\ handle' \in [Uploaders -> HandleType]
    BY <1>2, <1>3, <1>5, UploadEmpty
  <2>2. nextId' \in 1 .. Ids + 1  BY <1>3, <1>4
  <2> QED  BY <1>3, <1>5, <2>1, <2>2, UploadTypesNow, UploadTypesAfter
<1>11. UploadKnown(own2)'
  <2>1. Grows(own2) /\ nextId' \in Nat  BY <1>3, <1>4 DEF Grows
  <2>2. \A w \in Uploaders : up'[w] = up[w] \/ CallOf(server', unread', nextId', own2, up'[w])
    BY <1>2, <1>3, <1>9
  <2>3. \A w \in Uploaders : handle'[w] = handle[w] \/ HandleOf(server', unread', nextId', own2, handle'[w])
    BY <1>2, <1>3, UploadEmpty
  <2> QED  BY <1>3, <1>7, <1>9, <2>1, <2>2, <2>3, UploadStep, UploadTypesNow
<1> QED  BY <1>6, <1>10, <1>11 DEF UploadInv

\* Steps that change only calls, to idle or on with nothing more counted.
LEMMA UploadMoves ==
  ASSUME UploadInv, UNCHANGED <<local, server, nextId>>,
         unread \subseteq unread', unread' \subseteq 1 .. Ids, failures' \in 0 .. MaxFailures,
         \/ progress' = progress
         \/ progress' = Upload!NoState,
         up' \in [Uploaders -> CallType], handle' \in [Uploaders -> HandleType],
         \A own \in [1 .. Ids -> 1 .. Versions] : UploadKnown(own) =>
           /\ \A w \in Uploaders : up'[w] = up[w] \/ CallOf(server', unread', nextId', own, up'[w])
           /\ \A w \in Uploaders : handle'[w] = handle[w] \/ HandleOf(server', unread', nextId', own, handle'[w])
  PROVE  UploadInv'
<1>1. PICK own \in [1 .. Ids -> 1 .. Versions] : UploadKnown(own)  BY DEF UploadInv
<1>2. Upload!TypeOK'  BY UploadEmpty, UploadTypesNow, UploadTypesAfter
<1>3. UploadKnown(own)'
  <2>1. nextId' \in Nat /\ nextId <= nextId'
    <3>1. nextId \in 1 .. Ids + 1 /\ Ids \in Nat  BY UploadTypesNow, UploadConstants
    <3> QED  BY <3>1
  <2>3. Grows(own)  BY <2>1 DEF Grows
  <2>2. progress' = progress \/ ProgressOf(server', unread', nextId', own, progress')
    BY UploadEmpty
  <2> QED  BY <1>1, <2>1, <2>2, <2>3, UploadStep, UploadTypesNow
<1> QED  BY <1>1, <1>2, <1>3 DEF UploadInv

\* A call with a part to send: where the part goes, and the call after it.
LEMMA UploadNextPart ==
  ASSUME NEW x \in CallType, x.part < Parts[x.ver]
  PROVE  /\ x.id \in 1 .. Ids /\ x.ver \in 1 .. Versions /\ Parts[x.ver] \in 0 .. Upload!MaxParts
         /\ x.part \in 0 .. Upload!MaxParts - 1 /\ Upload!MaxParts \in Nat
         /\ x.part \in Nat /\ x.part + 1 <= Parts[x.ver] /\ x.part + 1 > 0
         /\ [x EXCEPT !.pc = "save", !.part = @ + 1] \in CallType
         /\ [x EXCEPT !.pc = "save", !.part = @ + 1, !.shifted = TRUE] \in CallType
         /\ Upload!Piece(x.ver, x.part) \in PartType
         /\ Upload!Content(x.ver, x.part) \in PartType
<1> USE UploadConstants
<1>1. /\ x.pc \in {"idle", "part", "save", "delete"} /\ x.id \in 1 .. Ids /\ x.ver \in 1 .. Versions
      /\ x.part \in 0 .. Upload!MaxParts /\ x.shifted \in BOOLEAN
  BY DEF CallType
<1>2. Upload!MaxParts \in Nat /\ Parts[x.ver] \in 0 .. Upload!MaxParts  BY <1>1, UploadMaxParts
<1>3. /\ x.part \in 0 .. Upload!MaxParts - 1 /\ x.part \in Nat /\ x.part + 1 \in 0 .. Upload!MaxParts
      /\ x.part + 1 <= Parts[x.ver] /\ x.part + 1 > 0
  <2> DEFINE n == x.part
             k == Parts[x.ver]
             m == Upload!MaxParts
  <2>1. n \in 0 .. m /\ k \in 0 .. m /\ m \in Nat /\ n < k  BY <1>1, <1>2
  <2> HIDE DEF n, k, m
  <2>2. n \in 0 .. m - 1 /\ n \in Nat /\ n + 1 \in 0 .. m /\ n + 1 <= k /\ n + 1 > 0  BY <2>1
  <2> QED  BY <2>2 DEF n, k, m
<1>4. [x EXCEPT !.pc = "save", !.part = @ + 1] \in CallType
  BY <1>3 DEF CallType
<1>5. [x EXCEPT !.pc = "save", !.part = @ + 1, !.shifted = TRUE] \in CallType
  BY <1>3 DEF CallType
<1>6. /\ Upload!Piece(x.ver, x.part) \in PartType
      /\ Upload!Content(x.ver, x.part) \in PartType
  <2>1. x.ver \in 0 .. Versions  BY <1>1
  <2> QED  BY <1>1, <2>1 DEF Upload!Piece, Upload!Content, PartType
<1> QED  BY <1>1, <1>2, <1>3, <1>4, <1>5, <1>6

\* The call after a part was sent: the fields it keeps and those it changes.
LEMMA UploadAdvanced ==
  ASSUME NEW x \in CallType, NEW y,
         \/ y = [x EXCEPT !.pc = "save", !.part = @ + 1]
         \/ y = [x EXCEPT !.pc = "save", !.part = @ + 1, !.shifted = TRUE]
  PROVE  /\ y.pc = "save" /\ y.id = x.id /\ y.ver = x.ver /\ y.part = x.part + 1
         /\ y = [x EXCEPT !.pc = "save", !.part = @ + 1] => y.shifted = x.shifted
BY DEF CallType

\* The server after one part of one identifier arrived.
Put(srv, i, p, d) == [srv EXCEPT ![i][p] = d]

\* The part is where it was sent, and the others are as before.
LEMMA UploadPut ==
  ASSUME NEW srv \in ServerType, NEW i \in 1 .. Ids, NEW p \in 0 .. Upload!MaxParts - 1,
         NEW d \in PartType
  PROVE  /\ Put(srv, i, p, d) \in ServerType
         /\ Put(srv, i, p, d)[i][p] = d
         /\ \A j \in 1 .. Ids : \A q \in 0 .. Upload!MaxParts - 1 :
              <<j, q>> # <<i, p>> => Put(srv, i, p, d)[j][q] = srv[j][q]
<1> DEFINE I == 1 .. Ids
           P == 0 .. Upload!MaxParts - 1
           srv2 == Put(srv, i, p, d)
<1> HIDE DEF I, P
<1>1. i \in I /\ p \in P /\ srv \in [I -> [P -> PartType]]  BY DEF ServerType, I, P
<1>2. srv2 \in [I -> [P -> PartType]]  BY <1>1 DEF Put
<1>3. srv2[i][p] = d  BY <1>1 DEF Put
<1>4. ASSUME NEW j \in I, NEW q \in P, <<j, q>> # <<i, p>> PROVE srv2[j][q] = srv[j][q]
  <2>1. CASE j = i  BY <1>1, <1>4, <2>1 DEF Put
  <2>2. CASE j # i  BY <1>1, <2>2 DEF Put
  <2> QED  BY <2>1, <2>2
<1> QED  BY <1>2, <1>3, <1>4 DEF ServerType, I, P

\* A part goes to its own place, with its own content unless a read failed.
LEMMA UploadPart ==
  ASSUME UploadInv, NEW u \in Uploaders, Upload!UploadPart(u)
  PROVE  UploadInv'
<1> DEFINE x == up[u]
           y == [x EXCEPT !.pc = "save", !.part = @ + 1]
           data == IF x.shifted THEN Upload!Piece(x.ver, x.part) ELSE Upload!Content(x.ver, x.part)
<1>1. PICK own \in [1 .. Ids -> 1 .. Versions] : UploadKnown(own)  BY DEF UploadInv
<1>2. /\ server \in ServerType /\ nextId \in 1 .. Ids + 1
      /\ up \in [Uploaders -> CallType] /\ x \in CallType
  BY UploadTypesNow
<1>3. /\ x.pc = "part" /\ x.part < Parts[x.ver]
      /\ server' = [server EXCEPT ![x.id][x.part] = data]
      /\ up' = [up EXCEPT ![u] = y]
      /\ UNCHANGED <<local, progress, nextId, handle, unread, failures>>
  BY DEF Upload!UploadPart, Upload!Goto
<1> HIDE DEF x
<1>4. CallOf(server, unread, nextId, own, x)  BY <1>1 DEF UploadKnown, x
<1>5. /\ x.id \in 1 .. Ids /\ x.ver \in 1 .. Versions /\ Parts[x.ver] \in 0 .. Upload!MaxParts
      /\ x.part \in 0 .. Upload!MaxParts - 1 /\ Upload!MaxParts \in Nat
  BY <1>2, <1>3, UploadNextPart
<1>6. /\ y \in CallType /\ y.pc = "save" /\ y.id = x.id /\ y.ver = x.ver /\ y.part = x.part + 1 /\ y.shifted = x.shifted
  BY <1>2, <1>3, UploadNextPart, UploadAdvanced
<1>7. data \in PartType
  BY <1>2, <1>3, UploadNextPart
<1>8. x.id \notin unread => data = Upload!Content(own[x.id], x.part)
  BY <1>3, <1>4 DEF CallOf
<1> HIDE DEF y, data
<1>9. /\ server' \in ServerType
      /\ server'[x.id][x.part] = data
      /\ \A i \in 1 .. Ids : \A p \in 0 .. Upload!MaxParts - 1 :
           <<i, p>> # <<x.id, x.part>> => server'[i][p] = server[i][p]
  <2> DEFINE i0 == x.id
             p0 == x.part
  <2> HIDE DEF i0, p0
  <2>1. /\ server \in ServerType /\ i0 \in 1 .. Ids /\ p0 \in 0 .. Upload!MaxParts - 1 /\ data \in PartType
        /\ server' = Put(server, i0, p0, data)
    BY <1>2, <1>3, <1>5, <1>7 DEF i0, p0, Put
  <2>2. /\ server' \in ServerType
        /\ server'[i0][p0] = data
        /\ \A j \in 1 .. Ids : \A q \in 0 .. Upload!MaxParts - 1 :
             <<j, q>> # <<i0, p0>> => server'[j][q] = server[j][q]
    BY <2>1, UploadPut
  <2> QED  BY <2>2 DEF i0, p0
<1>10. Upload!TypeOK'
  <2>1. up' \in [Uploaders -> CallType]  BY <1>2, <1>3, <1>6
  <2> QED  BY <1>3, <1>9, <2>1, UploadTypesNow, UploadTypesAfter
<1>11. Grows(own)
  <2> SUFFICES ASSUME NEW i \in 1 .. Ids \ unread, NEW p \in 0 .. Upload!MaxParts - 1,
                      server[i][p] = Upload!Content(own[i], p)
               PROVE  server'[i][p] = Upload!Content(own[i], p)
    BY <1>2, <1>3 DEF Grows
  <2>1. CASE i = x.id /\ p = x.part  BY <1>8, <1>9, <2>1
  <2>2. CASE ~ (i = x.id /\ p = x.part)  BY <1>9, <2>2
  <2> QED  BY <2>1, <2>2
<1>12. CallOf(server', unread', nextId', own, y)
  <2>1. ASSUME x.id \notin unread PROVE Sent(server', own, x.id, x.part + 1)
    <3> SUFFICES ASSUME NEW p \in 0 .. x.part PROVE server'[x.id][p] = Upload!Content(own[x.id], p)
      BY <1>5 DEF Sent
    <3>1. CASE p = x.part  BY <1>8, <1>9, <2>1, <3>1
    <3>2. CASE p # x.part
      <4>1. p \in 0 .. x.part - 1  BY <1>5, <3>2
      <4>2. server[x.id][p] = Upload!Content(own[x.id], p)
        BY <1>3, <1>4, <2>1, <4>1 DEF CallOf, Sent
      <4> QED  BY <1>3, <1>5, <1>11, <2>1, <4>1, <4>2 DEF Grows
    <3> QED  BY <3>1, <3>2
  <2>2. x.part + 1 <= Parts[x.ver] /\ x.part + 1 > 0  BY <1>3, <1>5
  <2> QED  BY <1>3, <1>4, <1>6, <2>1, <2>2 DEF CallOf
<1>13. UploadKnown(own)'
  <2>1. nextId' \in Nat  BY <1>2, <1>3
  <2>2. \A w \in Uploaders : up'[w] = up[w] \/ CallOf(server', unread', nextId', own, up'[w])
    BY <1>2, <1>3, <1>12
  <2> QED  BY <1>1, <1>3, <1>11, <2>1, <2>2, UploadStep, UploadTypesNow
<1> QED  BY <1>1, <1>10, <1>13 DEF UploadInv

\* A piece spoils its upload, which is remembered.
LEMMA UploadPiece ==
  ASSUME UploadInv, NEW u \in Uploaders, Upload!UploadPiece(u)
  PROVE  UploadInv'
<1> DEFINE x == up[u]
           y == [x EXCEPT !.pc = "save", !.part = @ + 1, !.shifted = TRUE]
           data == Upload!Piece(x.ver, x.part)
<1>1. PICK own \in [1 .. Ids -> 1 .. Versions] : UploadKnown(own)  BY DEF UploadInv
<1>2. /\ server \in ServerType /\ nextId \in 1 .. Ids + 1 /\ unread \subseteq 1 .. Ids
      /\ up \in [Uploaders -> CallType] /\ x \in CallType
  BY UploadTypesNow
<1>3. /\ x.pc = "part" /\ x.part < Parts[x.ver]
      /\ server' = [server EXCEPT ![x.id][x.part] = data]
      /\ unread' = unread \cup {x.id}
      /\ up' = [up EXCEPT ![u] = y]
      /\ failures < MaxFailures /\ failures' = failures + 1
      /\ UNCHANGED <<local, progress, nextId, handle>>
  BY DEF Upload!UploadPiece, Upload!Goto, Upload!Fault
<1> HIDE DEF x
<1>4. CallOf(server, unread, nextId, own, x)  BY <1>1 DEF UploadKnown, x
<1>5. /\ x.id \in 1 .. Ids /\ x.ver \in 1 .. Versions /\ Parts[x.ver] \in 0 .. Upload!MaxParts
      /\ x.part \in 0 .. Upload!MaxParts - 1 /\ Upload!MaxParts \in Nat
  BY <1>2, <1>3, UploadNextPart
<1>6. /\ y \in CallType /\ y.pc = "save" /\ y.id = x.id /\ y.ver = x.ver /\ y.part = x.part + 1
  BY <1>2, <1>3, UploadNextPart, UploadAdvanced
<1>7. data \in PartType
  BY <1>2, <1>3, UploadNextPart
<1> HIDE DEF y, data
<1>8. /\ server' \in ServerType
      /\ \A i \in 1 .. Ids : \A p \in 0 .. Upload!MaxParts - 1 : i # x.id => server'[i][p] = server[i][p]
  <2> DEFINE i0 == x.id
             p0 == x.part
  <2> HIDE DEF i0, p0
  <2>1. /\ server \in ServerType /\ i0 \in 1 .. Ids /\ p0 \in 0 .. Upload!MaxParts - 1 /\ data \in PartType
        /\ server' = Put(server, i0, p0, data)
    BY <1>2, <1>3, <1>5, <1>7 DEF i0, p0, Put
  <2>2. /\ server' \in ServerType
        /\ \A j \in 1 .. Ids : \A q \in 0 .. Upload!MaxParts - 1 :
             <<j, q>> # <<i0, p0>> => server'[j][q] = server[j][q]
    BY <2>1, UploadPut
  <2> QED  BY <2>2 DEF i0, p0
<1>9. Upload!TypeOK'
  <2>1. up' \in [Uploaders -> CallType]  BY <1>2, <1>3, <1>6
  <2>2. unread' \subseteq 1 .. Ids  BY <1>2, <1>3, <1>5
  <2>3. failures' \in 0 .. MaxFailures  BY <1>3, UploadTypesNow, UploadConstants
  <2> QED  BY <1>3, <1>8, <2>1, <2>2, <2>3, UploadTypesNow, UploadTypesAfter
<1>10. Grows(own)  BY <1>2, <1>3, <1>8 DEF Grows
<1>11. CallOf(server', unread', nextId', own, y)
  <2>1. x.part + 1 <= Parts[x.ver] /\ x.part + 1 > 0  BY <1>3, <1>5
  <2> QED  BY <1>3, <1>4, <1>6, <2>1 DEF CallOf
<1>12. UploadKnown(own)'
  <2>1. nextId' \in Nat  BY <1>2, <1>3
  <2>2. \A w \in Uploaders : up'[w] = up[w] \/ CallOf(server', unread', nextId', own, up'[w])
    BY <1>2, <1>3, <1>11
  <2> QED  BY <1>1, <1>3, <1>10, <2>1, <2>2, UploadStep, UploadTypesNow
<1> QED  BY <1>1, <1>9, <1>12 DEF UploadInv

\* The saved count never exceeds the parts sent.
LEMMA UploadWholeParts ==
  ASSUME NEW x \in CallType, x.part > 0, x.part <= Parts[x.ver]
  PROVE  /\ Upload!WholeParts(x) \in 0 .. Upload!MaxParts
         /\ Upload!WholeParts(x) <= Parts[x.ver]
         /\ \A srv, own, i : Sent(srv, own, i, x.part) => Sent(srv, own, i, Upload!WholeParts(x))
<1> DEFINE n == x.part
           w == Upload!WholeParts(x)
<1>1. /\ n \in Nat /\ n > 0 /\ n <= Upload!MaxParts /\ n <= Parts[x.ver]
      /\ Upload!MaxParts \in Nat /\ Parts[x.ver] \in Nat
  <2>1. x.part \in 0 .. Upload!MaxParts /\ x.ver \in 1 .. Versions  BY DEF CallType
  <2> QED  BY <2>1, UploadMaxParts, UploadConstants
<1>2. w = n - 1 \/ w = n  BY DEF Upload!WholeParts
<1> HIDE DEF n, w
<1>3. w \in Nat /\ w <= n  BY <1>1, <1>2
<1>4. w \in 0 .. Upload!MaxParts /\ w <= Parts[x.ver]
  <2> DEFINE q == Parts[x.ver]
  <2>1. q \in Nat /\ n <= q  BY <1>1
  <2> HIDE DEF q
  <2>2. w <= q /\ w <= Upload!MaxParts  BY <1>1, <1>3, <2>1
  <2> QED  BY <1>1, <1>3, <2>2 DEF q
<1>5. \A p \in 0 .. w - 1 : p \in 0 .. n - 1  BY <1>1, <1>3
<1>6. \A srv, own, i : Sent(srv, own, i, n) => Sent(srv, own, i, w)  BY <1>5 DEF Sent
<1> QED  BY <1>4, <1>6 DEF n, w

\* What is saved is known of the call.
LEMMA UploadSaveProgress ==
  ASSUME UploadInv, NEW u \in Uploaders, Upload!SaveProgress(u)
  PROVE  UploadInv'
<1> USE UploadConstants
<1> DEFINE x == up[u]
           y == [x EXCEPT !.pc = "part"]
           s == Upload!State(LocalSize[x.ver], x.id, Upload!WholeParts(x))
<1>1. PICK own \in [1 .. Ids -> 1 .. Versions] : UploadKnown(own)  BY DEF UploadInv
<1>2. /\ nextId \in 1 .. Ids + 1 /\ up \in [Uploaders -> CallType] /\ x \in CallType /\ progress \in ProgressType
  BY UploadTypesNow
<1>3. /\ x.pc = "save"
      /\ progress' = s \/ progress' = progress
      /\ up' = [up EXCEPT ![u] = y]
      /\ UNCHANGED <<local, server, nextId, handle, unread>>
      /\ failures' = failures \/ (failures < MaxFailures /\ failures' = failures + 1)
  BY DEF Upload!SaveProgress, Upload!Goto, Upload!Fault
<1>4. CallOf(server, unread, nextId, own, x)  BY <1>1 DEF UploadKnown
<1>5. y \in CallType /\ y.pc = "part" /\ y.id = x.id /\ y.ver = x.ver /\ y.part = x.part /\ y.shifted = x.shifted
  BY <1>2 DEF CallType
<1> HIDE DEF y
<1>6. CallOf(server, unread, nextId, own, y)  BY <1>3, <1>4, <1>5 DEF CallOf
<1>7. /\ x.id \in 1 .. Ids /\ x.ver \in 1 .. Versions /\ LocalSize[x.ver] \in Nat
      /\ x.part > 0 /\ x.part <= Parts[x.ver] /\ x.id < nextId /\ x.ver = own[x.id]
  BY <1>2, <1>3, <1>4 DEF CallType, CallOf
<1>8. /\ Upload!WholeParts(x) \in 0 .. Upload!MaxParts /\ Upload!WholeParts(x) <= Parts[x.ver]
      /\ Sent(server, own, x.id, x.part) => Sent(server, own, x.id, Upload!WholeParts(x))
  BY <1>2, <1>7, UploadWholeParts
<1>9. s \in ProgressType
  BY <1>7, <1>8 DEF ProgressType, Upload!State
<1>10. ProgressOf(server, unread, nextId, own, s)
  <2>1. s.id = x.id /\ s.size = LocalSize[x.ver] /\ s.done = Upload!WholeParts(x)  BY DEF Upload!State
  <2> HIDE DEF s
  <2> QED  BY <1>3, <1>4, <1>7, <1>8, <2>1 DEF CallOf, ProgressOf
<1> HIDE DEF s
<1>11. Upload!TypeOK'
  <2>1. up' \in [Uploaders -> CallType]  BY <1>2, <1>3, <1>5
  <2>2. failures' \in 0 .. MaxFailures
    <3>1. failures \in 0 .. MaxFailures  BY UploadTypesNow
    <3>2. CASE failures' = failures  BY <3>1, <3>2
    <3>3. CASE failures < MaxFailures /\ failures' = failures + 1  BY <3>1, <3>3
    <3> QED  BY <1>3, <3>2, <3>3
  <2> QED  BY <1>3, <1>9, <2>1, <2>2, UploadTypesNow, UploadTypesAfter
<1>12. UploadKnown(own)'
  <2>1. Grows(own) /\ nextId' \in Nat  BY <1>2, <1>3 DEF Grows
  <2>2. \A w \in Uploaders : up'[w] = up[w] \/ CallOf(server', unread', nextId', own, up'[w])
    BY <1>2, <1>3, <1>6
  <2> QED  BY <1>1, <1>3, <1>10, <2>1, <2>2, UploadStep, UploadTypesNow
<1> QED  BY <1>1, <1>11, <1>12 DEF UploadInv

\* The handle takes over what is known of its call.
LEMMA UploadFinish ==
  ASSUME UploadInv, NEW u \in Uploaders, Upload!Finish(u)
  PROVE  UploadInv'
<1> USE UploadConstants
<1> DEFINE x == up[u]
           h == [id |-> x.id, ver |-> x.ver, parts |-> Parts[x.ver]]
<1>1. /\ nextId \in 1 .. Ids + 1 /\ up \in [Uploaders -> CallType] /\ x \in CallType
      /\ handle \in [Uploaders -> HandleType]
  BY UploadTypesNow
<1>2. /\ x.pc = "delete"
      /\ progress' = Upload!NoState \/ progress' = progress
      /\ up' = [up EXCEPT ![u] = Upload!Idle]
      /\ handle' = [handle EXCEPT ![u] = h]
      /\ UNCHANGED <<local, server, nextId, unread>>
      /\ failures' = failures \/ (failures < MaxFailures /\ failures' = failures + 1)
  BY DEF Upload!Finish, Upload!Goto, Upload!Fault
<1>3. /\ x.id \in 1 .. Ids /\ x.ver \in 1 .. Versions /\ Parts[x.ver] \in 0 .. Upload!MaxParts
  BY <1>1, UploadMaxParts DEF CallType
<1>4. h \in HandleType
  <2>1. x.id \in 0 .. Ids  BY <1>3
  <2> QED  BY <1>3, <2>1 DEF HandleType
<1>5. ASSUME NEW own, UploadKnown(own) PROVE HandleOf(server, unread, nextId, own, h)
  <2>1. CallOf(server, unread, nextId, own, x)  BY <1>5 DEF UploadKnown
  <2> QED  BY <1>2, <2>1 DEF CallOf, HandleOf
<1> HIDE DEF h
<1>6. failures' \in 0 .. MaxFailures  BY <1>2, UploadTypesNow
<1>7. up' \in [Uploaders -> CallType] /\ handle' \in [Uploaders -> HandleType]
  BY <1>1, <1>2, <1>4, UploadEmpty
<1>8. ASSUME NEW own, UploadKnown(own)
      PROVE  /\ \A w \in Uploaders : up'[w] = up[w] \/ CallOf(server', unread', nextId', own, up'[w])
             /\ \A w \in Uploaders : handle'[w] = handle[w] \/ HandleOf(server', unread', nextId', own, handle'[w])
  BY <1>1, <1>2, <1>5, <1>8, UploadEmpty
<1>9. unread \subseteq unread' /\ unread' \subseteq 1 .. Ids  BY <1>2, UploadTypesNow
<1> QED  BY <1>2, <1>6, <1>7, <1>8, <1>9, UploadMoves

\* The loop over the parts ends, after the last part or at a read error.
LEMMA UploadEnds ==
  ASSUME UploadInv, NEW u \in Uploaders, Upload!LastPart(u) \/ Upload!ReadFails(u)
  PROVE  UploadInv'
<1> USE UploadConstants
<1> DEFINE x == up[u]
           y == [x EXCEPT !.pc = "delete"]
<1>1. /\ nextId \in 1 .. Ids + 1 /\ up \in [Uploaders -> CallType] /\ x \in CallType
      /\ unread \subseteq 1 .. Ids
  BY UploadTypesNow
<1>2. /\ x.pc = "part"
      /\ up' = [up EXCEPT ![u] = y]
      /\ UNCHANGED <<local, server, progress, nextId, handle>>
      /\ \/ x.part >= Parts[x.ver] /\ unread' = unread /\ failures' = failures
         \/ unread' = unread \cup {x.id} /\ failures < MaxFailures /\ failures' = failures + 1
  BY DEF Upload!LastPart, Upload!ReadFails, Upload!Goto, Upload!Fault
<1>3. y \in CallType /\ y.pc = "delete" /\ y.id = x.id /\ y.ver = x.ver /\ y.part = x.part /\ y.shifted = x.shifted
  BY <1>1 DEF CallType
<1>4. x.id \in 1 .. Ids /\ x.part \in Nat /\ Parts[x.ver] \in Nat  BY <1>1, UploadMaxParts DEF CallType
<1> HIDE DEF y
<1>5. ASSUME NEW own, UploadKnown(own) PROVE CallOf(server', unread', nextId', own, y)
  <2>1. CallOf(server, unread, nextId, own, x)  BY <1>5 DEF UploadKnown
  <2>2. CASE x.part >= Parts[x.ver] /\ unread' = unread
    <3>1. x.part <= Parts[x.ver] BY <1>2, <2>1 DEF CallOf
    <3>2. x.part = Parts[x.ver]
      <4> HIDE DEF x
      <4> QED  BY <1>4, <2>2, <3>1
    <3> QED  BY <1>2, <1>3, <2>1, <2>2, <3>2 DEF CallOf
  <2>3. CASE unread' = unread \cup {x.id}
    BY <1>2, <1>3, <2>1, <2>3 DEF CallOf
  <2> QED  BY <1>2, <2>2, <2>3
<1>6. failures' \in 0 .. MaxFailures  BY <1>2, UploadTypesNow
<1>7. up' \in [Uploaders -> CallType] /\ handle' \in [Uploaders -> HandleType]
  BY <1>1, <1>2, <1>3, UploadTypesNow
<1>8. ASSUME NEW own, UploadKnown(own)
      PROVE  /\ \A w \in Uploaders : up'[w] = up[w] \/ CallOf(server', unread', nextId', own, up'[w])
             /\ \A w \in Uploaders : handle'[w] = handle[w] \/ HandleOf(server', unread', nextId', own, handle'[w])
  BY <1>1, <1>2, <1>5, <1>8
<1>9. unread \subseteq unread' /\ unread' \subseteq 1 .. Ids  BY <1>1, <1>2, <1>4
<1> QED  BY <1>2, <1>6, <1>7, <1>8, <1>9, UploadMoves

\* Steps after which calls and handles are what they were or nothing.
LEMMA UploadClears ==
  ASSUME UploadInv,
         \/ \E u \in Uploaders : Upload!BeginFails(u) \/ Upload!UploadFails(u)
         \/ Upload!Crash
  PROVE  UploadInv'
<1> USE UploadConstants
<1>1. /\ up \in [Uploaders -> CallType] /\ handle \in [Uploaders -> HandleType]
      /\ unread \subseteq 1 .. Ids /\ failures \in 0 .. MaxFailures
  BY UploadTypesNow
<1>2. UNCHANGED <<local, server, progress, nextId, unread>>
  BY DEF Upload!BeginFails, Upload!UploadFails, Upload!Crash
<1>3. failures' \in 0 .. MaxFailures
  BY <1>1 DEF Upload!BeginFails, Upload!UploadFails, Upload!Crash, Upload!Fault
<1>4. /\ up' \in [Uploaders -> CallType] /\ \A w \in Uploaders : up'[w] \in {up[w], Upload!Idle}
      /\ handle' \in [Uploaders -> HandleType] /\ \A w \in Uploaders : handle'[w] \in {handle[w], Upload!NoHandle}
  BY <1>1, UploadEmpty DEF Upload!BeginFails, Upload!UploadFails, Upload!Crash, Upload!Goto
<1>5. ASSUME NEW own, UploadKnown(own)
      PROVE  /\ \A w \in Uploaders : up'[w] = up[w] \/ CallOf(server', unread', nextId', own, up'[w])
             /\ \A w \in Uploaders : handle'[w] = handle[w] \/ HandleOf(server', unread', nextId', own, handle'[w])
  BY <1>4, UploadEmpty
<1>6. unread \subseteq unread' /\ unread' \subseteq 1 .. Ids  BY <1>1, <1>2
<1> QED  BY <1>2, <1>3, <1>4, <1>5, <1>6, UploadMoves

\* An edit of the file between two calls.
LEMMA UploadEditFile ==
  ASSUME UploadInv, Upload!EditFile
  PROVE  UploadInv'
<1>1. /\ local' = local + 1 /\ local < Versions
      /\ UNCHANGED <<server, progress, nextId, up, handle, unread, failures>>
  BY DEF Upload!EditFile
<1>2. local' \in 1 .. Versions  BY <1>1, UploadTypesNow, UploadConstants
<1>3. Upload!TypeOK'  BY <1>1, <1>2, UploadTypesNow, UploadTypesAfter
<1>4. PICK own \in [1 .. Ids -> 1 .. Versions] : UploadKnown(own)  BY DEF UploadInv
<1>5. UploadKnown(own)'  BY <1>1, <1>4 DEF UploadKnown
<1> QED  BY <1>3, <1>4, <1>5 DEF UploadInv

\* The steps of the other subjects leave the upload alone.
LEMMA UploadIdle == UploadInv /\ UNCHANGED uploadVars => UploadInv'
<1> SUFFICES ASSUME UploadInv, UNCHANGED uploadVars PROVE UploadInv'  OBVIOUS
<1>1. UNCHANGED <<local, server, progress, nextId, up, handle, unread, failures>>  BY DEF uploadVars
<1>2. Upload!TypeOK'  BY <1>1, UploadTypesNow, UploadTypesAfter
<1>3. PICK own \in [1 .. Ids -> 1 .. Versions] : UploadKnown(own)  BY DEF UploadInv
<1>4. UploadKnown(own)'  BY <1>1, <1>3 DEF UploadKnown
<1> QED  BY <1>2, <1>3, <1>4 DEF UploadInv

\* Every step of ResumableUpload keeps the invariant.
LEMMA UploadNext == UploadInv /\ Upload!Next => UploadInv'
BY UploadResume, UploadBegin, UploadPart, UploadPiece, UploadSaveProgress, UploadEnds, UploadFinish,
   UploadClears, UploadEditFile DEF Upload!Next

\* What is known of a handle makes it name parts of one version only.
LEMMA UploadSound == UploadInv => Upload!TypeOK /\ Upload!HandleFromOneVersion
<1> SUFFICES ASSUME UploadInv, NEW u \in Uploaders, handle[u].id \notin unread \cup {0}
             PROVE  Upload!Complete(handle[u])
  BY DEF UploadInv, Upload!HandleFromOneVersion
<1>1. PICK own \in [1 .. Ids -> 1 .. Versions] : UploadKnown(own)  BY DEF UploadInv
<1>2. HandleOf(server, unread, nextId, own, handle[u])  BY <1>1 DEF UploadKnown
<1> QED  BY <1>2 DEF HandleOf, Sent, Upload!Complete, Upload!Content

-----------------------------------------------------------------------------
TaskType == [pc : {"idle", "open", "read", "save", "final", "send"}, op : {"none", "upload", "send"},
             file : Sources \cup {"none"}, store : BOOLEAN, id : 0 .. MaxIds,
             part : 0 .. 2 * Uploads!MaxParts, pos : 0 .. Uploads!MaxParts, ver : 0 .. 2]
ReceiptType == [id : 0 .. MaxIds, parts : 0 .. 2 * Uploads!MaxParts, file : Sources \cup {"none"}, ver : 0 .. 2]
ResumeType == [kind : {"none", "torn", "state", "done"}, id : 0 .. MaxIds, parts : 0 .. 2 * Uploads!MaxParts]
FilePartType == [file : Sources \cup {"none"}, ver : 0 .. 2, pos : 0 .. Uploads!MaxParts, big : BOOLEAN]
PartsType == [1 .. MaxIds -> [0 .. 2 * Uploads!MaxParts -> FilePartType]]
BatchType == [pc : {"none", "run", "ok", "error"}, of : {<<>>} \cup [Calls -> Sources]]

UploadsTypes ==
  /\ version \in [Sources -> 1 .. 2]
  /\ parts \in PartsType
  /\ resume \in [Sources -> ResumeType]
  /\ next \in 1 .. MaxIds + 1
  /\ call \in [Calls -> TaskType]
  /\ returned \in [Calls -> ReceiptType]
  /\ batch \in BatchType
  /\ spoiled \subseteq 0 .. MaxIds
  /\ errors \in 0 .. MaxErrors

\* The parts 0 .. n - 1 of upload i hold, in order, the file that it was begun
\* with, in that version.
Filled(srv, own, i, n) == \A p \in 0 .. n - 1 : srv[i][p] = Uploads!Content(own[i][1], own[i][2], p)

\* What is known of a call, a handle and a state file.
TaskOf(srv, bad, new, vs, own, x) ==
  /\ x.pc # "idle" => x.file \in Sources
  /\ x.pc \in {"idle", "open"} => x.id = 0 /\ x.part = 0 /\ x.pos = 0
  /\ x.pc \notin {"idle", "open"} =>
       /\ x.id # 0 /\ x.id < new
       /\ x.pos <= SourceParts[x.file]
       /\ x.part <= x.pos + Uploads!MaxParts
       /\ Via[x.file] # "stream" => x.part = x.pos
       /\ x.pc \in {"final", "send"} => x.pos = SourceParts[x.file]
       /\ x.id \notin bad =>
            own[x.id] = <<x.file, x.ver>> /\ x.ver = vs[x.file] /\ x.part = x.pos /\ Filled(srv, own, x.id, x.part)

ReceiptOf(srv, bad, new, own, h) ==
  h.id # 0 =>
    /\ h.id < new
    /\ h.id \notin bad =>
         own[h.id] = <<h.file, h.ver>> /\ h.parts = SourceParts[h.file] /\ Filled(srv, own, h.id, h.parts)

ResumeOf(srv, bad, new, vs, own, f, s) ==
  s.kind = "state" =>
    /\ s.id # 0 /\ s.id < new
    /\ Via[f] # "stream" => s.parts <= SourceParts[f]
    /\ s.id \notin bad => own[s.id] = <<f, vs[f]>> /\ Filled(srv, own, s.id, s.parts)

Owners == [1 .. MaxIds -> Sources \X (1 .. 2)]

UploadsKnown(own) ==
  /\ \A c \in Calls : TaskOf(parts, spoiled, next, version, own, call[c])
  /\ \A c \in Calls : ReceiptOf(parts, spoiled, next, own, returned[c])
  /\ \A f \in Sources : ResumeOf(parts, spoiled, next, version, own, f, resume[f])

\* UploadMultiple: a goroutine works on its path or has returned it.
BatchKnown ==
  /\ batch.pc = "run" => \A c \in Calls :
       /\ call[c].pc # "idle" => call[c].file = batch.of[c]
       /\ call[c].pc = "idle" => returned[c] = Uploads!NoHandle \/ returned[c].file = batch.of[c]
  /\ batch.pc = "ok" => \A c \in Calls :
       call[c].pc = "idle" /\ returned[c] # Uploads!NoHandle /\ returned[c].file = batch.of[c]

UploadsInv == UploadsTypes /\ BatchKnown /\ \E own \in Owners : UploadsKnown(own)

\* The types of the constants of uploadFile.
LEMMA UploadsConstants ==
  /\ Sources # {} /\ IsFiniteSet(Sources)
  /\ SourceParts \in [Sources -> Nat] /\ Via \in [Sources -> {"path", "seeker", "stream"}]
  /\ MaxIds \in Nat \ {0} /\ MaxErrors \in Nat
<1>1. Uploads!IsFiniteSet(Sources) => IsFiniteSet(Sources)  BY DEF IsFiniteSet, Uploads!IsFiniteSet
<1> QED  BY <1>1, TransferAssumption DEF Uploads!ParametersOK

\* No source has more than MaxParts parts.
LEMMA UploadsMaxParts ==
  /\ Uploads!MaxParts \in Nat
  /\ \A f \in Sources : SourceParts[f] \in 0 .. Uploads!MaxParts
<1> USE UploadsConstants
<1>1. \E m \in {SourceParts[f] : f \in Sources} : \A f \in Sources : SourceParts[f] <= m
  BY GreatestValue
<1>2. /\ Uploads!MaxParts \in {SourceParts[f] : f \in Sources}
      /\ \A f \in Sources : SourceParts[f] <= Uploads!MaxParts
  BY <1>1 DEF Uploads!MaxParts
<1> QED  BY <1>2

\* What is known stays known while identifiers are given out and spoiled, and
\* good parts of the other uploads are not overwritten.
LEMMA UploadsStays ==
  ASSUME NEW own, NEW srv, NEW srv2, NEW vs, NEW bad, NEW bad2, bad \subseteq bad2,
         NEW new \in Nat, NEW new2 \in Nat, new <= new2,
         \A i \in 1 .. MaxIds : i \notin bad2 => \A p \in 0 .. 2 * Uploads!MaxParts :
           srv[i][p] = Uploads!Content(own[i][1], own[i][2], p) => srv2[i][p] = Uploads!Content(own[i][1], own[i][2], p)
  PROVE  /\ \A x \in TaskType : TaskOf(srv, bad, new, vs, own, x) => TaskOf(srv2, bad2, new2, vs, own, x)
         /\ \A h \in ReceiptType : ReceiptOf(srv, bad, new, own, h) => ReceiptOf(srv2, bad2, new2, own, h)
         /\ \A f \in Sources, s \in ResumeType :
              ResumeOf(srv, bad, new, vs, own, f, s) => ResumeOf(srv2, bad2, new2, vs, own, f, s)
<1>1. \A i \in 1 .. MaxIds : \A n \in 0 .. 2 * Uploads!MaxParts :
        i \notin bad2 /\ Filled(srv, own, i, n) => Filled(srv2, own, i, n)
  <2> SUFFICES ASSUME NEW i \in 1 .. MaxIds, i \notin bad2, NEW n \in 0 .. 2 * Uploads!MaxParts,
                      Filled(srv, own, i, n), NEW p \in 0 .. n - 1
               PROVE  srv2[i][p] = Uploads!Content(own[i][1], own[i][2], p)
    BY DEF Filled
  <2>1. p \in 0 .. 2 * Uploads!MaxParts  BY UploadsMaxParts
  <2> QED  BY <2>1 DEF Filled
<1>2. \A i \in 0 .. MaxIds : i < new => i < new2  BY UploadsConstants
<1>3. ASSUME NEW x \in TaskType, TaskOf(srv, bad, new, vs, own, x)
      PROVE  TaskOf(srv2, bad2, new2, vs, own, x)
  <2>1. x.id \in 0 .. MaxIds /\ x.part \in 0 .. 2 * Uploads!MaxParts  BY DEF TaskType
  <2>2. x.id # 0 => x.id \in 1 .. MaxIds  BY <2>1
  <2> QED  BY <1>1, <1>2, <1>3, <2>1, <2>2 DEF TaskOf
<1>4. ASSUME NEW h \in ReceiptType, ReceiptOf(srv, bad, new, own, h)
      PROVE  ReceiptOf(srv2, bad2, new2, own, h)
  <2>1. h.id \in 0 .. MaxIds /\ h.parts \in 0 .. 2 * Uploads!MaxParts  BY DEF ReceiptType
  <2>2. h.id # 0 => h.id \in 1 .. MaxIds  BY <2>1
  <2> QED  BY <1>1, <1>2, <1>4, <2>1, <2>2 DEF ReceiptOf
<1>5. ASSUME NEW f \in Sources, NEW s \in ResumeType, ResumeOf(srv, bad, new, vs, own, f, s)
      PROVE  ResumeOf(srv2, bad2, new2, vs, own, f, s)
  <2>1. s.id \in 0 .. MaxIds /\ s.parts \in 0 .. 2 * Uploads!MaxParts  BY DEF ResumeType
  <2>2. s.id # 0 => s.id \in 1 .. MaxIds  BY <2>1
  <2> QED  BY <1>1, <1>2, <1>5, <2>1, <2>2 DEF ResumeOf
<1> QED  BY <1>3, <1>4, <1>5

\* A call that has not begun, no handle and no state claim nothing.
LEMMA UploadsEmpty ==
  /\ Uploads!Idle \in TaskType /\ Uploads!NoHandle \in ReceiptType /\ Uploads!NoState \in ResumeType
  /\ \A srv, bad, new, vs, own :
       /\ TaskOf(srv, bad, new, vs, own, Uploads!Idle)
       /\ ReceiptOf(srv, bad, new, own, Uploads!NoHandle)
       /\ \A f : ResumeOf(srv, bad, new, vs, own, f, Uploads!NoState)
<1>1. /\ 0 \in 0 .. MaxIds /\ 0 \in 0 .. 2 * Uploads!MaxParts /\ 0 \in 0 .. Uploads!MaxParts /\ 0 \in 0 .. 2
      /\ "none" \in Sources \cup {"none"}
  BY UploadsConstants, UploadsMaxParts
<1>2. Uploads!Idle \in TaskType  BY <1>1 DEF Uploads!Idle, TaskType
<1>3. Uploads!NoHandle \in ReceiptType  BY <1>1 DEF Uploads!NoHandle, ReceiptType
<1>4. Uploads!NoState \in ResumeType  BY <1>1 DEF Uploads!NoState, ResumeType
<1>5. \A srv, bad, new, vs, own :
       /\ TaskOf(srv, bad, new, vs, own, Uploads!Idle)
       /\ ReceiptOf(srv, bad, new, own, Uploads!NoHandle)
       /\ \A f : ResumeOf(srv, bad, new, vs, own, f, Uploads!NoState)
  BY DEF TaskOf, ReceiptOf, ResumeOf, Uploads!Idle, Uploads!NoHandle, Uploads!NoState
<1> QED  BY <1>2, <1>3, <1>4, <1>5

\* The invariant of uploadFile holds at first, for any owners.
LEMMA UploadsInit == Uploads!Init => UploadsInv
<1> SUFFICES ASSUME Uploads!Init PROVE UploadsInv  OBVIOUS
<1> USE UploadsConstants, UploadsMaxParts, UploadsEmpty
<1>1. /\ version = [f \in Sources |-> 1] /\ next = 1 /\ batch = Uploads!NoBatch /\ spoiled = {} /\ errors = 0
      /\ call = [c \in Calls |-> Uploads!Idle] /\ returned = [c \in Calls |-> Uploads!NoHandle]
      /\ resume = [f \in Sources |-> Uploads!NoState]
      /\ parts = [i \in 1 .. MaxIds |-> [p \in 0 .. 2 * Uploads!MaxParts |-> Uploads!Nothing]]
  BY DEF Uploads!Init
<1>2. parts \in PartsType
  <2>1. Uploads!Nothing \in FilePartType  BY DEF Uploads!Nothing, FilePartType
  <2> QED  BY <1>1, <2>1 DEF PartsType
<1>3. batch \in BatchType  BY <1>1 DEF Uploads!NoBatch, BatchType
<1>4. UploadsTypes  BY <1>1, <1>2, <1>3 DEF UploadsTypes
<1>5. BatchKnown  BY <1>1 DEF BatchKnown, Uploads!NoBatch
<1>6. PICK f \in Sources : TRUE  OBVIOUS
<1>7. [i \in 1 .. MaxIds |-> <<f, 1>>] \in Owners  BY DEF Owners
<1>8. UploadsKnown([i \in 1 .. MaxIds |-> <<f, 1>>])  BY <1>1 DEF UploadsKnown
<1> QED  BY <1>4, <1>5, <1>7, <1>8 DEF UploadsInv

\* Good parts of uploads that are not spoiled are not overwritten.
Preserves(own) ==
  \A i \in 1 .. MaxIds : i \notin spoiled' => \A p \in 0 .. 2 * Uploads!MaxParts :
    parts[i][p] = Uploads!Content(own[i][1], own[i][2], p) => parts'[i][p] = Uploads!Content(own[i][1], own[i][2], p)

\* A step keeps what is known when it keeps good parts and what it changes is known.
LEMMA UploadsStep ==
  ASSUME NEW own, UploadsTypes, UploadsKnown(own), Preserves(own), version' = version,
         spoiled \subseteq spoiled', next' \in Nat, next <= next',
         \A c \in Calls : call'[c] = call[c] \/ TaskOf(parts', spoiled', next', version', own, call'[c]),
         \A c \in Calls : returned'[c] = returned[c] \/ ReceiptOf(parts', spoiled', next', own, returned'[c]),
         \A f \in Sources : resume'[f] = resume[f] \/ ResumeOf(parts', spoiled', next', version', own, f, resume'[f])
  PROVE  UploadsKnown(own)'
<1>1. /\ call \in [Calls -> TaskType] /\ returned \in [Calls -> ReceiptType]
      /\ resume \in [Sources -> ResumeType] /\ next \in Nat
  BY UploadsConstants DEF UploadsTypes
<1>2. /\ \A x \in TaskType : TaskOf(parts, spoiled, next, version, own, x)
                               => TaskOf(parts', spoiled', next', version, own, x)
      /\ \A h \in ReceiptType : ReceiptOf(parts, spoiled, next, own, h) => ReceiptOf(parts', spoiled', next', own, h)
      /\ \A f \in Sources, s \in ResumeType : ResumeOf(parts, spoiled, next, version, own, f, s)
                               => ResumeOf(parts', spoiled', next', version, own, f, s)
  BY <1>1, UploadsStays DEF Preserves
<1>3. \A c \in Calls : TaskOf(parts', spoiled', next', version', own, call'[c])
  BY <1>1, <1>2 DEF UploadsKnown
<1>4. \A c \in Calls : ReceiptOf(parts', spoiled', next', own, returned'[c])
  BY <1>1, <1>2 DEF UploadsKnown
<1>5. \A f \in Sources : ResumeOf(parts', spoiled', next', version', own, f, resume'[f])
  BY <1>1, <1>2 DEF UploadsKnown
<1> QED  BY <1>3, <1>4, <1>5 DEF UploadsKnown

\* One call goes on with its file, or ends with nothing or a handle for that file.
LEMMA BatchStays ==
  ASSUME UploadsTypes, BatchKnown, NEW c \in Calls, call[c].pc # "idle", batch' = batch,
         NEW x, call' = [call EXCEPT ![c] = x],
         \/ x.pc # "idle" /\ x.file = call[c].file /\ returned' = returned
         \/ /\ x = Uploads!Idle
            /\ \E h : /\ returned' = [returned EXCEPT ![c] = h]
                      /\ h = Uploads!NoHandle \/ h.file = call[c].file
  PROVE  BatchKnown'
<1>1. call \in [Calls -> TaskType] /\ returned \in [Calls -> ReceiptType]  BY DEF UploadsTypes
<1>2. batch.pc # "ok"  BY DEF BatchKnown
<1>3. ASSUME batch.pc = "run", NEW d \in Calls
      PROVE  /\ call'[d].pc # "idle" => call'[d].file = batch.of[d]
             /\ call'[d].pc = "idle" => returned'[d] = Uploads!NoHandle \/ returned'[d].file = batch.of[d]
  <2>1. CASE d # c
    <3>1. call'[d] = call[d] /\ returned'[d] = returned[d]  BY <1>1, <2>1
    <3> QED  BY <1>3, <3>1 DEF BatchKnown
  <2>2. CASE d = c
    <3>1. call[c].file = batch.of[c]  BY <1>3 DEF BatchKnown
    <3>2. call'[c] = x  BY <1>1
    <3>3. CASE x.pc # "idle" /\ x.file = call[c].file  BY <2>2, <3>1, <3>2, <3>3
    <3>4. CASE x = Uploads!Idle /\ \E h : /\ returned' = [returned EXCEPT ![c] = h]
                                          /\ h = Uploads!NoHandle \/ h.file = call[c].file
      <4>1. x.pc = "idle"  BY <3>4 DEF Uploads!Idle
      <4>2. returned'[c] = Uploads!NoHandle \/ returned'[c].file = call[c].file  BY <1>1, <3>4
      <4> QED  BY <2>2, <3>1, <3>2, <4>1, <4>2
    <3> QED  BY <3>3, <3>4
  <2> QED  BY <2>1, <2>2
<1> QED  BY <1>2, <1>3 DEF BatchKnown

\* The types of the variables.
LEMMA UploadsTypesNow ==
  ASSUME UploadsInv
  PROVE  /\ UploadsTypes /\ BatchKnown
         /\ next \in Nat /\ next <= MaxIds + 1
         /\ call \in [Calls -> TaskType] /\ returned \in [Calls -> ReceiptType]
         /\ resume \in [Sources -> ResumeType] /\ version \in [Sources -> 1 .. 2]
BY UploadsConstants DEF UploadsInv, UploadsTypes

\* One call goes on, or ends.
LEMMA UploadsTurn ==
  ASSUME UploadsInv, NEW c \in Calls, call[c].pc # "idle", UNCHANGED <<version, batch>>,
         parts' \in PartsType, resume' \in [Sources -> ResumeType], next' \in 1 .. MaxIds + 1, next <= next',
         spoiled \subseteq spoiled', spoiled' \subseteq 0 .. MaxIds, errors' \in 0 .. MaxErrors,
         NEW x \in TaskType, call' = [call EXCEPT ![c] = x],
         \/ x.pc # "idle" /\ x.file = call[c].file /\ returned' = returned
         \/ /\ x = Uploads!Idle
            /\ \E h \in ReceiptType : /\ returned' = [returned EXCEPT ![c] = h]
                                      /\ h = Uploads!NoHandle \/ h.file = call[c].file,
         \E own \in Owners :
           /\ UploadsKnown(own) /\ Preserves(own)
           /\ TaskOf(parts', spoiled', next', version', own, x)
           /\ \A d \in Calls : returned'[d] = returned[d] \/ ReceiptOf(parts', spoiled', next', own, returned'[d])
           /\ \A f \in Sources : resume'[f] = resume[f] \/ ResumeOf(parts', spoiled', next', version', own, f, resume'[f])
  PROVE  UploadsInv'
<1>1. UploadsTypes /\ BatchKnown /\ call \in [Calls -> TaskType] /\ returned \in [Calls -> ReceiptType]
  BY UploadsTypesNow
<1>2. UploadsTypes'
  <2>1. call' \in [Calls -> TaskType] /\ returned' \in [Calls -> ReceiptType]  BY <1>1
  <2> QED  BY <1>1, <2>1 DEF UploadsTypes, TaskType, ReceiptType, ResumeType, PartsType, FilePartType, BatchType
<1>3. BatchKnown'  BY <1>1, BatchStays
<1>4. PICK own \in Owners :
           /\ UploadsKnown(own) /\ Preserves(own)
           /\ TaskOf(parts', spoiled', next', version', own, x)
           /\ \A d \in Calls : returned'[d] = returned[d] \/ ReceiptOf(parts', spoiled', next', own, returned'[d])
           /\ \A f \in Sources : resume'[f] = resume[f] \/ ResumeOf(parts', spoiled', next', version', own, f, resume'[f])
  OBVIOUS
<1>5. UploadsKnown(own)'
  <2>1. \A d \in Calls : call'[d] = call[d] \/ TaskOf(parts', spoiled', next', version', own, call'[d])
    BY <1>1, <1>4
  <2>2. next' \in Nat /\ version' = version  BY UploadsConstants
  <2> QED  BY <1>1, <1>4, <2>1, <2>2, UploadsStep
<1> QED  BY <1>2, <1>3, <1>4, <1>5 DEF UploadsInv, Owners

\* A call begins with no identifier.
LEMMA UploadsBegin ==
  ASSUME UploadsInv, NEW c \in Calls, NEW op \in {"upload", "send"}, NEW f \in Sources, NEW store \in BOOLEAN,
         Uploads!Begin(c, op, f, store)
  PROVE  UploadsInv'
<1> DEFINE x == [Uploads!Idle EXCEPT !.op = op, !.file = f, !.store = store, !.pc = "open"]
<1>1. /\ batch' = Uploads!NoBatch
      /\ call' = [call EXCEPT ![c] = x] /\ returned' = [returned EXCEPT ![c] = Uploads!NoHandle]
      /\ UNCHANGED <<version, parts, resume, next, spoiled, errors>>
  BY DEF Uploads!Begin, Uploads!Goto
<1>2. x \in TaskType  BY UploadsEmpty DEF TaskType
<1>3. x.pc = "open" /\ x.file = f /\ x.id = 0 /\ x.part = 0 /\ x.pos = 0  BY DEF Uploads!Idle
<1> HIDE DEF x
<1>4. call' \in [Calls -> TaskType] /\ returned' \in [Calls -> ReceiptType]
  BY <1>1, <1>2, UploadsTypesNow, UploadsEmpty
<1>5. batch' \in BatchType /\ BatchKnown'  BY <1>1 DEF BatchType, Uploads!NoBatch, BatchKnown
<1>6. UploadsTypes'
  BY <1>1, <1>4, <1>5, UploadsTypesNow DEF UploadsTypes, TaskType, ReceiptType, ResumeType, PartsType, FilePartType
<1>7. PICK own \in Owners : UploadsKnown(own)  BY DEF UploadsInv
<1>8. UploadsKnown(own)'
  <2>1. TaskOf(parts', spoiled', next', version', own, x)  BY <1>3 DEF TaskOf
  <2>2. \A d \in Calls : call'[d] = call[d] \/ TaskOf(parts', spoiled', next', version', own, call'[d])
    BY <1>1, <2>1, UploadsTypesNow
  <2>3. \A d \in Calls : returned'[d] = returned[d] \/ ReceiptOf(parts', spoiled', next', own, returned'[d])
    BY <1>1, UploadsTypesNow, UploadsEmpty
  <2>4. Preserves(own) /\ next' \in Nat /\ next <= next'  BY <1>1, UploadsTypesNow DEF Preserves
  <2> QED  BY <1>1, <1>7, <2>2, <2>3, <2>4, UploadsStep, UploadsTypesNow
<1> QED  BY <1>5, <1>6, <1>7, <1>8 DEF UploadsInv, Owners

\* Every goroutine of UploadMultiple begins with its path.
LEMMA UploadsMultiple ==
  ASSUME UploadsInv, NEW of \in [Calls -> Sources], Uploads!UploadMultiple(of)
  PROVE  UploadsInv'
<1> DEFINE x(c) == [Uploads!Idle EXCEPT !.op = "upload", !.file = of[c], !.pc = "open"]
<1>1. /\ batch' = [pc |-> "run", of |-> of]
      /\ call' = [c \in Calls |-> x(c)] /\ returned' = [c \in Calls |-> Uploads!NoHandle]
      /\ UNCHANGED <<version, parts, resume, next, spoiled, errors>>
  BY DEF Uploads!UploadMultiple
<1>2. \A c \in Calls : x(c) \in TaskType  BY UploadsEmpty DEF TaskType
<1>3. \A c \in Calls : x(c).pc = "open" /\ x(c).file = of[c] /\ x(c).id = 0 /\ x(c).part = 0 /\ x(c).pos = 0
  BY DEF Uploads!Idle
<1> HIDE DEF x
<1>4. call' \in [Calls -> TaskType] /\ returned' \in [Calls -> ReceiptType]
  BY <1>1, <1>2, UploadsEmpty
<1>5. batch' \in BatchType  BY <1>1 DEF BatchType
<1>6. BatchKnown'
  <2>1. batch'.pc = "run" /\ batch'.of = of  BY <1>1
  <2>2. \A c \in Calls : call'[c].pc = "open" /\ call'[c].file = of[c]  BY <1>1, <1>3
  <2> QED  BY <2>1, <2>2 DEF BatchKnown
<1>7. UploadsTypes'
  BY <1>1, <1>4, <1>5, UploadsTypesNow DEF UploadsTypes, TaskType, ReceiptType, ResumeType, PartsType, FilePartType
<1>8. PICK own \in Owners : UploadsKnown(own)  BY DEF UploadsInv
<1>9. UploadsKnown(own)'
  <2>1. \A d \in Calls : TaskOf(parts', spoiled', next', version', own, x(d))  BY <1>3 DEF TaskOf
  <2>2. \A d \in Calls : call'[d] = call[d] \/ TaskOf(parts', spoiled', next', version', own, call'[d])
    BY <1>1, <2>1
  <2>3. \A d \in Calls : returned'[d] = returned[d] \/ ReceiptOf(parts', spoiled', next', own, returned'[d])
    BY <1>1, UploadsEmpty
  <2>4. Preserves(own) /\ next' \in Nat /\ next <= next'  BY <1>1, UploadsTypesNow DEF Preserves
  <2> QED  BY <1>1, <1>8, <2>2, <2>3, <2>4, UploadsStep, UploadsTypesNow
<1> QED  BY <1>6, <1>7, <1>8, <1>9 DEF UploadsInv, Owners

\* UploadMultiple returns when each goroutine has ended, without an error if all
\* have returned a handle.
LEMMA UploadsMultipleReturn ==
  ASSUME UploadsInv, Uploads!MultipleReturn
  PROVE  UploadsInv'
<1> DEFINE goto == IF \E c \in Calls : returned[c] = Uploads!NoHandle THEN "error" ELSE "ok"
<1>1. /\ batch.pc = "run" /\ \A c \in Calls : call[c].pc = "idle"
      /\ batch' = [batch EXCEPT !.pc = goto]
      /\ UNCHANGED <<version, parts, resume, next, call, returned, spoiled, errors>>
  BY DEF Uploads!MultipleReturn
<1>2. batch \in BatchType  BY UploadsTypesNow DEF UploadsTypes
<1>3. goto \in {"error", "ok"} /\ (goto = "ok" => \A c \in Calls : returned[c] # Uploads!NoHandle)  OBVIOUS
<1> HIDE DEF goto
<1>4. batch' \in BatchType /\ batch'.pc = goto /\ batch'.of = batch.of  BY <1>1, <1>2, <1>3 DEF BatchType
<1>5. BatchKnown'  BY <1>1, <1>3, <1>4, UploadsTypesNow DEF BatchKnown
<1>6. UploadsTypes'
  BY <1>1, <1>4, UploadsTypesNow DEF UploadsTypes, TaskType, ReceiptType, ResumeType, PartsType, FilePartType
<1>7. PICK own \in Owners : UploadsKnown(own)  BY DEF UploadsInv
<1>8. UploadsKnown(own)'  BY <1>1, <1>7 DEF UploadsKnown
<1> QED  BY <1>5, <1>6, <1>7, <1>8 DEF UploadsInv, Owners

\* A call behind its opening.
LEMMA TaskFacts ==
  ASSUME NEW srv, NEW bad, NEW new \in Nat, NEW vs, NEW own, NEW x \in TaskType, new <= MaxIds + 1,
         TaskOf(srv, bad, new, vs, own, x), x.pc \notin {"idle", "open"}
  PROVE  /\ x.file \in Sources /\ x.id \in 1 .. MaxIds
         /\ x.pos \in Nat /\ x.part \in Nat /\ SourceParts[x.file] \in Nat
         /\ x.pos <= SourceParts[x.file] /\ x.pos <= Uploads!MaxParts
         /\ x.part <= x.pos + Uploads!MaxParts /\ Uploads!MaxParts \in Nat
<1>1. x.id \in 0 .. MaxIds /\ x.part \in 0 .. 2 * Uploads!MaxParts /\ x.pos \in 0 .. Uploads!MaxParts
  BY DEF TaskType
<1>2. x.file \in Sources /\ x.id # 0 /\ x.pos <= SourceParts[x.file] /\ x.part <= x.pos + Uploads!MaxParts
  BY DEF TaskOf
<1>3. SourceParts[x.file] \in Nat /\ Uploads!MaxParts \in Nat  BY <1>2, UploadsMaxParts, UploadsConstants
<1>4. x.id \in 1 .. MaxIds /\ x.pos \in Nat /\ x.part \in Nat /\ x.pos <= Uploads!MaxParts
  BY <1>1, <1>2, <1>3, UploadsConstants
<1> QED  BY <1>2, <1>3, <1>4

\* A call that resumes goes on behind the parts counted in the state file, or
\* with the head of a stream, which spoils the upload.
LEMMA UploadsResume ==
  ASSUME UploadsInv, NEW c \in Calls, Uploads!Resume(c)
  PROVE  UploadsInv'
<1> DEFINE x == call[c]
           f == call[c].file
           s == resume[f]
           y == [x EXCEPT !.pc = "read", !.id = s.id, !.part = s.parts, !.ver = version[f],
                          !.pos = IF Via[f] = "stream" THEN 0 ELSE s.parts]
<1>1. PICK own \in Owners : UploadsKnown(own)  BY DEF UploadsInv
<1>2. /\ x.pc = "open" /\ s.kind = "state"
      /\ Via[f] = "stream" => s.parts <= Uploads!MaxParts
      /\ call' = [call EXCEPT ![c] = y]
      /\ spoiled' = IF Via[f] = "stream" /\ s.parts > 0 THEN spoiled \cup {s.id} ELSE spoiled
      /\ UNCHANGED <<version, parts, resume, next, returned, batch, errors>>
  BY DEF Uploads!Resume, Uploads!Resumable, Uploads!Goto
<1>3. TaskOf(parts, spoiled, next, version, own, x)  BY <1>1 DEF UploadsKnown
<1>4. f \in Sources  BY <1>2, <1>3 DEF TaskOf
<1>5. ResumeOf(parts, spoiled, next, version, own, f, s)  BY <1>1, <1>4 DEF UploadsKnown
<1>6. x \in TaskType /\ s \in ResumeType /\ version[f] \in 1 .. 2  BY <1>4, UploadsTypesNow
<1>7. /\ s.id \in 0 .. MaxIds /\ s.parts \in 0 .. 2 * Uploads!MaxParts /\ s.parts \in Nat
      /\ s.parts <= Uploads!MaxParts /\ Uploads!MaxParts \in Nat
      /\ SourceParts[f] \in Nat /\ SourceParts[f] <= Uploads!MaxParts
      /\ Via[f] # "stream" => s.parts <= SourceParts[f]
  <2>1. /\ s.id \in 0 .. MaxIds /\ s.parts \in 0 .. 2 * Uploads!MaxParts  BY <1>6 DEF ResumeType
  <2>2. Via[f] # "stream" => s.parts <= SourceParts[f]  BY <1>2, <1>5 DEF ResumeOf
  <2>3. SourceParts[f] \in 0 .. Uploads!MaxParts /\ Uploads!MaxParts \in Nat  BY <1>4, UploadsMaxParts
  <2> DEFINE m == s.parts
             b == SourceParts[f]
  <2>4. m \in 0 .. 2 * Uploads!MaxParts /\ b \in 0 .. Uploads!MaxParts /\ (m <= b \/ m <= Uploads!MaxParts)
    BY <1>2, <2>1, <2>2, <2>3
  <2> HIDE DEF m, b
  <2>5. m \in Nat /\ m <= Uploads!MaxParts /\ b \in Nat /\ b <= Uploads!MaxParts  BY <2>3, <2>4
  <2> QED  BY <2>1, <2>2, <2>3, <2>5 DEF m, b
<1> DEFINE pos == IF Via[f] = "stream" THEN 0 ELSE s.parts
<1>8. pos \in 0 .. Uploads!MaxParts /\ pos <= SourceParts[f] /\ s.parts <= pos + Uploads!MaxParts
  <2>1. CASE Via[f] = "stream"  BY <1>7, <2>1
  <2>2. CASE Via[f] # "stream"  BY <1>7, <2>2
  <2> QED  BY <2>1, <2>2
<1>9. y \in TaskType
  <2>1. version[f] \in 0 .. 2  BY <1>6
  <2> HIDE DEF f, s, pos
  <2> QED  BY <1>6, <1>7, <1>8, <2>1 DEF TaskType, pos
<1>10. /\ y.pc = "read" /\ y.file = f /\ y.id = s.id /\ y.part = s.parts /\ y.ver = version[f] /\ y.pos = pos
  BY <1>6 DEF TaskType
<1> HIDE DEF y
<1>11. TaskOf(parts', spoiled', next', version', own, y)
  <2>1. s.id # 0 /\ s.id < next  BY <1>2, <1>5 DEF ResumeOf
  <2>2. Via[f] # "stream" => y.part = y.pos  BY <1>10
  <2>3. ASSUME s.id \notin spoiled'
        PROVE  own[y.id] = <<y.file, y.ver>> /\ y.part = y.pos /\ Filled(parts, own, y.id, y.part)
    <3>1. own[s.id] = <<f, version[f]>> /\ Filled(parts, own, s.id, s.parts)
      BY <1>2, <1>5, <2>3 DEF ResumeOf
    <3>2. Via[f] = "stream" => s.parts = 0
      <4>1. Via[f] = "stream" => ~ (s.parts > 0)  BY <1>2, <2>3
      <4> QED  BY <1>7, <4>1
    <3> QED  BY <1>10, <3>1, <3>2
  <2> HIDE DEF x, s, f, pos
  <2> QED  BY <1>2, <1>4, <1>8, <1>10, <2>1, <2>2, <2>3 DEF TaskOf
<1>12. spoiled \subseteq spoiled' /\ spoiled' \subseteq 0 .. MaxIds
  BY <1>2, <1>7, UploadsTypesNow DEF UploadsTypes
<1>13. Preserves(own)  BY <1>2 DEF Preserves
<1>14. parts' \in PartsType /\ resume' \in [Sources -> ResumeType] /\ next' \in 1 .. MaxIds + 1 /\ next <= next'
       /\ errors' \in 0 .. MaxErrors
  BY <1>2, UploadsTypesNow DEF UploadsTypes
<1> QED  BY <1>1, <1>2, <1>9, <1>10, <1>11, <1>12, <1>13, <1>14, UploadsTurn

\* Only the owners of identifiers that have been given out matter.
LEMMA UploadsOwners ==
  ASSUME UploadsTypes, NEW own, NEW own2, UploadsKnown(own), \A i \in 1 .. MaxIds : i < next => own2[i] = own[i]
  PROVE  UploadsKnown(own2)
<1>1. /\ call \in [Calls -> TaskType] /\ returned \in [Calls -> ReceiptType] /\ resume \in [Sources -> ResumeType]
  BY DEF UploadsTypes
<1>2. \A i \in 1 .. MaxIds : i < next => \A n : Filled(parts, own, i, n) => Filled(parts, own2, i, n)
  BY DEF Filled
<1>3. \A i \in 0 .. MaxIds : i # 0 => i \in 1 .. MaxIds  BY UploadsConstants
<1>4. ASSUME NEW c \in Calls PROVE TaskOf(parts, spoiled, next, version, own2, call[c])
  <2>1. call[c].id \in 0 .. MaxIds  BY <1>1 DEF TaskType
  <2> QED  BY <1>2, <1>3, <2>1 DEF UploadsKnown, TaskOf
<1>5. ASSUME NEW c \in Calls PROVE ReceiptOf(parts, spoiled, next, own2, returned[c])
  <2>1. returned[c].id \in 0 .. MaxIds  BY <1>1 DEF ReceiptType
  <2> QED  BY <1>2, <1>3, <2>1 DEF UploadsKnown, ReceiptOf
<1>6. ASSUME NEW f \in Sources PROVE ResumeOf(parts, spoiled, next, version, own2, f, resume[f])
  <2>1. resume[f].id \in 0 .. MaxIds  BY <1>1 DEF ResumeType
  <2> QED  BY <1>2, <1>3, <2>1 DEF UploadsKnown, ResumeOf
<1> QED  BY <1>4, <1>5, <1>6 DEF UploadsKnown

\* A new identifier is owned by the file and the version that the call opens.
LEMMA UploadsStart ==
  ASSUME UploadsInv, NEW c \in Calls, Uploads!Start(c)
  PROVE  UploadsInv'
<1> DEFINE x == call[c]
           f == call[c].file
           y == [x EXCEPT !.pc = "read", !.id = next, !.ver = version[f]]
<1>1. PICK own \in Owners : UploadsKnown(own)  BY DEF UploadsInv
<1>2. /\ x.pc = "open" /\ next <= MaxIds /\ next' = next + 1
      /\ call' = [call EXCEPT ![c] = y]
      /\ UNCHANGED <<version, parts, resume, returned, batch, spoiled, errors>>
  BY DEF Uploads!Start, Uploads!Goto
<1>3. TaskOf(parts, spoiled, next, version, own, x)  BY <1>1 DEF UploadsKnown
<1>4. f \in Sources /\ x.part = 0 /\ x.pos = 0  BY <1>2, <1>3 DEF TaskOf
<1>5. /\ x \in TaskType /\ version[f] \in 1 .. 2 /\ next \in 1 .. MaxIds /\ next' \in 1 .. MaxIds + 1
      /\ next <= next' /\ next < next' /\ next # 0
  BY <1>2, <1>4, UploadsTypesNow, UploadsConstants DEF UploadsTypes
<1>6. y \in TaskType
  <2>1. version[f] \in 0 .. 2 /\ next \in 0 .. MaxIds  BY <1>5, UploadsConstants
  <2> HIDE DEF f
  <2> QED  BY <1>5, <2>1 DEF TaskType
<1>7. /\ y.pc = "read" /\ y.file = f /\ y.id = next /\ y.part = 0 /\ y.ver = version[f] /\ y.pos = 0
  BY <1>4, <1>5 DEF TaskType
<1> HIDE DEF y
<1>8. PICK own2 \in Owners : own2[next] = <<f, version[f]>> /\ \A i \in 1 .. MaxIds : i < next => own2[i] = own[i]
  <2> DEFINE o == [own EXCEPT ![next] = <<f, version[f]>>]
  <2>1. o \in Owners /\ o[next] = <<f, version[f]>>  BY <1>4, <1>5 DEF Owners
  <2>2. \A i \in 1 .. MaxIds : i < next => o[i] = own[i]  BY <1>5 DEF Owners
  <2> QED  BY <2>1, <2>2
<1>9. UploadsKnown(own2)  BY <1>1, <1>8, UploadsOwners, UploadsTypesNow
<1>10. TaskOf(parts', spoiled', next', version', own2, y)
  <2>1. Filled(parts', own2, next, 0)  BY DEF Filled
  <2>2. 0 <= SourceParts[f] /\ 0 <= 0 + Uploads!MaxParts
    BY <1>4, UploadsMaxParts, UploadsConstants
  <2> HIDE DEF f
  <2> QED  BY <1>2, <1>4, <1>5, <1>7, <1>8, <2>1, <2>2 DEF TaskOf
<1>11. Preserves(own2)  BY <1>2 DEF Preserves
<1>12. parts' \in PartsType /\ resume' \in [Sources -> ResumeType]
       /\ errors' \in 0 .. MaxErrors /\ spoiled \subseteq spoiled' /\ spoiled' \subseteq 0 .. MaxIds
  BY <1>2, UploadsTypesNow DEF UploadsTypes
<1> QED  BY <1>2, <1>5, <1>6, <1>7, <1>9, <1>10, <1>11, <1>12, UploadsTurn

\* Steps in which a call ends, with nothing or with a handle.
LEMMA UploadsReturns ==
  ASSUME UploadsInv, NEW c \in Calls, call[c].pc # "idle",
         UNCHANGED <<version, parts, next, batch, spoiled>>,
         resume' \in [Sources -> ResumeType], errors' \in 0 .. MaxErrors,
         NEW h, Uploads!Return(c, h),
         h = Uploads!NoHandle \/ (h = Uploads!Handle(call[c]) /\ call[c].pc \in {"final", "send"}),
         \A own \in Owners : UploadsKnown(own) =>
           \A f \in Sources : resume'[f] = resume[f] \/ ResumeOf(parts', spoiled', next', version', own, f, resume'[f])
  PROVE  UploadsInv'
<1> DEFINE x == call[c]
<1>1. PICK own \in Owners : UploadsKnown(own)  BY DEF UploadsInv
<1>2. TaskOf(parts, spoiled, next, version, own, x)  BY <1>1 DEF UploadsKnown
<1>3. x \in TaskType  BY UploadsTypesNow
<1>4. Uploads!Handle(x) \in ReceiptType  BY <1>3 DEF Uploads!Handle, TaskType, ReceiptType
<1>5. x.pc \in {"final", "send"} => ReceiptOf(parts, spoiled, next, own, Uploads!Handle(x))
  <2>1. /\ Uploads!Handle(x).id = x.id /\ Uploads!Handle(x).parts = x.part
        /\ Uploads!Handle(x).file = x.file /\ Uploads!Handle(x).ver = x.ver
    BY DEF Uploads!Handle
  <2> QED  BY <1>2, <2>1 DEF TaskOf, ReceiptOf
<1>6. h \in ReceiptType /\ ReceiptOf(parts, spoiled, next, own, h) /\ (h = Uploads!NoHandle \/ h.file = x.file)
  <2>1. CASE h = Uploads!NoHandle  BY <2>1, UploadsEmpty
  <2>2. CASE h = Uploads!Handle(x) /\ x.pc \in {"final", "send"}
    BY <1>4, <1>5, <2>2 DEF Uploads!Handle
  <2> QED  BY <2>1, <2>2
<1>7. call' = [call EXCEPT ![c] = Uploads!Idle] /\ returned' = [returned EXCEPT ![c] = h]
  BY DEF Uploads!Return, Uploads!Goto
<1>8. \A d \in Calls : returned'[d] = returned[d] \/ ReceiptOf(parts', spoiled', next', own, returned'[d])
  BY <1>6, <1>7, UploadsTypesNow
<1>9. Preserves(own)  BY DEF Preserves
<1>10. parts' \in PartsType /\ next' \in 1 .. MaxIds + 1 /\ next <= next'
       /\ spoiled \subseteq spoiled' /\ spoiled' \subseteq 0 .. MaxIds
  BY UploadsTypesNow DEF UploadsTypes
<1>11. Uploads!Idle \in TaskType /\ TaskOf(parts', spoiled', next', version', own, Uploads!Idle)
  BY UploadsEmpty
<1> QED  BY <1>1, <1>6, <1>7, <1>8, <1>9, <1>10, <1>11, UploadsTurn

\* A call that fails returns no handle.
LEMMA UploadsFails ==
  ASSUME UploadsInv, NEW c \in Calls, Uploads!Fails(c)
  PROVE  UploadsInv'
<1>1. /\ call[c].pc # "idle" /\ Uploads!Return(c, Uploads!NoHandle)
      /\ UNCHANGED <<version, parts, resume, next, batch, spoiled, errors>>
  BY DEF Uploads!Fails
<1>2. resume' \in [Sources -> ResumeType] /\ errors' \in 0 .. MaxErrors
  BY <1>1, UploadsTypesNow DEF UploadsTypes
<1> QED  BY <1>1, <1>2, UploadsReturns

\* A handle that is sent is returned, or its answer is lost.
LEMMA UploadsSend ==
  ASSUME UploadsInv, NEW c \in Calls, Uploads!Send(c)
  PROVE  UploadsInv'
<1>1. /\ call[c].pc = "send"
      /\ UNCHANGED <<version, parts, resume, next, batch, spoiled, errors>>
  BY DEF Uploads!Send
<1>2. PICK h \in {Uploads!Handle(call[c]), Uploads!NoHandle} : Uploads!Return(c, h)  BY DEF Uploads!Send
<1>3. resume' \in [Sources -> ResumeType] /\ errors' \in 0 .. MaxErrors
  BY <1>1, UploadsTypesNow DEF UploadsTypes
<1> QED  BY <1>1, <1>2, <1>3, UploadsReturns

\* A part goes to the place it counts, which is where it was read from unless the
\* upload is spoiled.
LEMMA UploadsPart ==
  ASSUME UploadsInv, NEW c \in Calls, Uploads!UploadPart(c)
  PROVE  UploadsInv'
<1> DEFINE x == call[c]
           goto == IF x.store THEN "save" ELSE IF x.pos + 1 = SourceParts[x.file] /\ x.file \in ShortSources
                                             THEN "final" ELSE "read"
           y == [x EXCEPT !.part = @ + 1, !.pos = @ + 1, !.pc = goto]
           data == Uploads!Content(x.file, x.ver, x.pos)
<1>1. PICK own \in Owners : UploadsKnown(own)  BY DEF UploadsInv
<1>2. /\ x.pc = "read" /\ x.pos < SourceParts[x.file]
      /\ parts' = [parts EXCEPT ![x.id][x.part] = data]
      /\ call' = [call EXCEPT ![c] = y]
      /\ UNCHANGED <<version, resume, next, returned, batch, spoiled, errors>>
  BY DEF Uploads!UploadPart, Uploads!Goto
<1>3. TaskOf(parts, spoiled, next, version, own, x)  BY <1>1 DEF UploadsKnown
<1>4. /\ x \in TaskType /\ parts \in PartsType /\ next \in Nat /\ next <= MaxIds + 1
  BY UploadsTypesNow DEF UploadsTypes
<1>5. /\ x.file \in Sources /\ x.id \in 1 .. MaxIds
      /\ x.pos \in Nat /\ x.part \in Nat /\ SourceParts[x.file] \in Nat
      /\ x.part <= x.pos + Uploads!MaxParts /\ Uploads!MaxParts \in Nat
      /\ SourceParts[x.file] <= Uploads!MaxParts
  <2>1. x.file \in Sources /\ x.id \in 1 .. MaxIds
        /\ x.pos \in Nat /\ x.part \in Nat /\ SourceParts[x.file] \in Nat
        /\ x.part <= x.pos + Uploads!MaxParts /\ Uploads!MaxParts \in Nat
    BY <1>2, <1>3, <1>4, TaskFacts
  <2> QED  BY <2>1, UploadsMaxParts
<1>6. /\ x.part \in 0 .. 2 * Uploads!MaxParts /\ x.part + 1 \in 0 .. 2 * Uploads!MaxParts
      /\ x.pos \in 0 .. Uploads!MaxParts /\ x.pos + 1 \in 0 .. Uploads!MaxParts
      /\ x.pos + 1 <= SourceParts[x.file] /\ x.part + 1 <= (x.pos + 1) + Uploads!MaxParts
  <2> DEFINE p == x.part
             q == x.pos
             n == SourceParts[x.file]
             m == Uploads!MaxParts
  <2>1. p \in Nat /\ q \in Nat /\ n \in Nat /\ m \in Nat /\ p <= q + m /\ q < n /\ n <= m  BY <1>2, <1>5
  <2> HIDE DEF p, q, n, m
  <2>2. p \in 0 .. 2 * m /\ p + 1 \in 0 .. 2 * m /\ q \in 0 .. m /\ q + 1 \in 0 .. m /\ q + 1 <= n /\ p + 1 <= (q + 1) + m
    BY <2>1
  <2> QED  BY <2>2 DEF p, q, n, m
<1>7. goto \in {"save", "final", "read"} /\ (goto = "final" => x.pos + 1 = SourceParts[x.file])  OBVIOUS
<1> HIDE DEF goto
<1>8. y \in TaskType  BY <1>4, <1>6, <1>7 DEF TaskType
<1>9. /\ y.pc = goto /\ y.file = x.file /\ y.id = x.id /\ y.ver = x.ver /\ y.part = x.part + 1 /\ y.pos = x.pos + 1
  BY <1>4 DEF TaskType
<1>10. data \in FilePartType
  <2>1. x.ver \in 0 .. 2 /\ x.file \in Sources \cup {"none"}  BY <1>4 DEF TaskType
  <2> HIDE DEF x
  <2> QED  BY <1>6, <2>1 DEF FilePartType, Uploads!Content
<1>11. x.id \notin spoiled => data = Uploads!Content(own[x.id][1], own[x.id][2], x.part)
  BY <1>2, <1>3 DEF TaskOf
<1> HIDE DEF y, data
<1>12. /\ parts' \in PartsType
       /\ parts'[x.id][x.part] = data
       /\ \A i \in 1 .. MaxIds : \A p \in 0 .. 2 * Uploads!MaxParts :
            <<i, p>> # <<x.id, x.part>> => parts'[i][p] = parts[i][p]
  BY <1>2, <1>4, <1>5, <1>6, <1>10 DEF PartsType
<1>13. Preserves(own)
  <2> SUFFICES ASSUME NEW i \in 1 .. MaxIds, i \notin spoiled, NEW p \in 0 .. 2 * Uploads!MaxParts,
                      parts[i][p] = Uploads!Content(own[i][1], own[i][2], p)
               PROVE  parts'[i][p] = Uploads!Content(own[i][1], own[i][2], p)
    BY <1>2 DEF Preserves
  <2>1. CASE i = x.id /\ p = x.part  BY <1>11, <1>12, <2>1
  <2>2. CASE ~ (i = x.id /\ p = x.part)  BY <1>12, <2>2
  <2> QED  BY <2>1, <2>2
<1>14. TaskOf(parts', spoiled', next', version', own, y)
  <2>1. ASSUME x.id \notin spoiled PROVE Filled(parts', own, x.id, x.part + 1)
    <3>1. Filled(parts, own, x.id, x.part)  BY <1>2, <1>3, <2>1 DEF TaskOf
    <3> SUFFICES ASSUME NEW p \in 0 .. (x.part + 1) - 1
                 PROVE  parts'[x.id][p] = Uploads!Content(own[x.id][1], own[x.id][2], p)
      BY DEF Filled
    <3>2. CASE p = x.part  BY <1>11, <1>12, <2>1, <3>2
    <3>3. CASE p # x.part
      <4>1. p \in 0 .. x.part - 1 /\ p \in 0 .. 2 * Uploads!MaxParts
        <5> DEFINE n == x.part
        <5>1. n \in Nat /\ n \in 0 .. 2 * Uploads!MaxParts /\ p \in 0 .. (n + 1) - 1 /\ p # n  BY <1>5, <1>6, <3>3
        <5> HIDE DEF n
        <5>2. p \in 0 .. n - 1 /\ p \in 0 .. 2 * Uploads!MaxParts  BY <1>5, <5>1
        <5> QED  BY <5>2 DEF n
      <4>2. parts[x.id][p] = Uploads!Content(own[x.id][1], own[x.id][2], p)  BY <3>1, <4>1 DEF Filled
      <4> QED  BY <1>2, <1>5, <1>13, <2>1, <4>1, <4>2 DEF Preserves
    <3> QED  BY <3>2, <3>3
  <2>2. x.id # 0 /\ x.id < next /\ (Via[x.file] # "stream" => x.part = x.pos)
        /\ (x.id \notin spoiled => own[x.id] = <<x.file, x.ver>> /\ x.ver = version[x.file] /\ x.part = x.pos)
    BY <1>2, <1>3 DEF TaskOf
  <2> HIDE DEF x
  <2> QED  BY <1>2, <1>5, <1>6, <1>7, <1>9, <2>1, <2>2 DEF TaskOf
<1>15. resume' \in [Sources -> ResumeType] /\ next' \in 1 .. MaxIds + 1 /\ next <= next'
       /\ errors' \in 0 .. MaxErrors /\ spoiled \subseteq spoiled' /\ spoiled' \subseteq 0 .. MaxIds
  BY <1>2, UploadsTypesNow DEF UploadsTypes
<1>16. y.pc # "idle" /\ x.pc # "idle"  BY <1>2, <1>7, <1>9
<1> QED  BY <1>1, <1>2, <1>8, <1>9, <1>12, <1>13, <1>14, <1>15, <1>16, UploadsTurn

\* A save changes one state file, into what it saves or into a torn one.
LEMMA UploadsSave ==
  ASSUME UploadsInv, NEW f \in Sources, NEW s \in ResumeType, Uploads!Save(f, s)
  PROVE  /\ resume' \in [Sources -> ResumeType] /\ errors' \in 0 .. MaxErrors
         /\ \A g \in Sources : \/ resume'[g] = resume[g]
                               \/ g = f /\ resume'[g] = s
                               \/ resume'[g].kind = "torn"
<1>1. resume \in [Sources -> ResumeType] /\ errors \in 0 .. MaxErrors /\ MaxErrors \in Nat
  BY UploadsTypesNow, UploadsConstants DEF UploadsTypes
<1>2. Uploads!State("torn", 0, 0) \in ResumeType /\ Uploads!State("torn", 0, 0).kind = "torn"
  <2>1. 0 \in 0 .. MaxIds /\ 0 \in 0 .. 2 * Uploads!MaxParts  BY UploadsConstants, UploadsMaxParts
  <2> QED  BY <2>1 DEF Uploads!State, ResumeType
<1>3. errors' \in 0 .. MaxErrors  BY <1>1 DEF Uploads!Save, Uploads!Fault
<1>4. CASE resume' = [resume EXCEPT ![f] = s]  BY <1>1, <1>3, <1>4
<1>5. CASE resume' = resume  BY <1>1, <1>3, <1>5
<1>6. CASE resume' = [resume EXCEPT ![f] = Uploads!State("torn", 0, 0)]  BY <1>1, <1>2, <1>3, <1>6
<1> QED  BY <1>4, <1>5, <1>6 DEF Uploads!Save

\* What is saved is known of the call.
LEMMA UploadsSaveProgress ==
  ASSUME UploadsInv, NEW c \in Calls, Uploads!SaveProgress(c)
  PROVE  UploadsInv'
<1> DEFINE x == call[c]
           s == Uploads!State("state", x.id, x.part)
           goto == IF x.pos = SourceParts[x.file] /\ x.file \in ShortSources THEN "final" ELSE "read"
           y == [x EXCEPT !.pc = goto]
<1>1. PICK own \in Owners : UploadsKnown(own)  BY DEF UploadsInv
<1>2. /\ x.pc = "save" /\ Uploads!Save(x.file, s)
      /\ call' = [call EXCEPT ![c] = y]
      /\ UNCHANGED <<version, parts, next, returned, batch, spoiled>>
  BY DEF Uploads!SaveProgress, Uploads!Goto
<1>3. TaskOf(parts, spoiled, next, version, own, x)  BY <1>1 DEF UploadsKnown
<1>4. x \in TaskType  BY UploadsTypesNow
<1>5. x.file \in Sources /\ x.id # 0 /\ x.id < next /\ x.pos <= SourceParts[x.file]
      /\ (Via[x.file] # "stream" => x.part = x.pos)
      /\ (x.id \notin spoiled => own[x.id] = <<x.file, version[x.file]>> /\ Filled(parts, own, x.id, x.part))
  BY <1>2, <1>3 DEF TaskOf
<1>6. s \in ResumeType  BY <1>4 DEF TaskType, ResumeType, Uploads!State
<1>7. ResumeOf(parts, spoiled, next, version, own, x.file, s)
  <2>1. s.id = x.id /\ s.parts = x.part  BY DEF Uploads!State
  <2> HIDE DEF s, x
  <2> QED  BY <1>5, <2>1 DEF ResumeOf
<1>8. goto \in {"final", "read"} /\ (goto = "final" => x.pos = SourceParts[x.file])  OBVIOUS
<1> HIDE DEF goto, s
<1>9. y \in TaskType  BY <1>4, <1>8 DEF TaskType
<1>10. /\ y.pc = goto /\ y.file = x.file /\ y.id = x.id /\ y.ver = x.ver /\ y.part = x.part /\ y.pos = x.pos
  BY <1>4 DEF TaskType
<1> HIDE DEF y
<1>11. TaskOf(parts, spoiled, next, version, own, y)  BY <1>2, <1>3, <1>8, <1>10 DEF TaskOf
<1>12. /\ resume' \in [Sources -> ResumeType] /\ errors' \in 0 .. MaxErrors
       /\ \A g \in Sources : resume'[g] = resume[g] \/ (g = x.file /\ resume'[g] = s) \/ resume'[g].kind = "torn"
  BY <1>2, <1>5, <1>6, UploadsSave
<1>13. \A g \in Sources : resume'[g] = resume[g] \/ ResumeOf(parts', spoiled', next', version', own, g, resume'[g])
  <2> TAKE g \in Sources
  <2>1. CASE g = x.file /\ resume'[g] = s  BY <1>2, <1>7, <2>1
  <2>2. CASE resume'[g].kind = "torn"  BY <2>2 DEF ResumeOf
  <2> QED  BY <1>12, <2>1, <2>2
<1>14. Preserves(own)  BY <1>2 DEF Preserves
<1>15. parts' \in PartsType /\ next' \in 1 .. MaxIds + 1 /\ next <= next'
       /\ spoiled \subseteq spoiled' /\ spoiled' \subseteq 0 .. MaxIds
  BY <1>2, UploadsTypesNow DEF UploadsTypes
<1>16. y.pc # "idle" /\ x.pc # "idle"  BY <1>2, <1>8, <1>10
<1> QED  BY <1>1, <1>2, <1>9, <1>10, <1>11, <1>12, <1>13, <1>14, <1>15, <1>16, UploadsTurn

\* The loop ends when the source has no more parts.
LEMMA UploadsLastPart ==
  ASSUME UploadsInv, NEW c \in Calls, Uploads!LastPart(c)
  PROVE  UploadsInv'
<1> DEFINE x == call[c]
           y == [x EXCEPT !.pc = "final"]
<1>1. PICK own \in Owners : UploadsKnown(own)  BY DEF UploadsInv
<1>2. /\ x.pc = "read" /\ x.pos >= SourceParts[x.file]
      /\ call' = [call EXCEPT ![c] = y]
      /\ UNCHANGED <<version, parts, resume, next, returned, batch, spoiled, errors>>
  BY DEF Uploads!LastPart, Uploads!Goto
<1>3. TaskOf(parts, spoiled, next, version, own, x)  BY <1>1 DEF UploadsKnown
<1>4. x \in TaskType /\ next \in Nat /\ next <= MaxIds + 1  BY UploadsTypesNow
<1>5. x.pos = SourceParts[x.file]
  <2>1. x.pos \in Nat /\ SourceParts[x.file] \in Nat /\ x.pos <= SourceParts[x.file]
    BY <1>2, <1>3, <1>4, TaskFacts
  <2> DEFINE p == x.pos
             n == SourceParts[x.file]
  <2>2. p \in Nat /\ n \in Nat /\ p <= n /\ p >= n  BY <1>2, <2>1
  <2> HIDE DEF p, n
  <2>3. p = n  BY <2>2
  <2> QED  BY <2>3 DEF p, n
<1>6. y \in TaskType  BY <1>4 DEF TaskType
<1>7. /\ y.pc = "final" /\ y.file = x.file /\ y.id = x.id /\ y.ver = x.ver /\ y.part = x.part /\ y.pos = x.pos
  BY <1>4 DEF TaskType
<1> HIDE DEF y
<1>8. TaskOf(parts', spoiled', next', version', own, y)  BY <1>2, <1>3, <1>5, <1>7 DEF TaskOf
<1>9. Preserves(own)  BY <1>2 DEF Preserves
<1>10. parts' \in PartsType /\ resume' \in [Sources -> ResumeType] /\ next' \in 1 .. MaxIds + 1 /\ next <= next'
       /\ errors' \in 0 .. MaxErrors /\ spoiled \subseteq spoiled' /\ spoiled' \subseteq 0 .. MaxIds
  BY <1>2, UploadsTypesNow DEF UploadsTypes
<1> QED  BY <1>1, <1>2, <1>6, <1>7, <1>8, <1>9, <1>10, UploadsTurn

\* The state file is marked, and the handle takes over what is known of its call.
LEMMA UploadsFinish ==
  ASSUME UploadsInv, NEW c \in Calls, Uploads!Finish(c)
  PROVE  UploadsInv'
<1> DEFINE x == call[c]
           s == Uploads!State("done", 0, x.part)
           y == [x EXCEPT !.pc = "send"]
<1>1. /\ x.pc = "final"
      /\ (x.store /\ Uploads!Save(x.file, s)) \/ UNCHANGED <<resume, errors>>
      /\ UNCHANGED <<version, parts, next, batch, spoiled>>
      /\ \/ Uploads!Return(c, Uploads!Handle(x))
         \/ call' = [call EXCEPT ![c] = y] /\ returned' = returned
  BY DEF Uploads!Finish, Uploads!Goto
<1>2. PICK own \in Owners : UploadsKnown(own)  BY DEF UploadsInv
<1>3. TaskOf(parts, spoiled, next, version, own, x)  BY <1>2 DEF UploadsKnown
<1>4. x \in TaskType /\ x.file \in Sources  BY <1>1, <1>3, UploadsTypesNow DEF TaskOf
<1>5. s \in ResumeType /\ s.kind = "done"
  <2>1. 0 \in 0 .. MaxIds  BY UploadsConstants
  <2> QED  BY <1>4, <2>1 DEF TaskType, ResumeType, Uploads!State
<1> HIDE DEF s
<1>6. /\ resume' \in [Sources -> ResumeType] /\ errors' \in 0 .. MaxErrors
      /\ \A g \in Sources : resume'[g] = resume[g] \/ resume'[g].kind \in {"done", "torn"}
  <2>1. CASE UNCHANGED <<resume, errors>>  BY <2>1, UploadsTypesNow DEF UploadsTypes
  <2>2. CASE x.store /\ Uploads!Save(x.file, s)
    <3>1. /\ resume' \in [Sources -> ResumeType] /\ errors' \in 0 .. MaxErrors
          /\ \A g \in Sources : resume'[g] = resume[g] \/ (g = x.file /\ resume'[g] = s) \/ resume'[g].kind = "torn"
      BY <1>4, <1>5, <2>2, UploadsSave
    <3> QED  BY <1>5, <3>1
  <2> QED  BY <1>1, <2>1, <2>2
<1>7. \A o \in Owners : \A g \in Sources :
        resume'[g] = resume[g] \/ ResumeOf(parts', spoiled', next', version', o, g, resume'[g])
  BY <1>6 DEF ResumeOf
<1>8. CASE Uploads!Return(c, Uploads!Handle(x))  BY <1>1, <1>6, <1>7, <1>8, UploadsReturns
<1>9. CASE call' = [call EXCEPT ![c] = y] /\ returned' = returned
  <2>1. y \in TaskType  BY <1>4 DEF TaskType
  <2>2. /\ y.pc = "send" /\ y.file = x.file /\ y.id = x.id /\ y.ver = x.ver /\ y.part = x.part /\ y.pos = x.pos
    BY <1>4 DEF TaskType
  <2> HIDE DEF y
  <2>3. TaskOf(parts', spoiled', next', version', own, y)  BY <1>1, <1>3, <2>2 DEF TaskOf
  <2>4. Preserves(own)  BY <1>1 DEF Preserves
  <2>5. parts' \in PartsType /\ next' \in 1 .. MaxIds + 1 /\ next <= next'
        /\ spoiled \subseteq spoiled' /\ spoiled' \subseteq 0 .. MaxIds
    BY <1>1, UploadsTypesNow DEF UploadsTypes
  <2> QED  BY <1>1, <1>2, <1>6, <1>7, <1>9, <2>1, <2>2, <2>3, <2>4, <2>5, UploadsTurn
<1> QED  BY <1>1, <1>8, <1>9

\* After a crash only the server and the state files are left.
LEMMA UploadsCrash ==
  ASSUME UploadsInv, Uploads!Crash
  PROVE  UploadsInv'
<1>1. /\ call' = [c \in Calls |-> Uploads!Idle] /\ returned' = [c \in Calls |-> Uploads!NoHandle]
      /\ batch' = Uploads!NoBatch /\ errors < MaxErrors /\ errors' = errors + 1
      /\ UNCHANGED <<version, parts, resume, next, spoiled>>
  BY DEF Uploads!Crash, Uploads!Fault
<1>2. call' \in [Calls -> TaskType] /\ returned' \in [Calls -> ReceiptType]  BY <1>1, UploadsEmpty
<1>3. batch' \in BatchType /\ BatchKnown'  BY <1>1 DEF BatchType, Uploads!NoBatch, BatchKnown
<1>4. errors' \in 0 .. MaxErrors  BY <1>1, UploadsTypesNow, UploadsConstants DEF UploadsTypes
<1>5. UploadsTypes'
  BY <1>1, <1>2, <1>3, <1>4, UploadsTypesNow DEF UploadsTypes, TaskType, ReceiptType, ResumeType, PartsType, FilePartType
<1>6. PICK own \in Owners : UploadsKnown(own)  BY DEF UploadsInv
<1>7. UploadsKnown(own)'
  <2>1. \A d \in Calls : TaskOf(parts', spoiled', next', version', own, call'[d])  BY <1>1, UploadsEmpty
  <2>2. \A d \in Calls : ReceiptOf(parts', spoiled', next', own, returned'[d])  BY <1>1, UploadsEmpty
  <2> QED  BY <1>1, <1>6, <2>1, <2>2 DEF UploadsKnown
<1> QED  BY <1>3, <1>5, <1>6, <1>7 DEF UploadsInv, Owners

\* An edit changes the version of a file, and spoils the uploads that read it.
LEMMA UploadsEdit ==
  ASSUME UploadsInv, NEW f \in Sources, Uploads!EditFile(f)
  PROVE  UploadsInv'
<1>1. /\ version' = [version EXCEPT ![f] = 2]
      /\ spoiled' = spoiled \cup {call[c].id : c \in {d \in Calls : call[d].file = f}} \cup {resume[f].id}
      /\ UNCHANGED <<parts, resume, next, call, returned, batch, errors>>
  BY DEF Uploads!EditFile
<1>2. /\ call \in [Calls -> TaskType] /\ returned \in [Calls -> ReceiptType] /\ resume \in [Sources -> ResumeType]
      /\ version \in [Sources -> 1 .. 2] /\ spoiled \subseteq 0 .. MaxIds
  BY UploadsTypesNow DEF UploadsTypes
<1>3. version' \in [Sources -> 1 .. 2] /\ \A g \in Sources : g # f => version'[g] = version[g]  BY <1>1, <1>2
<1>4. /\ \A c \in Calls : call[c].file = f => call[c].id \in spoiled'
      /\ resume[f].id \in spoiled' /\ spoiled \subseteq spoiled'
  BY <1>1
<1>5. spoiled' \subseteq 0 .. MaxIds
  <2>1. \A c \in Calls : call[c].id \in 0 .. MaxIds  BY <1>2 DEF TaskType
  <2>2. resume[f].id \in 0 .. MaxIds  BY <1>2 DEF ResumeType
  <2> QED  BY <1>1, <1>2, <2>1, <2>2
<1>6. UploadsTypes'
  BY <1>1, <1>3, <1>5, UploadsTypesNow DEF UploadsTypes, TaskType, ReceiptType, ResumeType, PartsType, FilePartType, BatchType
<1>7. BatchKnown'  BY <1>1, UploadsTypesNow DEF BatchKnown
<1>8. PICK own \in Owners : UploadsKnown(own)  BY DEF UploadsInv
<1>9. ASSUME NEW c \in Calls PROVE TaskOf(parts, spoiled', next, version', own, call[c])
  <2>1. TaskOf(parts, spoiled, next, version, own, call[c])  BY <1>8 DEF UploadsKnown
  <2>2. CASE call[c].file = f  BY <1>4, <2>1, <2>2 DEF TaskOf
  <2>3. CASE call[c].file # f  BY <1>3, <1>4, <2>1, <2>3 DEF TaskOf
  <2> QED  BY <2>2, <2>3
<1>10. ASSUME NEW c \in Calls PROVE ReceiptOf(parts, spoiled', next, own, returned[c])
  BY <1>4, <1>8 DEF UploadsKnown, ReceiptOf
<1>11. ASSUME NEW g \in Sources PROVE ResumeOf(parts, spoiled', next, version', own, g, resume[g])
  <2>1. ResumeOf(parts, spoiled, next, version, own, g, resume[g])  BY <1>8 DEF UploadsKnown
  <2>2. CASE g = f  BY <1>4, <2>1, <2>2 DEF ResumeOf
  <2>3. CASE g # f  BY <1>3, <1>4, <2>1, <2>3 DEF ResumeOf
  <2> QED  BY <2>2, <2>3
<1>12. UploadsKnown(own)'  BY <1>1, <1>9, <1>10, <1>11 DEF UploadsKnown
<1> QED  BY <1>6, <1>7, <1>8, <1>12 DEF UploadsInv, Owners

\* The steps of the other subjects leave uploadFile alone.
LEMMA UploadsIdle == UploadsInv /\ UNCHANGED uploadsVars => UploadsInv'
<1> SUFFICES ASSUME UploadsInv, UNCHANGED uploadsVars PROVE UploadsInv'  OBVIOUS
<1>1. UNCHANGED <<version, parts, resume, next, call, returned, batch, spoiled, errors>>  BY DEF uploadsVars
<1>2. UploadsTypes'
  BY <1>1, UploadsTypesNow DEF UploadsTypes, TaskType, ReceiptType, ResumeType, PartsType, FilePartType, BatchType
<1>3. BatchKnown'  BY <1>1, UploadsTypesNow DEF BatchKnown
<1>4. PICK own \in Owners : UploadsKnown(own)  BY DEF UploadsInv
<1>5. UploadsKnown(own)'  BY <1>1, <1>4 DEF UploadsKnown
<1> QED  BY <1>2, <1>3, <1>4, <1>5 DEF UploadsInv, Owners

\* Every step of uploadFile and of the calls built on it keeps the invariant.
LEMMA UploadsNext == UploadsInv /\ Uploads!Next => UploadsInv'
<1> SUFFICES ASSUME UploadsInv, Uploads!Next PROVE UploadsInv'  OBVIOUS
<1>1. ASSUME NEW c \in Calls,
             \/ \E op \in {"upload", "send"}, f \in Sources, store \in BOOLEAN : Uploads!Begin(c, op, f, store)
             \/ Uploads!Resume(c) \/ Uploads!Start(c) \/ Uploads!Fails(c) \/ Uploads!UploadPart(c)
             \/ Uploads!SaveProgress(c) \/ Uploads!LastPart(c) \/ Uploads!Finish(c) \/ Uploads!Send(c)
      PROVE  UploadsInv'
  BY <1>1, UploadsBegin, UploadsResume, UploadsStart, UploadsFails, UploadsPart, UploadsSaveProgress,
     UploadsLastPart, UploadsFinish, UploadsSend
<1>2. CASE \E of \in [Calls -> Sources] : Uploads!UploadMultiple(of)  BY <1>2, UploadsMultiple
<1>3. CASE Uploads!MultipleReturn  BY <1>3, UploadsMultipleReturn
<1>4. CASE Uploads!Crash  BY <1>4, UploadsCrash
<1>5. CASE \E f \in Sources : Uploads!EditFile(f)  BY <1>5, UploadsEdit
<1> QED  BY <1>1, <1>2, <1>3, <1>4, <1>5 DEF Uploads!Next

\* What is known of handles and of the batch gives the properties.
LEMMA UploadsSound == UploadsInv => Uploads!TypeOK /\ Uploads!HandleIsFile /\ Uploads!MultipleWhole
<1> SUFFICES ASSUME UploadsInv PROVE Uploads!TypeOK /\ Uploads!HandleIsFile /\ Uploads!MultipleWhole  OBVIOUS
<1>1. PICK own \in Owners : UploadsKnown(own)  BY DEF UploadsInv
<1>2. Uploads!TypeOK
  BY UploadsTypesNow DEF UploadsTypes, Uploads!TypeOK, TaskType, ResumeType, BatchType
<1>3. ASSUME NEW h, h.id \notin spoiled \cup {0}, ReceiptOf(parts, spoiled, next, own, h)
      PROVE  Uploads!Whole(h)
  BY <1>3 DEF ReceiptOf, Filled, Uploads!Whole
<1>4. \A c \in Calls : ReceiptOf(parts, spoiled, next, own, returned[c])  BY <1>1 DEF UploadsKnown
<1>5. \A c \in Calls : call[c].pc = "send" => ReceiptOf(parts, spoiled, next, own, Uploads!Handle(call[c]))
  BY <1>1 DEF UploadsKnown, TaskOf, ReceiptOf, Uploads!Handle
<1>6. Uploads!HandleIsFile  BY <1>3, <1>4, <1>5 DEF Uploads!HandleIsFile
<1>7. Uploads!MultipleWhole  BY DEF UploadsInv, BatchKnown, Uploads!MultipleWhole
<1> QED  BY <1>2, <1>6, <1>7

\* In every state: a handle that ResumableUpload returns names parts of one version
\* (unless a read failed), one that uploadFile returns or sends names every part of its
\* file in order (unless it was edited, or a stream was resumed), and UploadMultiple that
\* succeeds has one for every path (transfers.go:94-201, uploads.go:98-197, 549-571).
THEOREM UploadsWholeHolds == AllSpec => []UploadsWhole
<1>1. AllInit => UploadInv /\ UploadsInv  BY UploadInit, UploadsInit DEF AllInit
<1>2. UploadInv /\ UploadsInv /\ [AllNext]_allVars => (UploadInv /\ UploadsInv)'
  <2> SUFFICES ASSUME UploadInv, UploadsInv, [AllNext]_allVars PROVE (UploadInv /\ UploadsInv)'  OBVIOUS
  <2>1. UploadInv'
    <3>1. CASE UNCHANGED uploadVars  BY <3>1, UploadIdle
    <3>2. CASE Upload!Next  BY <3>2, UploadNext
    <3> QED  BY <3>1, <3>2 DEF AllNext, allVars
  <2>2. UploadsInv'
    <3>1. CASE UNCHANGED uploadsVars  BY <3>1, UploadsIdle
    <3>2. CASE Uploads!Next  BY <3>2, UploadsNext
    <3> QED  BY <3>1, <3>2 DEF AllNext, allVars
  <2> QED  BY <2>1, <2>2
<1>3. UploadInv /\ UploadsInv => UploadsWhole  BY UploadSound, UploadsSound DEF UploadsWhole
<1> QED  BY <1>1, <1>2, <1>3, PTL DEF AllSpec

===============================================================================
