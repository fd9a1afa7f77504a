------------------------ MODULE FileDownload_proofs ------------------------
(***************************************************************************)
(* Proofs about FileDownload for every set of files, every size and part   *)
(* size and any number of faults, when each file has a state file of its   *)
(* own and every call resumes.                                             *)
(*                                                                         *)
(* The induction goes file by file: PerFile(f) speaks of one destination   *)
(* and its state file, and no step on another destination touches either.  *)
(***************************************************************************)
EXTENDS FileDownload, TLAPS

Resuming   == Resumes \subseteq {TRUE}
OwnState   == \A f, g \in Files : Key(f) = Key(g) => f = g

Active(f)    == pc[f] # "idle"
Unfinished(f) == ~stored[Key(f)].completed
Holds(f, n)  == Len(file[f]) = n /\ \A i \in 1 .. n : file[f][i] = i

\* A state that a later call may resume from is backed by the file.
Backed(f) == Unfinished(f) => /\ stored[Key(f)].bytes <= Size[f]
                              /\ Covers(f, stored[Key(f)].bytes)

\* So is the offset of a call in progress.
Fetched(f) == Active(f) => Covers(f, offset[f])
AtEnd(f)   == pc[f] = "finish" => offset[f] = Size[f]
Done(f)    == result[f] = "ok" => ~Active(f) /\ Covers(f, Size[f])

\* Without a fault the file is the prefix that the offset, or the state
\* that the next call resumes from, says it is.
Prefix(f)  == (clean[f] /\ Active(f)) => Holds(f, offset[f])
InStep(f)  == (clean[f] /\ pc[f] = "fetch" /\ Unfinished(f)) => stored[Key(f)].bytes = offset[f]
AtRest(f)  == (clean[f] /\ ~Active(f) /\ Unfinished(f)) => Holds(f, stored[Key(f)].bytes)
Exact(f)   == (clean[f] /\ result[f] = "ok") => Holds(f, Size[f])

PerFile(f) == /\ Backed(f) /\ Fetched(f) /\ AtEnd(f) /\ Done(f)
              /\ Prefix(f) /\ InStep(f) /\ AtRest(f) /\ Exact(f)

IInv == TypeOK /\ \A f \in Files : PerFile(f)

USE StateAssumption, SizeAssumption, PartAssumption, ResumeAssumption, FaultAssumption

LEMMA Concatenation ==
  ASSUME NEW a \in Seq(Nat), NEW b \in Seq(Nat)
  PROVE  /\ a \o b \in Seq(Nat)
         /\ Len(a \o b) = Len(a) + Len(b)
         /\ \A i \in 1 .. Len(a) : (a \o b)[i] = a[i]
         /\ \A i \in 1 .. Len(b) : (a \o b)[Len(a) + i] = b[i]
  OBVIOUS

\* Appending a chunk keeps the old bytes and adds the next positions.
LEMMA AppendChunk ==
  ASSUME TypeOK, NEW f \in Files, NEW n \in Nat
  PROVE  LET s == file[f] \o Chunk(f, n)
         IN  /\ s \in Seq(Nat)
             /\ Len(s) = Len(file[f]) + n
             /\ \A i \in 1 .. Len(file[f]) : s[i] = file[f][i]
             /\ \A i \in 1 .. n : s[Len(file[f]) + i] = offset[f] + i
  <1>1. file[f] \in Seq(Nat) /\ offset[f] \in Nat
    BY DEF TypeOK
  <1>2. Chunk(f, n) \in Seq(Nat) /\ Len(Chunk(f, n)) = n
    BY <1>1 DEF Chunk
  <1>3. \A i \in 1 .. n : Chunk(f, n)[i] = offset[f] + i
    BY DEF Chunk
  <1>4. /\ file[f] \o Chunk(f, n) \in Seq(Nat)
        /\ Len(file[f] \o Chunk(f, n)) = Len(file[f]) + Len(Chunk(f, n))
        /\ \A i \in 1 .. Len(file[f]) : (file[f] \o Chunk(f, n))[i] = file[f][i]
        /\ \A i \in 1 .. Len(Chunk(f, n)) :
             (file[f] \o Chunk(f, n))[Len(file[f]) + i] = Chunk(f, n)[i]
    BY <1>1, <1>2, Concatenation
  <1> QED
    BY <1>2, <1>3, <1>4

\* The same facts about the next file, for the two uses of Chunk.
LEMMA Extend ==
  ASSUME TypeOK, NEW f \in Files, NEW n \in Nat, file'[f] = file[f] \o Chunk(f, n)
  PROVE  /\ file'[f] \in Seq(Nat)
         /\ Len(file'[f]) = Len(file[f]) + n
         /\ \A i \in 1 .. Len(file[f]) : file'[f][i] = file[f][i]
         /\ \A i \in Len(file[f]) + 1 .. Len(file[f]) + n :
              file'[f][i] = offset[f] + (i - Len(file[f]))
  <1>1. /\ file'[f] \in Seq(Nat)
        /\ Len(file'[f]) = Len(file[f]) + n
        /\ \A i \in 1 .. Len(file[f]) : file'[f][i] = file[f][i]
        /\ \A i \in 1 .. n : file'[f][Len(file[f]) + i] = offset[f] + i
    BY AppendChunk
  <1>2. ASSUME NEW i \in Len(file[f]) + 1 .. Len(file[f]) + n
        PROVE  file'[f][i] = offset[f] + (i - Len(file[f]))
    <2>1. file[f] \in Seq(Nat) /\ offset[f] \in Nat
      BY DEF TypeOK
    <2>2. PICK j \in 1 .. n : i = Len(file[f]) + j
      <3>1. i - Len(file[f]) \in 1 .. n /\ i = Len(file[f]) + (i - Len(file[f]))
        BY <2>1
      <3> QED
        BY <3>1
    <2>3. file'[f][i] = offset[f] + j
      BY <2>2, <1>1
    <2> QED
      BY <2>1, <2>2, <2>3
  <1> QED
    BY <1>1, <1>2

\* Bytes that are in a file stay in it when it grows.
LEMMA ContainsGrows ==
  ASSUME NEW a \in Seq(Nat), NEW b \in Seq(Nat), Len(a) <= Len(b),
         \A i \in 1 .. Len(a) : b[i] = a[i],
         NEW x, Contains(a, x)
  PROVE  Contains(b, x)
  <1>1. PICK i \in 1 .. Len(a) : a[i] = x
    BY DEF Contains
  <1>2. i \in 1 .. Len(b) /\ b[i] = x
    BY <1>1
  <1> QED
    BY <1>2 DEF Contains

\* A step that changes nothing of a file keeps what is known of it.
LEMMA Frame ==
  ASSUME NEW f \in Files, PerFile(f),
         file'[f] = file[f], pc'[f] = pc[f], offset'[f] = offset[f], result'[f] = result[f],
         clean'[f] = clean[f], stored'[Key(f)] = stored[Key(f)]
  PROVE  PerFile(f)'
  BY DEF PerFile, Backed, Fetched, AtEnd, Done, Prefix, InStep, AtRest, Exact, Active,
         Unfinished, Holds, Covers, Contains, Key

LEMMA InitIInv == Init => IInv
  <1> SUFFICES ASSUME Init PROVE IInv
    OBVIOUS
  <1>1. TypeOK
    BY DEF Init, TypeOK, NoState
  <1>2. ASSUME NEW f \in Files PROVE PerFile(f)
    <2>1. stored[Key(f)] = NoState /\ file[f] = << >> /\ pc[f] = "idle"
      BY DEF Init, Key
    <2>2. Size[f] \in Nat
      OBVIOUS
    <2>3. QED
      <3>1. stored[Key(f)].bytes = 0 /\ Len(file[f]) = 0 /\ result[f] = "none"
        BY <2>1 DEF Init, NoState
      <3> QED
        BY <3>1, <2>1, <2>2 DEF PerFile, Backed, Fetched, AtEnd, Done, Prefix, InStep, AtRest,
           Exact, Active, Unfinished, Holds, Covers
  <1> QED
    BY <1>1, <1>2 DEF IInv

\* A call that begins with an offset finds the bytes before it in the file.
LEMMA StartIInv ==
  ASSUME IInv, Resuming, NEW f \in Files, NEW resume \in Resumes, Start(f, resume)
  PROVE  IInv'
  <1>1. resume = TRUE /\ stored[Key(f)].kind # "torn" /\ pc[f] = "idle"
    BY DEF Resuming, Start
  <1> DEFINE k == stored[Key(f)]
             o == StartOffset(f, resume)
  <1>2. k \in [kind : {"none", "torn", "state"}, bytes : Nat, completed : BOOLEAN]
    BY DEF IInv, TypeOK, Key
  <1>3. o \in Nat /\ o <= Size[f] /\ (k.completed => o = 0) /\ (~k.completed => o = k.bytes)
    BY <1>1, <1>2 DEF StartOffset, IInv, PerFile, Backed, Unfinished
  <1>4. /\ file'[f] = (IF o > 0 THEN file[f] ELSE << >>)
        /\ offset'[f] = o /\ pc'[f] = "fetch" /\ result'[f] = "none"
    BY DEF Start, IInv, TypeOK
  <1>5. clean'[f] = (clean[f] \/ o = 0) /\ stored' = stored
    BY DEF Start, IInv, TypeOK
  <1>6. TypeOK'
    <2>1. file'[f] \in Seq(Nat)
      BY <1>4 DEF IInv, TypeOK
    <2>2. file' \in [Files -> Seq(Nat)]
      BY <2>1 DEF Start, IInv, TypeOK
    <2>3. offset' \in [Files -> Nat] /\ \A g \in Files : offset'[g] <= Size[g]
      BY <1>3 DEF Start, IInv, TypeOK
    <2>4. clean' \in [Files -> BOOLEAN]
      BY <1>5 DEF Start, IInv, TypeOK
    <2> QED
      BY <2>2, <2>3, <2>4 DEF Start, IInv, TypeOK
  <1>7. PerFile(f)'
    <2>1. PerFile(f) /\ Size[f] \in Nat
      BY DEF IInv
    <2>2. CASE o = 0
      <3>1. file'[f] = << >> /\ offset'[f] = 0
        BY <2>2, <1>4
      <3>2. Unfinished(f)' => stored'[Key(f)'].bytes = 0
        BY <2>2, <1>3, <1>5 DEF Unfinished, Key
      <3> HIDE DEF k, o
      <3>3. Backed(f)'
        BY <3>1, <3>2, <1>4, <2>1 DEF Backed, Unfinished, Covers, Key
      <3>4. Fetched(f)'
        BY <3>1, <3>2, <1>4, <2>1 DEF Fetched, Active, Covers
      <3>5. AtEnd(f)'
        BY <3>1, <3>2, <1>4, <2>1 DEF AtEnd
      <3>6. Done(f)'
        BY <3>1, <3>2, <1>4, <2>1 DEF Done, Active, Covers
      <3>7. Prefix(f)'
        BY <3>1, <3>2, <1>4, <2>1 DEF Prefix, Active, Holds
      <3>8. InStep(f)'
        BY <3>1, <3>2, <1>4, <2>1 DEF InStep, Unfinished, Key
      <3>9. AtRest(f)'
        BY <3>1, <3>2, <1>4, <2>1 DEF AtRest, Active, Unfinished, Holds, Key
      <3>10. Exact(f)'
        BY <3>1, <3>2, <1>4, <2>1 DEF Exact, Holds
      <3> QED
        BY <3>3, <3>4, <3>5, <3>6, <3>7, <3>8, <3>9, <3>10 DEF PerFile
    <2>3. CASE o # 0
      <3>1. ~k.completed /\ o = k.bytes
        BY <2>3, <1>3
      <3>2. /\ file'[f] = file[f] /\ offset'[f] = k.bytes
            /\ clean'[f] => clean[f]
            /\ stored' = stored
        <4>1. file'[f] = file[f] /\ offset'[f] = k.bytes
          BY <2>3, <3>1, <1>3, <1>4
        <4>2. clean'[f] => clean[f]
          BY <2>3, <1>5, Zenon
        <4> QED
          BY <4>1, <4>2, <1>5
      <3>3. Covers(f, k.bytes) /\ k.bytes <= Size[f]
        BY <3>1, <2>1 DEF PerFile, Backed, Unfinished
      <3>4. clean[f] => Holds(f, k.bytes)
        BY <3>1, <1>1, <2>1 DEF PerFile, AtRest, Active, Unfinished
      <3> HIDE DEF o
      <3>5. Backed(f)'
        BY <3>2, <3>3, <3>4, <1>4, <2>1 DEF Backed, Unfinished, Covers, Key
      <3>6. Fetched(f)'
        BY <3>2, <3>3, <3>4, <1>4, <2>1 DEF Fetched, Active, Covers
      <3>7. AtEnd(f)'
        BY <3>2, <3>3, <3>4, <1>4, <2>1 DEF AtEnd
      <3>8. Done(f)'
        BY <3>2, <3>3, <3>4, <1>4, <2>1 DEF Done, Active, Covers
      <3>9. Prefix(f)'
        BY <3>2, <3>3, <3>4, <1>4, <2>1 DEF Prefix, Active, Holds
      <3>10. InStep(f)'
        BY <3>2, <3>3, <3>4, <1>4, <2>1 DEF InStep, Unfinished, Key
      <3>11. AtRest(f)'
        BY <3>2, <3>3, <3>4, <1>4, <2>1 DEF AtRest, Active, Unfinished, Holds, Key
      <3>12. Exact(f)'
        BY <3>2, <3>3, <3>4, <1>4, <2>1 DEF Exact, Holds
      <3> QED
        BY <3>5, <3>6, <3>7, <3>8, <3>9, <3>10, <3>11, <3>12 DEF PerFile
    <2> QED
      BY <2>2, <2>3
  <1>8. ASSUME NEW g \in Files, g # f PROVE PerFile(g)'
    BY <1>8, Frame DEF Start, IInv, TypeOK
  <1> QED
    BY <1>6, <1>7, <1>8 DEF IInv

\* A whole chunk moves the offset and the file on together.
LEMMA GetChunkIInv ==
  ASSUME IInv, NEW f \in Files, GetChunk(f)
  PROVE  IInv'
  <1> DEFINE n == ChunkLen(f)
  <1>1. /\ file[f] \in Seq(Nat) /\ Size[f] \in Nat /\ offset[f] \in Nat
        /\ PerFile(f) /\ TypeOK
    BY DEF IInv, TypeOK
  <1>2. /\ n \in Nat /\ offset[f] + n <= Size[f]
        /\ n < PartSize => offset[f] + n = Size[f]
    BY <1>1 DEF ChunkLen, GetChunk
  <1>3. file'[f] = file[f] \o Chunk(f, n) /\ offset'[f] = offset[f] + n
    BY DEF GetChunk, IInv, TypeOK
  <1>4. /\ file'[f] \in Seq(Nat)
        /\ Len(file'[f]) = Len(file[f]) + n
        /\ \A i \in 1 .. Len(file[f]) : file'[f][i] = file[f][i]
        /\ \A i \in Len(file[f]) + 1 .. Len(file[f]) + n :
             file'[f][i] = offset[f] + (i - Len(file[f]))
    BY <1>1, <1>2, <1>3, Extend
  <1>5. /\ pc[f] = "fetch" /\ pc'[f] = (IF n < PartSize THEN "finish" ELSE "save")
        /\ clean' = clean /\ stored' = stored /\ result' = result
    BY DEF GetChunk, IInv, TypeOK
  <1>6. TypeOK'
    <2>1. file' \in [Files -> Seq(Nat)]
      BY <1>4 DEF GetChunk, IInv, TypeOK
    <2>2. offset' \in [Files -> Nat] /\ \A g \in Files : offset'[g] <= Size[g]
      BY <1>1, <1>2, <1>3 DEF GetChunk, IInv, TypeOK
    <2>3. pc' \in [Files -> {"idle", "fetch", "save", "saveError", "finish"}]
      BY DEF GetChunk, IInv, TypeOK
    <2> QED
      BY <2>1, <2>2, <2>3, <1>5 DEF GetChunk, IInv, TypeOK
  <1> HIDE DEF n
  <1>7. PerFile(f)'
    <2>1. ASSUME NEW x, Contains(file[f], x) PROVE Contains(file'[f], x)
      <3>1. Len(file[f]) <= Len(file'[f])
        BY <1>1, <1>2, <1>4
      <3> QED
        BY <2>1, <3>1, <1>1, <1>4, ContainsGrows
    <2>2. \A x \in 1 .. offset[f] : Contains(file'[f], x)
      BY <2>1, <1>1, <1>5 DEF PerFile, Fetched, Active, Covers
    <2>3. ASSUME NEW x \in offset[f] + 1 .. offset[f] + n
          PROVE  Contains(file'[f], x)
      <3>1. PICK i \in Len(file[f]) + 1 .. Len(file[f]) + n : x = offset[f] + (i - Len(file[f]))
        <4>1. /\ Len(file[f]) + (x - offset[f]) \in Len(file[f]) + 1 .. Len(file[f]) + n
              /\ x = offset[f] + ((Len(file[f]) + (x - offset[f])) - Len(file[f]))
          <5>1. Len(file[f]) \in Nat
            BY <1>1
          <5> DEFINE L == Len(file[f])
                     o == offset[f]
          <5>2. L \in Nat /\ o \in Nat /\ n \in Nat /\ x \in o + 1 .. o + n
            BY <5>1, <1>1, <1>2
          <5> HIDE DEF L, o
          <5>3. L + (x - o) \in L + 1 .. L + n /\ x = o + ((L + (x - o)) - L)
            BY <5>2
          <5> QED
            BY <5>3 DEF L, o
        <4> QED
          BY <4>1
      <3>2. i \in 1 .. Len(file'[f]) /\ file'[f][i] = x
        BY <3>1, <1>1, <1>2, <1>4
      <3> QED
        BY <3>2 DEF Contains
    <2>4. Covers(f, offset[f])'
      BY <2>2, <2>3, <1>1, <1>2, <1>3 DEF Covers
    <2>5. Backed(f)'
      <3> SUFFICES ASSUME Unfinished(f)' PROVE  (stored[Key(f)].bytes <= Size[f] /\ Covers(f, stored[Key(f)].bytes))'
        BY DEF Backed
      <3>1. /\ stored[Key(f)].bytes <= Size[f] /\ stored[Key(f)].bytes \in Nat
            /\ \A x \in 1 .. stored[Key(f)].bytes : Contains(file[f], x)
        BY <1>1, <1>5 DEF PerFile, Backed, Unfinished, Covers, TypeOK, Key
      <3>2. \A x \in 1 .. stored[Key(f)].bytes : Contains(file'[f], x)
        BY <3>1, <2>1
      <3> QED
        BY <3>1, <3>2, <1>5 DEF Covers, Key
    <2>6. (Fetched(f) /\ AtEnd(f) /\ InStep(f))'
      BY <2>4, <1>2, <1>3, <1>5 DEF Fetched, AtEnd, InStep
    <2>7. result[f] # "ok"
      BY <1>1, <1>5 DEF PerFile, Done, Active
    <2>8. (Done(f) /\ Exact(f) /\ AtRest(f))'
      BY <2>7, <1>5 DEF Done, Exact, AtRest, Active
    <2>9. Prefix(f)'
      <3> SUFFICES ASSUME clean[f] PROVE Holds(f, offset[f])'
        BY <1>5 DEF Prefix
      <3>1. Len(file[f]) = offset[f] /\ \A i \in 1 .. offset[f] : file[f][i] = i
        BY <1>1, <1>5 DEF PerFile, Prefix, Active, Holds
      <3>2. ASSUME NEW i \in 1 .. offset[f] + n PROVE file'[f][i] = i
        <4>1. CASE i <= offset[f]
          <5>1. i \in 1 .. Len(file[f]) /\ i \in 1 .. offset[f]
            BY <4>1, <3>1, <1>1, <1>2
          <5> QED
            BY <5>1, <3>1, <1>4
        <4>2. CASE i > offset[f]
          <5>1. i \in Len(file[f]) + 1 .. Len(file[f]) + n
            BY <4>2, <3>1, <1>1, <1>2
          <5>2. file'[f][i] = offset[f] + (i - Len(file[f]))
            BY <5>1, <1>4
          <5> QED
            BY <5>2, <3>1, <1>1
        <4> QED
          BY <4>1, <4>2, <1>1, <1>2
      <3> QED
        BY <3>1, <3>2, <1>3, <1>4 DEF Holds
    <2> QED
      BY <2>5, <2>6, <2>8, <2>9 DEF PerFile
  <1>8. ASSUME NEW g \in Files, g # f PROVE PerFile(g)'
    BY <1>8, Frame DEF GetChunk, IInv, TypeOK
  <1> QED
    BY <1>6, <1>7, <1>8 DEF IInv

\* Part of a chunk only adds bytes, and the file counts as met by a fault.
LEMMA WriteFailsIInv ==
  ASSUME IInv, NEW f \in Files, WriteFails(f)
  PROVE  IInv'
  <1>1. PICK n \in 0 .. ChunkLen(f) - 1 : file' = [file EXCEPT ![f] = @ \o Chunk(f, n)]
    BY DEF WriteFails
  <1>2. /\ file[f] \in Seq(Nat) /\ Size[f] \in Nat /\ offset[f] \in Nat
        /\ PerFile(f) /\ TypeOK
    BY DEF IInv, TypeOK
  <1>3. n \in Nat
    BY <1>2 DEF ChunkLen
  <1>4. file'[f] = file[f] \o Chunk(f, n)
    BY <1>1, <1>2 DEF TypeOK
  <1>5. /\ file'[f] \in Seq(Nat)
        /\ Len(file'[f]) = Len(file[f]) + n
        /\ \A i \in 1 .. Len(file[f]) : file'[f][i] = file[f][i]
    BY <1>2, <1>3, <1>4, Extend
  <1>6. /\ pc'[f] = "idle" /\ result'[f] = "error" /\ clean'[f] = FALSE
        /\ stored' = stored /\ offset' = offset
    BY DEF WriteFails, Fault, IInv, TypeOK
  <1>7. TypeOK'
    <2>1. file' \in [Files -> Seq(Nat)]
      BY <1>1, <1>2, <1>5 DEF TypeOK
    <2>2. faults' \in 0 .. MaxFaults /\ clean' \in [Files -> BOOLEAN]
      BY DEF WriteFails, Fault, IInv, TypeOK
    <2> QED
      BY <2>1, <2>2 DEF WriteFails, IInv, TypeOK
  <1>8. PerFile(f)'
    <2>1. Backed(f)'
      <3> SUFFICES ASSUME Unfinished(f)' PROVE  (stored[Key(f)].bytes <= Size[f] /\ Covers(f, stored[Key(f)].bytes))'
        BY DEF Backed
      <3>1. /\ stored[Key(f)].bytes <= Size[f] /\ stored[Key(f)].bytes \in Nat
            /\ \A x \in 1 .. stored[Key(f)].bytes : Contains(file[f], x)
        BY <1>2, <1>6 DEF PerFile, Backed, Unfinished, Covers, TypeOK, Key
      <3>2. ASSUME NEW x, Contains(file[f], x) PROVE Contains(file'[f], x)
        <4>1. Len(file[f]) <= Len(file'[f])
          BY <1>2, <1>3, <1>5
        <4> QED
          BY <3>2, <4>1, <1>2, <1>5, ContainsGrows
      <3> QED
        BY <3>1, <3>2, <1>6 DEF Covers, Key
    <2> QED
      BY <2>1, <1>6 DEF PerFile, Fetched, AtEnd, Done, Prefix, InStep, AtRest, Exact, Active
  <1>9. ASSUME NEW g \in Files, g # f PROVE PerFile(g)'
    BY <1>9, <1>1, Frame DEF WriteFails, Fault, IInv, TypeOK
  <1> QED
    BY <1>7, <1>8, <1>9 DEF IInv

\* The steps that leave every file alone.
LEMMA QuietIInv ==
  ASSUME IInv, NEW f \in Files,
         StartFails(f) \/ GetNothing(f) \/ GetFails(f) \/ GetUnexpected(f)
  PROVE  IInv'
  <1>1. /\ PerFile(f) /\ TypeOK /\ Size[f] \in Nat /\ offset[f] \in Nat
        /\ offset[f] <= Size[f]
    BY DEF IInv, TypeOK
  <1>2. TypeOK'
    BY DEF IInv, TypeOK, StartFails, GetNothing, GetFails, GetUnexpected
  <1>3. file' = file /\ stored' = stored /\ offset' = offset /\ clean' = clean
    BY DEF StartFails, GetNothing, GetFails, GetUnexpected
  <1>4. Backed(f)'
    BY <1>1, <1>3 DEF PerFile, Backed, Unfinished, Covers, Key
  <1>5. ASSUME StartFails(f) PROVE PerFile(f)'
    <2>1. pc[f] = "idle" /\ pc' = pc /\ result'[f] = "error"
      BY <1>1, <1>5 DEF StartFails, TypeOK
    <2>2. Fetched(f)'
      BY <1>1, <1>3, <1>4, <2>1 DEF PerFile, Fetched, Active, Covers
    <2>3. AtEnd(f)'
      BY <1>1, <1>3, <1>4, <2>1 DEF PerFile, AtEnd
    <2>4. Done(f)'
      BY <1>1, <1>3, <1>4, <2>1 DEF PerFile, Done, Active, Covers
    <2>5. Prefix(f)'
      BY <1>1, <1>3, <1>4, <2>1 DEF PerFile, Prefix, Active, Holds
    <2>6. InStep(f)'
      BY <1>1, <1>3, <1>4, <2>1 DEF PerFile, InStep, Unfinished, Key
    <2>7. AtRest(f)'
      BY <1>1, <1>3, <1>4, <2>1 DEF PerFile, AtRest, Active, Unfinished, Holds, Key
    <2>8. Exact(f)'
      BY <1>1, <1>3, <1>4, <2>1 DEF PerFile, Exact, Holds
    <2> QED
      BY <1>4, <2>2, <2>3, <2>4, <2>5, <2>6, <2>7, <2>8 DEF PerFile
  <1>6. ASSUME GetNothing(f) PROVE PerFile(f)'
    <2>1. pc[f] = "fetch" /\ pc'[f] = "finish" /\ result' = result /\ offset[f] = Size[f]
      BY <1>1, <1>6 DEF GetNothing, TypeOK
    <2>2. Fetched(f)'
      BY <1>1, <1>3, <1>4, <2>1 DEF PerFile, Fetched, Active, Covers
    <2>3. AtEnd(f)'
      BY <1>1, <1>3, <1>4, <2>1 DEF PerFile, AtEnd
    <2>4. Done(f)'
      BY <1>1, <1>3, <1>4, <2>1 DEF PerFile, Done, Active, Covers
    <2>5. Prefix(f)'
      BY <1>1, <1>3, <1>4, <2>1 DEF PerFile, Prefix, Active, Holds
    <2>6. InStep(f)'
      BY <1>1, <1>3, <1>4, <2>1 DEF PerFile, InStep, Unfinished, Key
    <2>7. AtRest(f)'
      BY <1>1, <1>3, <1>4, <2>1 DEF PerFile, AtRest, Active, Unfinished, Holds, Key
    <2>8. Exact(f)'
      BY <1>1, <1>3, <1>4, <2>1 DEF PerFile, Exact, Holds
    <2> QED
      BY <1>4, <2>2, <2>3, <2>4, <2>5, <2>6, <2>7, <2>8 DEF PerFile
  <1>7. ASSUME GetFails(f) PROVE PerFile(f)'
    <2>1. pc[f] = "fetch" /\ pc'[f] = "saveError" /\ result' = result
      BY <1>1, <1>7 DEF GetFails, TypeOK
    <2>2. Fetched(f)'
      BY <1>1, <1>3, <1>4, <2>1 DEF PerFile, Fetched, Active, Covers
    <2>3. AtEnd(f)'
      BY <1>1, <1>3, <1>4, <2>1 DEF PerFile, AtEnd
    <2>4. Done(f)'
      BY <1>1, <1>3, <1>4, <2>1 DEF PerFile, Done, Active, Covers
    <2>5. Prefix(f)'
      BY <1>1, <1>3, <1>4, <2>1 DEF PerFile, Prefix, Active, Holds
    <2>6. InStep(f)'
      BY <1>1, <1>3, <1>4, <2>1 DEF PerFile, InStep, Unfinished, Key
    <2>7. AtRest(f)'
      BY <1>1, <1>3, <1>4, <2>1 DEF PerFile, AtRest, Active, Unfinished, Holds, Key
    <2>8. Exact(f)'
      BY <1>1, <1>3, <1>4, <2>1 DEF PerFile, Exact, Holds
    <2> QED
      BY <1>4, <2>2, <2>3, <2>4, <2>5, <2>6, <2>7, <2>8 DEF PerFile
  <1>8. ASSUME GetUnexpected(f) PROVE PerFile(f)'
    <2>1. pc[f] = "fetch" /\ pc'[f] = "idle" /\ result'[f] = "error"
      BY <1>1, <1>8 DEF GetUnexpected, TypeOK
    <2>2. (clean[f] /\ Unfinished(f)) => Holds(f, stored[Key(f)].bytes)
      BY <1>1, <2>1 DEF PerFile, Prefix, InStep, Active
    <2>3. Fetched(f)'
      BY <1>1, <1>3, <1>4, <2>1, <2>2 DEF PerFile, Fetched, Active, Covers
    <2>4. AtEnd(f)'
      BY <1>1, <1>3, <1>4, <2>1, <2>2 DEF PerFile, AtEnd
    <2>5. Done(f)'
      BY <1>1, <1>3, <1>4, <2>1, <2>2 DEF PerFile, Done, Active, Covers
    <2>6. Prefix(f)'
      BY <1>1, <1>3, <1>4, <2>1, <2>2 DEF PerFile, Prefix, Active, Holds
    <2>7. InStep(f)'
      BY <1>1, <1>3, <1>4, <2>1, <2>2 DEF PerFile, InStep, Unfinished, Key
    <2>8. AtRest(f)'
      BY <1>1, <1>3, <1>4, <2>1, <2>2 DEF PerFile, AtRest, Active, Unfinished, Holds, Key
    <2>9. Exact(f)'
      BY <1>1, <1>3, <1>4, <2>1, <2>2 DEF PerFile, Exact, Holds
    <2> QED
      BY <1>4, <2>3, <2>4, <2>5, <2>6, <2>7, <2>8, <2>9 DEF PerFile
  <1>9. PerFile(f)'
    BY <1>5, <1>6, <1>7, <1>8
  <1>10. ASSUME NEW g \in Files, g # f PROVE PerFile(g)'
    BY <1>10, <1>3, Frame DEF StartFails, GetNothing, GetFails, GetUnexpected, IInv, TypeOK
  <1> QED
    BY <1>2, <1>9, <1>10 DEF IInv

\* What a save leaves on disk: the new state, or the old or a torn one and
\* a fault.
LEMMA SaveOutcomes ==
  ASSUME TypeOK, NEW f \in Files, NEW completed \in BOOLEAN, Save(f, completed)
  PROVE  /\ \/ stored'[Key(f)] = State(offset[f], completed) /\ clean' = clean
            \/ stored'[Key(f)] \in {stored[Key(f)], Torn} /\ clean'[f] = FALSE
         /\ \A k \in StateFiles \ {Key(f)} : stored'[k] = stored[k]
         /\ \A g \in Files \ {f} : clean'[g] = clean[g]
         /\ stored' \in [StateFiles -> [kind : {"none", "torn", "state"}, bytes : Nat,
                                        completed : BOOLEAN]]
         /\ clean' \in [Files -> BOOLEAN]
         /\ faults' \in 0 .. MaxFaults
  <1>1. Key(f) \in StateFiles
    BY DEF Key
  <1>2. State(offset[f], completed) \in [kind : {"none", "torn", "state"}, bytes : Nat, completed : BOOLEAN]
    BY DEF State, TypeOK
  <1>3. Torn \in [kind : {"none", "torn", "state"}, bytes : Nat, completed : BOOLEAN]
    BY DEF Torn
  <1>4. CASE stored' = [stored EXCEPT ![Key(f)] = State(offset[f], completed)] /\ UNCHANGED <<clean, faults>>
    <2>1. stored'[Key(f)] = State(offset[f], completed) /\ clean' = clean /\ faults' = faults
      BY <1>1, <1>4 DEF TypeOK
    <2> QED
      BY <2>1, <1>1, <1>2, <1>4 DEF TypeOK
  <1>5. CASE Fault(f) /\ stored' \in {stored, [stored EXCEPT ![Key(f)] = Torn]}
    <2>1. stored'[Key(f)] \in {stored[Key(f)], Torn}
      BY <1>1, <1>5 DEF TypeOK
    <2>2. clean' = [clean EXCEPT ![f] = FALSE] /\ faults' \in 0 .. MaxFaults
      BY <1>5 DEF Fault, TypeOK
    <2>3. /\ clean'[f] = FALSE /\ \A g \in Files \ {f} : clean'[g] = clean[g]
          /\ clean' \in [Files -> BOOLEAN]
      BY <2>2 DEF TypeOK
    <2>4. \A k \in StateFiles \ {Key(f)} : stored'[k] = stored[k]
      BY <1>1, <1>5 DEF TypeOK
    <2>5. stored' \in [StateFiles -> [kind : {"none", "torn", "state"}, bytes : Nat, completed : BOOLEAN]]
      BY <1>1, <1>3, <1>5 DEF TypeOK
    <2> QED
      BY <2>1, <2>2, <2>3, <2>4, <2>5
  <1> QED
    BY <1>4, <1>5 DEF Save

\* A save keeps the invariant of its file, whatever it leaves on disk.
LEMMA SavePerFile ==
  ASSUME IInv, NEW f \in Files, NEW completed \in BOOLEAN,
         pc[f] \in {"save", "saveError", "finish"}, Save(f, completed),
         file' = file, offset' = offset,
         \/ pc'[f] = "fetch" /\ result'[f] = result[f] /\ completed = FALSE
         \/ pc'[f] = "idle" /\ result'[f] = "error" /\ completed = FALSE
         \/ pc'[f] = "idle" /\ result'[f] = "ok" /\ completed = TRUE /\ pc[f] = "finish"
  PROVE  PerFile(f)'
  <1>1. /\ PerFile(f) /\ TypeOK /\ Size[f] \in Nat /\ offset[f] \in Nat
        /\ offset[f] <= Size[f] /\ pc[f] # "idle" /\ result[f] # "ok"
    BY DEF IInv, TypeOK, PerFile, Done, Active
  <1>2. Covers(f, offset[f]) /\ (clean[f] => Holds(f, offset[f]))
    BY <1>1 DEF PerFile, Fetched, Prefix, Active
  <1>3. Backed(f) /\ (pc[f] = "finish" => offset[f] = Size[f])
    BY <1>1 DEF PerFile, AtEnd
  <1>4. \/ stored'[Key(f)] = State(offset[f], completed) /\ clean' = clean
        \/ stored'[Key(f)] \in {stored[Key(f)], Torn} /\ clean'[f] = FALSE
    BY <1>1, SaveOutcomes
  <1>5. ASSUME stored'[Key(f)] = State(offset[f], completed), clean' = clean
        PROVE  PerFile(f)'
    <2>1. stored'[Key(f)].bytes = offset[f] /\ stored'[Key(f)].completed = completed
      BY <1>5 DEF State
    <2>2. Backed(f)'
      BY <2>1, <1>1, <1>2, <1>3, <1>5 DEF Backed, Covers, Unfinished, Key
    <2>3. Fetched(f)'
      BY <2>1, <1>1, <1>2, <1>3, <1>5 DEF Fetched, Active, Covers
    <2>4. AtEnd(f)'
      BY <2>1, <1>1, <1>2, <1>3, <1>5 DEF AtEnd
    <2>5. Done(f)'
      BY <2>1, <1>1, <1>2, <1>3, <1>5 DEF Done, Active, Covers
    <2>6. Prefix(f)'
      BY <2>1, <1>1, <1>2, <1>3, <1>5 DEF Prefix, Active, Holds
    <2>7. InStep(f)'
      BY <2>1, <1>1, <1>2, <1>3, <1>5 DEF InStep, Unfinished, Key
    <2>8. AtRest(f)'
      BY <2>1, <1>1, <1>2, <1>3, <1>5 DEF AtRest, Active, Unfinished, Holds, Key
    <2>9. Exact(f)'
      BY <2>1, <1>1, <1>2, <1>3, <1>5 DEF Exact, Holds
    <2> QED
      BY <2>2, <2>3, <2>4, <2>5, <2>6, <2>7, <2>8, <2>9 DEF PerFile
  <1>6. ASSUME stored'[Key(f)] \in {stored[Key(f)], Torn}, clean'[f] = FALSE
        PROVE  PerFile(f)'
    <2>1. Backed(f)'
      <3>1. CASE stored'[Key(f)] = stored[Key(f)]
        BY <3>1, <1>3 DEF Backed, Covers, Unfinished, Key
      <3>2. CASE stored'[Key(f)] = Torn
        BY <3>2, <1>1 DEF Torn, Backed, Covers, Key
      <3> QED
        BY <3>1, <3>2, <1>6
    <2> QED
      BY <2>1, <1>1, <1>2, <1>3, <1>6
         DEF PerFile, Fetched, AtEnd, Done, Prefix, InStep, AtRest, Exact, Active, Covers
  <1> QED
    BY <1>4, <1>5, <1>6

LEMMA SaveIInv ==
  ASSUME IInv, OwnState, NEW f \in Files, SaveProgress(f) \/ SaveError(f) \/ Finish(f)
  PROVE  IInv'
  <1>1. PICK completed \in BOOLEAN :
          /\ pc[f] \in {"save", "saveError", "finish"} /\ Save(f, completed)
          /\ file' = file /\ offset' = offset
          /\ \/ pc'[f] = "fetch" /\ result'[f] = result[f] /\ completed = FALSE
             \/ pc'[f] = "idle" /\ result'[f] = "error" /\ completed = FALSE
             \/ pc'[f] = "idle" /\ result'[f] = "ok" /\ completed = TRUE /\ pc[f] = "finish"
    <2>1. ASSUME SaveProgress(f) PROVE
            /\ pc[f] = "save" /\ Save(f, FALSE) /\ file' = file /\ offset' = offset
            /\ pc'[f] = "fetch" /\ result'[f] = result[f]
      BY <2>1 DEF SaveProgress, IInv, TypeOK
    <2>2. ASSUME SaveError(f) PROVE
            /\ pc[f] = "saveError" /\ Save(f, FALSE) /\ file' = file /\ offset' = offset
            /\ pc'[f] = "idle" /\ result'[f] = "error"
      BY <2>2 DEF SaveError, IInv, TypeOK
    <2>3. ASSUME Finish(f) PROVE
            /\ pc[f] = "finish" /\ Save(f, TRUE) /\ file' = file /\ offset' = offset
            /\ pc'[f] = "idle" /\ result'[f] = "ok"
      BY <2>3 DEF Finish, IInv, TypeOK
    <2>4. TRUE \in BOOLEAN /\ FALSE \in BOOLEAN
      OBVIOUS
    <2>5. CASE SaveProgress(f)
      BY <2>1, <2>4, <2>5
    <2>6. CASE SaveError(f)
      BY <2>2, <2>4, <2>6
    <2>7. CASE Finish(f)
      BY <2>3, <2>4, <2>7
    <2> QED
      BY <2>5, <2>6, <2>7
  <1>2. PerFile(f)'
    BY <1>1, SavePerFile
  <1>3. /\ \A k \in StateFiles \ {Key(f)} : stored'[k] = stored[k]
        /\ \A g \in Files \ {f} : clean'[g] = clean[g]
        /\ stored' \in [StateFiles -> [kind : {"none", "torn", "state"}, bytes : Nat,
                                       completed : BOOLEAN]]
        /\ clean' \in [Files -> BOOLEAN]
        /\ faults' \in 0 .. MaxFaults
    BY <1>1, SaveOutcomes DEF IInv
  <1>4. TypeOK'
    <2>1. /\ file' \in [Files -> Seq(Nat)] /\ offset' \in [Files -> Nat]
          /\ \A g \in Files : offset'[g] <= Size[g]
      BY <1>1 DEF IInv, TypeOK
    <2>2. pc' \in [Files -> {"idle", "fetch", "save", "saveError", "finish"}]
      BY DEF SaveProgress, SaveError, Finish, IInv, TypeOK
    <2>3. result' \in [Files -> {"none", "ok", "error"}]
      BY DEF SaveProgress, SaveError, Finish, IInv, TypeOK
    <2> QED
      BY <2>1, <2>2, <2>3, <1>3 DEF TypeOK
  <1>5. ASSUME NEW g \in Files, g # f PROVE PerFile(g)'
    <2>1. Key(g) \in StateFiles \ {Key(f)}
      BY <1>5 DEF OwnState, Key
    <2>2. pc'[g] = pc[g] /\ result'[g] = result[g]
      BY <1>5 DEF SaveProgress, SaveError, Finish, IInv, TypeOK
    <2>3. stored'[Key(g)] = stored[Key(g)] /\ clean'[g] = clean[g]
      BY <2>1, <1>3, <1>5
    <2> QED
      BY <2>2, <2>3, <1>1, Frame DEF IInv
  <1> QED
    BY <1>2, <1>4, <1>5 DEF IInv

LEMMA CrashIInv ==
  ASSUME IInv, Crash
  PROVE  IInv'
  <1>1. TypeOK'
    BY DEF IInv, TypeOK, Crash
  <1>2. ASSUME NEW f \in Files PROVE PerFile(f)'
    <2>1. PerFile(f) /\ file' = file /\ stored' = stored /\ offset' = offset
      BY DEF IInv, Crash
    <2>2. CASE pc[f] = "idle"
      <3>1. pc'[f] = pc[f] /\ result'[f] = result[f]
        BY <2>2 DEF Crash
      <3>2. clean'[f] = clean[f]
        BY <2>2 DEF Crash, IInv, TypeOK
      <3> QED
        BY <2>1, <3>1, <3>2, Frame
    <2>3. CASE pc[f] # "idle"
      <3>1. pc'[f] = "idle" /\ result'[f] = "error"
        BY <2>3 DEF Crash
      <3>2. ~clean'[f]
        BY <2>3 DEF Crash
      <3> QED
        BY <2>1, <3>1, <3>2
           DEF PerFile, Backed, Fetched, AtEnd, Done, Prefix, InStep, AtRest, Exact, Active,
               Unfinished, Covers, Key
    <2> QED
      BY <2>2, <2>3
  <1> QED
    BY <1>1, <1>2 DEF IInv

LEMMA NextIInv == IInv /\ Resuming /\ OwnState /\ [Next]_vars => IInv'
  <1> SUFFICES ASSUME IInv, Resuming, OwnState, [Next]_vars PROVE IInv'
    OBVIOUS
  <1>1. ASSUME NEW f \in Files, NEW resume \in Resumes, Start(f, resume) PROVE IInv'
    BY <1>1, StartIInv
  <1>2. ASSUME NEW f \in Files, StartFails(f) \/ GetNothing(f) \/ GetFails(f) \/ GetUnexpected(f)
        PROVE  IInv'
    BY <1>2, QuietIInv
  <1>3. ASSUME NEW f \in Files, GetChunk(f) PROVE IInv'
    BY <1>3, GetChunkIInv
  <1>4. ASSUME NEW f \in Files, WriteFails(f) PROVE IInv'
    BY <1>4, WriteFailsIInv
  <1>5. ASSUME NEW f \in Files, SaveProgress(f) \/ SaveError(f) \/ Finish(f) PROVE IInv'
    BY <1>5, SaveIInv
  <1>6. ASSUME Crash PROVE IInv'
    BY <1>6, CrashIInv
  <1>7. ASSUME UNCHANGED vars PROVE IInv'
    <2>1. TypeOK'
      BY <1>7 DEF vars, IInv, TypeOK
    <2>2. \A f \in Files : PerFile(f)'
      BY <1>7, Frame DEF vars, IInv
    <2> QED
      BY <2>1, <2>2 DEF IInv
  <1> QED
    BY <1>1, <1>2, <1>3, <1>4, <1>5, <1>6, <1>7 DEF Next

LEMMA Invariant ==
  ASSUME Resuming, OwnState
  PROVE  Spec => []IInv
  <1>1. IInv /\ [Next]_vars => IInv'
    BY NextIInv
  <1> QED
    BY InitIInv, <1>1, PTL DEF Spec

----------------------------------------------------------------------------
(* With a state file per file and resuming calls the variables keep their   *)
(* types; in particular no offset passes the end of the remote file.        *)
THEOREM TypeCorrect ==
  ASSUME Resuming, OwnState
  PROVE  Spec => []TypeOK
  <1>1. IInv => TypeOK
    BY DEF IInv
  <1> QED
    BY Invariant, <1>1, PTL

(* A successful DownloadFile leaves no byte out, after any number of        *)
(* crashes, torn states and failed writes (downloads.go:48-155).            *)
THEOREM NothingMissingHolds ==
  ASSUME Resuming, OwnState
  PROVE  Spec => []NothingMissing
  <1>1. IInv => NothingMissing
    BY DEF IInv, PerFile, Done, NothingMissing
  <1> QED
    BY Invariant, <1>1, PTL

(* Without faults it repeats none either: the resumed file is the remote    *)
(* one, byte by byte (downloads.go:69-83).                                  *)
THEOREM ExactIfCleanHolds ==
  ASSUME Resuming, OwnState
  PROVE  Spec => []ExactIfClean
  <1>1. IInv => ExactIfClean
    <2> SUFFICES ASSUME IInv, NEW f \in Files, result[f] = "ok", clean[f]
                 PROVE  file[f] = Whole(f)
      BY DEF ExactIfClean
    <2>1. Holds(f, Size[f]) /\ file[f] \in Seq(Nat) /\ Size[f] \in Nat
      BY DEF IInv, PerFile, Exact, TypeOK
    <2> QED
      BY <2>1 DEF Holds, Whole
  <1> QED
    BY Invariant, <1>1, PTL

=============================================================================
