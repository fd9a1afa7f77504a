-------------------------- MODULE TransferDownload --------------------------
(***************************************************************************)
(* MCUBClient.ResumableDownloadFile with a JsonStateStore: one file, whose *)
(* download is called again after errors and crashes, while the media of   *)
(* the message may be replaced and the partial file may be deleted.        *)
(*                                                                         *)
(* JsonStateStore.Save writes a temporary file and renames it, so a save   *)
(* happens or does not; its error is ignored everywhere in this function.  *)
(* A call resolves the media once, and keeps that location and size.       *)
(*                                                                         *)
(* The local file is the sequence of what was appended to it: the version  *)
(* of the media and the position in it.                                    *)
(***************************************************************************)
EXTENDS Integers, Sequences

CONSTANTS Versions,  \* how many versions of the media there may be
          Size,      \* the size of each version
          PartSize,  \* 512 KB in the code
          MaxFaults  \* bound on crashes, failed writes, saves and deletes, removals

ParametersOK ==
  /\ Versions \in Nat \ {0}
  /\ Size \in [1 .. Versions -> Nat]
  /\ PartSize \in Nat \ {0}
  /\ MaxFaults \in Nat

VARIABLES
  remote, \* the version that the message shows
  file,   \* what the local file holds
  stored, \* the TransferState on disk
  pc,     \* where the call is
  ver,    \* the version whose location the call resolved
  offset, \* its offset
  result, \* how the last call ended
  kept,   \* history: nobody has removed the file since it was truncated
  faults  \* the faults so far

vars == <<remote, file, stored, pc, ver, offset, result, kept, faults>>

NoState == [present |-> FALSE, total |-> 0, done |-> 0]
State(total, done) == [present |-> TRUE, total |-> total, done |-> done]

ChunkLen == IF Size[ver] - offset < PartSize THEN Size[ver] - offset ELSE PartSize
Chunk(n) == [i \in 1 .. n |-> <<ver, offset + i>>]

Holds(v, n) == \A b \in 1 .. n : \E i \in 1 .. Len(file) : file[i] = <<v, b>>

Fault == faults < MaxFaults /\ faults' = faults + 1

\* A save or a delete whose error is ignored.
Store(s) ==
  \/ stored' = s /\ faults' = faults
  \/ stored' = stored /\ Fault

----------------------------------------------------------------------------
Init ==
  /\ remote = 1
  /\ file = << >>
  /\ stored = NoState
  /\ pc = "idle"
  /\ ver = 1
  /\ offset = 0
  /\ result = "none"
  /\ kept = TRUE
  /\ faults = 0

\* The stored state is used if its total size is that of the media.
Resumable == stored.present /\ stored.total = Size[remote]

\* Seeded fault: any stored state is used.
ResumeAnySize ==
  /\ pc = "idle"
  /\ stored.present
  /\ ver'    = remote
  /\ offset' = IF stored.done < Size[remote] THEN stored.done ELSE Size[remote]
  /\ file'   = IF stored.done > 0 THEN file ELSE << >>
  /\ kept'   = (kept \/ stored.done = 0)
  /\ pc'     = "fetch"
  /\ result' = "none"
  /\ UNCHANGED <<remote, stored, faults>>

\* A call goes on at the stored offset, with the file opened for appending
\* if the offset is positive ...
Resume ==
  /\ pc = "idle"
  /\ Resumable
  /\ ver'    = remote
  /\ offset' = stored.done
  /\ file'   = IF stored.done > 0 THEN file ELSE << >>
  /\ kept'   = (kept \/ stored.done = 0)
  /\ pc'     = "fetch"
  /\ result' = "none"
  /\ UNCHANGED <<remote, stored, faults>>

\* ... or saves a fresh state and truncates the file.
Restart ==
  /\ pc = "idle"
  /\ ~Resumable
  /\ Store(State(Size[remote], 0))
  /\ ver'    = remote
  /\ offset' = 0
  /\ file'   = << >>
  /\ kept'   = TRUE
  /\ pc'     = "fetch"
  /\ result' = "none"
  /\ UNCHANGED remote

\* Seeded fault: the offset advances by the part size.
GetChunkWholePart ==
  /\ pc = "fetch"
  /\ offset < Size[ver]
  /\ file'   = file \o Chunk(ChunkLen)
  /\ offset' = offset + PartSize
  /\ pc'     = IF ChunkLen < PartSize THEN "saveLast" ELSE "save"
  /\ UNCHANGED <<remote, stored, ver, result, kept, faults>>

GetChunk ==
  /\ pc = "fetch"
  /\ offset < Size[ver]
  /\ file'   = file \o Chunk(ChunkLen)
  /\ offset' = offset + ChunkLen
  /\ pc'     = IF ChunkLen < PartSize THEN "saveLast" ELSE "save"
  /\ UNCHANGED <<remote, stored, ver, result, kept, faults>>

GetNothing ==
  /\ pc = "fetch"
  /\ offset >= Size[ver]
  /\ pc' = "delete"
  /\ UNCHANGED <<remote, file, stored, ver, offset, result, kept, faults>>

\* The progress is saved after every chunk, the short one included.
SaveProgress ==
  /\ pc \in {"save", "saveLast"}
  /\ Store(State(Size[ver], offset))
  /\ pc' = IF pc = "save" THEN "fetch" ELSE "delete"
  /\ UNCHANGED <<remote, file, ver, offset, result, kept>>

\* An error of UploadGetFile: the progress is saved and the error returned.
GetFails ==
  /\ pc = "fetch"
  /\ Store(State(Size[ver], offset))
  /\ pc' = "idle"
  /\ result' = "error"
  /\ UNCHANGED <<remote, file, ver, offset, kept>>

\* A failing Write leaves a part of the chunk; nothing is saved.
WriteFails ==
  /\ pc = "fetch"
  /\ offset < Size[ver]
  /\ Fault
  /\ \E n \in 0 .. ChunkLen - 1 : file' = file \o Chunk(n)
  /\ pc' = "idle"
  /\ result' = "error"
  /\ UNCHANGED <<remote, stored, ver, offset, kept>>

Finish ==
  /\ pc = "delete"
  /\ Store(NoState)
  /\ pc' = "idle"
  /\ result' = "ok"
  /\ UNCHANGED <<remote, file, ver, offset, kept>>

\* The process dies.
Crash ==
  /\ pc # "idle"
  /\ Fault
  /\ pc' = "idle"
  /\ result' = "error"
  /\ UNCHANGED <<remote, file, stored, ver, offset, kept>>

\* The environment: the media of the message is replaced ...
EditMedia ==
  /\ remote < Versions
  /\ remote' = remote + 1
  /\ UNCHANGED <<file, stored, pc, ver, offset, result, kept, faults>>

\* ... and the user deletes the local file between two calls.
RemoveFile ==
  /\ pc = "idle"
  /\ Fault
  /\ file' = << >>
  /\ kept' = FALSE
  /\ result' = "none"
  /\ UNCHANGED <<remote, stored, pc, ver, offset>>

Next ==
  \/ Resume \/ Restart
  \/ GetChunk \/ GetNothing \/ GetFails \/ WriteFails
  \/ SaveProgress \/ Finish
  \/ Crash \/ EditMedia \/ RemoveFile

Spec == Init /\ [][Next]_vars

----------------------------------------------------------------------------
TypeOK ==
  /\ remote \in 1 .. Versions /\ ver \in 1 .. Versions
  /\ file \in Seq((1 .. Versions) \X Nat)
  /\ stored \in [present : BOOLEAN, total : Nat, done : Nat]
  /\ pc \in {"idle", "fetch", "save", "saveLast", "delete"}
  /\ offset \in 0 .. Size[ver]
  /\ result \in {"none", "ok", "error"}
  /\ kept \in BOOLEAN
  /\ faults \in 0 .. MaxFaults

\* transfers.go:204 on ResumableDownloadFile: it "downloads a Telegram file
\* with resume support".  Unless somebody removed the partial file, a call
\* that returns without an error leaves a file that holds every byte of the
\* version it resolved, after any crashes, failed writes, failed saves and
\* replaced media before it.
NothingMissing == (result = "ok" /\ kept) => Holds(ver, Size[ver])

=============================================================================
