---------------------------- MODULE FileDownload ----------------------------
(***************************************************************************)
(* MCUBClient.DownloadFile with a session.StateStore, as ResumableDownload *)
(* and a user's own calls run it: downloads to several files, each of      *)
(* which may be called again after an error or a crash of the process.     *)
(*                                                                         *)
(* A file is the sequence of the positions of the remote file that were    *)
(* written to it, so a missing or a repeated byte shows.  StateStore.Save  *)
(* truncates the state file and then writes it: a failing write leaves it  *)
(* undecodable.  Saves are unchecked in the code; a process that dies in   *)
(* the middle of one is a torn save followed by a crash.                   *)
(*                                                                         *)
(* The server is external: it returns the bytes from the offset, at most   *)
(* PartSize of them, and fewer only at the end of the file.                *)
(***************************************************************************)
EXTENDS Integers, Sequences

CONSTANTS Files,      \* the destination files
          StateFiles, \* the state files on disk
          StateOf,    \* the state file of each destination's resume key
          Size,       \* the size of the remote file of each destination
          PartSize,   \* params.PartSize
          Resumes,    \* the values of params.Resume that callers pass
          MaxFaults   \* bound on crashes, failed writes and failed saves

ASSUME StateAssumption == StateOf \in [Files -> StateFiles]
ASSUME SizeAssumption  == Size \in [Files -> Nat]
ASSUME PartAssumption  == PartSize \in Nat \ {0}
ASSUME ResumeAssumption == Resumes \subseteq BOOLEAN
ASSUME FaultAssumption == MaxFaults \in Nat

VARIABLES
  file,   \* per destination: the remote positions it holds, in order
  stored, \* per state file: what is on disk
  pc,     \* per destination: where its download is
  offset, \* per destination: offset, which bytesDone always equals
  result, \* per destination: how the last call ended
  clean,  \* history: no fault has met the file since it was truncated
  faults  \* the faults so far

vars == <<file, stored, pc, offset, result, clean, faults>>

NoState   == [kind |-> "none", bytes |-> 0, completed |-> FALSE]
Torn      == [kind |-> "torn", bytes |-> 0, completed |-> FALSE]
State(n, completed) == [kind |-> "state", bytes |-> n, completed |-> completed]

Key(f) == StateOf[f]

\* The positions that UploadGetFile returns for the present offset.
ChunkLen(f) == IF Size[f] - offset[f] < PartSize THEN Size[f] - offset[f] ELSE PartSize
Chunk(f, n) == [i \in 1 .. n |-> offset[f] + i]

Whole(f)     == [i \in 1 .. Size[f] |-> i]
Contains(s, b) == \E i \in 1 .. Len(s) : s[i] = b
Covers(f, n) == \A b \in 1 .. n : Contains(file[f], b)

Fault(f) ==
  /\ faults < MaxFaults
  /\ faults' = faults + 1
  /\ clean'  = [clean EXCEPT ![f] = FALSE]

----------------------------------------------------------------------------
Init ==
  /\ file   = [f \in Files |-> << >>]
  /\ stored = [k \in StateFiles |-> NoState]
  /\ pc     = [f \in Files |-> "idle"]
  /\ offset = [f \in Files |-> 0]
  /\ result = [f \in Files |-> "none"]
  /\ clean  = [f \in Files |-> TRUE]
  /\ faults = 0

\* The offset at which a call begins.
StartOffset(f, resume) ==
  IF resume /\ ~stored[Key(f)].completed THEN stored[Key(f)].bytes ELSE 0

\* A state file that cannot be decoded ends a resuming call at once.
StartFails(f) ==
  /\ pc[f] = "idle"
  /\ stored[Key(f)].kind = "torn"
  /\ TRUE \in Resumes
  /\ result' = [result EXCEPT ![f] = "error"]
  /\ UNCHANGED <<file, stored, pc, offset, clean, faults>>

\* Seeded fault: the file is truncated whatever the offset.
StartTruncating(f, resume) ==
  /\ pc[f] = "idle"
  /\ resume => stored[Key(f)].kind # "torn"
  /\ offset' = [offset EXCEPT ![f] = StartOffset(f, resume)]
  /\ file'   = [file   EXCEPT ![f] = << >>]
  /\ clean'  = [clean  EXCEPT ![f] = TRUE]
  /\ pc'     = [pc     EXCEPT ![f] = "fetch"]
  /\ result' = [result EXCEPT ![f] = "none"]
  /\ UNCHANGED <<stored, faults>>

\* Seeded fault: the file is opened for appending whatever the offset.
StartAppending(f, resume) ==
  /\ pc[f] = "idle"
  /\ resume => stored[Key(f)].kind # "torn"
  /\ offset' = [offset EXCEPT ![f] = StartOffset(f, resume)]
  /\ pc'     = [pc     EXCEPT ![f] = "fetch"]
  /\ result' = [result EXCEPT ![f] = "none"]
  /\ UNCHANGED <<file, stored, clean, faults>>

\* A call opens the file for appending if its offset is positive, and
\* truncates it if not.
Start(f, resume) ==
  /\ pc[f] = "idle"
  /\ resume => stored[Key(f)].kind # "torn"
  /\ offset' = [offset EXCEPT ![f] = StartOffset(f, resume)]
  /\ file'   = [file   EXCEPT ![f] = IF StartOffset(f, resume) > 0 THEN @ ELSE << >>]
  /\ clean'  = [clean  EXCEPT ![f] = @ \/ StartOffset(f, resume) = 0]
  /\ pc'     = [pc     EXCEPT ![f] = "fetch"]
  /\ result' = [result EXCEPT ![f] = "none"]
  /\ UNCHANGED <<stored, faults>>

\* Seeded fault: the offset advances by the part size.
GetChunkWholePart(f) ==
  /\ pc[f] = "fetch"
  /\ offset[f] < Size[f]
  /\ file'   = [file   EXCEPT ![f] = @ \o Chunk(f, ChunkLen(f))]
  /\ offset' = [offset EXCEPT ![f] = @ + PartSize]
  /\ pc'     = [pc     EXCEPT ![f] = IF ChunkLen(f) < PartSize THEN "finish" ELSE "save"]
  /\ UNCHANGED <<stored, result, clean, faults>>

\* UploadGetFile answers and the chunk is written; a short chunk is the last.
GetChunk(f) ==
  /\ pc[f] = "fetch"
  /\ offset[f] < Size[f]
  /\ file'   = [file   EXCEPT ![f] = @ \o Chunk(f, ChunkLen(f))]
  /\ offset' = [offset EXCEPT ![f] = @ + ChunkLen(f)]
  /\ pc'     = [pc     EXCEPT ![f] = IF ChunkLen(f) < PartSize THEN "finish" ELSE "save"]
  /\ UNCHANGED <<stored, result, clean, faults>>

\* An answer without bytes ends the loop.
GetNothing(f) ==
  /\ pc[f] = "fetch"
  /\ offset[f] >= Size[f]
  /\ pc' = [pc EXCEPT ![f] = "finish"]
  /\ UNCHANGED <<file, stored, offset, result, clean, faults>>

\* An error of UploadGetFile is returned after the progress has been saved.
GetFails(f) ==
  /\ pc[f] = "fetch"
  /\ pc' = [pc EXCEPT ![f] = "saveError"]
  /\ UNCHANGED <<file, stored, offset, result, clean, faults>>

\* An answer of another type (a CDN redirect) is returned as it comes.
GetUnexpected(f) ==
  /\ pc[f] = "fetch"
  /\ pc'     = [pc     EXCEPT ![f] = "idle"]
  /\ result' = [result EXCEPT ![f] = "error"]
  /\ UNCHANGED <<file, stored, offset, clean, faults>>

\* A failing Write leaves part of the chunk, and nothing is saved.
WriteFails(f) ==
  /\ pc[f] = "fetch"
  /\ offset[f] < Size[f]
  /\ Fault(f)
  /\ \E n \in 0 .. ChunkLen(f) - 1 : file' = [file EXCEPT ![f] = @ \o Chunk(f, n)]
  /\ pc'     = [pc     EXCEPT ![f] = "idle"]
  /\ result' = [result EXCEPT ![f] = "error"]
  /\ UNCHANGED <<stored, offset>>

\* StateStore.Save, whose error is ignored: it may find the file unchanged
\* (it could not be opened) or leave it torn.
Save(f, completed) ==
  \/ /\ stored' = [stored EXCEPT ![Key(f)] = State(offset[f], completed)]
     /\ UNCHANGED <<clean, faults>>
  \/ /\ Fault(f)
     /\ stored' \in {stored, [stored EXCEPT ![Key(f)] = Torn]}

SaveProgress(f) ==
  /\ pc[f] = "save"
  /\ Save(f, FALSE)
  /\ pc' = [pc EXCEPT ![f] = "fetch"]
  /\ UNCHANGED <<file, offset, result>>

SaveError(f) ==
  /\ pc[f] = "saveError"
  /\ Save(f, FALSE)
  /\ pc'     = [pc     EXCEPT ![f] = "idle"]
  /\ result' = [result EXCEPT ![f] = "error"]
  /\ UNCHANGED <<file, offset>>

Finish(f) ==
  /\ pc[f] = "finish"
  /\ Save(f, TRUE)
  /\ pc'     = [pc     EXCEPT ![f] = "idle"]
  /\ result' = [result EXCEPT ![f] = "ok"]
  /\ UNCHANGED <<file, offset>>

\* The process dies: every download in progress stops where it is.
Crash ==
  /\ \E f \in Files : pc[f] # "idle"
  /\ faults < MaxFaults
  /\ faults' = faults + 1
  /\ clean'  = [f \in Files |-> clean[f] /\ pc[f] = "idle"]
  /\ pc'     = [f \in Files |-> "idle"]
  /\ result' = [f \in Files |-> IF pc[f] = "idle" THEN result[f] ELSE "error"]
  /\ UNCHANGED <<file, stored, offset>>

Next ==
  \/ \E f \in Files :
       \/ StartFails(f)
       \/ \E resume \in Resumes : Start(f, resume)
       \/ GetChunk(f) \/ GetNothing(f) \/ GetFails(f) \/ GetUnexpected(f) \/ WriteFails(f)
       \/ SaveProgress(f) \/ SaveError(f) \/ Finish(f)
  \/ Crash

Spec == Init /\ [][Next]_vars

----------------------------------------------------------------------------
TypeOK ==
  /\ file   \in [Files -> Seq(Nat)]
  /\ stored \in [StateFiles -> [kind : {"none", "torn", "state"}, bytes : Nat, completed : BOOLEAN]]
  /\ pc     \in [Files -> {"idle", "fetch", "save", "saveError", "finish"}]
  /\ offset \in [Files -> Nat]
  /\ \A f \in Files : offset[f] <= Size[f]
  /\ result \in [Files -> {"none", "ok", "error"}]
  /\ clean  \in [Files -> BOOLEAN]
  /\ faults \in 0 .. MaxFaults

\* downloads.go:47 on DownloadFile: it "downloads a Telegram file to disk,
\* with optional resumption".  A call that returns without an error leaves a
\* file that holds every byte of the remote one, whatever calls, errors and
\* crashes came before it.
NothingMissing == \A f \in Files : result[f] = "ok" => Covers(f, Size[f])

\* A file that no crash, failed write or failed save has met since it was
\* truncated holds, after a successful call, the remote file and no more,
\* however often the calls before it ended with an error of the server
\* (downloads.go:90-103 saves the progress on that path, 133-140 on the
\* other, and 78-83 opens the file again).
ExactIfClean == \A f \in Files : (result[f] = "ok" /\ clean[f]) => file[f] = Whole(f)

=============================================================================
