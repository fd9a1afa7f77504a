--------------------------- MODULE ResumableUpload ---------------------------
(***************************************************************************)
(* MCUBClient.ResumableUpload: calls that upload one local file under one  *)
(* resume key, from several goroutines and again after errors and crashes, *)
(* while the file may be edited.                                           *)
(*                                                                         *)
(* The file is counted in parts of 512 KB, the last of which may be short; *)
(* versions of the file differ in their size unless the instance says      *)
(* otherwise.  The server keeps, per file identifier, what was last        *)
(* uploaded as each part; it is external.  Identifiers are random 63-bit   *)
(* numbers in the code and distinct in the model.                          *)
(*                                                                         *)
(* A save of the JsonStateStore is one step here (module JsonStateStore    *)
(* looks inside it).  state.Parts and CreatedAt are never read.            *)
(***************************************************************************)
EXTENDS Integers

CONSTANTS Uploaders, \* calls that may run at the same time
          Versions,  \* the number of versions of the local file
          Parts,     \* the number of parts of each version
          Size,      \* the size of each version, in some unit
          Short,     \* the versions whose last part is short
          Ids,       \* how many uploads are begun
          MaxFaults  \* bound on failed reads, saves, deletes and crashes

ParametersOK ==
  /\ Versions \in Nat \ {0}
  /\ Parts \in [1 .. Versions -> Nat]
  /\ Size \in [1 .. Versions -> Nat]
  /\ Short \subseteq {v \in 1 .. Versions : Parts[v] > 0}
  /\ Ids \in Nat \ {0} /\ MaxFaults \in Nat

VARIABLES
  local,  \* the version of the file on disk
  server, \* per identifier and part: what the server holds
  stored, \* the TransferState on disk
  nextId, \* the next identifier that randInt63 returns
  up,     \* per uploader: its call
  handle, \* per uploader: the InputFile its last call returned
  unread, \* history: identifiers some call of which met a read error
  faults  \* the faults so far

vars == <<local, server, stored, nextId, up, handle, unread, faults>>

MaxParts == CHOOSE n \in {Parts[v] : v \in 1 .. Versions} : \A v \in 1 .. Versions : Parts[v] <= n

Nothing == [ver |-> 0, part |-> 0, whole |-> FALSE]
Content(v, p) == [ver |-> v, part |-> p, whole |-> TRUE]
Piece(v, p)   == [ver |-> v, part |-> p, whole |-> FALSE]

NoState  == [present |-> FALSE, size |-> 0, id |-> 1, done |-> 0]
State(size, id, done) == [present |-> TRUE, size |-> size, id |-> id, done |-> done]
Idle     == [pc |-> "idle", ver |-> 1, id |-> 1, part |-> 0, shifted |-> FALSE]
NoHandle == [id |-> 0, ver |-> 1, parts |-> 0]

\* DoneBytes / partSize after a part: a short one does not count.
WholeParts(call) ==
  IF call.shifted \/ (call.part = Parts[call.ver] /\ call.ver \in Short)
  THEN call.part - 1 ELSE call.part

Fault == faults < MaxFaults /\ faults' = faults + 1

Goto(u, call) == up' = [up EXCEPT ![u] = call]

----------------------------------------------------------------------------
Init ==
  /\ local  = 1
  /\ server = [i \in 1 .. Ids |-> [p \in 0 .. MaxParts - 1 |-> Nothing]]
  /\ stored = NoState
  /\ nextId = 1
  /\ up     = [u \in Uploaders |-> Idle]
  /\ handle = [u \in Uploaders |-> NoHandle]
  /\ unread = {}
  /\ faults = 0

\* Seeded fault: a state of any size is resumed.
ResumeAnySize(u) ==
  /\ up[u].pc = "idle"
  /\ stored.present
  /\ Goto(u, [pc |-> "part", ver |-> local, id |-> stored.id, part |-> stored.done, shifted |-> FALSE])
  /\ handle' = [handle EXCEPT ![u] = NoHandle]
  /\ UNCHANGED <<local, server, stored, nextId, unread, faults>>

\* A stored state of the same size is resumed ...
Resume(u) ==
  /\ up[u].pc = "idle"
  /\ stored.present
  /\ stored.size = Size[local]
  /\ Goto(u, [pc |-> "part", ver |-> local, id |-> stored.id, part |-> stored.done, shifted |-> FALSE])
  /\ handle' = [handle EXCEPT ![u] = NoHandle]
  /\ UNCHANGED <<local, server, stored, nextId, unread, faults>>

\* ... and any other is replaced by a new one with a new identifier.
Begin(u) ==
  /\ up[u].pc = "idle"
  /\ ~(stored.present /\ stored.size = Size[local])
  /\ nextId <= Ids
  /\ nextId' = nextId + 1
  /\ stored' = State(Size[local], nextId, 0)
  /\ Goto(u, [pc |-> "part", ver |-> local, id |-> nextId, part |-> 0, shifted |-> FALSE])
  /\ handle' = [handle EXCEPT ![u] = NoHandle]
  /\ UNCHANGED <<local, server, unread, faults>>

\* The error of that first save is returned.
BeginFails(u) ==
  /\ up[u].pc = "idle"
  /\ ~(stored.present /\ stored.size = Size[local])
  /\ handle' = [handle EXCEPT ![u] = NoHandle]
  /\ UNCHANGED <<local, server, stored, nextId, up, unread, faults>>

\* The next part is read and uploaded.
UploadPart(u) ==
  LET call == up[u]
      data == IF call.shifted THEN Piece(call.ver, call.part) ELSE Content(call.ver, call.part)
  IN /\ call.pc = "part"
     /\ call.part < Parts[call.ver]
     /\ server' = [server EXCEPT ![call.id][call.part] = data]
     /\ Goto(u, [call EXCEPT !.pc = "save", !.part = @ + 1])
     /\ UNCHANGED <<local, stored, nextId, handle, unread, faults>>

\* A read error after some bytes of the part goes unnoticed (readFull): the
\* piece is uploaded, and later reads are shifted by what it lacks.
UploadPiece(u) ==
  LET call == up[u]
  IN /\ call.pc = "part"
     /\ call.part < Parts[call.ver]
     /\ Fault
     /\ server' = [server EXCEPT ![call.id][call.part] = Piece(call.ver, call.part)]
     /\ unread' = unread \cup {call.id}
     /\ Goto(u, [call EXCEPT !.pc = "save", !.part = @ + 1, !.shifted = TRUE])
     /\ UNCHANGED <<local, stored, nextId, handle>>

\* An error before the first byte ends the loop as the end of the file does.
ReadFails(u) ==
  /\ up[u].pc = "part"
  /\ up[u].part < Parts[up[u].ver]
  /\ Fault
  /\ unread' = unread \cup {up[u].id}
  /\ Goto(u, [up[u] EXCEPT !.pc = "delete"])
  /\ UNCHANGED <<local, server, stored, nextId, handle>>

\* An error of the server is returned.
UploadFails(u) ==
  /\ up[u].pc = "part"
  /\ up[u].part < Parts[up[u].ver]
  /\ Goto(u, Idle)
  /\ UNCHANGED <<local, server, stored, nextId, handle, unread, faults>>

\* A failing save of the progress is ignored.
SaveProgress(u) ==
  /\ up[u].pc = "save"
  /\ \/ /\ stored' = State(Size[up[u].ver], up[u].id, WholeParts(up[u]))
        /\ faults' = faults
     \/ /\ stored' = stored
        /\ Fault
  /\ Goto(u, [up[u] EXCEPT !.pc = "part"])
  /\ UNCHANGED <<local, server, nextId, handle, unread>>

LastPart(u) ==
  /\ up[u].pc = "part"
  /\ up[u].part >= Parts[up[u].ver]
  /\ Goto(u, [up[u] EXCEPT !.pc = "delete"])
  /\ UNCHANGED <<local, server, stored, nextId, handle, unread, faults>>

\* The state is deleted (or not: the error is ignored), the handle returned.
Finish(u) ==
  /\ up[u].pc = "delete"
  /\ \/ stored' = NoState /\ faults' = faults
     \/ stored' = stored /\ Fault
  /\ Goto(u, Idle)
  /\ handle' = [handle EXCEPT ![u] = [id |-> up[u].id, ver |-> up[u].ver,
                                      parts |-> Parts[up[u].ver]]]
  /\ UNCHANGED <<local, server, nextId, unread>>

\* The process dies.
Crash ==
  /\ \E u \in Uploaders : up[u].pc # "idle"
  /\ Fault
  /\ up' = [u \in Uploaders |-> Idle]
  /\ handle' = [u \in Uploaders |-> NoHandle]
  /\ UNCHANGED <<local, server, stored, nextId, unread>>

\* The environment: the file is replaced between two calls.
EditFile ==
  /\ local < Versions
  /\ \A u \in Uploaders : up[u].pc = "idle"
  /\ local' = local + 1
  /\ UNCHANGED <<server, stored, nextId, up, handle, unread, faults>>

Next ==
  \/ \E u \in Uploaders :
       \/ Resume(u) \/ Begin(u) \/ BeginFails(u)
       \/ UploadPart(u) \/ UploadPiece(u) \/ ReadFails(u) \/ UploadFails(u)
       \/ SaveProgress(u) \/ LastPart(u) \/ Finish(u)
  \/ Crash \/ EditFile

Spec == Init /\ [][Next]_vars

----------------------------------------------------------------------------
TypeOK ==
  /\ local \in 1 .. Versions
  /\ server \in [1 .. Ids -> [0 .. MaxParts - 1 ->
                   [ver : 0 .. Versions, part : 0 .. MaxParts, whole : BOOLEAN]]]
  /\ stored \in [present : BOOLEAN, size : Nat, id : 1 .. Ids, done : 0 .. MaxParts]
  /\ nextId \in 1 .. Ids + 1
  /\ up \in [Uploaders -> [pc : {"idle", "part", "save", "delete"}, ver : 1 .. Versions,
                           id : 1 .. Ids, part : 0 .. MaxParts, shifted : BOOLEAN]]
  /\ handle \in [Uploaders -> [id : 0 .. Ids, ver : 1 .. Versions, parts : 0 .. MaxParts]]
  /\ unread \subseteq 1 .. Ids
  /\ faults \in 0 .. MaxFaults

Complete(h) == \A p \in 0 .. h.parts - 1 : server[h.id][p] = Content(h.ver, p)

\* Unless a read of the file failed during its upload, a handle names parts
\* that are all on the server and all from the version that the call opened,
\* although other calls, crashed calls and earlier versions uploaded under
\* the same resume key (transfers.go:129-148, 186-201).
HandleFromOneVersion ==
  \A u \in Uploaders : (handle[u].id \notin unread \cup {0}) => Complete(handle[u])

=============================================================================
