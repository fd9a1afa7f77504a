------------------------------- MODULE Uploads -------------------------------
(***************************************************************************)
(* MCUBClient.uploadFile and the calls built on it: UploadFile and         *)
(* UploadBytes, UploadMultiple with a goroutine for every path, SendFile,  *)
(* SendFileAdvanced, SendAudio and SendVideo.  That a peer is not found is *)
(* one of the ways to fail before an upload or after it.  A call may be    *)
(* repeated after errors and crashes under one resume key, and may run     *)
(* beside others.                                                          *)
(*                                                                         *)
(* A source is counted in parts of PartSize; what a part holds is its file,*)
(* the version of it and the place it was read from.  A stream cannot seek *)
(* and starts at its head in every call.  A state file is as in module     *)
(* FileDownload, but one that does not decode is taken for none here.      *)
(* The server, the disk and the peers are external.                        *)
(***************************************************************************)
EXTENDS Integers, FiniteSets

CONSTANTS Calls,    \* goroutines that upload
          Files,    \* the sources, each with its resume key
          Parts,    \* the number of parts of each
          Short,    \* those whose last part is short
          Big,      \* those of more than 10 MB
          Via,      \* "path", "seeker" or "stream": how each is read
          Ids,      \* bound on the uploads begun
          MaxFaults \* bound on failed saves and crashes

ParametersOK ==
  /\ Files # {} /\ IsFiniteSet(Files)
  /\ Parts \in [Files -> Nat] /\ Via \in [Files -> {"path", "seeker", "stream"}]
  /\ Short \subseteq {f \in Files : Parts[f] > 0} /\ Big \subseteq Files
  /\ Ids \in Nat \ {0} /\ MaxFaults \in Nat

VARIABLES
  version, \* the version of each file
  server,  \* per file identifier and part: what the server holds
  stored,  \* per file: the ResumeState on disk
  nextId,  \* the next identifier that rand.Int63 returns
  call,    \* per goroutine: its call
  handle,  \* per goroutine: what its last call returned
  batch,   \* the UploadMultiple in progress
  spoiled, \* history: identifiers whose file was edited, or resumed as a stream
  faults   \* the faults so far

vars == <<version, server, stored, nextId, call, handle, batch, spoiled, faults>>

MaxParts == CHOOSE n \in {Parts[f] : f \in Files} : \A f \in Files : Parts[f] <= n
Nothing  == [file |-> "none", ver |-> 0, pos |-> 0, big |-> FALSE]
Content(f, v, pos) == [file |-> f, ver |-> v, pos |-> pos, big |-> Via[f] = "path" /\ f \in Big]

NoState == [kind |-> "none", id |-> 0, parts |-> 0]
State(kind, id, parts) == [kind |-> kind, id |-> id, parts |-> parts]

Idle     == [pc |-> "idle", op |-> "none", file |-> "none", store |-> FALSE, id |-> 0, part |-> 0, pos |-> 0, ver |-> 0]
NoHandle == [id |-> 0, parts |-> 0, file |-> "none", ver |-> 0]
NoBatch  == [pc |-> "none", of |-> <<>>]
Handle(x) == [id |-> x.id, parts |-> x.part, file |-> x.file, ver |-> x.ver]

Goto(c, x)      == call' = [call EXCEPT ![c] = x]
Return(c, h)    == Goto(c, Idle) /\ handle' = [handle EXCEPT ![c] = h]
Fault == faults < MaxFaults /\ faults' = faults + 1

----------------------------------------------------------------------------
Init ==
  /\ version = [f \in Files |-> 1]
  /\ server  = [i \in 1 .. Ids |-> [p \in 0 .. 2 * MaxParts |-> Nothing]]
  /\ stored  = [f \in Files |-> NoState]
  /\ nextId  = 1
  /\ call    = [c \in Calls |-> Idle]
  /\ handle  = [c \in Calls |-> NoHandle]
  /\ batch   = NoBatch
  /\ spoiled = {} /\ faults = 0

\* A call of UploadFile or UploadBytes, or of one that sends the file: SendFile,
\* whose caller may name a StateStore, SendFileAdvanced, SendAudio, SendVideo.
Begin(c, op, f, store) ==
  /\ call[c].pc = "idle" /\ batch.pc # "run"
  /\ store => op = "send"
  /\ batch' = NoBatch
  /\ Goto(c, [Idle EXCEPT !.op = op, !.file = f, !.store = store, !.pc = "open"])
  /\ handle' = [handle EXCEPT ![c] = NoHandle]
  /\ UNCHANGED <<version, server, stored, nextId, spoiled, faults>>

\* UploadMultiple starts a goroutine for every path ...
UploadMultiple(of) ==
  /\ \A c \in Calls : call[c].pc = "idle"
  /\ batch' = [pc |-> "run", of |-> of]
  /\ call'  = [c \in Calls |-> [Idle EXCEPT !.op = "upload", !.file = of[c], !.pc = "open"]]
  /\ handle' = [c \in Calls |-> NoHandle]
  /\ UNCHANGED <<version, server, stored, nextId, spoiled, faults>>

\* ... and returns when all have ended, with an error if one has.
MultipleReturn ==
  /\ batch.pc = "run" /\ \A c \in Calls : call[c].pc = "idle"
  /\ batch' = [batch EXCEPT !.pc = IF \E c \in Calls : handle[c] = NoHandle THEN "error" ELSE "ok"]
  /\ UNCHANGED <<version, server, stored, nextId, call, handle, spoiled, faults>>

\* The progress of an unfinished upload is taken up, under its identifier ...
Resumable(c) == call[c].store /\ stored[call[c].file].kind = "state"
Resume(c) ==
  LET f == call[c].file
      s == stored[f]
  IN /\ call[c].pc = "open" /\ Resumable(c)
     /\ Via[f] = "stream" => s.parts <= MaxParts   \* bounds the parts of a stream that is resumed again and again
     /\ Goto(c, [call[c] EXCEPT !.pc = "read", !.id = s.id, !.part = s.parts, !.ver = version[f],
                                !.pos = IF Via[f] = "stream" THEN 0 ELSE s.parts])
     /\ spoiled' = IF Via[f] = "stream" /\ s.parts > 0 THEN spoiled \cup {s.id} ELSE spoiled
     /\ UNCHANGED <<version, server, stored, nextId, handle, batch, faults>>

\* ... and any other upload begins with a new one, as does one whose caller
\* has not asked for Resume.
Start(c) ==
  /\ call[c].pc = "open" /\ nextId <= Ids
  /\ nextId' = nextId + 1
  /\ Goto(c, [call[c] EXCEPT !.pc = "read", !.id = nextId, !.ver = version[call[c].file]])
  /\ UNCHANGED <<version, server, stored, handle, batch, spoiled, faults>>

\* The file cannot be opened or read, a peer is not found, or a request fails.
Fails(c) ==
  /\ call[c].pc \in {"open", "read", "send"}
  /\ Return(c, NoHandle)
  /\ UNCHANGED <<version, server, stored, nextId, batch, spoiled, faults>>

\* The next part is read and uploaded; a short one is the last.
UploadPart(c) ==
  LET x == call[c]
  IN /\ x.pc = "read" /\ x.pos < Parts[x.file]
     /\ server' = [server EXCEPT ![x.id][x.part] = Content(x.file, x.ver, x.pos)]
     /\ Goto(c, [x EXCEPT !.part = @ + 1, !.pos = @ + 1,
                          !.pc = IF x.store THEN "save" ELSE IF x.pos + 1 = Parts[x.file] /\ x.file \in Short
                                                             THEN "final" ELSE "read"])
     /\ UNCHANGED <<version, stored, nextId, handle, batch, spoiled, faults>>

\* The error of a save is ignored; one that fails may leave the file torn.
Save(f, s) ==
  \/ stored' = [stored EXCEPT ![f] = s] /\ faults' = faults
  \/ Fault /\ stored' \in {stored, [stored EXCEPT ![f] = State("torn", 0, 0)]}

\* Seeded fault: the part in progress is counted with those that are done.
SaveAhead(c) ==
  LET x == call[c]
  IN /\ x.pc = "save"
     /\ Save(x.file, State("state", x.id, x.part + 1))
     /\ Goto(c, [x EXCEPT !.pc = IF x.pos = Parts[x.file] /\ x.file \in Short THEN "final" ELSE "read"])
     /\ UNCHANGED <<version, server, nextId, handle, batch, spoiled>>

SaveProgress(c) ==
  LET x == call[c]
  IN /\ x.pc = "save"
     /\ Save(x.file, State("state", x.id, x.part))
     /\ Goto(c, [x EXCEPT !.pc = IF x.pos = Parts[x.file] /\ x.file \in Short THEN "final" ELSE "read"])
     /\ UNCHANGED <<version, server, nextId, handle, batch, spoiled>>

LastPart(c) ==
  /\ call[c].pc = "read" /\ call[c].pos >= Parts[call[c].file]
  /\ Goto(c, [call[c] EXCEPT !.pc = "final"])
  /\ UNCHANGED <<version, server, stored, nextId, handle, batch, spoiled, faults>>

\* The upload is marked as completed, and its handle returned or sent.
Finish(c) ==
  LET x == call[c]
  IN /\ x.pc = "final"
     /\ IF x.store THEN Save(x.file, State("done", 0, x.part)) ELSE UNCHANGED <<stored, faults>>
     /\ IF x.op = "upload" THEN Return(c, Handle(x))
        ELSE Goto(c, [x EXCEPT !.pc = "send"]) /\ UNCHANGED handle
     /\ UNCHANGED <<version, server, nextId, batch, spoiled>>

\* messages.sendMedia; its answer may be lost.
Send(c) ==
  /\ call[c].pc = "send"
  /\ \E h \in {Handle(call[c]), NoHandle} : Return(c, h)
  /\ UNCHANGED <<version, server, stored, nextId, batch, spoiled, faults>>

\* The process dies.
Crash ==
  /\ \E c \in Calls : call[c].pc # "idle"
  /\ Fault
  /\ call'   = [c \in Calls |-> Idle]
  /\ handle' = [c \in Calls |-> NoHandle]
  /\ batch'  = NoBatch
  /\ UNCHANGED <<version, server, stored, nextId, spoiled>>

\* The environment: a file is edited, between two calls or during one.  What a
\* stream gives to a later call is never relied on (spoiled).
EditFile(f) ==
  /\ version[f] = 1 /\ Via[f] # "stream"
  /\ version' = [version EXCEPT ![f] = 2]
  /\ spoiled' = spoiled \cup {call[c].id : c \in {d \in Calls : call[d].file = f}} \cup {stored[f].id}
  /\ UNCHANGED <<server, stored, nextId, call, handle, batch, faults>>

Next ==
  \/ \E c \in Calls :
       \/ \E op \in {"upload", "send"}, f \in Files, store \in BOOLEAN : Begin(c, op, f, store)
       \/ Resume(c) \/ Start(c) \/ Fails(c) \/ UploadPart(c) \/ SaveProgress(c) \/ LastPart(c) \/ Finish(c)
       \/ Send(c)
  \/ \E of \in [Calls -> Files] : UploadMultiple(of)
  \/ MultipleReturn
  \/ Crash
  \/ \E f \in Files : EditFile(f)

----------------------------------------------------------------------------
TypeOK ==
  /\ stored \in [Files -> [kind : {"none", "torn", "state", "done"}, id : 0 .. Ids, parts : 0 .. 2 * MaxParts]]
  /\ \A c \in Calls : call[c].part \in 0 .. 2 * MaxParts /\ call[c].id \in 0 .. Ids
  /\ batch.pc \in {"none", "run", "ok", "error"}

Whole(h) ==
  /\ h.parts = Parts[h.file]
  /\ \A p \in 0 .. h.parts - 1 : server[h.id][p] = Content(h.file, h.ver, p)

\* A handle that is returned or sent names every part of its file, in order and
\* of one version, whatever calls, crashes and failed saves under the same key
\* came before (uploads.go:98-197), unless the file was edited or the upload of
\* a stream was resumed.
HandleIsFile ==
  \A h \in {handle[c] : c \in Calls} \cup {Handle(call[c]) : c \in {d \in Calls : call[d].pc = "send"}} : h.id \notin spoiled \cup {0} => Whole(h)

\* UploadMultiple that returns without an error returns a handle for every path,
\* in the order of the paths, and leaves no goroutine behind (uploads.go:549-571).
MultipleWhole ==
  batch.pc = "ok" /\ (\A c \in Calls : call[c].pc = "idle") =>
    \A c \in Calls : handle[c] # NoHandle /\ handle[c].file = batch.of[c]

=============================================================================
