---------------------------- MODULE JsonStateStore ----------------------------
(***************************************************************************)
(* client.JsonStateStore for one key: Save writes the state to a file with *)
(* a fixed temporary name and renames it to the state file.  Nothing locks *)
(* the store, so two saves of the same key use the same temporary file.    *)
(*                                                                         *)
(* A file is an inode, since a writer keeps the inode it opened when the   *)
(* file gets another name.  os.WriteFile opens and truncates, then writes  *)
(* the data from offset 0; over longer data of another writer the result   *)
(* is not a state.  The file system is external.                           *)
(***************************************************************************)
CONSTANTS Writers, \* goroutines that save and delete
          States,  \* the encoded states they save
          Inodes,  \* identities of files
          None,    \* a name without a file
          Empty,   \* the content of a truncated file, and of no file
          Garbage  \* content that does not decode

ParametersOK ==
  /\ None \notin Inodes
  /\ {Empty, Garbage} \cap States = {}
  /\ Empty # Garbage

VARIABLES
  path, \* the inode of the state file
  tmp,  \* the inode of the temporary file
  data, \* the content of each inode
  pc,   \* per writer: where its save is
  fd,   \* per writer: the inode it opened
  val,  \* per writer: the state it saves
  ret   \* history: what the last Load since the last rename or delete read

vars == <<path, tmp, data, pc, fd, val, ret>>

Idle == [w \in Writers |-> "idle"]
Free == Inodes \ ({path, tmp} \cup {fd[w] : w \in Writers})

\* What a Load of the state file reads.
Content == IF path = None THEN Empty ELSE data[path]

----------------------------------------------------------------------------
Init ==
  /\ path = None
  /\ tmp  = None
  /\ data = [i \in Inodes |-> Empty]
  /\ pc   = Idle
  /\ fd   = [w \in Writers |-> None]
  /\ val  = [w \in Writers |-> Empty]
  /\ ret  = Empty

\* Seeded fault: the state file itself is opened.
SaveOpenInPlace(w, s) ==
  /\ pc[w] = "idle"
  /\ \E i \in IF path = None THEN Free ELSE {path} :
       /\ tmp'  = i
       /\ path' = i
       /\ data' = [data EXCEPT ![i] = Empty]
       /\ fd'   = [fd EXCEPT ![w] = i]
  /\ pc'  = [pc  EXCEPT ![w] = "write"]
  /\ val' = [val EXCEPT ![w] = s]
  /\ UNCHANGED ret

\* Save opens the temporary file, truncating it or creating it ...
SaveOpen(w, s) ==
  /\ pc[w] = "idle"
  /\ \E i \in IF tmp = None THEN Free ELSE {tmp} :
       /\ tmp'  = i
       /\ data' = [data EXCEPT ![i] = Empty]
       /\ fd'   = [fd EXCEPT ![w] = i]
  /\ pc'  = [pc  EXCEPT ![w] = "write"]
  /\ val' = [val EXCEPT ![w] = s]
  /\ UNCHANGED <<path, ret>>

\* ... writes the data ...
SaveWrite(w) ==
  /\ pc[w] = "write"
  /\ \E d \in IF data[fd[w]] = Empty THEN {val[w]} ELSE {val[w], Garbage} :
       data' = [data EXCEPT ![fd[w]] = d]
  /\ pc' = [pc EXCEPT ![w] = "rename"]
  /\ UNCHANGED <<path, tmp, fd, val, ret>>

\* ... or a part of it, and returns the error ...
SaveWriteFails(w) ==
  /\ pc[w] = "write"
  /\ data' \in {data, [data EXCEPT ![fd[w]] = Garbage]}
  /\ pc' = [pc EXCEPT ![w] = "idle"]
  /\ fd' = [fd EXCEPT ![w] = None]
  /\ val' = [val EXCEPT ![w] = Empty]
  /\ UNCHANGED <<path, tmp, ret>>

\* ... and renames whatever has the temporary name by now, if anything has.
SaveRename(w) ==
  /\ pc[w] = "rename"
  /\ path' = IF tmp = None THEN path ELSE tmp
  /\ tmp'  = None
  /\ pc'   = [pc  EXCEPT ![w] = "idle"]
  /\ fd'   = [fd  EXCEPT ![w] = None]
  /\ val'  = [val EXCEPT ![w] = Empty]
  /\ ret'  = Empty
  /\ UNCHANGED data

Delete(w) ==
  /\ pc[w] = "idle"
  /\ path' = None
  /\ ret'  = Empty
  /\ UNCHANGED <<tmp, data, pc, fd, val>>

Load ==
  /\ ret' = Content
  /\ UNCHANGED <<path, tmp, data, pc, fd, val>>

\* The process dies; the temporary file stays.
Crash ==
  /\ pc # Idle
  /\ pc'  = Idle
  /\ fd'  = [w \in Writers |-> None]
  /\ val' = [w \in Writers |-> Empty]
  /\ UNCHANGED <<path, tmp, data, ret>>

Next ==
  \/ \E w \in Writers : \/ \E s \in States : SaveOpen(w, s)
                        \/ SaveWrite(w) \/ SaveWriteFails(w) \/ SaveRename(w)
                        \/ Delete(w)
  \/ Load
  \/ Crash

Spec == Init /\ [][Next]_vars

----------------------------------------------------------------------------
TypeOK ==
  /\ path \in Inodes \cup {None} /\ tmp \in Inodes \cup {None}
  /\ data \in [Inodes -> States \cup {Empty, Garbage}]
  /\ pc \in [Writers -> {"idle", "write", "rename"}]
  /\ fd \in [Writers -> Inodes \cup {None}]
  /\ val \in [Writers -> States \cup {Empty}]
  /\ ret \in States \cup {Empty, Garbage}

\* With one writer at a time the store is a register for the whole state:
\* a Load, whenever it comes, and whatever crash or failed write came before
\* it, returns the last state that was renamed into place and never a part
\* of one (transfers.go:50-91).
Store == INSTANCE BlobStore WITH blob <- Content, Blobs <- States \cup {Empty}
ImplementsStore == Store!Spec

=============================================================================
