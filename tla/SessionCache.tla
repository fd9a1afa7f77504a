----------------------------- MODULE SessionCache ---------------------------
(***************************************************************************)
(* session.CachedSessionStorage: a read-through cache in front of another  *)
(* session.Storage, used by several goroutines.                            *)
(*                                                                         *)
(* c.mu protects the cached blob and nothing else.  A Load that misses     *)
(* reads the inner storage without it and fills the cache afterwards; a    *)
(* Store writes the inner storage without it and the cache afterwards.     *)
(* Between the two steps of a call the other goroutines run.               *)
(*                                                                         *)
(* The inner storage (a file, a database) is external: each of its calls   *)
(* is one atomic step, and may fail without an effect.                     *)
(***************************************************************************)
CONSTANTS Threads, \* goroutines that use the storage
          Blobs,   \* the non-empty session blobs they store
          Empty    \* the blob of length 0, which the cache treats as absent

ASSUME EmptyAssumption == Empty \notin Blobs

VARIABLES
  inner,  \* the blob in the inner storage
  cached, \* c.cached
  pc,     \* per thread: where it is in its call
  val,    \* per thread: the blob it carries to its next step
  ret,    \* history: what the last Load since the last write of inner returned
  raced   \* history: some Store has overlapped another Store or a Load

vars == <<inner, cached, pc, val, ret, raced>>

Blob == Blobs \cup {Empty}

Busy(t)   == pc[t] # "idle"
Storing   == {t \in Threads : pc[t] \in {"store", "setCache"}}

Goto(t, label, b) ==
  /\ pc'  = [pc  EXCEPT ![t] = label]
  /\ val' = [val EXCEPT ![t] = b]

----------------------------------------------------------------------------
Init ==
  /\ inner  = Empty
  /\ cached = Empty
  /\ pc     = [t \in Threads |-> "idle"]
  /\ val    = [t \in Threads |-> Empty]
  /\ ret    = Empty
  /\ raced  = FALSE

\* LoadSession with a filled cache copies it under the read lock.
LoadHit(t) ==
  /\ ~Busy(t)
  /\ cached # Empty
  /\ ret'   = cached
  /\ raced' = (raced \/ Storing # {})
  /\ UNCHANGED <<inner, cached, pc, val>>

\* With an empty one it gives the lock back ...
LoadMiss(t) ==
  /\ ~Busy(t)
  /\ cached = Empty
  /\ Goto(t, "readInner", Empty)
  /\ raced' = (raced \/ Storing # {})
  /\ UNCHANGED <<inner, cached, ret>>

\* ... reads the inner storage ...
LoadInner(t) ==
  /\ pc[t] = "readInner"
  /\ Goto(t, "fill", inner)
  /\ UNCHANGED <<inner, cached, ret, raced>>

\* ... and returns the error of that storage ...
LoadFails(t) ==
  /\ pc[t] = "readInner"
  /\ Goto(t, "idle", Empty)
  /\ UNCHANGED <<inner, cached, ret, raced>>

\* ... or fills the cache, unless the blob is empty, and returns the blob.
LoadFill(t) ==
  /\ pc[t] = "fill"
  /\ cached' = IF val[t] = Empty THEN cached ELSE val[t]
  /\ ret'    = val[t]
  /\ Goto(t, "idle", Empty)
  /\ UNCHANGED <<inner, raced>>

\* StoreSession writes the inner storage first ...
Store(t, b) ==
  /\ ~Busy(t)
  /\ Goto(t, "store", b)
  /\ raced' = (raced \/ \E u \in Threads : Busy(u))
  /\ UNCHANGED <<inner, cached, ret>>

StoreInner(t) ==
  /\ pc[t] = "store"
  /\ inner' = val[t]
  /\ ret'   = Empty
  /\ Goto(t, "setCache", val[t])
  /\ UNCHANGED <<cached, raced>>

\* ... gives up if that fails, with the cache as it was ...
StoreFails(t) ==
  /\ pc[t] = "store"
  /\ Goto(t, "idle", Empty)
  /\ UNCHANGED <<inner, cached, ret, raced>>

\* Seeded fault: the call returns without the copy.
StoreSkipsCache(t) ==
  /\ pc[t] = "setCache"
  /\ Goto(t, "idle", Empty)
  /\ UNCHANGED <<inner, cached, ret, raced>>

\* Seeded fault: the cache keeps the caller's slice, which the caller reuses.
StoreAliasesCache(t) ==
  /\ pc[t] = "setCache"
  /\ cached' = <<"overwritten", val[t]>>
  /\ Goto(t, "idle", Empty)
  /\ UNCHANGED <<inner, ret, raced>>

\* ... and then copies the blob into the cache.
StoreCache(t) ==
  /\ pc[t] = "setCache"
  /\ cached' = val[t]
  /\ Goto(t, "idle", Empty)
  /\ UNCHANGED <<inner, ret, raced>>

Invalidate ==
  /\ cached' = Empty
  /\ UNCHANGED <<inner, pc, val, ret, raced>>

Next ==
  \/ \E t \in Threads : \/ LoadHit(t) \/ LoadMiss(t) \/ LoadInner(t) \/ LoadFails(t) \/ LoadFill(t)
                        \/ \E b \in Blob : Store(t, b)
                        \/ StoreInner(t) \/ StoreFails(t) \/ StoreCache(t)
  \/ Invalidate

Spec == Init /\ [][Next]_vars

----------------------------------------------------------------------------
TypeOK ==
  /\ inner \in Blob /\ cached \in Blob
  /\ pc \in [Threads -> {"idle", "readInner", "fill", "store", "setCache"}]
  /\ val \in [Threads -> Blob]
  /\ ret \in Blob
  /\ raced \in BOOLEAN

\* The cache disagrees with the storage behind it only while a Store is
\* between its two writes, as long as no Store has overlapped another call:
\* loads may race each other and Invalidate at will (session.go:541-584).
CoherentUnlessRaced ==
  ~raced => \/ cached = Empty
            \/ cached = inner
            \/ \E t \in Threads : pc[t] = "setCache" /\ val[t] = inner

\* Until a Store overlaps another call, the cached storage is a session
\* storage: every Load that returns a blob returns that of the last Store
\* that reached the inner storage, with concurrent loads, hits, misses,
\* failures and Invalidate notwithstanding (session.go:539-584).
Storage == INSTANCE BlobStore WITH blob <- inner, Blobs <- Blob
StorageUnlessRaced == Storage!Init /\ [][raced' \/ Storage!Next]_<<inner, ret>>

=============================================================================
