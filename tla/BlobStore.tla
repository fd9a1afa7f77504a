------------------------------ MODULE BlobStore ------------------------------
(***************************************************************************)
(* The promise of a session.Storage, and of a state store for one key: one *)
(* blob, which Store replaces and Load returns.  A missing or deleted one  *)
(* is the empty blob.  ret is what the last Load after the last Store      *)
(* returned, and Empty before there is one.                                *)
(***************************************************************************)
CONSTANTS Blobs, \* the blobs that are stored
          Empty  \* nothing is stored

VARIABLES blob, ret

Init == blob = Empty /\ ret = Empty

Store(b) == blob' = b /\ ret' = Empty

Load == ret' = blob /\ blob' = blob

Next == Load \/ \E b \in Blobs : Store(b)

Spec == Init /\ [][Next]_<<blob, ret>>

=============================================================================
