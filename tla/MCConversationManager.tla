----------------------- MODULE MCConversationManager -----------------------
(* Instances of ConversationManager small enough for TLC. *)
EXTENDS ConversationManager, TLC

Symmetry == Permutations(Convs) \cup Permutations(Deliverers) \cup Permutations(Arrays)

\* No action reads a slot that lies behind the end of every header of its
\* array, nor the capacity of an array without a header: states that differ
\* only there are one state.
Visible(a, i) ==
  \/ a = cur.arr /\ i <= cur.len
  \/ \E d \in Deliverers : a = del[d].arr /\ i <= del[d].len
Read == <<[a \in Referenced \ {NoArray} |->
             [i \in Slots |-> IF Visible(a, i) THEN heap[a][i] ELSE NoConv]],
          [a \in Referenced \ {NoArray} |-> cap[a]],
          cur, unreg, del, hist>>

=============================================================================
