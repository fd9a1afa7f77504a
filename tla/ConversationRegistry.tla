----------------------- MODULE ConversationRegistry -----------------------
(***************************************************************************)
(* What a ConversationManager promises to the code that registers          *)
(* conversations: for one chat it keeps a list, Register adds a            *)
(* conversation at its end, Unregister removes every occurrence of one and *)
(* keeps the order of the others.                                          *)
(***************************************************************************)
EXTENDS Naturals, Sequences

CONSTANTS Convs,   \* the conversations of the chat
          MaxLen   \* bound on the length of the list

VARIABLE list

Init == list = << >>

Register(c) ==
  /\ Len(list) < MaxLen
  /\ list' = Append(list, c)

\* kept is s without any c: its elements are those of s that differ from c, each
\* from a place of its own and in the same order.
Without(s, c, kept) ==
  \E from \in [DOMAIN kept -> DOMAIN s] :
    /\ \A i, j \in DOMAIN kept : i < j => from[i] < from[j]
    /\ {from[i] : i \in DOMAIN kept} = {k \in DOMAIN s : s[k] # c}
    /\ \A i \in DOMAIN kept : kept[i] = s[from[i]]

Unregister(c) == list' \in Seq(Convs) /\ Without(list, c, list')

Next == \E c \in Convs : Register(c) \/ Unregister(c)

Spec == Init /\ [][Next]_list

=============================================================================
