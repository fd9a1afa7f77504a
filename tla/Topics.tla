------------------------------- MODULE Topics -------------------------------
(***************************************************************************)
(* The two listings of a forum (client/topics.go): IterTopics over its     *)
(* topics, newest first, and IterTopicMessages over the messages of one    *)
(* topic, each page of which is turned round if Reverse is set.  Both hand *)
(* whole pages to a callback, which may stop them, and take the last item  *)
(* of a page as the offset of the next one.                                *)
(*                                                                         *)
(* A post is a topic, or a message, by the id that the server gave out for *)
(* it; an "odd" one is a deleted topic or a service message, which the     *)
(* server lists and the code leaves out.  Posts come and go during a call. *)
(***************************************************************************)
EXTENDS Integers, FiniteSets, Functions, Sequences

CONSTANTS MaxPost,  \* bound on the ids
          BatchSize \* posts per request

ParametersOK == MaxPost \in Nat \ {0} /\ BatchSize \in Nat \ {0}

VARIABLES
  posts, \* per id given out: a "post", an "odd" one, or "gone"
  walk,  \* the call
  shown, \* what it has given to the callback
  ever,  \* history: the posts that were there at some time of the call
  stayed \* history: those that were there all the time

vars == <<posts, walk, shown, ever, stayed>>

There(sort) == {i \in DOMAIN posts : posts[i] \in sort}
Return(result) == walk' = [walk EXCEPT !.pc = "idle", !.result = result]

Init ==
  /\ posts \in [1 .. MaxPost - 1 -> {"post", "odd", "gone"}]
  /\ \E how \in {"IterTopics", "IterTopicMessages"}, reverse \in BOOLEAN :
       /\ how = "IterTopics" => ~reverse
       /\ walk = [pc |-> "fetch", how |-> how, reverse |-> reverse, offset |-> 0, result |-> "none", odd |-> FALSE]
  /\ shown = <<>>
  /\ ever = There({"post", "odd"}) /\ stayed = There({"post"})

----------------------------------------------------------------------------
\* messages.getForumTopics and messages.getReplies: the newest posts below the offset.
Newest(S) == [i \in 1 .. Cardinality(S) |-> CHOOSE p \in S : Cardinality({q \in S : q > p}) = i - 1]
Below == Newest({i \in There({"post", "odd"}) : walk.offset = 0 \/ i < walk.offset})
Page == SubSeq(Below, 1, IF Len(Below) < BatchSize THEN Len(Below) ELSE BatchSize)

\* forumTopicsToTopics, extractMessages: the posts of the page, in its order.
Batch == Newest({i \in Range(Page) : posts[i] = "post"})

GetNothing ==
  /\ walk.pc = "fetch" /\ Batch = <<>>
  /\ walk' = [walk EXCEPT !.pc = "idle", !.result = "ok", !.odd = @ \/ Page # <<>>]
  /\ UNCHANGED <<posts, shown, ever, stayed>>

GetFails ==
  /\ walk.pc = "fetch"
  /\ Return("error")
  /\ UNCHANGED <<posts, shown, ever, stayed>>

\* The number of topics is compared with the offset, an id, plus this page.
CountReached == Cardinality(There({"post", "odd"})) <= walk.offset + Len(Batch)

IterTopics(more) ==
  LET last == Page[Len(Page)]
  IN /\ walk.pc = "fetch" /\ walk.how = "IterTopics" /\ Batch # <<>>
     /\ shown' = shown \o Batch
     /\ IF ~more THEN Return("stopped")
        ELSE IF CountReached THEN Return("ok")
        ELSE IF posts[last] = "odd" THEN walk' = [walk EXCEPT !.pc = "idle", !.result = "ok", !.odd = TRUE]
        ELSE walk' = [walk EXCEPT !.offset = last]
     /\ UNCHANGED <<posts, ever, stayed>>

Turned(s) == [i \in DOMAIN s |-> s[Len(s) + 1 - i]]
Given == IF walk.reverse THEN Turned(Batch) ELSE Batch
LastGiven  == Given[Len(Given)]
IterTopicMessages(more) ==
  /\ walk.pc = "fetch" /\ walk.how = "IterTopicMessages" /\ Batch # <<>>
  /\ shown' = shown \o Given
  /\ IF more THEN walk' = [walk EXCEPT !.offset = LastGiven] ELSE Return("stopped")
  /\ UNCHANGED <<posts, ever, stayed>>

----------------------------------------------------------------------------
NewPost(sort) ==
  /\ walk.pc # "idle" /\ Len(posts) < MaxPost
  /\ posts' = Append(posts, sort)
  /\ ever' = ever \cup {Len(posts')}
  /\ UNCHANGED <<walk, shown, stayed>>
Delete(i) ==
  /\ walk.pc # "idle" /\ posts[i] # "gone"
  /\ posts' = [posts EXCEPT ![i] = "gone"]
  /\ stayed' = stayed \ {i}
  /\ UNCHANGED <<walk, shown, ever>>

Step == GetNothing \/ \E more \in BOOLEAN : IterTopics(more) \/ IterTopicMessages(more)
Next ==
  \/ Step \/ GetFails
  \/ \E sort \in {"post", "odd"} : NewPost(sort)
  \/ \E i \in DOMAIN posts : Delete(i)

Spec == Init /\ [][Next]_vars /\ WF_vars(Step)

----------------------------------------------------------------------------
TypeOK ==
  /\ posts \in Seq({"post", "odd", "gone"}) /\ Len(posts) <= MaxPost
  /\ walk.offset \in 0 .. MaxPost /\ Range(shown) \subseteq 1 .. MaxPost

\* Nothing is given twice or out of order, whatever comes and goes; a listing
\* with Reverse set is excluded, whose pages overlap.
ShownOnce == ~walk.reverse => \A i, j \in DOMAIN shown : i < j => shown[i] > shown[j]

\* Every message of a topic that stayed is given by a listing that ends with
\* success, overlapping pages or not, unless a page held only service messages.
MessagesWhole ==
  walk.result = "ok" /\ walk.how = "IterTopicMessages" /\ ~walk.odd => stayed \subseteq Range(shown)

\* The topics of a forum of at most two pages are given, unless a page ended in a
\* deleted one.  With more of them the test of topics.go:186, which adds the id of
\* a topic to a number of topics, ends the listing too early.
TopicsWhole ==
  walk.result = "ok" /\ walk.how = "IterTopics" /\ ~walk.odd /\ Cardinality(ever) <= 2 * BatchSize
    => stayed \subseteq Range(shown)
=============================================================================
