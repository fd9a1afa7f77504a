------------------------------ MODULE MCClient ------------------------------
(***************************************************************************)
(* The client, checked in one run: its parts (ClientParts), the parsers of *)
(* text and what must hold of one message (TextParts), which this module   *)
(* extends, and the texts and messages there are (MCText), one "subject"   *)
(* at a time.                                                              *)
(***************************************************************************)
EXTENDS ClientParts, TextParts

Text == INSTANCE MCText

ownVars == <<doc, msg, mdState, htmlState>>
allVars == <<partsVars, ownVars>>

(* As in MCText. *)
Users == {<<"1">>}

-----------------------------------------------------------------------------
(* The chats of a small account: every kind, pinned messages and a reply, a
   scheduled message, and media of every sort. *)
U == [kind |-> "user", id |-> 1]
G == [kind |-> "chat", id |-> 2]
C == [kind |-> "channel", id |-> 3]
Chats == {U, G, C}
At(place, id, media, reply, sched, isPinned) ==
  [place |-> place, id |-> id, text |-> "a", media |-> media, reply |-> reply, sched |-> sched, pinned |-> isPinned]
Contents == {At(U, 1, "photo", 0, FALSE, TRUE), At(G, 2, "poll", 0, FALSE, TRUE), At(G, 3, "none", 2, FALSE, FALSE),
             At(C, 1, "document", 0, FALSE, TRUE), At(C, 2, "none", 1, FALSE, TRUE), At(C, 3, "hollow", 0, TRUE, FALSE)}
Opts(topic, reply, sched) == [ForumTopicID |-> topic, ReplyToMsgID |-> reply, ScheduleDate |-> sched]
SendOptions == {Opts(0, 0, FALSE), Opts(1, 2, TRUE)}

Shown(kind, id, hash) == [kind |-> kind, id |-> id, hash |-> hash]
SmallIds == {Shown("user", 3, 0), Shown("user", 3, 7), Shown("user", 3, 8), Shown("chat", 3, 0), Shown("chat", 99, 0),
             Shown("channel", 3, 0), Shown("channel", 3, 5), Shown("channel", 3, 6)}
LargeIds == {Shown("chat", 100, 0)}

ProxyConfigs == {[type |-> t, id |-> 1] : t \in {"http", "mtproxy"}}

\* The media and grids of MCText are among those about which MessageParts speaks.
ASSUME ReceivedAssumption ==
  (\A x \in Text!Medias : IsMedia(x)) /\ (\A g \in Text!Grids : IsGrid(g))

-----------------------------------------------------------------------------
AllInit ==
  /\ \/ Text!Init
     \/ subject \in {"pipeline", "client", "auth", "messages", "peers"} /\ Text!Idle
  /\ PartsInit

AllNext ==
  \/ PartsNext /\ UNCHANGED ownVars
  \/ Text!Next /\ UNCHANGED partsVars

(* The fairness of each part, of which no other part can be the cause. *)
AllSpec ==
  /\ AllInit /\ [][AllNext]_allVars
  /\ WF_allVars(subject = "pipeline" /\ Tick /\ PipelineOnly /\ UNCHANGED ownVars)
  /\ \A r \in Requests : /\ WF_allVars(subject = "pipeline" /\ Step(r) /\ PipelineOnly /\ UNCHANGED ownVars)
                         /\ WF_allVars(subject = "pipeline" /\ Answer(r) /\ PipelineOnly /\ UNCHANGED ownVars)
  /\ WF_allVars(subject = "auth" /\ Auth!WaitStep /\ AuthOnly /\ UNCHANGED ownVars)
  /\ WF_allVars(subject = "auth" /\ Auth!Tick /\ AuthOnly /\ UNCHANGED ownVars)

\* One part alone, for the runs of one property.
ClientSpec == AllInit /\ subject = "client" /\ [][AllNext]_allVars
PeersSpec  == AllInit /\ subject = "peers" /\ [][AllNext]_allVars

-----------------------------------------------------------------------------
\* client.go:518 says that SetProxy "Takes effect on the next connection": a
\* connection is made through the proxy that was set when its Run began.
ProxyTakesEffect ==
  conn.pc # "none" => \A x \in running : x.run = conn.run => conn.via = Client!buildProxyDialer(x.wanted)

\* Once somebody has scanned the code on the screen while QRLoginWait polls, it
\* returns: the renewals of the token cannot keep it polling (auth.go:173-225).
ScanEndsWait == scanned /\ qr.pc \in {"poll", "sleep", "import"} ~> qr.pc = "none"

\* messages.go:16 and the comments of resolvePeer say that a number is that of a
\* user if it is positive and of a channel if it starts with -100: the number of
\* a basic group is never taken for that of a channel.
MarkedMeansChannel ==
  \A p \in DOMAIN hashes : Numbers!resolvePeer(cache, View!Signed(p)).kind = "channel" <=> p.kind = "channel"

-----------------------------------------------------------------------------
\* The round trips of texts, as MCText states them.
RoundTrips == Text!RoundTrips

=============================================================================
