------------------------------ MODULE Messages ------------------------------
(***************************************************************************)
(* One call of client/messages.go.  It names a chat by its number, which   *)
(* resolvePeer makes the peer of its requests, and sends one request or    *)
(* several.  Everybody else, the account's other devices and calls         *)
(* included, changes the chats before it and between its requests.  A      *)
(* request is answered, refused without effect, or carried out while the   *)
(* answer is lost; RetryMiddleware repeats only what FLOOD_WAIT refused,   *)
(* so that a repetition is no step here.                                   *)
(*                                                                         *)
(* The server is external.  Private chats and basic groups number their    *)
(* messages together, every channel on its own.  A message is a record     *)
(* [place, id, text, media, reply, sched, pinned]; media names its kind,   *)
(* and "hollow" is a photo or a document whose content is gone.            *)
(***************************************************************************)
EXTENDS SequencesExt, Peers

CONSTANTS Rooms,   \* the chats, [kind, id]
          Start,    \* the messages there at first
          Texts, Options,
          Page,     \* 100, of the pinned messages
          MaxId,    \* bound: messages are sent while there are numbers
          MaxOther  \* bound: what others do

\* The pinned messages of the start were sent.
MessagesOK ==
  /\ Rooms \subseteq [kind : {"user", "chat", "channel"}, id : Nat]
  /\ IsFiniteSet(Start)
  /\ \A m \in Start : /\ DOMAIN m = {"place", "id", "text", "media", "reply", "sched", "pinned"}
                       /\ m.place \in Rooms /\ m.id \in Nat /\ (m.pinned => ~m.sched)
  /\ Page \in Nat \ {0} /\ MaxId \in Nat /\ MaxOther \in Nat

VARIABLES
  msgs,  \* the messages on the server
  read,  \* up to where a chat is read
  others,
  call   \* the call, its operation "none" before it begins

vars == <<msgs, read, others, call>>

View == INSTANCE MessageView
Number(place) == View!Signed(place)
Numbers == {Number(place) : place \in Rooms}
Target(n) == LET p == resolvePeer(<<>>, n) IN [kind |-> p.kind, id |-> p.id]

Own == [kind |-> "own", id |-> 0]
Box(place) == IF place.kind = "channel" THEN place ELSE Own
In(place)  == {m \in msgs : m.place = place}
InBox(box) == {m \in msgs : Box(m.place) = box}
Nothing == [id |-> 0]

(* The numbers of a set in their order. *)
Ascending(S) == [i \in 1 .. Cardinality(S) |-> CHOOSE p \in S : Cardinality({q \in S : q < p}) = i - 1]

-----------------------------------------------------------------------------
(* The requests: what is done, where, to which messages, and what is new. *)
Nowhere == [kind |-> "none", id |-> 0]
Request(rpc, n, ids) == [rpc |-> rpc, at |-> Target(n), from |-> Nowhere, ids |-> ids, new |-> <<>>]
New(text, media, reply, sched) == [text |-> text, media |-> media, reply |-> reply, sched |-> sched]
Sending(n, new) == [Request("send", n, <<>>) EXCEPT !.new = new]

SendMessage(n, text, o) ==
  Sending(n, << New(text, "none", IF o.ForumTopicID # 0 THEN o.ForumTopicID ELSE o.ReplyToMsgID, o.ScheduleDate) >>)
SendDice(n)         == Sending(n, << New("", "dice", 0, FALSE) >>)
SendPoll(n)         == Sending(n, << New("", "poll", 0, FALSE) >>)
SendInlineResult(n) == Sending(n, << New("", "document", 0, FALSE) >>)
EditMessage(n, id, text) == [Request("edit", n, <<id>>) EXCEPT !.new = << New(text, "none", 0, FALSE) >>]
EditMessageCaption(n, id, text) == EditMessage(n, id, text)
StopPoll(n, id) == [Request("edit", n, <<id>>) EXCEPT !.new = << New("", "closed", 0, FALSE) >>]
DeleteMessages(n, ids) == Request(IF n < -Edge THEN "deleteChannel" ELSE "deleteOwn", n, ids)
ForwardMessages(from, to, ids) == [Request("forward", to, ids) EXCEPT !.from = Target(from)]
ForwardMessage(from, to, id) == ForwardMessages(from, to, <<id>>)
PinMessage(n, id)   == Request("pin", n, <<id>>)
UnpinMessage(n, id) == Request("unpin", n, <<id>>)
UnpinAllMessages(n) == Request("unpinAll", n, <<>>)
ReadHistory(n, id)  == Request("read", n, <<id>>)
MarkAsRead(n, id)   == ReadHistory(n, id)
SendScheduledMessage(n, id)    == Request("sendScheduled", n, <<id>>)
DeleteScheduledMessages(n, id) == Request("deleteScheduled", n, <<id>>)

Ids == 1 .. MaxId
Single ==
  UNION {{SendMessage(n, t, o) : t \in Texts, o \in Options} \cup {SendDice(n), SendPoll(n), SendInlineResult(n)}
         \cup {EditMessage(n, id, t) : id \in Ids, t \in Texts}
         \cup {EditMessageCaption(n, id, t) : id \in Ids, t \in Texts} \cup {StopPoll(n, id) : id \in Ids}
         \cup {DeleteMessages(n, <<id>>) : id \in Ids}
         \cup {ForwardMessages(n, to, <<id, id + 1>>) : to \in Numbers, id \in Ids} \cup {ForwardMessage(n, to, id) : to \in Numbers, id \in Ids}
         \cup {PinMessage(n, id) : id \in Ids} \cup {UnpinMessage(n, id) : id \in Ids} \cup {UnpinAllMessages(n)}
         \cup {ReadHistory(n, id) : id \in Ids \cup {0}} \cup {MarkAsRead(n, id) : id \in Ids \cup {0}}
         \cup {SendScheduledMessage(n, id) : id \in Ids} \cup {DeleteScheduledMessages(n, id) : id \in Ids}
         : n \in Numbers}

-----------------------------------------------------------------------------
(* The server. *)
Named(req) == {m \in In(req.at) : m.id \in ToSet(req.ids) /\ (m.sched <=> req.rpc \in {"sendScheduled", "deleteScheduled"})}
NextId(box) == Max({0} \cup {m.id : m \in InBox(box)}) + 1
Message(place, id, n) ==
  [place |-> place, id |-> id, text |-> n.text, media |-> n.media, reply |-> n.reply, sched |-> n.sched, pinned |-> FALSE]

(* What the request adds, in order: a forward adds what it finds. *)
Source(req, id) == {m \in In(req.from) : m.id = id /\ ~m.sched}
Contents(req) ==
  IF req.rpc # "forward" THEN req.new
  ELSE LET there == Ascending({i \in DOMAIN req.ids : Source(req, req.ids[i]) # {}})
       IN  [i \in DOMAIN there |-> LET m == CHOOSE x \in Source(req, req.ids[there[i]]) : TRUE IN New(m.text, m.media, 0, FALSE)]
Added(req) ==
  LET new == Contents(req) IN [i \in DOMAIN new |-> Message(req.at, NextId(Box(req.at)) + i - 1, new[i])]

Edited(m, n) == IF n.media = "closed" THEN [m EXCEPT !.media = "closed"] ELSE [m EXCEPT !.text = n.text]
Replace(old, new) == (msgs \ old) \cup new
After(req) ==
  CASE req.rpc \in {"send", "forward"} -> msgs \cup ToSet(Added(req))
    [] req.rpc = "edit"            -> Replace(Named(req), {Edited(m, req.new[1]) : m \in Named(req)})
    [] req.rpc = "deleteOwn"       -> {m \in msgs : Box(m.place) # Own \/ m.id \notin ToSet(req.ids)}
    [] req.rpc = "deleteChannel"   -> msgs \ Named(req)
    [] req.rpc = "deleteScheduled" -> msgs \ Named(req)
    [] req.rpc = "sendScheduled"   -> Replace(Named(req), {[m EXCEPT !.sched = FALSE] : m \in Named(req)})
    [] req.rpc = "pin"             -> Replace(Named(req), {[m EXCEPT !.pinned = TRUE] : m \in Named(req)})
    [] req.rpc = "unpin"           -> Replace(Named(req), {[m EXCEPT !.pinned = FALSE] : m \in Named(req)})
    [] req.rpc = "unpinAll"        -> Replace(In(req.at), {[m EXCEPT !.pinned = FALSE] : m \in In(req.at)})
    [] req.rpc = "read"            -> msgs

Possible(req) ==
  /\ req.at \in Rooms
  /\ req.rpc \in {"send", "forward"} =>
        Contents(req) # <<>> /\ NextId(Box(req.at)) + Len(Contents(req)) - 1 <= MaxId
  /\ req.rpc = "edit" => Named(req) # {}

(* The answer to a text sent at once to a private chat or a group is short and
   does not hold the message; any other lists updates, and some are of no message.
   A scheduled message, of whatever chat, has an update of its own. *)
Update(kind, m) == [kind |-> kind, msg |-> m]
NewMessage(m) ==
  IF m.sched THEN "NewScheduledMessage" ELSE IF m.place.kind = "channel" THEN "NewChannelMessage" ELSE "NewMessage"
EditedMessage(m) == IF m.place.kind = "channel" THEN "EditChannelMessage" ELSE "EditMessage"
Answer(req) ==
  LET told == IF req.rpc = "edit" THEN [i \in 1 .. 1 |-> CHOOSE m \in After(req) : m.place = req.at /\ m.id = req.ids[1]]
              ELSE Added(req)
  IN  IF req.rpc = "send" /\ Box(req.at) = Own /\ req.new[1].media = "none" /\ ~req.new[1].sched
      THEN << Update("ShortSentMessage", Nothing) >>
      ELSE << Update("MessageID", Nothing) >>
           \o [i \in DOMAIN told |-> Update(IF req.rpc = "edit" THEN EditedMessage(told[i]) ELSE NewMessage(told[i]), told[i])]

(* What the client makes of it: the first message of any update it knows, and of
   several sent at once all the new ones.  The update of a scheduled message is
   not among them, so that nothing is found.  A short message is read as well,
   but the server answers no request by one. *)
NewKinds  == {"NewChannelMessage", "NewMessage"}
EditKinds == {"EditChannelMessage", "EditMessage"}
Readable  == NewKinds \cup EditKinds \cup {"ShortMessage"}
messagesOf(updates, kinds) ==
  LET at == Ascending({i \in DOMAIN updates : updates[i].kind \in kinds})
  IN  [i \in DOMAIN at |-> updates[at[i]].msg]
newMessages(updates) == messagesOf(updates, NewKinds)
extractMessageFromUpdates(updates) ==
  LET found == messagesOf(updates, Readable) IN IF found = <<>> THEN Nothing ELSE found[1]

-----------------------------------------------------------------------------
(* A call: what it does next, the request it is about to send, the messages or
   the files it has yet to go through.  Its history: what it has added, the
   messages that were there at some time since it began, and those that were
   pinned all the time. *)
Pinned(place) == {m.id : m \in {x \in In(place) : x.pinned /\ ~x.sched}}
NoRequest == Request("none", 0, <<>>)
Call(op, pc, n, to, todo, req) ==
  [op |-> op, pc |-> pc, peer |-> n, to |-> to, todo |-> todo, ids |-> todo, req |-> req, got |-> <<>>,
   out |-> "none", full |-> FALSE, limit |-> 0, reverse |-> FALSE, made |-> {}, lost |-> FALSE,
   shown |-> msgs, held |-> Pinned(Target(n))]
Begin(c) == call.op = "none" /\ call' = c /\ UNCHANGED <<msgs, read, others>>

(* What every change of the chats does to the history of a call. *)
Seen(c, now) ==
  [c EXCEPT !.shown = @ \cup now,
            !.held = {id \in @ : \E m \in now : m.place = Target(c.peer) /\ m.id = id /\ m.pinned}]

Done(c, out, got) == [c EXCEPT !.pc = "done", !.out = out, !.got = got]
Fail == call' = Done(call, "error", <<>>) /\ UNCHANGED <<msgs, read, others>>

\* The calls of one request, and the album and the voice message, whose files
\* are uploaded before it.
CallSingle == \E req \in Single, n \in Numbers : Target(n) = req.at /\ Begin(Call("single", "rpc", n, 0, <<>>, req))
SendAlbum  == \E n \in Numbers, k \in 1 .. 2 : Begin(Call("album", "upload", n, 0, [i \in 1 .. k |-> i], NoRequest))
SendVoice  == \E n \in Numbers : Begin(Call("voice", "upload", n, 0, <<1>>, NoRequest))

\* The calls that fetch messages first.
Fetch(n) == IF n < -Edge /\ resolvePeer(<<>>, n).kind = "channel" THEN "getChannel" ELSE "getOwn"
GetMessages == \E n \in Numbers, id \in Ids : Begin(Call("get", Fetch(n), n, 0, <<id, id + 1>>, NoRequest))
GetReplyTo  == \E m \in msgs : Begin(IF m.reply = 0 THEN Done(Call("reply", "done", Number(m.place), 0, <<>>, NoRequest), "ok", <<>>)
                                     ELSE Call("reply", Fetch(Number(m.place)), Number(m.place), 0, <<m.reply>>, NoRequest))
CopyMessage == \E n, to \in Numbers, id \in Ids : Begin(Call("copy", Fetch(n), n, to, <<id>>, NoRequest))

\* A link names a channel, or a name that is resolved first.
GetMessageByLink ==
  \E place \in Rooms, id \in Ids :
    \/ place.kind = "channel" /\ Begin(Call("link", Fetch(-(place.id + Mark)), -(place.id + Mark), 0, <<id>>, NoRequest))
    \/ Begin(Call("link", "resolve", Number(place), 0, <<id>>, NoRequest))
Resolved ==
  /\ call.pc = "resolve"
  /\ call' = [call EXCEPT !.pc = Fetch(call.peer)]
  /\ UNCHANGED <<msgs, read, others>>

\* The readers of one page: a limit that is not positive is the default, and
\* only GetHistory turns the page round.
GetHistory(n, limit, reverse) == Begin([Call("list", "list", n, 0, <<>>, NoRequest) EXCEPT !.limit = limit, !.reverse = reverse])
SearchMessages(n, limit) == GetHistory(n, limit, FALSE)
GetScheduledMessages(n) == Begin([Call("list", "list", n, 0, <<>>, NoRequest) EXCEPT !.limit = MaxId, !.full = TRUE])
List == \E n \in Numbers, limit \in 0 .. 2, reverse \in BOOLEAN :
           GetHistory(n, limit, reverse) \/ SearchMessages(n, limit) \/ GetScheduledMessages(n)

GetPinnedMessages   == \E n \in Numbers : Begin(Call("pinned", "search", n, 0, <<>>, NoRequest))
ClearPinnedMessages == \E n \in Numbers : Begin(Call("clear", "search", n, 0, <<>>, NoRequest))

-----------------------------------------------------------------------------
\* A file is uploaded, and after the last one the request is sent.
NextFile(media) ==
  call' = IF Len(call.todo) > 1 THEN [call EXCEPT !.todo = Tail(@), !.got = media]
          ELSE [call EXCEPT !.todo = <<>>, !.got = <<>>, !.pc = "rpc", !.req = Sending(call.peer, media)]
Upload ==
  /\ call.pc = "upload"
  /\ NextFile(Append(call.got, New(IF call.todo[1] = 1 THEN "caption" ELSE "", "document", 0, FALSE)))
  /\ UNCHANGED <<msgs, read, others>>
UploadFails ==
  /\ call.pc = "upload"
  /\ Fail

\* What the fetched messages are for.  A copy sends the photo or the document
\* with the text; any other media is left behind.
Carried(m) == IF m.media \in {"photo", "document"} THEN m.media ELSE "none"
Fetched(c, got) ==
  CASE c.op = "get" -> Done(c, "ok", got)
    [] c.op = "reply" -> Done(c, "ok", IF got = <<>> THEN <<>> ELSE <<got[1]>>)
    [] c.op \in {"link", "copy"} /\ got = <<>> -> Done(c, "error", <<>>)
    [] c.op = "link" /\ got # <<>> -> Done(c, "ok", <<got[1]>>)
    [] c.op = "copy" /\ got # <<>> ->
         [c EXCEPT !.pc = "rpc", !.req = Sending(c.to, << New(got[1].text, Carried(got[1]), 0, FALSE) >>)]

Found(box, ids) == SetToSeq({m \in InBox(box) : m.id \in ToSet(ids) /\ ~m.sched})
GetChannel ==
  /\ call.pc = "getChannel"
  /\ call' = Fetched(call, Found(Target(call.peer), call.ids))
  /\ UNCHANGED <<msgs, read, others>>

\* Outside channels the messages are fetched by their numbers alone, and if
\* that fails or finds nothing they are looked for one by one in the history.
GetOwn ==
  /\ call.pc = "getOwn"
  /\ LET found == Found(Own, call.ids)
     IN  call' = IF found = <<>> THEN [call EXCEPT !.pc = "history"] ELSE Fetched(call, found)
  /\ UNCHANGED <<msgs, read, others>>
GetOwnFails ==
  /\ call.pc = "getOwn"
  /\ call' = [call EXCEPT !.pc = "history"]
  /\ UNCHANGED <<msgs, read, others>>

Looked(c, found) ==
  LET left == [c EXCEPT !.todo = Tail(@), !.got = @ \o found]
  IN  IF left.todo = <<>> THEN Fetched(left, left.got) ELSE left
AnyOf(page, id) == page
WithId(page, id) == {m \in page : m.id = id}
\* The server answers with some message of the chat near the number, or none.
GetHistoryAt ==
  /\ call.pc = "history"
  /\ \E page \in {{}} \cup {{m} : m \in {x \in In(Target(call.peer)) : ~x.sched}} :
        call' = Looked(call, SetToSeq(WithId(page, call.todo[1])))
  /\ UNCHANGED <<msgs, read, others>>
GetHistoryFails ==
  /\ call.pc = "history"
  /\ call' = Looked(call, <<>>)
  /\ UNCHANGED <<msgs, read, others>>

\* The newest of some messages, a page of them.
Newest(ids, page) == SubSeq(Reverse(Ascending(ids)), 1, IF page < Cardinality(ids) THEN page ELSE Cardinality(ids))
Limited(limit) == IF limit <= 0 THEN Page ELSE limit
Listed ==
  /\ call.pc = "list"
  /\ LET ids  == {m.id : m \in {x \in In(Target(call.peer)) : x.sched = call.full}}
         page == Newest(ids, Limited(call.limit))
     IN  call' = Done(call, "ok", IF call.reverse THEN Reverse(page) ELSE page)
  /\ UNCHANGED <<msgs, read, others>>
Search ==
  /\ call.pc = "search"
  /\ LET page == Newest(Pinned(Target(call.peer)), Page)
     IN  call' = IF call.op = "pinned" \/ page = <<>> THEN Done(call, "ok", page)
                 ELSE [call EXCEPT !.pc = "rpc", !.todo = page, !.full = Len(page) = Page,
                                   !.req = UnpinMessage(call.peer, page[1])]
  /\ UNCHANGED <<msgs, read, others>>

-----------------------------------------------------------------------------
\* After the request: the next message to unpin, or what the call returns.
GoOn(c, answer) ==
  CASE c.op = "clear" /\ Len(c.todo) > 1 ->
         [c EXCEPT !.todo = Tail(@), !.req = UnpinMessage(c.peer, c.todo[2])]
    [] c.op = "album" \/ c.req.rpc = "forward" -> Done(c, "ok", newMessages(answer))
    [] c.op # "album" /\ c.req.rpc \in {"send", "edit"} ->
         Done(c, "ok", LET m == extractMessageFromUpdates(answer) IN IF m = Nothing THEN <<>> ELSE <<m>>)
    [] OTHER -> Done(c, "ok", <<>>)
OnError(c) == Done(c, "error", <<>>)

Effect(req) ==
  /\ msgs' = After(req)
  /\ read' = IF req.rpc = "read"
             THEN [read EXCEPT ![req.at] = IF req.ids[1] = 0 THEN MaxId ELSE Max({@, req.ids[1]})]
             ELSE read
  /\ UNCHANGED others
Made(c) == IF c.req.rpc \in {"send", "forward"} THEN ToSet(Added(c.req)) ELSE {}

Serve ==
  /\ call.pc = "rpc" /\ Possible(call.req)
  /\ Effect(call.req)
  /\ call' = Seen(GoOn([call EXCEPT !.made = @ \cup Made(call)], Answer(call.req)), msgs')
Lose ==
  /\ call.pc = "rpc" /\ Possible(call.req)
  /\ Effect(call.req)
  /\ call' = Seen(Done([call EXCEPT !.made = @ \cup Made(call), !.lost = TRUE], "error", <<>>), msgs')
Refuse ==
  /\ call.pc = "rpc"
  /\ call' = OnError(call)
  /\ UNCHANGED <<msgs, read, others>>
\* Any other request fails.
Fails ==
  /\ call.pc \in {"getChannel", "resolve", "search", "list"}
  /\ Fail

-----------------------------------------------------------------------------
\* Everybody else: a message is sent, edited, deleted, pinned or unpinned.
Other ==
  /\ others < MaxOther
  /\ others' = others + 1
  /\ \/ \E place \in Rooms : NextId(Box(place)) <= MaxId
           /\ msgs' = msgs \cup {Message(place, NextId(Box(place)), New("other", "photo", 0, FALSE))}
     \/ \E m \in msgs : \/ msgs' = msgs \ {m}
                        \/ msgs' = Replace({m}, {[m EXCEPT !.text = "edited"]})
                        \/ ~m.sched /\ msgs' = Replace({m}, {[m EXCEPT !.pinned = ~@]})
  /\ call' = Seen(call, msgs')
  /\ UNCHANGED read

Init ==
  /\ msgs = Start
  /\ read = [place \in Rooms |-> 0]
  /\ others = 0
  /\ call = Done(Call("none", "done", 0, 0, <<>>, NoRequest), "none", <<>>)

Next ==
  \/ CallSingle \/ SendAlbum \/ SendVoice
  \/ GetMessages \/ GetReplyTo \/ CopyMessage \/ GetMessageByLink
  \/ GetPinnedMessages \/ ClearPinnedMessages \/ List
  \/ Resolved \/ Upload \/ UploadFails \/ GetChannel \/ GetOwn \/ GetOwnFails \/ GetHistoryAt \/ GetHistoryFails \/ Search \/ Listed
  \/ Serve \/ Lose \/ Refuse \/ Fails
  \/ Other

Spec == Init /\ [][Next]_vars
=============================================================================
