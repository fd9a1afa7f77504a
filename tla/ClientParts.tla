----------------------------- MODULE ClientParts -----------------------------
(***************************************************************************)
(* The parts of a client that share no state, side by side: its request    *)
(* middlewares (RequestPipeline, which this module extends), its life, its *)
(* logins, the calls on messages and the numbers of peers.  The "subject"  *)
(* chosen at first is the part that runs; the others stay where they       *)
(* begin, so that their states add up and do not multiply.                 *)
(***************************************************************************)
EXTENDS RequestPipeline, Subject, FiniteSets, Sequences

CONSTANTS Runs, Custom, Proxies, MaxDials,
          Life, LoginTime, MaxTokens,
          Edge, Rooms, Start, Texts, Options, Page, MaxId, MaxOther,
          Entities

VARIABLES
  baked, running, connected, mode, policy, proxy, conn, dials, open, given,
  clock, tokens, scanned, account, qr, codes, valid, answer,
  msgs, read, others, op,
  cache, hashes

Client   == INSTANCE ClientLifecycle
Auth     == INSTANCE Login WITH MaxTime <- LoginTime, now <- clock
Messages == INSTANCE Messages WITH call <- op
Numbers  == INSTANCE Peers

ASSUME PartsAssumption ==
  /\ Auth!ParametersOK /\ Messages!MessagesOK /\ Numbers!ParametersOK
  /\ Entities \subseteq [kind : {"user", "chat", "channel"}, id : Nat \ {0}, hash : Nat]

clientVars == <<baked, running, connected, mode, policy, proxy, conn, dials, open, given>>
authVars   == <<clock, tokens, scanned, account, qr, codes, valid, answer>>
msgVars    == <<msgs, read, others, op>>
peerVars   == <<cache, hashes>>
partsVars  == <<vars, subject, clientVars, authVars, msgVars, peerVars>>

-----------------------------------------------------------------------------
(* Peers: the updates of the account show entities, some without a hash. *)
PeersInit == cache = <<>> /\ hashes = <<>>
Peer(e) == [kind |-> e.kind, id |-> e.id]
Show(batch) ==
  /\ cache' = Numbers!cacheEntities(cache, batch)
  /\ hashes' = [p \in DOMAIN hashes \cup {Peer(e) : e \in batch} |->
                  IF \E e \in batch : Peer(e) = p /\ e.hash # 0 THEN (CHOOSE e \in batch : Peer(e) = p).hash
                  ELSE IF p \in DOMAIN hashes THEN hashes[p] ELSE 0]
Batches == {b \in SUBSET Entities : b # {} /\ \A d, e \in b : Peer(d) = Peer(e) => d = e}
PeersNext == \E batch \in Batches : Show(batch)

NoPipeline == now = 0 /\ last = Never /\ call = [r \in Requests |-> NewCall] /\ slots = {} /\ sends = {}
NoClient ==
  /\ Client!New("off", CHOOSE c \in Custom : TRUE, Client!NoProxy)
  /\ running = {} /\ connected = FALSE /\ conn = Client!NoDial /\ dials = 0 /\ open = {} /\ given = {}

PartsInit ==
  /\ NoPipeline
  /\ IF subject = "client" THEN Client!Init ELSE NoClient
  /\ Auth!Init /\ Messages!Init /\ PeersInit

PipelineOnly == UNCHANGED <<subject, clientVars, authVars, msgVars, peerVars>>
AuthOnly     == UNCHANGED <<vars, subject, clientVars, msgVars, peerVars>>
PartsNext ==
  \/ subject = "pipeline" /\ Next /\ PipelineOnly
  \/ subject = "client" /\ Client!Next /\ UNCHANGED <<vars, subject, authVars, msgVars, peerVars>>
  \/ subject = "auth" /\ Auth!Next /\ AuthOnly
  \/ subject = "messages" /\ Messages!Next /\ UNCHANGED <<vars, subject, clientVars, authVars, peerVars>>
  \/ subject = "peers" /\ PeersNext /\ UNCHANGED <<vars, subject, clientVars, authVars, msgVars>>

PartsSpec == PartsInit /\ [][PartsNext]_partsVars

-----------------------------------------------------------------------------
\* IsConnected (client.go:535) is never true while no Run is active, however
\* the calls of Run and Disconnect overlap.
ConnectedMeansRunning == connected => running # {}

\* The policy that is reported is that of the mode that is reported, unless the
\* mode is custom (client.go:398-417).
PolicyOfMode == mode # "custom" => policy = Client!PolicyForMode(mode)

\* A dial through an HTTP proxy that fails leaves no socket behind
\* (client.go:730-752): every open socket was returned, or is still in use.
NoSocketLeaks ==
  open \subseteq given \cup (IF conn.pc \in {"write", "read"} THEN {Client!Socket} ELSE {})

\* A login that reports success has authorised the session, by whatever data
\* centre, with a code or by QR (auth.go:146-226).
OkMeansAuthorised == answer = "ok" => Auth!IsUserAuthorized

\* What a client reports of itself is so: its connection, its policy, the sockets
\* that its dialer gave up, and whether a login succeeded.
StatusIsTrue == ConnectedMeansRunning /\ PolicyOfMode /\ NoSocketLeaks /\ OkMeansAuthorised

-----------------------------------------------------------------------------
\* GetMessages and the calls built on it return messages with the numbers that
\* were asked for, of the channel if one was named, that were there during the
\* call (messages.go:150-203).
AsAsked(c) ==
  c.op \in {"get", "reply", "link"} /\ c.out = "ok" =>
    \A i \in DOMAIN c.got :
      LET m == c.got[i]
      IN  /\ m \in c.shown /\ ~m.sched
          /\ \E j \in DOMAIN c.ids : c.ids[j] = m.id
          /\ Messages!Box(m.place) = Messages!Box(Messages!Target(c.peer))

\* A copy is one message, with the text and the photo or document that one
\* version of the source had together (messages.go:1077-1147).
CopyFaithful(c) ==
  c.op = "copy" =>
    /\ Cardinality(c.made) <= 1
    /\ \A copy \in c.made :
         /\ copy.place = Messages!Target(c.to)
         /\ \E m \in c.shown :
              /\ m.id = c.ids[1] /\ Messages!Box(m.place) = Messages!Box(Messages!Target(c.peer))
              /\ copy.text = m.text
              /\ copy.media = IF m.media \in {"photo", "document"} THEN m.media ELSE "none"

\* ClearPinnedMessages that returns without an error leaves no message that was
\* pinned all the time, unless a whole page was (messages.go:929-953).
PinsCleared(c) == c.op = "clear" /\ c.out = "ok" /\ ~c.full => c.held = {}

\* An album is sent whole, with its caption, or not at all; only a lost answer
\* may report the error of an album that was sent (messages.go:350-409).
AlbumWhole(c) ==
  c.op \in {"album", "voice"} =>
    /\ c.out = "error" /\ ~c.lost => c.made = {}
    /\ c.out = "ok" => Cardinality(c.made) = Len(c.ids) /\ \E m \in c.made : m.text = "caption"

\* What a call returns it has made, and in a channel it returns all of that but
\* the scheduled: a scheduled message is made, and the call ends without an error
\* and without it, since its update is not read (messages.go:394-408, 467-498).
ReturnsMade(c) ==
  c.out = "ok" /\ c.req.rpc \in {"send", "forward"} =>
    /\ \A i \in DOMAIN c.got : c.got[i] \in c.made /\ ~c.got[i].sched
    /\ c.req.at.kind = "channel" => {c.got[i] : i \in DOMAIN c.got} = {m \in c.made : ~m.sched}

\* A call on messages does what it says and returns what it did, although others
\* change the chats between its requests and requests fail or lose their answer.
Truthful(c) == AsAsked(c) /\ CopyFaithful(c) /\ PinsCleared(c) /\ AlbumWhole(c) /\ ReturnsMade(c)
CallsTruthful == Truthful(op)

-----------------------------------------------------------------------------
\* A message that names p wherever it can.
Naming(p) == [kind |-> "message", peer |-> p, from |-> p, reply |-> [id |-> 0, top |-> 0, forum |-> FALSE],
              fwd |-> [from |-> p, saved |-> p, name |-> ""]]

Bare(input) == [input EXCEPT !.hash = 0]

\* The number under which a message names its chat, its sender or the origin of
\* a forward leads back to it, with the last hash that was shown of it: the
\* wrappers of messages, the cache of hashes, resolvePeer and the helpers of
\* utils.go number peers alike (message.go:917-989, forward.go:33-148,
\* client.go:459-480, messages.go:430-452).
NumbersAgree ==
  \A p \in DOMAIN hashes :
    LET entity  == [kind |-> p.kind, id |-> p.id, hash |-> hashes[p]]
        m       == Naming(p)
        wrapped == View!NewMessage(m, 0)
        Resolves(n) == Numbers!resolvePeer(cache, n) = Numbers!GetInputPeer(entity, FALSE, FALSE)
    IN  /\ Resolves(wrapped.ChatID) /\ Resolves(View!FromTLMessage(m).PeerID)
        /\ p.kind # "chat" => Resolves(wrapped.SenderID)
        /\ Resolves(View!FwdFromID(m.fwd) + View!FwdFromChatID(m.fwd)) /\ Resolves(View!SavedFromID(m.fwd))
        /\ p.kind # "chat" => Numbers!GetPeer(Numbers!GetPeerID(p, TRUE)) = p
        /\ Bare(Numbers!GetInputUser(entity, FALSE)) = IF p.kind = "user" THEN Numbers!resolveInputUser(wrapped.ChatID) ELSE Numbers!Refused
        /\ p.kind # "user" => Bare(Numbers!GetInputChannel(entity)) = Numbers!resolveInputChannel(wrapped.ChatID)
        /\ View!FwdKind(m.fwd).IsUser <=> p.kind = "user"
        /\ View!ForwardedFromID(m) = (IF p.kind = "chat" THEN 0 ELSE p.id)
=============================================================================
