------------------------- MODULE ClientParts_proofs -------------------------
(***************************************************************************)
(* Proofs about the parts of a client: the limiter and the retries of      *)
(* RequestPipeline for any number of requests, any interval and policy and *)
(* any lateness of timers; and, of the specification PartsSpec, what a     *)
(* client reports of itself, the numbers of peers and the calls on         *)
(* messages, for any chats, messages, entities and other constants.        *)
(***************************************************************************)
EXTENDS ClientParts, FiniteSetTheorems, TLAPS

-----------------------------------------------------------------------------
(* The life of a client and its logins. *)

\* What is known of the dials.
ClientInv ==
  /\ conn = [pc |-> conn.pc, run |-> conn.run, via |-> conn.via, socket |-> conn.socket]
  /\ StatusIsTrue

\* At first nobody has dialled or logged in.
LEMMA ClientBegins == PartsInit => ClientInv
<1> SUFFICES ASSUME PartsInit PROVE ClientInv
  OBVIOUS
<1>1. /\ conn = Client!NoDial /\ connected = FALSE /\ open = {} /\ given = {} /\ answer = "none"
      /\ mode # "custom" => policy = Client!PolicyForMode(mode)
  BY DEF PartsInit, NoClient, Client!Init, Client!New, Client!protectionPolicy, Auth!Init
<1> QED
  BY <1>1 DEF ClientInv, StatusIsTrue, ConnectedMeansRunning, PolicyOfMode, NoSocketLeaks,
     OkMeansAuthorised, Client!NoDial

\* The calls of a program keep what is known of the client.
LEMMA ClientCalls ==
  ASSUME ClientInv, UNCHANGED answer, UNCHANGED account,
         \/ \E r \in Runs : Client!Run(r)
         \/ \E x \in running : Client!RunReturns(x)
         \/ Client!Disconnect
         \/ \E m \in Client!Modes : Client!SetProtectionMode(m)
         \/ \E custom \in Custom : Client!SetProtectionPolicy(custom)
         \/ \E p \in Proxies \cup {Client!NoProxy} : Client!SetProxy(p)
  PROVE  ClientInv'
<1>1. UNCHANGED <<conn, given>> /\ open' \subseteq open
  BY DEF Client!Run, Client!RunReturns, Client!Disconnect, Client!SetProtectionMode,
     Client!SetProtectionPolicy, Client!SetProxy, Client!Rest
<1>2. ConnectedMeansRunning'
  BY DEF Client!Run, Client!RunReturns, Client!Disconnect, Client!SetProtectionMode,
     Client!SetProtectionPolicy, Client!SetProxy, Client!Leave, ClientInv, StatusIsTrue,
     ConnectedMeansRunning
<1>3. PolicyOfMode'
  BY DEF Client!Run, Client!RunReturns, Client!Disconnect, Client!SetProtectionMode,
     Client!SetProtectionPolicy, Client!SetProxy, Client!settings, ClientInv, StatusIsTrue,
     PolicyOfMode
<1>4. NoSocketLeaks'
  BY <1>1 DEF ClientInv, StatusIsTrue, NoSocketLeaks, Client!Socket
<1> QED
  BY <1>1, <1>2, <1>3, <1>4 DEF ClientInv, StatusIsTrue, OkMeansAuthorised, Auth!IsUserAuthorized

\* A step of a dial keeps it: a socket stays open only if it was returned.
LEMMA ClientDials ==
  ASSUME ClientInv, UNCHANGED answer, UNCHANGED account,
         \/ Client!Dial \/ Client!Opened \/ Client!DialFails \/ Client!WriteConnect \/ Client!WriteOrReadFails
         \/ Client!ReadOK \/ Client!ReadRefusal \/ Client!Drop
  PROVE  ClientInv'
<1>1. UNCHANGED <<connected, running, mode, policy>>
  BY DEF Client!Dial, Client!Opened, Client!DialFails, Client!WriteConnect,
     Client!WriteOrReadFails, Client!ReadOK, Client!ReadRefusal, Client!Drop, Client!DialEnds,
     Client!settings
<1>2. conn' = [pc |-> conn'.pc, run |-> conn'.run, via |-> conn'.via, socket |-> conn'.socket] /\ NoSocketLeaks'
  <2>1. conn = [pc |-> conn.pc, run |-> conn.run, via |-> conn.via, socket |-> conn.socket] /\ NoSocketLeaks
    BY DEF ClientInv, StatusIsTrue
  <2>2. CASE \/ Client!Drop \/ Client!Dial
    BY <2>1, <2>2 DEF Client!Drop, Client!Dial, NoSocketLeaks, Client!NoDial, Client!Socket
  <2>3. CASE Client!WriteConnect
    BY <2>1, <2>3 DEF Client!WriteConnect, NoSocketLeaks, Client!Socket
  <2>4. ASSUME NEW isOpen \in BOOLEAN, NEW isGiven \in BOOLEAN, Client!DialEnds(isOpen, isGiven), isOpen => isGiven
        PROVE  conn' = [pc |-> conn'.pc, run |-> conn'.run, via |-> conn'.via, socket |-> conn'.socket] /\ NoSocketLeaks'
    BY <2>1, <2>4 DEF Client!DialEnds, NoSocketLeaks, Client!NoDial, Client!Socket
  <2>5. CASE Client!DialFails \/ Client!WriteOrReadFails \/ Client!ReadOK \/ Client!ReadRefusal
    BY <2>4, <2>5 DEF Client!DialFails, Client!WriteOrReadFails, Client!ReadOK, Client!ReadRefusal
  <2>6. CASE Client!Opened
    <3>1. CASE conn.via.type = "http"
      BY <2>1, <2>6, <3>1 DEF Client!Opened, NoSocketLeaks, Client!Socket
    <3>2. CASE conn.via.type # "http"
      BY <2>4, <2>6, <3>2 DEF Client!Opened
    <3> QED BY <3>1, <3>2
  <2> QED BY <2>2, <2>3, <2>5, <2>6
<1> QED
  BY <1>1, <1>2 DEF ClientInv, StatusIsTrue, ConnectedMeansRunning, PolicyOfMode,
     OkMeansAuthorised, Auth!IsUserAuthorized

\* A login says "ok" in the step in which the server authorises the session.
LEMMA ClientLogsIn ==
  ASSUME ClientInv, UNCHANGED clientVars, Auth!Next
  PROVE  ClientInv'
<1>1. OkMeansAuthorised'
  <2>1. OkMeansAuthorised
    BY DEF ClientInv, StatusIsTrue
  <2> QED
    BY <2>1 DEF OkMeansAuthorised, Auth!IsUserAuthorized, Auth!Next, Auth!WaitStep,
       Auth!QRLoginStart, Auth!QRLoginWait, Auth!TimedOut, Auth!PollFails, Auth!PollWaiting,
       Auth!PollSuccess, Auth!PollMigrate, Auth!QRLoginAccept, Auth!Wake, Auth!Cancelled,
       Auth!Scan, Auth!SendCodeRequest, Auth!CheckPassword, Auth!SignOut, Auth!ResendCode,
       Auth!CancelCode, Auth!SignIn, Auth!SignInStale, Auth!Tick, Auth!Called, Auth!QRReturn
<1> QED
  BY <1>1 DEF clientVars, ClientInv, StatusIsTrue, ConnectedMeansRunning, PolicyOfMode,
     NoSocketLeaks, Client!Socket

\* Every step keeps it.
LEMMA ClientKeeps == ClientInv /\ [PartsNext]_partsVars => ClientInv'
<1> SUFFICES ASSUME ClientInv, [PartsNext]_partsVars PROVE ClientInv'
  OBVIOUS
<1>1. ASSUME UNCHANGED clientVars, UNCHANGED authVars PROVE ClientInv'
  BY <1>1 DEF clientVars, authVars, ClientInv, StatusIsTrue, ConnectedMeansRunning, PolicyOfMode,
     NoSocketLeaks, Client!Socket, OkMeansAuthorised, Auth!IsUserAuthorized
<1>2. CASE UNCHANGED partsVars
  BY <1>1, <1>2 DEF partsVars
<1>3. CASE subject = "client" /\ Client!Next /\ UNCHANGED authVars
  BY <1>3, ClientCalls, ClientDials DEF Client!Next, authVars
<1>4. CASE Auth!Next /\ AuthOnly
  BY <1>4, ClientLogsIn DEF AuthOnly
<1> QED
  BY <1>1, <1>2, <1>3, <1>4 DEF PartsNext, PipelineOnly

\* What a client reports of itself is so, for any number of runs, proxies and
\* dials and however a login goes on (client.go:398-417, 535, 730-752,
\* auth.go:146-226).
THEOREM StatusIsTrueHolds == PartsSpec => []StatusIsTrue
<1>1. ClientInv => StatusIsTrue
  BY DEF ClientInv
<1> QED
  BY ClientBegins, ClientKeeps, <1>1, PTL DEF PartsSpec

-----------------------------------------------------------------------------
(* The numbers of peers. *)

\* The cache holds the last hash that was shown, under a number of its own.
HashesInv ==
  /\ DOMAIN hashes \subseteq {Peer(e) : e \in Entities}
  /\ \A e \in Entities : e.kind # "chat" =>
       Numbers!accessHashForPeer(cache, Numbers!CacheKey(e)) = IF Peer(e) \in DOMAIN hashes THEN hashes[Peer(e)] ELSE 0

\* No two of the users and channels that are shown have one number in the cache.
LEMMA KeysApart ==
  ASSUME NEW d \in Entities, NEW e \in Entities, d.kind # "chat", e.kind # "chat",
         Numbers!CacheKey(d) = Numbers!CacheKey(e)
  PROVE  Peer(d) = Peer(e)
<1>1. /\ d.id \in Nat \ {0} /\ e.id \in Nat \ {0} /\ Mark \in Nat
      /\ d.kind \in {"user", "chat", "channel"} /\ e.kind \in {"user", "chat", "channel"}
  BY PartsAssumption DEF Numbers!ParametersOK
<1> QED BY <1>1 DEF Numbers!CacheKey, Peer

\* What an update shows replaces the hash in the cache, or leaves it.
LEMMA ShowKeeps ==
  ASSUME HashesInv, NEW batch \in Batches, Show(batch), NEW e \in Entities, e.kind # "chat"
  PROVE  Numbers!accessHashForPeer(cache', Numbers!CacheKey(e)) = IF Peer(e) \in DOMAIN hashes' THEN hashes'[Peer(e)] ELSE 0
<1> DEFINE key == Numbers!CacheKey(e)
           new == Numbers!Hashed(batch)
           news == {d \in batch : Peer(d) = Peer(e)}
<1>1. /\ batch \in SUBSET Entities /\ \A d, f \in batch : Peer(d) = Peer(f) => d = f
      /\ e.kind \in {"user", "channel"} /\ e.hash \in Nat
  BY PartsAssumption DEF Batches
<1>2. Numbers!accessHashForPeer(cache, key) = IF Peer(e) \in DOMAIN hashes THEN hashes[Peer(e)] ELSE 0
  BY DEF HashesInv
<1>3. /\ cache' = Numbers!cacheEntities(cache, batch)
      /\ hashes' = [p \in DOMAIN hashes \cup {Peer(d) : d \in batch} |->
                     IF \E d \in batch : Peer(d) = p /\ d.hash # 0 THEN (CHOOSE d \in batch : Peer(d) = p).hash
                     ELSE IF p \in DOMAIN hashes THEN hashes[p] ELSE 0]
  BY DEF Show
<1>4. \A d \in new : d \in Entities /\ d \in batch /\ d.hash # 0 /\ d.kind # "chat"
  BY <1>1 DEF Numbers!Hashed
<1>5. \A d \in batch : Peer(d) = Peer(e) => d.kind = e.kind /\ Numbers!CacheKey(d) = key
  BY DEF Peer, Numbers!CacheKey
<1>6. CASE \E d \in batch : Peer(d) = Peer(e) /\ d.hash # 0
  <2>1. PICK d \in batch : Peer(d) = Peer(e) /\ d.hash # 0
    BY <1>6
  <2>2. d \in new /\ Numbers!CacheKey(d) = key
    BY <1>1, <1>5, <2>1 DEF Numbers!Hashed
  <2>3. \A f \in new : Numbers!CacheKey(f) = key => f = d
    BY <1>1, <1>4, <2>1, KeysApart
  <2>4. (CHOOSE f \in new : Numbers!CacheKey(f) = key) = d
    BY <2>2, <2>3
  <2>5. key \in DOMAIN cache' /\ cache'[key] = d.hash
    <3>1. cache' = [n \in DOMAIN cache \cup {Numbers!CacheKey(f) : f \in new} |->
                      IF \E f \in new : Numbers!CacheKey(f) = n
                      THEN (CHOOSE f \in new : Numbers!CacheKey(f) = n).hash ELSE cache[n]]
      BY <1>3 DEF Numbers!cacheEntities
    <3>2. key \in {Numbers!CacheKey(f) : f \in new} /\ \E f \in new : Numbers!CacheKey(f) = key
      BY <2>2
    <3> HIDE DEF key, new
    <3> QED BY <3>1, <3>2, <2>4
  <2>6. (CHOOSE f \in batch : Peer(f) = Peer(e)) = d
    BY <1>1, <2>1
  <2>7. Peer(e) \in DOMAIN hashes' /\ hashes'[Peer(e)] = d.hash
    BY <1>3, <2>1, <2>6
  <2> QED BY <2>5, <2>7 DEF Numbers!accessHashForPeer
<1>7. CASE \A d \in batch : Peer(d) = Peer(e) => d.hash = 0
  <2>1. \A f \in new : Numbers!CacheKey(f) # key
    BY <1>1, <1>4, <1>7, KeysApart
  <2>2. (key \in DOMAIN cache' <=> key \in DOMAIN cache) /\ (key \in DOMAIN cache => cache'[key] = cache[key])
    <3>1. cache' = [n \in DOMAIN cache \cup {Numbers!CacheKey(f) : f \in new} |->
                      IF \E f \in new : Numbers!CacheKey(f) = n
                      THEN (CHOOSE f \in new : Numbers!CacheKey(f) = n).hash ELSE cache[n]]
      BY <1>3 DEF Numbers!cacheEntities
    <3> HIDE DEF key, new
    <3> QED BY <3>1, <2>1
  <2>3. IF Peer(e) \in DOMAIN hashes THEN Peer(e) \in DOMAIN hashes' /\ hashes'[Peer(e)] = hashes[Peer(e)]
        ELSE Peer(e) \in DOMAIN hashes' => hashes'[Peer(e)] = 0
    BY <1>3, <1>7
  <2> QED BY <1>2, <2>2, <2>3 DEF Numbers!accessHashForPeer
<1> QED BY <1>6, <1>7

\* At first nothing is known.
LEMMA HashesBegin == PartsInit => HashesInv
  BY DEF PartsInit, PeersInit, HashesInv, Numbers!accessHashForPeer

\* Every step keeps the cache true.
LEMMA HashesKeep == HashesInv /\ [PartsNext]_partsVars => HashesInv'
<1> SUFFICES ASSUME HashesInv, [PartsNext]_partsVars PROVE HashesInv'
  OBVIOUS
<1>1. CASE UNCHANGED peerVars
  BY <1>1 DEF peerVars, HashesInv
<1>2. ASSUME NEW batch \in Batches, Show(batch) PROVE HashesInv'
  <2>1. DOMAIN hashes' = DOMAIN hashes \cup {Peer(d) : d \in batch} /\ batch \subseteq Entities
    BY <1>2 DEF Show, Batches
  <2>2. DOMAIN hashes' \subseteq {Peer(e) : e \in Entities}
    BY <2>1 DEF HashesInv
  <2> QED BY <1>2, <2>2, ShowKeeps DEF HashesInv
<1> QED
  BY <1>1, <1>2 DEF PartsNext, PeersNext, PipelineOnly, AuthOnly, partsVars

\* The numbers of basic groups that are not large.
SmallGroups == \A e \in Entities : e.kind = "chat" => e.id <= Edge

\* Every way of naming a peer leads back to it.
LEMMA NumbersLeadBack ==
  ASSUME SmallGroups, HashesInv, NEW p \in DOMAIN hashes
  PROVE  LET entity == [kind |-> p.kind, id |-> p.id, hash |-> hashes[p]]
             m      == Naming(p)
             n      == View!NewMessage(m, 0).ChatID
             input  == Numbers!GetInputPeer(entity, FALSE, FALSE)
         IN  /\ Numbers!resolvePeer(cache, n) = input
             /\ View!FromTLMessage(m).PeerID = n /\ View!SavedFromID(m.fwd) = n
             /\ p.kind # "chat" => View!NewMessage(m, 0).SenderID = n
             /\ View!FwdFromID(m.fwd) + View!FwdFromChatID(m.fwd) = n
             /\ p.kind # "chat" => Numbers!GetPeer(Numbers!GetPeerID(p, TRUE)) = p
             /\ Bare(Numbers!GetInputUser(entity, FALSE)) = IF p.kind = "user" THEN Numbers!resolveInputUser(n) ELSE Numbers!Refused
             /\ p.kind # "user" => Bare(Numbers!GetInputChannel(entity)) = Numbers!resolveInputChannel(n)
             /\ View!FwdKind(m.fwd).IsUser <=> p.kind = "user"
             /\ View!ForwardedFromID(m) = (IF p.kind = "chat" THEN 0 ELSE p.id)
<1> DEFINE k == p.kind
           i == p.id
           h == hashes[p]
           n == View!Signed(p)
           entity == [kind |-> k, id |-> i, hash |-> h]
           m == Naming(p)
           fwd == m.fwd
           input == IF k = "chat" THEN Numbers!Input("chat", i, 0) ELSE Numbers!Input(k, i, h)
<1>0. PICK e \in Entities : Peer(e) = p
  BY DEF HashesInv
<1>1. /\ k \in {"user", "chat", "channel"} /\ i \in Nat \ {0} /\ Mark \in Nat /\ Edge \in Nat /\ Edge < Mark
      /\ k = "chat" => i <= Edge
  <2>1. k = e.kind /\ i = e.id
    BY <1>0 DEF Peer
  <2> QED BY <2>1, PartsAssumption DEF SmallGroups, Numbers!ParametersOK
<1>2. p = [kind |-> k, id |-> i] /\ e.kind = k /\ e.id = i
  BY <1>0 DEF Peer
<1>3. k # "chat" => Numbers!accessHashForPeer(cache, Numbers!CacheKey(e)) = h
  BY <1>0, <1>2 DEF HashesInv
<1>4. n = IF k = "user" THEN i ELSE IF k = "chat" THEN -i ELSE -Mark - i
  BY <1>1 DEF View!Signed
<1>5. k # "chat" => Numbers!CacheKey(e) = n
  BY <1>1, <1>2, <1>4 DEF Numbers!CacheKey
<1>8. /\ m # View!Nil /\ m.peer = p /\ m.from = p
      /\ fwd.from = p /\ fwd.saved = p /\ fwd.name = ""
  BY DEF Naming, View!Nil
<1>15. View!ForwardedFromID(m) = (IF k = "chat" THEN 0 ELSE i)
  BY <1>1, <1>8 DEF View!ForwardedFromID
<1> HIDE DEF h, n, m, fwd
<1>6. Numbers!GetInputPeer(entity, FALSE, FALSE) = input
  BY <1>1 DEF Numbers!GetInputPeer, Numbers!Input
<1>7. Numbers!resolvePeer(cache, n) = input
  <2>1. CASE k = "user"
    BY <2>1, <1>1, <1>3, <1>4, <1>5 DEF Numbers!resolvePeer, Numbers!Input
  <2>2. CASE k = "chat"
    BY <2>2, <1>1, <1>4 DEF Numbers!resolvePeer, Numbers!Input
  <2>3. CASE k = "channel"
    <3>1. n < -Edge /\ n < 0 /\ -n - Mark = i
      BY <2>3, <1>1, <1>4
    <3> QED BY <2>3, <3>1, <1>3, <1>5 DEF Numbers!resolvePeer, Numbers!Input,
               Numbers!channelIDFromPeerID
  <2> QED BY <1>1, <2>1, <2>2, <2>3
<1>9. View!NewMessage(m, 0).ChatID = n /\ (k # "chat" => View!NewMessage(m, 0).SenderID = n)
  BY <1>8 DEF View!NewMessage, View!NewMCUBMessage, n
<1>16. View!FromTLMessage(m).PeerID = n /\ View!SavedFromID(fwd) = n
  BY <1>8 DEF View!FromTLMessage, View!SavedFromID, n
<1>10. View!FwdFromID(fwd) + View!FwdFromChatID(fwd) = n
  <2>1. View!FwdFromID(fwd) = IF k = "user" THEN i ELSE 0
    BY <1>8 DEF View!FwdFromID
  <2>2. View!FwdFromChatID(fwd) = IF k \in {"chat", "channel"} THEN n ELSE 0
    BY <1>8 DEF View!FwdFromChatID, n
  <2> QED BY <1>1, <1>4, <2>1, <2>2
<1>11. k # "chat" => Numbers!GetPeer(Numbers!GetPeerID(p, TRUE)) = p
  BY <1>1, <1>2 DEF Numbers!GetPeer, Numbers!GetPeerID
<1>12. Bare(Numbers!GetInputUser(entity, FALSE)) = IF k = "user" THEN Numbers!resolveInputUser(n) ELSE Numbers!Refused
  BY <1>1, <1>4 DEF Bare, Numbers!GetInputUser, Numbers!resolveInputUser, Numbers!Input,
     Numbers!Refused
<1>13. k # "user" => Bare(Numbers!GetInputChannel(entity)) = Numbers!resolveInputChannel(n)
  BY <1>1, <1>4 DEF Bare, Numbers!GetInputChannel, Numbers!resolveInputChannel, Numbers!Input,
     Numbers!Refused, Numbers!channelIDFromPeerID
<1>14. View!FwdKind(fwd).IsUser <=> k = "user"
  BY <1>8 DEF View!FwdKind
<1> HIDE DEF input
<1> QED
  BY <1>6, <1>7, <1>9, <1>10, <1>11, <1>12, <1>13, <1>14, <1>15, <1>16 DEF h, m, fwd

\* The number of a peer leads back to it with the last hash that was shown, for
\* every set of users, channels and groups of which no group is large
\* (message.go:917-989, forward.go:33-148, client.go:459-480, messages.go:430-452).
THEOREM NumbersAgreeHolds ==
  ASSUME SmallGroups PROVE PartsSpec => []NumbersAgree
<1>1. HashesInv => NumbersAgree
  BY NumbersLeadBack DEF NumbersAgree
<1> QED
  BY HashesBegin, HashesKeep, <1>1, PTL DEF PartsSpec

-----------------------------------------------------------------------------
(* What is known of the calls on messages. *)

\* The fields of a call and of a message are always the same.
CallShape(c) ==
  DOMAIN c = {"op", "pc", "peer", "to", "todo", "ids", "req", "got", "out", "full", "limit", "reverse", "made", "lost", "shown", "held"}
MessageShape(m) == DOMAIN m = {"place", "id", "text", "media", "reply", "sched", "pinned"}

\* A list, whatever its elements are.
Listing(s) == s \in Seq({s[i] : i \in 1 .. Len(s)})

\* The messages on the server: no scheduled one is pinned.
MessageKnown(m) == MessageShape(m) /\ m.place \in Rooms /\ m.id \in Nat /\ (m.pinned => ~m.sched)
ServerKnown(M) ==
  /\ IsFiniteSet(M)
  /\ \A m \in M : MessageKnown(m)

\* The requests that can be sent.
Rpcs == {"send", "forward", "edit", "deleteOwn", "deleteChannel", "deleteScheduled", "sendScheduled",
         "pin", "unpin", "unpinAll", "read"}
RequestKnown(r) ==
  /\ r.rpc \in Rpcs /\ Listing(r.ids) /\ Listing(r.new)
  /\ r.rpc = "send" => Len(r.new) > 0
OneMessage(r) == RequestKnown(r) /\ (r.rpc = "send" => Len(r.new) = 1)

\* A message is one that the call asked for, and it was there during the call.
Asked(c, m) ==
  /\ m \in c.shown /\ ~m.sched
  /\ \E j \in DOMAIN c.ids : c.ids[j] = m.id
  /\ Messages!Box(m.place) = Messages!Box(Messages!Target(c.peer))

\* A call that has not ended has made nothing and lost no answer.
Begun(c) ==
  c.pc # "done" => c.made = {} /\ ~c.lost /\ c.out = "none" /\ (c.pc # "rpc" => c.req.rpc = "none")

\* The calls that fetch look in the numbering of the chat that was named, for
\* what they have not yet looked for.
Fetching(c) ==
  c.pc \in {"resolve", "getChannel", "getOwn", "history"} =>
    /\ c.op \in {"get", "reply", "link", "copy"} /\ c.peer \in Messages!Numbers
    /\ Listing(c.ids) /\ (c.op # "get" => Len(c.ids) = 1)
    /\ c.pc = "getChannel" => Messages!Target(c.peer).kind = "channel"
    /\ c.pc \in {"getOwn", "history"} => Messages!Target(c.peer).kind # "channel"
    /\ Listing(c.todo) /\ Len(c.todo) > 0
    /\ \A k \in 1 .. Len(c.todo) : \E j \in 1 .. Len(c.ids) : c.ids[j] = c.todo[k]
    /\ Listing(c.got) /\ \A i \in 1 .. Len(c.got) : Asked(c, c.got[i])

\* A copy is about to send what one version of the source had.
Copying(c) ==
  c.op = "copy" /\ c.pc = "rpc" =>
    \E m \in c.shown :
      /\ m.id = c.ids[1] /\ Messages!Box(m.place) = Messages!Box(Messages!Target(c.peer))
      /\ c.req = Messages!Sending(c.to, << Messages!New(m.text, Messages!Carried(m), 0, FALSE) >>)

\* The pins that were there all the time are among those not yet cleared.
Clearing(c) ==
  /\ c.pc = "search" => c.op \in {"pinned", "clear"} /\ ~c.full
  /\ c.op = "clear" /\ c.pc = "rpc" =>
       /\ Listing(c.todo) /\ Len(c.todo) > 0
       /\ c.req = Messages!UnpinMessage(c.peer, c.todo[1])
       /\ ~c.full => \A id \in c.held : \E k \in 1 .. Len(c.todo) : c.todo[k] = id
HeldThere(c, M) ==
  \A id \in c.held : \E m \in M : m.place = Messages!Target(c.peer) /\ m.id = id /\ m.pinned

\* The files of an album are uploaded in order, the caption with the first.
Uploading(c) ==
  /\ c.op = "voice" => Len(c.ids) = 1
  /\ c.pc = "upload" =>
       /\ c.op \in {"album", "voice"}
       /\ Listing(c.got) /\ Listing(c.todo) /\ Len(c.todo) > 0 /\ Len(c.ids) = Len(c.got) + Len(c.todo)
       /\ \A k \in 1 .. Len(c.todo) : c.todo[k] = Len(c.got) + k
       /\ Len(c.got) > 0 => c.got[1].text = "caption"
  /\ c.op \in {"album", "voice"} /\ c.pc = "rpc" =>
       /\ c.req.rpc = "send" /\ Len(c.req.new) = Len(c.ids) /\ c.req.new[1].text = "caption"

Sending(c) ==
  /\ c.pc = "rpc" => RequestKnown(c.req) /\ c.op \in {"single", "album", "voice", "copy", "clear"}
  /\ c.pc = "rpc" /\ c.op = "single" => OneMessage(c.req)
Ended(c) ==
  /\ c.pc \in {"done", "resolve", "getChannel", "getOwn", "history", "search", "list", "upload", "rpc"}
  /\ c.out \in {"none", "ok", "error"}
  /\ c.op \in {"none"} => c.pc = "done" /\ c.req.rpc = "none" /\ c.out = "none" /\ c.made = {}
  /\ c.pc = "list" => c.op = "list"

Known(c) ==
  CallShape(c) /\ Begun(c) /\ Fetching(c) /\ Copying(c) /\ Clearing(c) /\ Uploading(c) /\ Sending(c) /\ Ended(c) /\ Truthful(c)
MessagesInv == ServerKnown(msgs) /\ msgs \subseteq op.shown /\ HeldThere(op, msgs) /\ Known(op)

-----------------------------------------------------------------------------
(* The numbers of a set in their order. *)

LowerThan(S, p) == {q \in S : q < p}

\* A number that is higher has more below it.
LEMMA LowerHasFewer ==
  ASSUME NEW S \in SUBSET Int, IsFiniteSet(S), NEW p \in S, NEW q \in S, q < p
  PROVE  Cardinality(LowerThan(S, q)) < Cardinality(LowerThan(S, p))
<1> DEFINE L == LowerThan(S, q)
           H == LowerThan(S, p)
<1>1. L \in SUBSET H /\ q \in H /\ q \notin L /\ H \in SUBSET S
  <2>1. p \in Int /\ q \in Int /\ \A r \in S : r \in Int
    OBVIOUS
  <2>2. \A r \in L : r \in S /\ r < p
    BY <2>1 DEF LowerThan
  <2>3. q \in H /\ q \notin L /\ H \in SUBSET S
    BY <2>1 DEF LowerThan
  <2>4. L \in SUBSET H
    BY <2>2 DEF LowerThan
  <2> QED BY <2>3, <2>4
<1> HIDE DEF L, H
<1>2. IsFiniteSet(H) /\ IsFiniteSet(L) /\ Cardinality(H) \in Nat /\ Cardinality(L) \in Nat
  BY <1>1, FS_Subset, FS_CardinalityType
<1>3. Cardinality(L) <= Cardinality(H) /\ (Cardinality(H) = Cardinality(L) => H = L)
  BY <1>1, <1>2, FS_Subset
<1>4. Cardinality(L) < Cardinality(H)
  BY <1>1, <1>2, <1>3
<1> QED BY <1>4 DEF L, H

\* Numbers have places of their own, and every place is taken.
LEMMA PlacesTaken ==
  ASSUME NEW S \in SUBSET Int, IsFiniteSet(S)
  PROVE  /\ Cardinality(S) \in Nat
         /\ \A p \in S : Cardinality(LowerThan(S, p)) + 1 \in 1 .. Cardinality(S)
         /\ \A p, q \in S : Cardinality(LowerThan(S, p)) = Cardinality(LowerThan(S, q)) => p = q
         /\ \A i \in 1 .. Cardinality(S) : \E p \in S : Cardinality(LowerThan(S, p)) = i - 1
<1> DEFINE n == Cardinality(S)
           place == [p \in S |-> Cardinality(LowerThan(S, p)) + 1]
<1>1. n \in Nat
  BY FS_CardinalityType
<1>2. ASSUME NEW p \in S
      PROVE  Cardinality(LowerThan(S, p)) \in Nat /\ Cardinality(LowerThan(S, p)) + 1 \in 1 .. n
  <2> DEFINE L == LowerThan(S, p)
  <2>1. L \in SUBSET S /\ p \notin L
    BY DEF LowerThan
  <2> HIDE DEF L
  <2>2. IsFiniteSet(L) /\ Cardinality(L) <= n /\ (n = Cardinality(L) => S = L) /\ Cardinality(L) \in Nat
    BY <2>1, FS_Subset, FS_CardinalityType
  <2>3. Cardinality(L) \in Nat /\ Cardinality(L) + 1 \in 1 .. n
    BY <1>1, <2>1, <2>2
  <2> QED BY <2>3 DEF L
<1>3. ASSUME NEW p \in S, NEW q \in S, Cardinality(LowerThan(S, p)) = Cardinality(LowerThan(S, q)) PROVE p = q
  <2>1. p \in Int /\ q \in Int
    OBVIOUS
  <2>2. Cardinality(LowerThan(S, p)) \in Nat
    BY <1>2
  <2>3. ~(p < q) /\ ~(q < p)
    BY <1>3, <2>2, LowerHasFewer
  <2> QED BY <2>1, <2>3
<1>4. place \in Injection(S, 1 .. n)
  <2>1. place \in [S -> 1 .. n]
    <3> HIDE DEF n
    <3> QED BY <1>2
  <2>2. \A p, q \in S : place[p] = place[q] => p = q
    BY <1>2, <1>3
  <2> HIDE DEF place, n
  <2> QED BY <2>1, <2>2 DEF Injection, IsInjective
<1>5. place \in Surjection(S, 1 .. n)
  <2> HIDE DEF place
  <2>1. IsFiniteSet(1 .. n) /\ Cardinality(1 .. n) = n
    <3> HIDE DEF n
    <3> QED BY <1>1, FS_Interval
  <2> QED BY <1>4, <2>1, FS_Injection
<1>6. \A i \in 1 .. n : \E p \in S : place[p] = i
  <2> HIDE DEF place, n
  <2> QED BY <1>5 DEF Surjection
<1>7. ASSUME NEW i \in 1 .. n PROVE \E p \in S : Cardinality(LowerThan(S, p)) = i - 1
  <2>1. PICK p \in S : place[p] = i
    BY <1>6
  <2>2. Cardinality(LowerThan(S, p)) + 1 = i /\ Cardinality(LowerThan(S, p)) \in Nat
    BY <1>2, <2>1
  <2> QED BY <1>1, <2>2
<1> QED BY <1>1, <1>2, <1>3, <1>7

\* The instance counts as the standard modules do.
LEMMA CountMessages == \A S : Messages!Cardinality(S) = Cardinality(S) /\ (Messages!IsFiniteSet(S) <=> IsFiniteSet(S))
  BY DEF Messages!Cardinality, Cardinality, Messages!IsFiniteSet, IsFiniteSet

\* The sequence of the numbers of a set holds them all.
LEMMA AscendingHolds ==
  ASSUME NEW S \in SUBSET Int, IsFiniteSet(S)
  PROVE  LET A == Messages!Ascending(S) IN
         /\ Cardinality(S) \in Nat /\ Len(A) = Cardinality(S) /\ DOMAIN A = 1 .. Len(A) /\ A \in Seq(S)
         /\ \A i \in 1 .. Len(A) : A[i] \in S
         /\ \A p \in S : \E i \in 1 .. Len(A) : A[i] = p
<1> DEFINE A == Messages!Ascending(S)
           n == Cardinality(S)
           at(i) == CHOOSE p \in S : Messages!Cardinality({q \in S : q < p}) = i - 1
<1>1. n \in Nat
  BY FS_CardinalityType
<1>2. Messages!Cardinality(S) = n /\ \A p \in S : Messages!Cardinality({q \in S : q < p}) = Cardinality(LowerThan(S, p))
  BY CountMessages DEF LowerThan
<1>7. A = [i \in 1 .. n |-> at(i)]
  <2> HIDE DEF n
  <2> QED BY <1>2 DEF Messages!Ascending
<1> HIDE DEF A
<1>3. \A i \in 1 .. n : A[i] \in S /\ Cardinality(LowerThan(S, A[i])) = i - 1
  <2> SUFFICES ASSUME NEW i \in 1 .. n PROVE A[i] \in S /\ Cardinality(LowerThan(S, A[i])) = i - 1
    OBVIOUS
  <2>1. \E p \in S : Cardinality(LowerThan(S, p)) = i - 1
    BY PlacesTaken
  <2>2. \E p \in S : Messages!Cardinality({q \in S : q < p}) = i - 1
    BY <2>1, <1>2
  <2> HIDE DEF n
  <2>3. A[i] = CHOOSE p \in S : Messages!Cardinality({q \in S : q < p}) = i - 1
    BY <1>7
  <2>4. A[i] \in S /\ Messages!Cardinality({q \in S : q < A[i]}) = i - 1
    BY <2>2, <2>3
  <2> QED BY <2>4, <1>2
<1> HIDE DEF n
<1>4. A \in [1 .. n -> S]
  <2>1. A = [i \in 1 .. n |-> A[i]]
    <3> HIDE DEF at
    <3> QED BY <1>7
  <2> QED BY <2>1, <1>3
<1>5. Len(A) = n /\ DOMAIN A = 1 .. n /\ A \in Seq(S)
  BY <1>1, <1>4
<1>6. ASSUME NEW p \in S PROVE \E i \in 1 .. n : A[i] = p
  <2> DEFINE c == Cardinality(LowerThan(S, p))
  <2>1. c + 1 \in 1 .. n /\ c \in Nat
    <3>1. LowerThan(S, p) \in SUBSET S
      BY DEF LowerThan
    <3>2. c \in Nat
      BY <3>1, FS_Subset, FS_CardinalityType
    <3> QED BY <3>2, PlacesTaken DEF n
  <2> HIDE DEF c
  <2>2. A[c + 1] \in S /\ Cardinality(LowerThan(S, A[c + 1])) = c
    BY <2>1, <1>3
  <2>3. \A a, b \in S : Cardinality(LowerThan(S, a)) = Cardinality(LowerThan(S, b)) => a = b
    BY PlacesTaken
  <2>4. A[c + 1] = p
    BY <2>2, <2>3 DEF c
  <2> QED BY <2>1, <2>4
<1> QED BY <1>1, <1>3, <1>5, <1>6 DEF A, n

\* The places of a sequence at which something is.
LEMMA PlacesAscend ==
  ASSUME NEW n \in Nat, NEW S \in SUBSET (1 .. n)
  PROVE  LET A == Messages!Ascending(S) IN
         /\ Len(A) \in Nat /\ DOMAIN A = 1 .. Len(A)
         /\ \A i \in 1 .. Len(A) : A[i] \in S
         /\ \A p \in S : \E i \in 1 .. Len(A) : A[i] = p
<1>1. S \in SUBSET Int /\ IsFiniteSet(S)
  <2>1. IsFiniteSet(1 .. n) /\ 1 .. n \in SUBSET Int
    BY FS_Interval
  <2> QED BY <2>1, FS_Subset
<1>2. Cardinality(S) \in Nat
  BY <1>1, FS_CardinalityType
<1> QED BY <1>1, <1>2, AscendingHolds

\* The sequence of a finite set holds elements of it.
LEMMA SequenceOfSet ==
  ASSUME NEW S, IsFiniteSet(S)
  PROVE  LET s == Messages!SetToSeq(S) IN
         Len(s) \in Nat /\ DOMAIN s = 1 .. Len(s) /\ s \in [1 .. Len(s) -> S] /\ s \in Seq(S)
<1> DEFINE n == Cardinality(S)
           s == Messages!SetToSeq(S)
<1>1. n \in Nat /\ \E f : f \in Bijection(1 .. n, S)
  <2>1. PICK k \in Nat : ExistsBijection(1 .. k, S)
    BY FS_NatBijection
  <2>2. k = n
    BY <2>1, FS_CountingElements
  <2> QED BY <2>1, <2>2 DEF ExistsBijection
<1>2. \E f \in [1 .. n -> S] : Messages!IsInjective(f)
  <2>1. PICK f : f \in Bijection(1 .. n, S)
    BY <1>1
  <2> HIDE DEF n
  <2> QED BY <2>1 DEF Bijection, Injection, IsInjective, Messages!IsInjective
<1>3. s \in [1 .. n -> S]
  <2>1. Messages!Cardinality(S) = n
    BY CountMessages
  <2> HIDE DEF n
  <2> QED BY <1>2, <2>1 DEF Messages!SetToSeq
<1> HIDE DEF n, s
<1>4. Len(s) = n /\ DOMAIN s = 1 .. n /\ s \in Seq(S)
  BY <1>1, <1>3
<1> QED BY <1>1, <1>3, <1>4 DEF s

-----------------------------------------------------------------------------
(* The fields of calls. *)

\* A call that is done differs in what it returns.
LEMMA DoneFields ==
  ASSUME NEW c, CallShape(c), NEW out, NEW got
  PROVE  LET d == Messages!Done(c, out, got) IN
         /\ CallShape(d) /\ d.pc = "done" /\ d.out = out /\ d.got = got
         /\ d.op = c.op /\ d.peer = c.peer /\ d.to = c.to /\ d.todo = c.todo /\ d.ids = c.ids /\ d.req = c.req
         /\ d.full = c.full /\ d.limit = c.limit /\ d.reverse = c.reverse /\ d.made = c.made /\ d.lost = c.lost
         /\ d.shown = c.shown /\ d.held = c.held
  BY DEF CallShape, Messages!Done

\* A change of the chats adds to what was shown, and nothing to what was held.
LEMMA SeenFields ==
  ASSUME NEW c, CallShape(c), NEW M
  PROVE  LET d == Messages!Seen(c, M) IN
         /\ CallShape(d) /\ d.pc = c.pc /\ d.out = c.out /\ d.got = c.got
         /\ d.op = c.op /\ d.peer = c.peer /\ d.to = c.to /\ d.todo = c.todo /\ d.ids = c.ids /\ d.req = c.req
         /\ d.full = c.full /\ d.limit = c.limit /\ d.reverse = c.reverse /\ d.made = c.made /\ d.lost = c.lost
         /\ d.shown = c.shown \cup M /\ d.held \subseteq c.held
         /\ \A id \in d.held : \E m \in M : m.place = Messages!Target(c.peer) /\ m.id = id /\ m.pinned
<1> DEFINE d == Messages!Seen(c, M)
<1>1. /\ CallShape(d) /\ d.pc = c.pc /\ d.out = c.out /\ d.got = c.got
      /\ d.op = c.op /\ d.peer = c.peer /\ d.to = c.to /\ d.todo = c.todo /\ d.ids = c.ids /\ d.req = c.req
      /\ d.full = c.full /\ d.limit = c.limit /\ d.reverse = c.reverse /\ d.made = c.made /\ d.lost = c.lost
  BY DEF CallShape, Messages!Seen
<1>2. /\ d.shown = c.shown \cup M
      /\ d.held = {id \in c.held : \E m \in M : m.place = Messages!Target(c.peer) /\ m.id = id /\ m.pinned}
  BY DEF CallShape, Messages!Seen
<1> HIDE DEF d
<1>3. d.held \subseteq c.held /\ \A id \in d.held : \E m \in M : m.place = Messages!Target(c.peer) /\ m.id = id /\ m.pinned
  BY <1>2
<1> QED BY <1>1, <1>2, <1>3 DEF d

\* The fields of a call that begins.
LEMMA CallFields ==
  ASSUME NEW o, NEW pc, NEW n, NEW to, NEW todo, NEW req
  PROVE  LET d == Messages!Call(o, pc, n, to, todo, req) IN
         /\ CallShape(d) /\ d.pc = pc /\ d.out = "none" /\ d.got = <<>>
         /\ d.op = o /\ d.peer = n /\ d.to = to /\ d.todo = todo /\ d.ids = todo /\ d.req = req
         /\ ~d.full /\ d.limit = 0 /\ ~d.reverse /\ d.made = {} /\ ~d.lost
         /\ d.shown = msgs /\ d.held = Messages!Pinned(Messages!Target(n)) /\ HeldThere(d, msgs)
<1> DEFINE d == Messages!Call(o, pc, n, to, todo, req)
<1>1. /\ CallShape(d) /\ d.pc = pc /\ d.out = "none" /\ d.got = <<>>
      /\ d.op = o /\ d.peer = n /\ d.to = to /\ d.todo = todo /\ d.ids = todo /\ d.req = req
      /\ ~d.full /\ d.limit = 0 /\ ~d.reverse /\ d.made = {} /\ ~d.lost
      /\ d.shown = msgs /\ d.held = Messages!Pinned(Messages!Target(n))
  BY DEF CallShape, Messages!Call
<1> HIDE DEF d
<1>2. HeldThere(d, msgs)
  BY <1>1 DEF HeldThere, Messages!Pinned, Messages!In
<1> QED BY <1>1, <1>2 DEF d

\* A call that has not ended yet is truthful, whatever it holds.
LEMMA NotYet ==
  ASSUME NEW c, c.out = "none", c.made = {}
  PROVE  Truthful(c)
<1>1. Cardinality({}) = 0
  BY FS_EmptySet
<1> QED
  BY <1>1 DEF Truthful, AsAsked, CopyFaithful, PinsCleared, AlbumWhole, ReturnsMade

\* An error tells nothing.
LEMMA InError ==
  ASSUME NEW c, c.out = "error", c.made = {}
  PROVE  Truthful(c)
<1>1. Cardinality({}) = 0
  BY FS_EmptySet
<1> QED
  BY <1>1 DEF Truthful, AsAsked, CopyFaithful, PinsCleared, AlbumWhole, ReturnsMade

\* A call that has ended is known if what it says is true.
LEMMA EndKnown ==
  ASSUME NEW c, Known(c), c.op # "none", NEW out \in {"ok", "error"}, NEW got, Truthful(Messages!Done(c, out, got))
  PROVE  Known(Messages!Done(c, out, got))
<1> DEFINE d == Messages!Done(c, out, got)
<1>1. /\ CallShape(d) /\ d.pc = "done" /\ d.out = out /\ d.op = c.op /\ d.ids = c.ids
  BY DoneFields DEF Known
<1>2. Truthful(d) /\ (c.op = "voice" => Len(c.ids) = 1)
  BY DEF Known, Uploading
<1> HIDE DEF d
<1>3. Known(d)
  BY <1>1, <1>2 DEF Known, Begun, Fetching, Copying, Clearing, Uploading, Sending, Ended
<1> QED BY <1>3 DEF d

\* What is known of a call stays so when the chats change.
LEMMA SeenKeeps ==
  ASSUME NEW c, Known(c), NEW M
  PROVE  LET d == Messages!Seen(c, M) IN Known(d) /\ M \subseteq d.shown /\ HeldThere(d, M)
<1> DEFINE d == Messages!Seen(c, M)
<1>1. /\ CallShape(d) /\ d.pc = c.pc /\ d.out = c.out /\ d.got = c.got
      /\ d.op = c.op /\ d.peer = c.peer /\ d.to = c.to /\ d.todo = c.todo /\ d.ids = c.ids /\ d.req = c.req
      /\ d.full = c.full /\ d.limit = c.limit /\ d.reverse = c.reverse /\ d.made = c.made /\ d.lost = c.lost
      /\ d.shown = c.shown \cup M /\ d.held \subseteq c.held
      /\ \A id \in d.held : \E m \in M : m.place = Messages!Target(c.peer) /\ m.id = id /\ m.pinned
  BY SeenFields DEF Known
<1> HIDE DEF d
<1>2. M \subseteq d.shown /\ HeldThere(d, M)
  BY <1>1 DEF HeldThere
<1>3. Begun(d) /\ Uploading(d) /\ Sending(d) /\ Ended(d)
  BY <1>1 DEF Known, Begun, Uploading, Sending, Ended
<1>4. Fetching(d)
  <2>1. \A m : Asked(c, m) => Asked(d, m)
    BY <1>1 DEF Asked
  <2> QED BY <1>1, <2>1 DEF Known, Fetching
<1>5. Copying(d)
  <2>1. ASSUME d.op = "copy", d.pc = "rpc"
        PROVE  \E m \in d.shown :
                 /\ m.id = d.ids[1] /\ Messages!Box(m.place) = Messages!Box(Messages!Target(d.peer))
                 /\ d.req = Messages!Sending(d.to, << Messages!New(m.text, Messages!Carried(m), 0, FALSE) >>)
    <3>1. PICK m \in c.shown :
            /\ m.id = c.ids[1] /\ Messages!Box(m.place) = Messages!Box(Messages!Target(c.peer))
            /\ c.req = Messages!Sending(c.to, << Messages!New(m.text, Messages!Carried(m), 0, FALSE) >>)
      BY <1>1, <2>1 DEF Known, Copying
    <3>2. m \in d.shown
      BY <1>1
    <3> QED BY <1>1, <3>1, <3>2
  <2> QED BY <2>1 DEF Copying
<1>6. Clearing(d)
  BY <1>1 DEF Known, Clearing
<1>7. Truthful(d)
  <2>1. AsAsked(d)
    BY <1>1 DEF Known, Truthful, AsAsked
  <2>2. CopyFaithful(d)
    BY <1>1 DEF Known, Truthful, CopyFaithful
  <2>3. PinsCleared(d) /\ AlbumWhole(d) /\ ReturnsMade(d)
    BY <1>1 DEF Known, Truthful, PinsCleared, AlbumWhole, ReturnsMade
  <2> QED BY <2>1, <2>2, <2>3 DEF Truthful
<1>8. Known(d)
  BY <1>1, <1>3, <1>4, <1>5, <1>6, <1>7 DEF Known
<1> QED BY <1>2, <1>8 DEF d

-----------------------------------------------------------------------------
(* Lists. *)

\* What a list is indexed by.
LEMMA ListFacts ==
  ASSUME NEW s, Listing(s)
  PROVE  Len(s) \in Nat /\ DOMAIN s = 1 .. Len(s)
  BY DEF Listing

\* A function over the first numbers is a list.
LEMMA ListMade ==
  ASSUME NEW n \in Nat, NEW s, DOMAIN s = 1 .. n, s = [i \in 1 .. n |-> s[i]]
  PROVE  Listing(s) /\ Len(s) = n
<1>1. s \in [1 .. n -> {s[i] : i \in 1 .. n}]
  OBVIOUS
<1>2. s \in Seq({s[i] : i \in 1 .. n}) /\ Len(s) = n
  BY <1>1
<1> QED BY <1>2 DEF Listing

\* Lists one after the other.
LEMMA ListsJoined ==
  ASSUME NEW s, NEW t, Listing(s), Listing(t)
  PROVE  /\ Listing(s \o t) /\ Len(s \o t) = Len(s) + Len(t)
         /\ \A i \in 1 .. Len(s \o t) : (s \o t)[i] = IF i <= Len(s) THEN s[i] ELSE t[i - Len(s)]
<1> DEFINE X == {s[i] : i \in 1 .. Len(s)} \cup {t[i] : i \in 1 .. Len(t)}
           u == s \o t
<1>1. s \in Seq(X) /\ t \in Seq(X) /\ Len(s) \in Nat /\ Len(t) \in Nat
  <2>1. /\ s \in [1 .. Len(s) -> {s[i] : i \in 1 .. Len(s)}] /\ Len(s) \in Nat
        /\ t \in [1 .. Len(t) -> {t[i] : i \in 1 .. Len(t)}] /\ Len(t) \in Nat
    BY DEF Listing
  <2>2. s \in [1 .. Len(s) -> X] /\ t \in [1 .. Len(t) -> X]
    BY <2>1
  <2> QED BY <2>1, <2>2
<1> HIDE DEF X
<1>2. u \in Seq(X) /\ Len(u) = Len(s) + Len(t)
  BY <1>1
<1>3. \A i \in 1 .. Len(u) : u[i] = IF i <= Len(s) THEN s[i] ELSE t[i - Len(s)]
  BY <1>1
<1> HIDE DEF u
<1>4. u = [i \in 1 .. Len(u) |-> u[i]] /\ Len(u) \in Nat /\ DOMAIN u = 1 .. Len(u)
  BY <1>2
<1>5. Listing(u)
  BY <1>4, ListMade
<1> QED BY <1>2, <1>3, <1>5 DEF u

\* A list without its first element.
LEMMA ListTail ==
  ASSUME NEW s, Listing(s), Len(s) > 0
  PROVE  /\ Listing(Tail(s)) /\ Len(Tail(s)) = Len(s) - 1
         /\ \A i \in 1 .. Len(s) - 1 : Tail(s)[i] = s[i + 1]
<1> DEFINE t == Tail(s)
<1>1. Len(s) \in Nat \ {0} /\ DOMAIN s = 1 .. Len(s) /\ s # <<>>
  BY DEF Listing
<1>2. s \in Seq({s[i] : i \in 1 .. Len(s)})
  BY DEF Listing
<1>3. t \in Seq({s[i] : i \in 1 .. Len(s)}) /\ Len(t) = Len(s) - 1 /\ \A i \in 1 .. Len(s) - 1 : t[i] = s[i + 1]
  BY <1>1, <1>2
<1> HIDE DEF t
<1>4. t = [i \in 1 .. Len(t) |-> t[i]] /\ Len(t) \in Nat /\ DOMAIN t = 1 .. Len(t)
  BY <1>3
<1>5. Listing(t)
  BY <1>4, ListMade
<1> QED BY <1>3, <1>5 DEF t

\* The empty list.
LEMMA ListOfNone == Listing(<<>>) /\ Len(<<>>) = 0
  BY DEF Listing

\* A list of one element.
LEMMA ListOfOne ==
  ASSUME NEW x
  PROVE  Listing(<<x>>) /\ Len(<<x>>) = 1 /\ <<x>>[1] = x
<1> DEFINE s == <<x>>
<1>1. Len(s) = 1 /\ s[1] = x /\ s \in Seq({x})
  OBVIOUS
<1>2. {s[i] : i \in 1 .. Len(s)} = {x}
  BY <1>1
<1> QED BY <1>1, <1>2 DEF Listing

\* Two elements make a list.
LEMMA ListOfTwo == ASSUME NEW x, NEW y PROVE Listing(<<x, y>>) /\ Len(<<x, y>>) = 2
<1> DEFINE s == <<x, y>>
<1>1. s = [i \in 1 .. 2 |-> s[i]] /\ DOMAIN s = 1 .. 2
  OBVIOUS
<1> HIDE DEF s
<1>2. Listing(s) /\ Len(s) = 2
  BY <1>1, ListMade
<1> QED BY <1>2 DEF s

\* A list with one element more.
LEMMA ListAppend ==
  ASSUME NEW s, Listing(s), NEW x
  PROVE  LET t == Append(s, x) IN
         /\ Listing(t) /\ Len(t) = Len(s) + 1 /\ t[Len(s) + 1] = x /\ \A i \in 1 .. Len(s) : t[i] = s[i]
<1> DEFINE X == {s[i] : i \in 1 .. Len(s)} \cup {x}
           t == Append(s, x)
<1>1. s \in Seq(X) /\ x \in X /\ Len(s) \in Nat
  <2>1. s \in [1 .. Len(s) -> {s[i] : i \in 1 .. Len(s)}] /\ Len(s) \in Nat
    BY DEF Listing
  <2>2. s \in [1 .. Len(s) -> X]
    BY <2>1
  <2> QED BY <2>1, <2>2
<1> HIDE DEF X
<1>2. t \in Seq(X) /\ Len(t) = Len(s) + 1 /\ t[Len(s) + 1] = x /\ \A i \in 1 .. Len(s) : t[i] = s[i]
  BY <1>1
<1> HIDE DEF t
<1>3. t = [i \in 1 .. Len(t) |-> t[i]] /\ Len(t) \in Nat /\ DOMAIN t = 1 .. Len(t)
  BY <1>2
<1>4. Listing(t)
  BY <1>3, ListMade
<1> QED BY <1>2, <1>4 DEF t

-----------------------------------------------------------------------------
(* The server. *)

\* The image of a finite set is finite.
LEMMA ImageFinite ==
  ASSUME NEW S, IsFiniteSet(S), NEW f
  PROVE  IsFiniteSet({f[x] : x \in S})
<1> DEFINE T == {f[x] : x \in S}
           g == [x \in S |-> f[x]]
<1>1. g \in Surjection(S, T)
  BY DEF Surjection
<1> HIDE DEF g
<1> QED BY <1>1, FS_Surjection

\* A set of numbers has a greatest one.
LEMMA MaxIs ==
  ASSUME NEW S \in SUBSET Int, IsFiniteSet(S), S # {}
  PROVE  Messages!Max(S) \in S /\ \A q \in S : Messages!Max(S) >= q
<1> DEFINE n == Cardinality(S)
<1>1. n \in Nat \ {0}
  BY FS_CardinalityType, FS_EmptySet
<1>2. n \in 1 .. n
  BY <1>1
<1>3. PICK p \in S : Cardinality(LowerThan(S, p)) = n - 1
  BY <1>2, PlacesTaken
<1>4. ASSUME NEW q \in S PROVE p >= q
  <2>1. p \in Int /\ q \in Int
    OBVIOUS
  <2>2. Cardinality(LowerThan(S, q)) + 1 \in 1 .. n
    BY PlacesTaken
  <2>3. IsFiniteSet(LowerThan(S, q))
    <3>1. LowerThan(S, q) \in SUBSET S
      BY DEF LowerThan
    <3> QED BY <3>1, FS_Subset
  <2>4. Cardinality(LowerThan(S, q)) \in Nat
    BY <2>3, FS_CardinalityType
  <2>5. p < q => Cardinality(LowerThan(S, p)) < Cardinality(LowerThan(S, q))
    BY LowerHasFewer
  <2> HIDE DEF n
  <2>6. ~(p < q)
    BY <1>1, <1>3, <2>2, <2>4, <2>5
  <2> QED BY <2>1, <2>6
<1>5. \E x \in S : \A q \in S : x >= q
  BY <1>4
<1> QED BY <1>5 DEF Messages!Max

\* A new message has a number that no message of its numbering has.
LEMMA NextFree ==
  ASSUME ServerKnown(msgs), NEW box
  PROVE  Messages!NextId(box) \in Nat \ {0} /\ \A m \in Messages!InBox(box) : m.id < Messages!NextId(box)
<1> DEFINE B == Messages!InBox(box)
           S == {0} \cup {m.id : m \in B}
<1>1. B \in SUBSET msgs /\ \A m \in B : m.id \in Nat
  BY DEF ServerKnown, MessageKnown, Messages!InBox
<1> HIDE DEF B
<1>2. IsFiniteSet(B)
  BY <1>1, FS_Subset DEF ServerKnown
<1>3. IsFiniteSet({m.id : m \in B})
  <2> DEFINE number == [m \in B |-> m.id]
  <2>1. IsFiniteSet({number[m] : m \in B})
    BY <1>2, ImageFinite
  <2> QED BY <2>1
<1>4. IsFiniteSet(S)
  BY <1>3, FS_AddElement
<1>5. S \in SUBSET Nat /\ S \in SUBSET Int /\ S # {}
  BY <1>1
<1>6. Messages!Max(S) \in S /\ \A q \in S : Messages!Max(S) >= q
  BY <1>4, <1>5, MaxIs
<1>7. Messages!Max(S) \in Nat /\ \A m \in B : Messages!Max(S) >= m.id
  BY <1>5, <1>6
<1>8. Messages!NextId(box) = Messages!Max(S) + 1
  BY DEF Messages!NextId, B
<1> HIDE DEF S
<1>9. Messages!NextId(box) \in Nat \ {0} /\ \A m \in B : m.id < Messages!NextId(box)
  BY <1>1, <1>7, <1>8
<1> QED BY <1>9 DEF B

\* The fields of a new message.
LEMMA MessageFields ==
  ASSUME NEW place, NEW id, NEW n
  PROVE  LET m == Messages!Message(place, id, n) IN
         /\ MessageShape(m) /\ m.place = place /\ m.id = id /\ m.text = n.text /\ m.media = n.media
         /\ m.reply = n.reply /\ m.sched = n.sched /\ ~m.pinned
  BY DEF Messages!Message, MessageShape

\* What a request adds are new messages, in a row.
LEMMA AddedFacts ==
  ASSUME ServerKnown(msgs), NEW r, RequestKnown(r)
  PROVE  LET C == Messages!Contents(r)
             A == Messages!Added(r)
             next == Messages!NextId(Messages!Box(r.at)) IN
         /\ Listing(C) /\ Listing(A) /\ Len(A) = Len(C) /\ next \in Nat
         /\ \A i \in 1 .. Len(A) : A[i] = Messages!Message(r.at, next + i - 1, C[i])
         /\ r.rpc = "send" => C = r.new /\ Len(C) > 0
<1> DEFINE C == Messages!Contents(r)
           A == Messages!Added(r)
           next == Messages!NextId(Messages!Box(r.at))
<1>1. next \in Nat
  BY NextFree
<1>2. Listing(C) /\ (r.rpc = "send" => C = r.new /\ Len(C) > 0)
  <2>1. CASE r.rpc # "forward"
    BY <2>1 DEF Messages!Contents, RequestKnown
  <2>2. CASE r.rpc = "forward"
    <3> DEFINE found == {i \in DOMAIN r.ids : Messages!Source(r, r.ids[i]) # {}}
               there == Messages!Ascending(found)
    <3>1. Len(r.ids) \in Nat /\ DOMAIN r.ids = 1 .. Len(r.ids)
      BY ListFacts DEF RequestKnown
    <3>2. found \in SUBSET (1 .. Len(r.ids))
      BY <3>1
    <3>3. Len(there) \in Nat /\ DOMAIN there = 1 .. Len(there)
      <4> HIDE DEF found
      <4> QED BY <3>1, <3>2, PlacesAscend
    <3> DEFINE one(i) == LET m == CHOOSE x \in Messages!Source(r, r.ids[there[i]]) : TRUE IN Messages!New(m.text, m.media, 0, FALSE)
    <3>4. C = [i \in DOMAIN there |-> one(i)]
      BY <2>2 DEF Messages!Contents
    <3> HIDE DEF there, one, C
    <3>5. C = [i \in 1 .. Len(there) |-> C[i]] /\ DOMAIN C = 1 .. Len(there)
      BY <3>3, <3>4
    <3> QED BY <2>2, <3>3, <3>5, ListMade
  <2> QED BY <2>1, <2>2
<1>3. A = [i \in DOMAIN C |-> Messages!Message(r.at, next + i - 1, C[i])]
  BY DEF Messages!Added
<1> HIDE DEF A, C, next
<1>4. Len(C) \in Nat /\ DOMAIN C = 1 .. Len(C)
  BY <1>2, ListFacts
<1>5. A = [i \in 1 .. Len(C) |-> A[i]] /\ DOMAIN A = 1 .. Len(C)
     /\ \A i \in 1 .. Len(C) : A[i] = Messages!Message(r.at, next + i - 1, C[i])
  BY <1>3, <1>4
<1>6. Listing(A) /\ Len(A) = Len(C)
  BY <1>4, <1>5, ListMade
<1> QED BY <1>1, <1>2, <1>5, <1>6 DEF A, C, next

\* The messages that are added are known, and each is one of its own.
LEMMA AddedKnown ==
  ASSUME ServerKnown(msgs), NEW r, RequestKnown(r)
  PROVE  LET A == Messages!Added(r)
             S == Messages!ToSet(A) IN
         /\ S = {A[i] : i \in 1 .. Len(A)} /\ IsFiniteSet(S) /\ Cardinality(S) = Len(A)
         /\ \A m \in S : MessageShape(m) /\ m.place = r.at /\ m.id \in Nat /\ ~m.pinned
<1> DEFINE A == Messages!Added(r)
           S == Messages!ToSet(A)
           C == Messages!Contents(r)
           next == Messages!NextId(Messages!Box(r.at))
<1>1. Listing(A) /\ next \in Nat /\ \A i \in 1 .. Len(A) : A[i] = Messages!Message(r.at, next + i - 1, C[i])
  BY AddedFacts
<1>2. Len(A) \in Nat /\ DOMAIN A = 1 .. Len(A)
  BY <1>1, ListFacts
<1>3. S = {A[i] : i \in 1 .. Len(A)}
  BY <1>2 DEF Messages!ToSet
<1> HIDE DEF A, S, C, next
<1>4. \A i \in 1 .. Len(A) : MessageShape(A[i]) /\ A[i].place = r.at /\ A[i].id = next + i - 1 /\ ~A[i].pinned
  <2> SUFFICES ASSUME NEW i \in 1 .. Len(A)
               PROVE  MessageShape(A[i]) /\ A[i].place = r.at /\ A[i].id = next + i - 1 /\ ~A[i].pinned
    OBVIOUS
  <2> DEFINE id == next + i - 1
             m == Messages!Message(r.at, id, C[i])
  <2>1. MessageShape(m) /\ m.place = r.at /\ m.id = id /\ ~m.pinned
    BY MessageFields
  <2>2. A[i] = m
    BY <1>1
  <2> HIDE DEF m, id
  <2>3. MessageShape(A[i]) /\ A[i].place = r.at /\ A[i].id = id /\ ~A[i].pinned
    BY <2>1, <2>2
  <2> QED BY <2>3 DEF id
<1>5. \A m \in S : MessageShape(m) /\ m.place = r.at /\ m.id \in Nat /\ ~m.pinned
  BY <1>1, <1>2, <1>3, <1>4
<1>6. IsFiniteSet(S) /\ Cardinality(S) = Len(A)
  <2> DEFINE f == [i \in 1 .. Len(A) |-> A[i]]
  <2>1. f \in Surjection(1 .. Len(A), S)
    BY <1>3 DEF Surjection
  <2>2. \A i, j \in 1 .. Len(A) : f[i] = f[j] => i = j
    BY <1>1, <1>2, <1>4
  <2>3. f \in Injection(1 .. Len(A), S)
    <3> HIDE DEF f
    <3> QED BY <2>1, <2>2 DEF Surjection, Injection, IsInjective
  <2>4. IsFiniteSet(1 .. Len(A)) /\ Cardinality(1 .. Len(A)) = Len(A)
    <3> DEFINE n == Len(A)
    <3>1. n \in Nat
      BY <1>2
    <3> HIDE DEF n, f
    <3>2. IsFiniteSet(1 .. n) /\ Cardinality(1 .. n) = n
      BY <3>1, FS_Interval
    <3> QED BY <3>2 DEF n
  <2> HIDE DEF f
  <2> QED BY <2>1, <2>3, <2>4, FS_Surjection
<1> QED BY <1>3, <1>5, <1>6 DEF A, S

\* Messages of the server that are replaced stay known.
LEMMA ReplaceKnown ==
  ASSUME ServerKnown(msgs), NEW old \in SUBSET msgs, NEW f,
         \A m \in old : MessageKnown(f[m])
  PROVE  ServerKnown(Messages!Replace(old, {f[m] : m \in old}))
<1> DEFINE new == {f[m] : m \in old}
<1>1. IsFiniteSet(msgs \ old) /\ IsFiniteSet(old)
  BY FS_Subset DEF ServerKnown
<1>2. IsFiniteSet(new)
  BY <1>1, ImageFinite
<1>3. \A m \in new : MessageKnown(m)
  OBVIOUS
<1> HIDE DEF new
<1>4. IsFiniteSet((msgs \ old) \cup new)
  BY <1>1, <1>2, FS_Union
<1>5. ServerKnown((msgs \ old) \cup new)
  BY <1>3, <1>4 DEF ServerKnown
<1> QED BY <1>5 DEF Messages!Replace, new

\* Some of the messages are known as all are.
LEMMA FewerKnown ==
  ASSUME ServerKnown(msgs), NEW M \in SUBSET msgs
  PROVE  ServerKnown(M)
<1>1. IsFiniteSet(M)
  BY FS_Subset DEF ServerKnown
<1> QED BY <1>1 DEF ServerKnown

\* The messages on the server stay known, whatever a request does.
LEMMA AfterKnown ==
  ASSUME ServerKnown(msgs), NEW r, RequestKnown(r), r.at \in Rooms
  PROVE  ServerKnown(Messages!After(r))
<1> DEFINE M == Messages!After(r)
           N == Messages!Named(r)
           there == Messages!In(r.at)
<1>1. /\ N \in SUBSET msgs /\ there \in SUBSET msgs
      /\ \A m \in N : m.sched <=> r.rpc \in {"sendScheduled", "deleteScheduled"}
  BY DEF Messages!Named, Messages!In
<1>2. \A m \in msgs : MessageKnown(m)
  BY DEF ServerKnown
<1> HIDE DEF N, there
<1>3. CASE r.rpc \in {"send", "forward"}
  <2> DEFINE S == Messages!ToSet(Messages!Added(r))
  <2>1. IsFiniteSet(S) /\ \A m \in S : MessageKnown(m)
    BY AddedKnown DEF MessageKnown
  <2>2. M = msgs \cup S
    BY <1>3 DEF Messages!After
  <2> HIDE DEF S, M
  <2>3. IsFiniteSet(msgs \cup S)
    BY <2>1, FS_Union DEF ServerKnown
  <2>4. ServerKnown(M)
    BY <1>2, <2>1, <2>2, <2>3 DEF ServerKnown
  <2> QED BY <2>4 DEF M
<1>4. CASE r.rpc = "edit"
  <2> DEFINE n == r.new[1]
             f == [m \in N |-> Messages!Edited(m, n)]
  <2>1. \A m \in N : MessageKnown(f[m])
    BY <1>1, <1>2 DEF Messages!Edited, MessageShape, MessageKnown
  <2>2. M = Messages!Replace(N, {f[m] : m \in N})
    BY <1>4 DEF Messages!After, N
  <2> HIDE DEF f, M
  <2>3. ServerKnown(M)
    BY <1>1, <2>1, <2>2, ReplaceKnown
  <2> QED BY <2>3 DEF M
<1>5. CASE r.rpc \in {"deleteOwn", "deleteChannel", "deleteScheduled", "read"}
  <2>1. M \in SUBSET msgs
    BY <1>5 DEF Messages!After
  <2> HIDE DEF M
  <2>2. ServerKnown(M)
    BY <2>1, FewerKnown
  <2> QED BY <2>2 DEF M
<1>6. CASE r.rpc = "sendScheduled"
  <2> DEFINE f == [m \in N |-> [m EXCEPT !.sched = FALSE]]
  <2>1. \A m \in N : MessageKnown(f[m])
    BY <1>1, <1>2 DEF MessageShape, MessageKnown
  <2>2. M = Messages!Replace(N, {f[m] : m \in N})
    BY <1>6 DEF Messages!After, N
  <2> HIDE DEF f, M
  <2>3. ServerKnown(M)
    BY <1>1, <2>1, <2>2, ReplaceKnown
  <2> QED BY <2>3 DEF M
<1>7. CASE r.rpc = "pin"
  <2> DEFINE f == [m \in N |-> [m EXCEPT !.pinned = TRUE]]
  <2>1. \A m \in N : MessageKnown(f[m])
    BY <1>1, <1>2, <1>7 DEF MessageShape, MessageKnown
  <2>2. M = Messages!Replace(N, {f[m] : m \in N})
    BY <1>7 DEF Messages!After, N
  <2> HIDE DEF f, M
  <2>3. ServerKnown(M)
    BY <1>1, <2>1, <2>2, ReplaceKnown
  <2> QED BY <2>3 DEF M
<1>8. CASE r.rpc = "unpin"
  <2> DEFINE f == [m \in N |-> [m EXCEPT !.pinned = FALSE]]
  <2>1. \A m \in N : MessageKnown(f[m])
    BY <1>1, <1>2 DEF MessageShape, MessageKnown
  <2>2. M = Messages!Replace(N, {f[m] : m \in N})
    BY <1>8 DEF Messages!After, N
  <2> HIDE DEF f, M
  <2>3. ServerKnown(M)
    BY <1>1, <2>1, <2>2, ReplaceKnown
  <2> QED BY <2>3 DEF M
<1>9. CASE r.rpc = "unpinAll"
  <2> DEFINE f == [m \in there |-> [m EXCEPT !.pinned = FALSE]]
  <2>1. \A m \in there : MessageKnown(f[m])
    BY <1>1, <1>2 DEF MessageShape, MessageKnown
  <2>2. M = Messages!Replace(there, {f[m] : m \in there})
    BY <1>9 DEF Messages!After, there
  <2> HIDE DEF f, M
  <2>3. ServerKnown(M)
    BY <1>1, <2>1, <2>2, ReplaceKnown
  <2> QED BY <2>3 DEF M
<1> QED
  BY <1>3, <1>4, <1>5, <1>6, <1>7, <1>8, <1>9 DEF RequestKnown, Rpcs

\* The messages that the updates of some kinds hold.
LEMMA HeldByUpdates ==
  ASSUME NEW updates, Listing(updates), NEW kinds
  PROVE  LET found == Messages!messagesOf(updates, kinds) IN
         /\ Listing(found)
         /\ \A i \in 1 .. Len(found) : \E j \in 1 .. Len(updates) : updates[j].kind \in kinds /\ found[i] = updates[j].msg
         /\ \A j \in 1 .. Len(updates) : updates[j].kind \in kinds => \E i \in 1 .. Len(found) : found[i] = updates[j].msg
<1> DEFINE which == {i \in DOMAIN updates : updates[i].kind \in kinds}
           at == Messages!Ascending(which)
           found == Messages!messagesOf(updates, kinds)
<1>1. Len(updates) \in Nat /\ DOMAIN updates = 1 .. Len(updates)
  BY ListFacts
<1>2. which \in SUBSET (1 .. Len(updates)) /\ \A i \in which : updates[i].kind \in kinds
  BY <1>1
<1>3. found = [i \in DOMAIN at |-> updates[at[i]].msg]
  BY DEF Messages!messagesOf
<1> HIDE DEF at, found
<1>4. /\ Len(at) \in Nat /\ DOMAIN at = 1 .. Len(at) /\ \A i \in 1 .. Len(at) : at[i] \in which
      /\ \A p \in which : \E i \in 1 .. Len(at) : at[i] = p
  <2> HIDE DEF which
  <2> QED BY <1>1, <1>2, PlacesAscend DEF at
<1>5. /\ found = [i \in 1 .. Len(at) |-> found[i]] /\ DOMAIN found = 1 .. Len(at)
      /\ \A i \in 1 .. Len(at) : found[i] = updates[at[i]].msg
  BY <1>3, <1>4
<1>6. Listing(found) /\ Len(found) = Len(at)
  BY <1>4, <1>5, ListMade
<1>7. \A i \in 1 .. Len(found) : \E j \in 1 .. Len(updates) : updates[j].kind \in kinds /\ found[i] = updates[j].msg
  BY <1>2, <1>4, <1>5, <1>6
<1>8. ASSUME NEW j \in 1 .. Len(updates), updates[j].kind \in kinds
      PROVE  \E i \in 1 .. Len(found) : found[i] = updates[j].msg
  <2>1. j \in which
    BY <1>1, <1>8
  <2>2. PICK i \in 1 .. Len(at) : at[i] = j
    BY <2>1, <1>4
  <2> QED BY <2>2, <1>5, <1>6
<1> QED BY <1>6, <1>7, <1>8 DEF found

\* An answer to a request that adds messages is a list of updates.  Those that the
\* client reads hold messages that were added and are not scheduled, and in a
\* channel each of these is in the update of a new message.
LEMMA AnswerHolds ==
  ASSUME ServerKnown(msgs), NEW r, RequestKnown(r), r.rpc \in {"send", "forward"}
  PROVE  LET A == Messages!Answer(r)
             S == {m \in Messages!ToSet(Messages!Added(r)) : ~m.sched} IN
         /\ Listing(A)
         /\ \A j \in 1 .. Len(A) : A[j].kind \in Messages!Readable => A[j].msg \in S
         /\ r.at.kind = "channel" =>
              \A m \in S : \E j \in 1 .. Len(A) : A[j].kind \in Messages!NewKinds /\ A[j].msg = m
<1> DEFINE A == Messages!Answer(r)
           T == Messages!Added(r)
           S == {m \in Messages!ToSet(T) : ~m.sched}
           s == << Messages!Update("MessageID", Messages!Nothing) >>
           t == [i \in DOMAIN T |-> Messages!Update(Messages!NewMessage(T[i]), T[i])]
           short == << Messages!Update("ShortSentMessage", Messages!Nothing) >>
<1>1. Listing(T) /\ Messages!ToSet(T) = {T[i] : i \in 1 .. Len(T)}
  BY AddedFacts, AddedKnown
<1>2. Len(T) \in Nat /\ DOMAIN T = 1 .. Len(T)
  BY <1>1, ListFacts
<1>3. A = s \o t \/ (A = short /\ Messages!Box(r.at) = Messages!Own)
  BY DEF Messages!Answer
<1>4. r.at.kind = "channel" => Messages!Box(r.at) # Messages!Own
  BY DEF Messages!Box, Messages!Own
<1>5. Listing(short) /\ Len(short) = 1 /\ short[1].kind \notin Messages!Readable
  BY ListOfOne DEF Messages!Update, Messages!Readable, Messages!NewKinds, Messages!EditKinds
<1>6. Listing(s) /\ Len(s) = 1 /\ s[1].kind \notin Messages!Readable
  BY ListOfOne DEF Messages!Update, Messages!Readable, Messages!NewKinds, Messages!EditKinds
<1> HIDE DEF A, T
<1>7. /\ Listing(t) /\ Len(t) = Len(T)
      /\ \A i \in 1 .. Len(T) : t[i].msg = T[i]
      /\ \A i \in 1 .. Len(T) : IF T[i].sched THEN t[i].kind \notin Messages!Readable ELSE t[i].kind \in Messages!NewKinds
  <2>1. /\ DOMAIN t = 1 .. Len(T) /\ t = [i \in 1 .. Len(T) |-> t[i]]
        /\ \A i \in 1 .. Len(T) : t[i] = Messages!Update(Messages!NewMessage(T[i]), T[i])
    BY <1>2
  <2> HIDE DEF t
  <2>2. Listing(t) /\ Len(t) = Len(T)
    BY <1>2, <2>1, ListMade
  <2>3. \A i \in 1 .. Len(T) : t[i].msg = T[i] /\ t[i].kind = Messages!NewMessage(T[i])
    BY <2>1 DEF Messages!Update
  <2>4. \A m : IF m.sched THEN Messages!NewMessage(m) \notin Messages!Readable ELSE Messages!NewMessage(m) \in Messages!NewKinds
    BY DEF Messages!NewMessage, Messages!Readable, Messages!NewKinds, Messages!EditKinds
  <2> QED BY <2>2, <2>3, <2>4
<1>8. \A i \in 1 .. Len(T) : ~T[i].sched => T[i] \in S
  BY <1>1
<1>9. \A m \in S : \E i \in 1 .. Len(T) : m = T[i] /\ ~T[i].sched
  BY <1>1
<1> HIDE DEF s, t, short, S
<1>10. CASE A = short /\ Messages!Box(r.at) = Messages!Own
  <2>1. Listing(A) /\ Len(A) = 1 /\ A[1].kind \notin Messages!Readable
    BY <1>5, <1>10
  <2>2. \A j \in 1 .. Len(A) : A[j].kind \notin Messages!Readable
    <3>1. \A j \in 1 .. Len(A) : j = 1
      BY <2>1
    <3> QED BY <2>1, <3>1
  <2>3. r.at.kind # "channel"
    BY <1>4, <1>10
  <2> QED BY <2>1, <2>2, <2>3 DEF A, S, T
<1>11. CASE A = s \o t
  <2> DEFINE u == s \o t
  <2>1. Listing(u) /\ Len(u) = 1 + Len(T) /\ \A j \in 1 .. Len(u) : u[j] = IF j <= 1 THEN s[j] ELSE t[j - 1]
    <3>1. /\ Listing(u) /\ Len(u) = Len(s) + Len(t)
          /\ \A j \in 1 .. Len(u) : u[j] = IF j <= Len(s) THEN s[j] ELSE t[j - Len(s)]
      <4>1. Listing(s) /\ Listing(t)
        BY <1>6, <1>7
      <4> QED BY <4>1, ListsJoined
    <3> HIDE DEF u
    <3> QED BY <3>1, <1>6, <1>7
  <2> HIDE DEF u
  <2>2. ASSUME NEW j \in 1 .. Len(u), u[j].kind \in Messages!Readable PROVE u[j].msg \in S
    <3>1. j # 1
      BY <1>6, <2>1, <2>2
    <3>2. j - 1 \in 1 .. Len(T) /\ u[j] = t[j - 1]
      BY <1>2, <2>1, <3>1
    <3>3. ~T[j - 1].sched /\ u[j].msg = T[j - 1]
      BY <1>7, <2>2, <3>2
    <3> QED BY <1>8, <3>2, <3>3
  <2>3. ASSUME NEW m \in S PROVE \E j \in 1 .. Len(u) : u[j].kind \in Messages!NewKinds /\ u[j].msg = m
    <3>1. PICK i \in 1 .. Len(T) : m = T[i] /\ ~T[i].sched
      BY <1>9
    <3>2. i + 1 \in 1 .. Len(u) /\ u[i + 1] = t[i]
      BY <1>2, <2>1
    <3> QED BY <1>7, <3>1, <3>2
  <2>4. A = u
    BY <1>11 DEF u
  <2> QED BY <2>1, <2>2, <2>3, <2>4 DEF A, S, T
<1> QED BY <1>3, <1>10, <1>11

\* What a call that adds messages returns is what it added and is not scheduled: in
\* a channel all of it, or the one message that was sent.
LEMMA AnswerTells ==
  ASSUME ServerKnown(msgs), NEW r, RequestKnown(r), r.rpc \in {"send", "forward"}
  PROVE  LET A == Messages!Answer(r)
             S == {m \in Messages!ToSet(Messages!Added(r)) : ~m.sched}
             several == Messages!newMessages(A)
             first == Messages!extractMessageFromUpdates(A) IN
         /\ Listing(several) /\ \A i \in 1 .. Len(several) : several[i] \in S
         /\ first = Messages!Nothing \/ first \in S
         /\ r.at.kind = "channel" => \A m \in S : \E i \in 1 .. Len(several) : several[i] = m
         /\ r.at.kind = "channel" /\ first = Messages!Nothing => S = {}
<1> DEFINE A == Messages!Answer(r)
           S == {m \in Messages!ToSet(Messages!Added(r)) : ~m.sched}
           several == Messages!messagesOf(A, Messages!NewKinds)
           found == Messages!messagesOf(A, Messages!Readable)
           first == Messages!extractMessageFromUpdates(A)
<1>1. /\ Listing(A)
      /\ \A j \in 1 .. Len(A) : A[j].kind \in Messages!Readable => A[j].msg \in S
      /\ r.at.kind = "channel" =>
              \A m \in S : \E j \in 1 .. Len(A) : A[j].kind \in Messages!NewKinds /\ A[j].msg = m
  BY AnswerHolds
<1>2. \A m \in S : m # Messages!Nothing
  <2>1. \A m \in S : MessageShape(m)
    BY AddedKnown
  <2> QED BY <2>1 DEF MessageShape, Messages!Nothing
<1>3. first = IF found = <<>> THEN Messages!Nothing ELSE found[1]
  BY DEF Messages!extractMessageFromUpdates
<1>8. Messages!NewKinds \subseteq Messages!Readable
  BY DEF Messages!Readable
<1> HIDE DEF A, S, first
<1>4. /\ Listing(several) /\ \A i \in 1 .. Len(several) : several[i] \in S
      /\ r.at.kind = "channel" => \A m \in S : \E i \in 1 .. Len(several) : several[i] = m
  <2>1. /\ Listing(several)
        /\ \A i \in 1 .. Len(several) : \E j \in 1 .. Len(A) : A[j].kind \in Messages!NewKinds /\ several[i] = A[j].msg
        /\ \A j \in 1 .. Len(A) : A[j].kind \in Messages!NewKinds => \E i \in 1 .. Len(several) : several[i] = A[j].msg
    BY <1>1, HeldByUpdates
  <2> HIDE DEF several
  <2>2. ASSUME NEW i \in 1 .. Len(several) PROVE several[i] \in S
    <3>1. PICK j \in 1 .. Len(A) : A[j].kind \in Messages!NewKinds /\ several[i] = A[j].msg
      BY <2>1
    <3>2. A[j].kind \in Messages!Readable
      BY <3>1, <1>8
    <3> QED BY <3>1, <3>2, <1>1
  <2>3. ASSUME r.at.kind = "channel", NEW m \in S PROVE \E i \in 1 .. Len(several) : several[i] = m
    <3>1. PICK j \in 1 .. Len(A) : A[j].kind \in Messages!NewKinds /\ A[j].msg = m
      BY <1>1, <2>3
    <3>2. A[j].kind \in Messages!NewKinds
      BY <3>1, <1>8
    <3> QED BY <3>1, <3>2, <2>1
  <2> QED BY <2>1, <2>2, <2>3
<1>5. /\ Listing(found) /\ \A i \in 1 .. Len(found) : found[i] \in S
      /\ r.at.kind = "channel" => \A m \in S : \E i \in 1 .. Len(found) : found[i] = m
  <2>1. /\ Listing(found)
        /\ \A i \in 1 .. Len(found) : \E j \in 1 .. Len(A) : A[j].kind \in Messages!Readable /\ found[i] = A[j].msg
        /\ \A j \in 1 .. Len(A) : A[j].kind \in Messages!Readable => \E i \in 1 .. Len(found) : found[i] = A[j].msg
    BY <1>1, HeldByUpdates
  <2> HIDE DEF found
  <2>2. ASSUME NEW i \in 1 .. Len(found) PROVE found[i] \in S
    <3>1. PICK j \in 1 .. Len(A) : A[j].kind \in Messages!Readable /\ found[i] = A[j].msg
      BY <2>1
    <3>2. A[j].kind \in Messages!Readable
      BY <3>1, <1>8
    <3> QED BY <3>1, <3>2, <1>1
  <2>3. ASSUME r.at.kind = "channel", NEW m \in S PROVE \E i \in 1 .. Len(found) : found[i] = m
    <3>1. PICK j \in 1 .. Len(A) : A[j].kind \in Messages!NewKinds /\ A[j].msg = m
      BY <1>1, <2>3
    <3>2. A[j].kind \in Messages!Readable
      BY <3>1, <1>8
    <3> QED BY <3>1, <3>2, <2>1
  <2> QED BY <2>1, <2>2, <2>3
<1> HIDE DEF found, several
<1>6. Len(found) \in Nat /\ (Len(found) = 0 <=> found = <<>>)
  BY <1>5, ListFacts DEF Listing
<1>7. /\ first = Messages!Nothing \/ first \in S
      /\ r.at.kind = "channel" /\ first = Messages!Nothing => S = {}
  BY <1>2, <1>3, <1>5, <1>6
<1> QED BY <1>4, <1>7 DEF A, S, first, several, Messages!newMessages

-----------------------------------------------------------------------------
(* How calls begin. *)

\* The numbers of chats, and the kinds they lead to.
LEMMA RoomNumbers ==
  ASSUME NEW n \in Messages!Numbers
  PROVE  n \in Int /\ (Messages!resolvePeer(<<>>, n).kind = "channel" <=> n < -Edge)
                   /\ Messages!Target(n).kind = Messages!resolvePeer(<<>>, n).kind
<1>1. Mark \in Nat /\ Edge \in Nat /\ Edge < Mark
  BY PartsAssumption DEF Numbers!ParametersOK
<1>2. n \in Int
  <2>1. PICK place \in Rooms : n = Messages!Number(place)
    BY DEF Messages!Numbers
  <2>2. place.id \in Nat
    BY PartsAssumption DEF Messages!MessagesOK
  <2> QED BY <1>1, <2>1, <2>2 DEF Messages!Number, Messages!View!Signed
<1>3. Messages!resolvePeer(<<>>, n).kind = "channel" <=> n < -Edge
  BY <1>1, <1>2 DEF Messages!resolvePeer, Messages!Self, Messages!Input
<1> QED BY <1>2, <1>3 DEF Messages!Target

\* A call that begins keeps what is known, if it is known itself.
LEMMA Begins ==
  ASSUME MessagesInv, NEW c, Messages!Begin(c), Known(c), msgs \subseteq c.shown, HeldThere(c, msgs)
  PROVE  MessagesInv'
<1>1. op' = c /\ msgs' = msgs
  BY DEF Messages!Begin
<1>2. Known(op)' /\ ServerKnown(msgs)' /\ (msgs \subseteq op.shown)' /\ HeldThere(op, msgs)'
  BY <1>1 DEF MessagesInv
<1> QED BY <1>2 DEF MessagesInv

\* A request that sends something.
LEMMA SendingKnown ==
  ASSUME NEW k, NEW new, Listing(new), Len(new) > 0
  PROVE  LET q == Messages!Sending(k, new) IN RequestKnown(q) /\ q.rpc = "send" /\ q.new = new /\ q.at = Messages!Target(k)
<1> DEFINE q == Messages!Sending(k, new)
<1>1. q.rpc = "send" /\ q.ids = <<>> /\ q.new = new /\ q.at = Messages!Target(k)
  BY DEF Messages!Sending, Messages!Request
<1> HIDE DEF q
<1>2. RequestKnown(q)
  BY <1>1, ListOfNone DEF RequestKnown, Rpcs
<1> QED BY <1>1, <1>2 DEF q

\* A request of a call that is a single one.
LEMMA SingleKnown ==
  ASSUME NEW r \in Messages!Single
  PROVE  OneMessage(r)
<1>1. PICK n \in Messages!Numbers :
        \/ \E t \in Texts, o \in Options : r = Messages!SendMessage(n, t, o)
        \/ r \in {Messages!SendDice(n), Messages!SendPoll(n), Messages!SendInlineResult(n), Messages!UnpinAllMessages(n)}
        \/ \E id \in Messages!Ids : \/ \E t \in Texts : r \in {Messages!EditMessage(n, id, t), Messages!EditMessageCaption(n, id, t)}
                                    \/ \E to \in Messages!Numbers : r \in {Messages!ForwardMessages(n, to, <<id, id + 1>>), Messages!ForwardMessage(n, to, id)}
                                    \/ r \in {Messages!StopPoll(n, id), Messages!DeleteMessages(n, <<id>>), Messages!PinMessage(n, id),
                                              Messages!UnpinMessage(n, id), Messages!SendScheduledMessage(n, id),
                                              Messages!DeleteScheduledMessages(n, id)}
        \/ \E id \in Messages!Ids \cup {0} : r \in {Messages!ReadHistory(n, id), Messages!MarkAsRead(n, id)}
  BY DEF Messages!Single
<1>2. ASSUME NEW rpc, NEW k, NEW ids, Listing(ids), rpc \in Rpcs \ {"send"}
      PROVE  OneMessage(Messages!Request(rpc, k, ids))
  BY <1>2, ListOfNone DEF Messages!Request, RequestKnown, OneMessage
<1>3. ASSUME NEW k, NEW x PROVE OneMessage(Messages!Sending(k, <<x>>))
  <2> DEFINE new == <<x>>
  <2>1. Listing(new) /\ Len(new) = 1 /\ Len(new) > 0
    BY ListOfOne
  <2> HIDE DEF new
  <2>2. OneMessage(Messages!Sending(k, new))
    BY <2>1, SendingKnown DEF OneMessage
  <2> QED BY <2>2 DEF new
<1>4. ASSUME NEW k, NEW id, NEW x PROVE OneMessage([Messages!Request("edit", k, <<id>>) EXCEPT !.new = <<x>>])
  <2> DEFINE q == [Messages!Request("edit", k, <<id>>) EXCEPT !.new = <<x>>]
  <2>1. q.rpc = "edit" /\ q.ids = <<id>> /\ q.new = <<x>>
    BY DEF Messages!Request
  <2> HIDE DEF q
  <2>2. OneMessage(q)
    BY <2>1, ListOfOne DEF RequestKnown, OneMessage, Rpcs
  <2> QED BY <2>2 DEF q
<1>5. ASSUME NEW k, NEW from, NEW ids, Listing(ids) PROVE OneMessage(Messages!ForwardMessages(from, k, ids))
  <2> DEFINE q == Messages!ForwardMessages(from, k, ids)
  <2>1. q.rpc = "forward" /\ q.ids = ids /\ q.new = <<>>
    BY DEF Messages!Request, Messages!ForwardMessages
  <2> HIDE DEF q
  <2>2. OneMessage(q)
    BY <1>5, <2>1, ListOfNone DEF RequestKnown, OneMessage, Rpcs
  <2> QED BY <2>2 DEF q
<1>6. \A x : Listing(<<x>>)
  BY ListOfOne
<1>7. \A x, y : Listing(<<x, y>>)
  BY ListOfTwo
<1>8. CASE \E t \in Texts, o \in Options : r = Messages!SendMessage(n, t, o)
  BY <1>3, <1>8 DEF Messages!SendMessage
<1>9. CASE r \in {Messages!SendDice(n), Messages!SendPoll(n), Messages!SendInlineResult(n), Messages!UnpinAllMessages(n)}
  <2>1. OneMessage(Messages!UnpinAllMessages(n))
    BY <1>2, ListOfNone DEF Messages!UnpinAllMessages, Rpcs
  <2> QED
    BY <1>3, <1>9, <2>1 DEF Messages!SendDice, Messages!SendPoll, Messages!SendInlineResult
<1>10. ASSUME NEW id \in Messages!Ids, NEW t \in Texts, r \in {Messages!EditMessage(n, id, t), Messages!EditMessageCaption(n, id, t)}
       PROVE  OneMessage(r)
  <2>1. OneMessage(Messages!EditMessage(n, id, t))
    BY <1>4 DEF Messages!EditMessage
  <2> QED BY <1>10, <2>1 DEF Messages!EditMessageCaption
<1>11. ASSUME NEW id \in Messages!Ids, NEW to \in Messages!Numbers,
              r \in {Messages!ForwardMessages(n, to, <<id, id + 1>>), Messages!ForwardMessage(n, to, id)}
       PROVE  OneMessage(r)
  BY <1>5, <1>6, <1>7, <1>11 DEF Messages!ForwardMessage
<1>12. ASSUME NEW id \in Messages!Ids \cup {0},
              r \in {Messages!StopPoll(n, id), Messages!DeleteMessages(n, <<id>>), Messages!PinMessage(n, id),
                     Messages!UnpinMessage(n, id), Messages!SendScheduledMessage(n, id), Messages!DeleteScheduledMessages(n, id),
                     Messages!ReadHistory(n, id), Messages!MarkAsRead(n, id)}
       PROVE  OneMessage(r)
  <2>1. OneMessage(Messages!StopPoll(n, id))
    BY <1>4 DEF Messages!StopPoll
  <2>2. \A rpc \in Rpcs \ {"send"} : OneMessage(Messages!Request(rpc, n, <<id>>))
    BY <1>2, <1>6
  <2> QED
    BY <1>12, <2>1, <2>2 DEF Messages!DeleteMessages, Messages!PinMessage, Messages!UnpinMessage,
       Messages!SendScheduledMessage, Messages!DeleteScheduledMessages, Messages!ReadHistory,
       Messages!MarkAsRead, Rpcs
<1> QED
  BY <1>1, <1>8, <1>9, <1>10, <1>11, <1>12

\* A request that is none.
LEMMA NoneIs == Messages!NoRequest.rpc = "none"
  BY DEF Messages!NoRequest, Messages!Request

\* The calls that send at once.
LEMMA CallSingleKeeps == ASSUME MessagesInv, Messages!CallSingle PROVE MessagesInv'
<1>1. PICK r \in Messages!Single, n \in Messages!Numbers : Messages!Begin(Messages!Call("single", "rpc", n, 0, <<>>, r))
  BY DEF Messages!CallSingle
<1> DEFINE c == Messages!Call("single", "rpc", n, 0, <<>>, r)
<1>2. /\ CallShape(c) /\ c.pc = "rpc" /\ c.out = "none" /\ c.op = "single" /\ c.req = r /\ c.made = {} /\ ~c.lost
      /\ c.shown = msgs /\ HeldThere(c, msgs)
  BY CallFields
<1>3. RequestKnown(r) /\ OneMessage(r)
  BY SingleKnown DEF OneMessage
<1>4. Messages!Begin(c)
  BY <1>1
<1> HIDE DEF c
<1>5. Known(c)
  BY <1>2, <1>3, NotYet DEF Known, Begun, Fetching, Copying, Clearing, Uploading, Sending, Ended
<1> QED BY <1>2, <1>4, <1>5, Begins

\* The calls that upload files first.
LEMMA UploadsBegin ==
  ASSUME NEW o \in {"album", "voice"}, NEW n, NEW k \in 1 .. 2, o = "voice" => k = 1
  PROVE  LET c == Messages!Call(o, "upload", n, 0, [i \in 1 .. k |-> i], Messages!NoRequest) IN
         Known(c) /\ msgs \subseteq c.shown /\ HeldThere(c, msgs)
<1> DEFINE files == [i \in 1 .. k |-> i]
           c == Messages!Call(o, "upload", n, 0, files, Messages!NoRequest)
<1>1. /\ CallShape(c) /\ c.pc = "upload" /\ c.out = "none" /\ c.op = o /\ c.req = Messages!NoRequest
      /\ c.made = {} /\ ~c.lost
      /\ c.todo = files /\ c.ids = files /\ c.got = <<>> /\ c.shown = msgs /\ HeldThere(c, msgs)
  BY CallFields
<1>2. DOMAIN files = 1 .. k /\ files = [i \in 1 .. k |-> files[i]] /\ \A i \in 1 .. k : files[i] = i
  OBVIOUS
<1> HIDE DEF c, files
<1>3. Listing(files) /\ Len(files) = k
  BY <1>2, ListMade
<1>4. Uploading(c)
  BY <1>1, <1>2, <1>3, ListOfNone DEF Uploading
<1>5. Known(c)
  BY <1>1, <1>4, NotYet, NoneIs DEF Known, Begun, Fetching, Copying, Clearing, Sending, Ended
<1> QED BY <1>1, <1>5 DEF c, files

\* An album begins.
LEMMA SendAlbumKeeps == ASSUME MessagesInv, Messages!SendAlbum PROVE MessagesInv'
<1>1. PICK n \in Messages!Numbers, k \in 1 .. 2 :
        Messages!Begin(Messages!Call("album", "upload", n, 0, [i \in 1 .. k |-> i], Messages!NoRequest))
  BY DEF Messages!SendAlbum
<1> DEFINE c == Messages!Call("album", "upload", n, 0, [i \in 1 .. k |-> i], Messages!NoRequest)
<1>2. Known(c) /\ msgs \subseteq c.shown /\ HeldThere(c, msgs)
  BY UploadsBegin
<1>3. Messages!Begin(c)
  BY <1>1
<1> HIDE DEF c
<1> QED BY <1>2, <1>3, Begins

\* A voice message begins.
LEMMA SendVoiceKeeps == ASSUME MessagesInv, Messages!SendVoice PROVE MessagesInv'
<1>1. PICK n \in Messages!Numbers : Messages!Begin(Messages!Call("voice", "upload", n, 0, <<1>>, Messages!NoRequest))
  BY DEF Messages!SendVoice
<1> DEFINE c == Messages!Call("voice", "upload", n, 0, [i \in 1 .. 1 |-> i], Messages!NoRequest)
<1>2. Known(c) /\ msgs \subseteq c.shown /\ HeldThere(c, msgs)
  BY UploadsBegin
<1>3. [i \in 1 .. 1 |-> i] = <<1>>
  OBVIOUS
<1>4. Messages!Begin(c)
  BY <1>1, <1>3
<1> HIDE DEF c
<1> QED BY <1>2, <1>4, Begins

\* The calls that fetch messages first.
LEMMA FetchBegins ==
  ASSUME NEW o \in {"get", "reply", "link", "copy"}, NEW n \in Messages!Numbers, NEW to, NEW todo,
         Listing(todo), Len(todo) > 0, o # "get" => Len(todo) = 1, NEW pc \in {"resolve", Messages!Fetch(n)}
  PROVE  LET c == Messages!Call(o, pc, n, to, todo, Messages!NoRequest) IN
         Known(c) /\ msgs \subseteq c.shown /\ HeldThere(c, msgs)
<1> DEFINE c == Messages!Call(o, pc, n, to, todo, Messages!NoRequest)
<1>1. /\ CallShape(c) /\ c.pc = pc /\ c.out = "none" /\ c.op = o /\ c.req = Messages!NoRequest
      /\ c.made = {} /\ ~c.lost
      /\ c.todo = todo /\ c.ids = todo /\ c.got = <<>> /\ c.shown = msgs /\ HeldThere(c, msgs) /\ c.peer = n
  BY CallFields
<1>2. /\ pc \in {"resolve", "getChannel", "getOwn"}
      /\ pc = "getChannel" => Messages!Target(n).kind = "channel"
      /\ pc = "getOwn" => Messages!Target(n).kind # "channel"
  BY RoomNumbers DEF Messages!Fetch
<1>3. Len(todo) \in Nat /\ DOMAIN todo = 1 .. Len(todo)
  BY ListFacts
<1> HIDE DEF c
<1>4. Fetching(c)
  BY <1>1, <1>2, <1>3, ListOfNone DEF Fetching
<1>5. Known(c)
  BY <1>1, <1>2, <1>4, NotYet, NoneIs DEF Known, Begun, Uploading, Copying, Clearing, Sending, Ended
<1> QED BY <1>1, <1>5 DEF c

\* GetMessages begins.
LEMMA GetMessagesKeeps == ASSUME MessagesInv, Messages!GetMessages PROVE MessagesInv'
<1>1. PICK n \in Messages!Numbers, id \in Messages!Ids :
        Messages!Begin(Messages!Call("get", Messages!Fetch(n), n, 0, <<id, id + 1>>, Messages!NoRequest))
  BY DEF Messages!GetMessages
<1> DEFINE c == Messages!Call("get", Messages!Fetch(n), n, 0, <<id, id + 1>>, Messages!NoRequest)
<1>2. Known(c) /\ msgs \subseteq c.shown /\ HeldThere(c, msgs)
  BY FetchBegins, ListOfTwo
<1>3. Messages!Begin(c)
  BY <1>1
<1> HIDE DEF c
<1> QED BY <1>2, <1>3, Begins

\* CopyMessage begins.
LEMMA CopyMessageKeeps == ASSUME MessagesInv, Messages!CopyMessage PROVE MessagesInv'
<1>1. PICK n \in Messages!Numbers, to \in Messages!Numbers, id \in Messages!Ids :
        Messages!Begin(Messages!Call("copy", Messages!Fetch(n), n, to, <<id>>, Messages!NoRequest))
  BY DEF Messages!CopyMessage
<1> DEFINE c == Messages!Call("copy", Messages!Fetch(n), n, to, <<id>>, Messages!NoRequest)
<1>2. Known(c) /\ msgs \subseteq c.shown /\ HeldThere(c, msgs)
  BY FetchBegins, ListOfOne
<1>3. Messages!Begin(c)
  BY <1>1
<1> HIDE DEF c
<1> QED BY <1>2, <1>3, Begins

\* A link is followed.
LEMMA GetMessageByLinkKeeps == ASSUME MessagesInv, Messages!GetMessageByLink PROVE MessagesInv'
<1>1. PICK place \in Rooms, id \in Messages!Ids :
        \/ /\ place.kind = "channel"
           /\ Messages!Begin(Messages!Call("link", Messages!Fetch(-(place.id + Mark)), -(place.id + Mark),
                                              0, <<id>>, Messages!NoRequest))
        \/ Messages!Begin(Messages!Call("link", "resolve", Messages!Number(place), 0, <<id>>, Messages!NoRequest))
  BY DEF Messages!GetMessageByLink
<1>2. Messages!Number(place) \in Messages!Numbers
  BY DEF Messages!Numbers
<1>3. CASE /\ place.kind = "channel"
           /\ Messages!Begin(Messages!Call("link", Messages!Fetch(-(place.id + Mark)), -(place.id + Mark),
                                         0, <<id>>, Messages!NoRequest))
  <2> DEFINE n == -(place.id + Mark)
             todo == <<id>>
             c == Messages!Call("link", Messages!Fetch(n), n, 0, todo, Messages!NoRequest)
  <2>1. n = Messages!Number(place)
    <3>1. place.id \in Nat /\ Mark \in Nat
      BY PartsAssumption DEF Messages!MessagesOK, Numbers!ParametersOK
    <3> QED BY <1>3, <3>1 DEF Messages!Number, Messages!View!Signed
  <2>2. n \in Messages!Numbers /\ Messages!Begin(c)
    BY <1>2, <1>3, <2>1
  <2> HIDE DEF n
  <2>4. Listing(todo) /\ Len(todo) = 1 /\ Len(todo) > 0
    BY ListOfOne
  <2>3. Known(c) /\ msgs \subseteq c.shown /\ HeldThere(c, msgs)
    <3> HIDE DEF todo
    <3> QED BY <2>2, <2>4, FetchBegins
  <2> HIDE DEF c
  <2> QED BY <2>2, <2>3, Begins
<1>4. CASE Messages!Begin(Messages!Call("link", "resolve", Messages!Number(place), 0, <<id>>, Messages!NoRequest))
  <2> DEFINE todo == <<id>>
             n == Messages!Number(place)
             c == Messages!Call("link", "resolve", n, 0, todo, Messages!NoRequest)
  <2>3. Listing(todo) /\ Len(todo) = 1 /\ Len(todo) > 0
    BY ListOfOne
  <2>1. Known(c) /\ msgs \subseteq c.shown /\ HeldThere(c, msgs)
    <3> HIDE DEF todo, n
    <3> QED BY <1>2, <2>3, FetchBegins DEF n
  <2>2. Messages!Begin(c)
    BY <1>4
  <2> HIDE DEF c
  <2> QED BY <2>1, <2>2, Begins
<1> QED BY <1>1, <1>3, <1>4

\* The message that another replies to is fetched, if there is one.
LEMMA GetReplyToKeeps == ASSUME MessagesInv, Messages!GetReplyTo PROVE MessagesInv'
<1>1. PICK m \in msgs :
        Messages!Begin(IF m.reply = 0
                         THEN Messages!Done(Messages!Call("reply", "done", Messages!Number(m.place), 0, <<>>, Messages!NoRequest), "ok", <<>>)
                         ELSE Messages!Call("reply", Messages!Fetch(Messages!Number(m.place)), Messages!Number(m.place),
                                            0, <<m.reply>>, Messages!NoRequest))
  BY DEF Messages!GetReplyTo
<1> DEFINE n == Messages!Number(m.place)
<1>2. n \in Messages!Numbers
  BY DEF Messages!Numbers, MessagesInv, ServerKnown, MessageKnown
<1>3. CASE m.reply # 0
  <2> DEFINE todo == <<m.reply>>
             c == Messages!Call("reply", Messages!Fetch(n), n, 0, todo, Messages!NoRequest)
  <2>3. Listing(todo) /\ Len(todo) = 1 /\ Len(todo) > 0
    BY ListOfOne
  <2>1. Known(c) /\ msgs \subseteq c.shown /\ HeldThere(c, msgs)
    <3> HIDE DEF todo, n
    <3> QED BY <1>2, <2>3, FetchBegins
  <2>2. Messages!Begin(c)
    BY <1>1, <1>3
  <2> HIDE DEF c
  <2> QED BY <2>1, <2>2, Begins
<1>4. CASE m.reply = 0
  <2> DEFINE b == Messages!Call("reply", "done", n, 0, <<>>, Messages!NoRequest)
             c == Messages!Done(b, "ok", <<>>)
  <2>1. /\ CallShape(b) /\ b.op = "reply" /\ b.req = Messages!NoRequest /\ b.made = {}
        /\ b.shown = msgs /\ HeldThere(b, msgs)
    BY CallFields
  <2>2. Messages!Begin(c)
    BY <1>1, <1>4
  <2> HIDE DEF b
  <2>3. /\ CallShape(c) /\ c.op = "reply" /\ c.req = b.req /\ c.made = {} /\ c.pc = "done" /\ c.out = "ok" /\ c.got = <<>>
        /\ c.shown = msgs /\ c.peer = b.peer /\ c.held = b.held
    BY <2>1, DoneFields
  <2> HIDE DEF c
  <2>4. HeldThere(c, msgs)
    BY <2>1, <2>3 DEF HeldThere
  <2>5. Truthful(c)
    BY <2>1, <2>3, NoneIs DEF Truthful, AsAsked, CopyFaithful, PinsCleared, AlbumWhole, ReturnsMade
  <2>6. Known(c)
    BY <2>3, <2>5 DEF Known, Begun, Fetching, Uploading, Copying, Clearing, Sending, Ended
  <2> QED BY <2>2, <2>3, <2>4, <2>6, Begins
<1> QED BY <1>3, <1>4

\* The calls that search.
LEMMA SearchBegins ==
  ASSUME MessagesInv, NEW o \in {"pinned", "clear"}, NEW n,
         Messages!Begin(Messages!Call(o, "search", n, 0, <<>>, Messages!NoRequest))
  PROVE  MessagesInv'
<1> DEFINE c == Messages!Call(o, "search", n, 0, <<>>, Messages!NoRequest)
<1>1. /\ CallShape(c) /\ c.pc = "search" /\ c.out = "none" /\ c.op = o /\ c.req = Messages!NoRequest
      /\ c.made = {} /\ ~c.lost
      /\ ~c.full /\ c.shown = msgs /\ HeldThere(c, msgs)
  BY CallFields
<1>2. Messages!Begin(c)
  OBVIOUS
<1> HIDE DEF c
<1>3. Known(c)
  BY <1>1, NotYet, NoneIs DEF Known, Begun, Fetching, Uploading, Copying, Clearing, Sending, Ended
<1> QED BY <1>1, <1>2, <1>3, Begins

\* The calls that read one page.
LEMMA ListKeeps == ASSUME MessagesInv, Messages!List PROVE MessagesInv'
<1>1. PICK n, limit, reverse, full :
        LET b == Messages!Call("list", "list", n, 0, <<>>, Messages!NoRequest) IN
        \/ Messages!Begin([b EXCEPT !.limit = limit, !.reverse = reverse])
        \/ Messages!Begin([b EXCEPT !.limit = limit, !.full = full])
  BY DEF Messages!List, Messages!GetHistory, Messages!SearchMessages, Messages!GetScheduledMessages
<1> DEFINE b == Messages!Call("list", "list", n, 0, <<>>, Messages!NoRequest)
<1>2. /\ CallShape(b) /\ b.pc = "list" /\ b.out = "none" /\ b.op = "list" /\ b.req = Messages!NoRequest
      /\ b.made = {} /\ ~b.lost
      /\ b.shown = msgs /\ HeldThere(b, msgs)
  BY CallFields
<1> HIDE DEF b
<1>3. ASSUME NEW c, c \in {[b EXCEPT !.limit = limit, !.reverse = reverse], [b EXCEPT !.limit = limit, !.full = full]}
      PROVE  Known(c) /\ msgs \subseteq c.shown /\ HeldThere(c, msgs)
  <2>1. /\ CallShape(c) /\ c.pc = "list" /\ c.out = "none" /\ c.op = "list" /\ c.req = Messages!NoRequest /\ c.made = {} /\ ~c.lost
        /\ c.shown = msgs /\ c.held = b.held /\ c.peer = b.peer
    BY <1>2, <1>3 DEF CallShape
  <2>2. HeldThere(c, msgs)
    BY <1>2, <2>1 DEF HeldThere
  <2>3. Known(c)
    BY <2>1, NotYet, NoneIs DEF Known, Begun, Fetching, Uploading, Copying, Clearing, Sending, Ended
  <2> QED BY <2>1, <2>2, <2>3
<1>4. PICK c \in {[b EXCEPT !.limit = limit, !.reverse = reverse], [b EXCEPT !.limit = limit, !.full = full]} : Messages!Begin(c)
  BY <1>1 DEF b
<1> QED BY <1>3, <1>4, Begins

-----------------------------------------------------------------------------
(* The steps of a call between its requests. *)

\* A step of a call alone keeps what is known, if the call is still known.
LEMMA Moves ==
  ASSUME MessagesInv, NEW c, op' = c, msgs' = msgs, Known(c), c.shown = op.shown, c.held = op.held, c.peer = op.peer
  PROVE  MessagesInv'
<1>1. msgs \subseteq c.shown /\ HeldThere(c, msgs)
  BY DEF MessagesInv, HeldThere
<1>2. Known(op)' /\ ServerKnown(msgs)' /\ (msgs \subseteq op.shown)' /\ HeldThere(op, msgs)'
  BY <1>1 DEF MessagesInv
<1> QED BY <1>2 DEF MessagesInv

\* A call that is not done has an operation, and has added nothing.
LEMMA NotDone ==
  ASSUME NEW c, Known(c), c.pc # "done"
  PROVE  c.op # "none" /\ c.made = {} /\ ~c.lost /\ c.out = "none" /\ CallShape(c)
  BY DEF Known, Begun, Ended

\* A call that fails keeps what is known.
LEMMA FailKeeps ==
  ASSUME MessagesInv, op.pc # "done", op' = Messages!Done(op, "error", <<>>), msgs' = msgs
  PROVE  MessagesInv'
<1> DEFINE c == Messages!Done(op, "error", <<>>)
<1>1. Known(op) /\ op.op # "none" /\ op.made = {} /\ CallShape(op)
  BY NotDone DEF MessagesInv
<1>2. c.shown = op.shown /\ c.held = op.held /\ c.peer = op.peer /\ c.made = {} /\ c.out = "error"
  BY <1>1, DoneFields
<1>3. Truthful(c)
  <2> HIDE DEF c
  <2> QED BY <1>2, InError
<1>4. Known(c)
  BY <1>1, <1>3, EndKnown
<1>5. op' = c
  OBVIOUS
<1> HIDE DEF c
<1> QED BY <1>2, <1>4, <1>5, Moves

\* The name of a chat was resolved, or messages are looked for in its history.
LEMMA FetchMoves ==
  ASSUME MessagesInv, op.pc \in {"resolve", "getOwn"}, msgs' = msgs,
         NEW pc, op' = [op EXCEPT !.pc = pc],
         op.pc = "resolve" => pc = Messages!Fetch(op.peer), op.pc = "getOwn" => pc = "history"
  PROVE  MessagesInv'
<1> DEFINE c == [op EXCEPT !.pc = pc]
<1>1. Known(op) /\ CallShape(op) /\ op.made = {} /\ ~op.lost /\ op.out = "none" /\ op.req.rpc = "none"
  BY DEF MessagesInv, Known, Begun
<1>2. Fetching(op)
  BY DEF MessagesInv, Known
<1>3. /\ CallShape(c) /\ c.pc = pc /\ c.out = op.out /\ c.got = op.got /\ c.op = op.op /\ c.peer = op.peer
      /\ c.to = op.to
      /\ c.todo = op.todo /\ c.ids = op.ids /\ c.req = op.req /\ c.made = op.made /\ c.lost = op.lost
      /\ c.shown = op.shown
      /\ c.held = op.held
  BY <1>1 DEF CallShape
<1>4. op' = c
  OBVIOUS
<1>5. /\ pc \in {"getChannel", "getOwn", "history"} /\ op.peer \in Messages!Numbers
      /\ pc = "getChannel" => Messages!Target(op.peer).kind = "channel"
      /\ pc \in {"getOwn", "history"} => Messages!Target(op.peer).kind # "channel"
  BY <1>2, RoomNumbers DEF Fetching, Messages!Fetch
<1> HIDE DEF c
<1>6. \A m : Asked(op, m) => Asked(c, m)
  BY <1>3 DEF Asked
<1>7. Fetching(c)
  BY <1>2, <1>3, <1>5, <1>6 DEF Fetching
<1>8. c.op # "none" /\ c.op # "list"
  BY <1>2, <1>3 DEF Fetching
<1>9. Known(c)
  BY <1>1, <1>3, <1>5, <1>7, <1>8, NotYet DEF Known, Begun, Uploading, Copying, Clearing, Sending,
     Ended
<1> QED BY <1>3, <1>4, <1>9, Moves

\* What the fetched messages are for is known, if they are what was asked for.
LEMMA FetchedKnown ==
  ASSUME NEW c, CallShape(c), c.op \in {"get", "reply", "link", "copy"},
         c.made = {}, ~c.lost, c.out = "none", c.req.rpc = "none",
         Listing(c.ids), c.op # "get" => Len(c.ids) = 1,
         NEW got, Listing(got), \A i \in 1 .. Len(got) : Asked(c, got[i])
  PROVE  LET d == Messages!Fetched(c, got) IN Known(d) /\ d.shown = c.shown /\ d.held = c.held /\ d.peer = c.peer
<1> DEFINE d == Messages!Fetched(c, got)
<1>1. Len(got) \in Nat /\ DOMAIN got = 1 .. Len(got) /\ (got = <<>> <=> Len(got) = 0)
  BY DEF Listing
<1>2. ASSUME NEW out \in {"ok", "error"}, NEW some, Listing(some),
             \A i \in 1 .. Len(some) : Asked(c, some[i]), out = "ok" => c.op # "copy"
      PROVE  LET e == Messages!Done(c, out, some) IN Known(e) /\ e.shown = c.shown /\ e.held = c.held /\ e.peer = c.peer
  <2> DEFINE e == Messages!Done(c, out, some)
  <2>1. /\ CallShape(e) /\ e.pc = "done" /\ e.out = out /\ e.got = some /\ e.op = c.op /\ e.peer = c.peer /\ e.ids = c.ids
        /\ e.req = c.req /\ e.made = c.made /\ e.shown = c.shown /\ e.held = c.held
    BY DoneFields
  <2> HIDE DEF e
  <2>2. DOMAIN e.got = 1 .. Len(some)
    BY <1>2, <2>1, ListFacts
  <2>3. AsAsked(e)
    BY <1>2, <2>1, <2>2 DEF AsAsked, Asked
  <2>4. Cardinality({}) = 0
    BY FS_EmptySet
  <2>5. Truthful(e)
    BY <2>1, <2>3, <2>4 DEF Truthful, CopyFaithful, PinsCleared, AlbumWhole, ReturnsMade
  <2>6. Known(e)
    BY <2>1, <2>5, <1>2 DEF Known, Begun, Fetching, Uploading, Copying, Clearing, Sending, Ended
  <2> QED BY <2>1, <2>6 DEF e
<1>3. CASE c.op = "get"
  <2>1. d = Messages!Done(c, "ok", got)
    BY <1>3 DEF Messages!Fetched
  <2> HIDE DEF d
  <2>2. Known(d) /\ d.shown = c.shown /\ d.held = c.held /\ d.peer = c.peer
    BY <1>2, <1>3, <2>1
  <2> QED BY <2>2 DEF d
<1>4. CASE c.op = "reply" \/ (c.op = "link" /\ got # <<>>)
  <2> DEFINE some == IF got = <<>> THEN <<>> ELSE <<got[1]>>
  <2>1. d = Messages!Done(c, "ok", some)
    BY <1>4 DEF Messages!Fetched
  <2>2. Listing(some) /\ \A i \in 1 .. Len(some) : Asked(c, some[i])
    BY <1>1, ListOfOne, ListOfNone
  <2> HIDE DEF d, some
  <2>3. Known(d) /\ d.shown = c.shown /\ d.held = c.held /\ d.peer = c.peer
    BY <1>2, <1>4, <2>1, <2>2
  <2> QED BY <2>3 DEF d
<1>5. CASE c.op \in {"link", "copy"} /\ got = <<>>
  <2>1. d = Messages!Done(c, "error", <<>>)
    BY <1>5 DEF Messages!Fetched
  <2>2. \A i \in 1 .. Len(<<>>) : Asked(c, <<>>[i])
    BY ListOfNone
  <2> HIDE DEF d
  <2>3. Known(d) /\ d.shown = c.shown /\ d.held = c.held /\ d.peer = c.peer
    BY <1>2, <2>1, <2>2, ListOfNone
  <2> QED BY <2>3 DEF d
<1>6. CASE c.op = "copy" /\ got # <<>>
  <2> DEFINE new == << Messages!New(got[1].text, Messages!Carried(got[1]), 0, FALSE) >>
             r == Messages!Sending(c.to, new)
  <2>1. d = [c EXCEPT !.pc = "rpc", !.req = r]
    BY <1>6 DEF Messages!Fetched
  <2>2. Asked(c, got[1])
    BY <1>1, <1>6
  <2>3. RequestKnown(r)
    <3>1. Listing(new) /\ Len(new) = 1 /\ Len(new) > 0
      BY ListOfOne
    <3> HIDE DEF new
    <3> QED BY <3>1, SendingKnown
  <2> DEFINE m == got[1]
  <2>4. m \in c.shown /\ m.id = c.ids[1] /\ Messages!Box(m.place) = Messages!Box(Messages!Target(c.peer))
    <3>1. DOMAIN c.ids = 1 .. 1
      BY <1>6, ListFacts
    <3> HIDE DEF m
    <3> QED BY <2>2, <3>1 DEF Asked, m
  <2>5. r = Messages!Sending(c.to, << Messages!New(m.text, Messages!Carried(m), 0, FALSE) >>)
    OBVIOUS
  <2> HIDE DEF d, r, new, m
  <2>6. /\ CallShape(d) /\ d.pc = "rpc" /\ d.out = "none" /\ d.op = c.op /\ d.peer = c.peer /\ d.to = c.to /\ d.ids = c.ids
        /\ d.req = r /\ d.made = {} /\ ~d.lost /\ d.shown = c.shown /\ d.held = c.held
    BY <2>1 DEF CallShape
  <2>7. Copying(d)
    BY <2>4, <2>5, <2>6 DEF Copying
  <2>8. Known(d)
    BY <1>6, <2>3, <2>6, <2>7, NotYet DEF Known, Begun, Fetching, Uploading, Clearing, Sending,
       Ended
  <2> QED BY <2>6, <2>8 DEF d
<1> QED BY <1>3, <1>4, <1>5, <1>6

\* The sequence of a set is a list of its elements.
LEMMA SetListed ==
  ASSUME NEW S, IsFiniteSet(S)
  PROVE  LET s == Messages!SetToSeq(S) IN Listing(s) /\ \A i \in 1 .. Len(s) : s[i] \in S
<1> DEFINE s == Messages!SetToSeq(S)
<1>1. Len(s) \in Nat /\ DOMAIN s = 1 .. Len(s) /\ s \in [1 .. Len(s) -> S]
  BY SequenceOfSet
<1> HIDE DEF s
<1>2. s = [i \in 1 .. Len(s) |-> s[i]]
  BY <1>1
<1>3. Listing(s)
  BY <1>1, <1>2, ListMade
<1> QED BY <1>1, <1>3 DEF s

\* What is found by its number is what was asked for, in the numbering of the chat.
LEMMA FoundAsked ==
  ASSUME MessagesInv, op.pc \in {"getChannel", "getOwn"},
         NEW box, box = IF op.pc = "getOwn" THEN Messages!Own ELSE Messages!Target(op.peer)
  PROVE  LET found == Messages!Found(box, op.ids) IN Listing(found) /\ \A i \in 1 .. Len(found) : Asked(op, found[i])
<1> DEFINE S == {m \in Messages!InBox(box) : m.id \in Messages!ToSet(op.ids) /\ ~m.sched}
           found == Messages!Found(box, op.ids)
<1>1. S \in SUBSET msgs /\ \A m \in S : Messages!Box(m.place) = box /\ ~m.sched /\ m.id \in Messages!ToSet(op.ids)
  BY DEF Messages!InBox
<1>2. Messages!Box(Messages!Target(op.peer)) = box
  <2>1. IF op.pc = "getOwn" THEN Messages!Target(op.peer).kind # "channel" ELSE Messages!Target(op.peer).kind = "channel"
    BY DEF MessagesInv, Known, Fetching
  <2> QED BY <2>1 DEF Messages!Box
<1>3. found = Messages!SetToSeq(S)
  BY DEF Messages!Found
<1> HIDE DEF S, found
<1>4. IsFiniteSet(S) /\ S \in SUBSET op.shown
  BY <1>1, FS_Subset DEF MessagesInv, ServerKnown
<1>5. \A m \in S : Asked(op, m)
  BY <1>1, <1>2, <1>4 DEF Asked, Messages!ToSet
<1>6. Listing(found) /\ \A i \in 1 .. Len(found) : found[i] \in S
  BY <1>3, <1>4, SetListed
<1> QED BY <1>5, <1>6 DEF found

\* Messages are fetched by their numbers.
LEMMA GetKeeps ==
  ASSUME MessagesInv, op.pc \in {"getChannel", "getOwn"}, msgs' = msgs,
         op' = Messages!Fetched(op, Messages!Found(IF op.pc = "getOwn" THEN Messages!Own ELSE Messages!Target(op.peer), op.ids))
  PROVE  MessagesInv'
<1> DEFINE box == IF op.pc = "getOwn" THEN Messages!Own ELSE Messages!Target(op.peer)
           got == Messages!Found(box, op.ids)
           c == Messages!Fetched(op, got)
<1>1. Listing(got) /\ \A i \in 1 .. Len(got) : Asked(op, got[i])
  BY FoundAsked
<1>2. op' = c
  OBVIOUS
<1>3. /\ CallShape(op) /\ op.op \in {"get", "reply", "link", "copy"} /\ op.made = {} /\ ~op.lost
      /\ op.out = "none" /\ op.req.rpc = "none"
      /\ Listing(op.ids) /\ (op.op # "get" => Len(op.ids) = 1)
  BY DEF MessagesInv, Known, Begun, Fetching
<1> HIDE DEF got
<1>4. Known(c) /\ c.shown = op.shown /\ c.held = op.held /\ c.peer = op.peer
  BY <1>1, <1>3, FetchedKnown
<1> HIDE DEF c
<1> QED BY <1>2, <1>4, Moves

\* One number was looked for in the history.
LEMMA LookKeeps ==
  ASSUME MessagesInv, op.pc = "history", msgs' = msgs,
         NEW found, Listing(found), \A i \in 1 .. Len(found) : Asked(op, found[i]),
         op' = Messages!Looked(op, found)
  PROVE  MessagesInv'
<1> DEFINE joined == op.got \o found
           rest == Tail(op.todo)
           left == [op EXCEPT !.todo = rest, !.got = joined]
           c == Messages!Looked(op, found)
<1>1. /\ CallShape(op) /\ op.op \in {"get", "reply", "link", "copy"} /\ op.made = {} /\ ~op.lost
      /\ op.out = "none" /\ op.req.rpc = "none"
      /\ Listing(op.ids) /\ (op.op # "get" => Len(op.ids) = 1) /\ Listing(op.todo) /\ Len(op.todo) > 0
      /\ Listing(op.got) /\ \A i \in 1 .. Len(op.got) : Asked(op, op.got[i])
  BY DEF MessagesInv, Known, Begun, Fetching
<1>2. /\ op.peer \in Messages!Numbers /\ Messages!Target(op.peer).kind # "channel"
      /\ \A k \in 1 .. Len(op.todo) : \E j \in 1 .. Len(op.ids) : op.ids[j] = op.todo[k]
  BY DEF MessagesInv, Known, Fetching
<1>3. Listing(joined) /\ \A i \in 1 .. Len(joined) : Asked(op, joined[i])
  <2>1. /\ Listing(joined) /\ Len(joined) = Len(op.got) + Len(found)
        /\ \A i \in 1 .. Len(joined) : joined[i] = IF i <= Len(op.got) THEN op.got[i] ELSE found[i - Len(op.got)]
    BY <1>1, ListsJoined
  <2>2. Len(op.got) \in Nat /\ Len(found) \in Nat
    BY <1>1, ListFacts
  <2> HIDE DEF joined
  <2>3. ASSUME NEW i \in 1 .. Len(joined) PROVE Asked(op, joined[i])
    <3>1. CASE i <= Len(op.got)
      <4>1. i \in 1 .. Len(op.got) /\ joined[i] = op.got[i]
        BY <2>1, <2>2, <3>1
      <4> QED BY <4>1, <1>1
    <3>2. CASE ~(i <= Len(op.got))
      <4>1. i - Len(op.got) \in 1 .. Len(found) /\ joined[i] = found[i - Len(op.got)]
        BY <2>1, <2>2, <3>2
      <4> QED BY <4>1
    <3> QED BY <3>1, <3>2
  <2> QED BY <2>1, <2>3
<1>4. Listing(rest) /\ Len(rest) = Len(op.todo) - 1 /\ \A i \in 1 .. Len(op.todo) - 1 : rest[i] = op.todo[i + 1]
  BY <1>1, ListTail
<1>5. Len(op.todo) \in Nat
  BY <1>1, ListFacts
<1>6. c = IF left.todo = <<>> THEN Messages!Fetched(left, left.got) ELSE left
  BY DEF Messages!Looked
<1>7. op' = c
  OBVIOUS
<1> HIDE DEF joined, rest, c
<1>8. /\ CallShape(left) /\ left.todo = rest /\ left.got = joined
      /\ left.pc = op.pc /\ left.out = op.out /\ left.op = op.op /\ left.peer = op.peer /\ left.to = op.to
      /\ left.ids = op.ids /\ left.req = op.req /\ left.made = op.made /\ left.lost = op.lost
      /\ left.shown = op.shown
      /\ left.held = op.held
  BY <1>1 DEF CallShape
<1> HIDE DEF left
<1>9. \A m : Asked(op, m) => Asked(left, m)
  BY <1>8 DEF Asked
<1>10. CASE rest = <<>>
  <2>1. c = Messages!Fetched(left, joined)
    BY <1>6, <1>8, <1>10
  <2>2. Known(c) /\ c.shown = left.shown /\ c.held = left.held /\ c.peer = left.peer
    BY <1>1, <1>3, <1>8, <1>9, <2>1, FetchedKnown
  <2> QED BY <1>7, <1>8, <2>2, Moves
<1>11. CASE rest # <<>>
  <2>1. c = left
    BY <1>6, <1>8, <1>11
  <2>2. Len(rest) > 0
    BY <1>4, <1>11 DEF Listing
  <2>3. \A k \in 1 .. Len(rest) : \E j \in 1 .. Len(op.ids) : op.ids[j] = rest[k]
    BY <1>2, <1>4, <1>5
  <2>4. Fetching(left)
    <3>1. /\ left.op \in {"get", "reply", "link", "copy"} /\ left.peer \in Messages!Numbers
          /\ Listing(left.ids) /\ (left.op # "get" => Len(left.ids) = 1)
          /\ left.pc # "getChannel" /\ Messages!Target(left.peer).kind # "channel"
      BY <1>1, <1>2, <1>8
    <3>2. Listing(left.todo) /\ Len(left.todo) > 0 /\ Listing(left.got)
      BY <1>3, <1>4, <1>8, <2>2
    <3>3. \A k \in 1 .. Len(left.todo) : \E j \in 1 .. Len(left.ids) : left.ids[j] = left.todo[k]
      BY <1>8, <2>3
    <3>4. \A i \in 1 .. Len(left.got) : Asked(left, left.got[i])
      BY <1>3, <1>8, <1>9
    <3> QED BY <3>1, <3>2, <3>3, <3>4 DEF Fetching
  <2>5. Known(left)
    BY <1>1, <1>8, <2>4, NotYet DEF Known, Begun, Uploading, Copying, Clearing, Sending, Ended
  <2> QED BY <1>7, <1>8, <2>1, <2>5, Moves
<1> QED BY <1>10, <1>11

\* The history is asked for one number.
LEMMA GetHistoryAtKeeps == ASSUME MessagesInv, Messages!GetHistoryAt PROVE MessagesInv'
<1>1. PICK page \in {{}} \cup {{m} : m \in {x \in Messages!In(Messages!Target(op.peer)) : ~x.sched}} :
        op' = Messages!Looked(op, Messages!SetToSeq(Messages!WithId(page, op.todo[1])))
  BY DEF Messages!GetHistoryAt
<1>2. op.pc = "history" /\ msgs' = msgs
  BY DEF Messages!GetHistoryAt
<1> DEFINE S == Messages!WithId(page, op.todo[1])
<1>3. S \in SUBSET msgs /\ \A m \in S : m.place = Messages!Target(op.peer) /\ ~m.sched /\ m.id = op.todo[1]
  BY <1>1 DEF Messages!WithId, Messages!In
<1>4. \E j \in DOMAIN op.ids : op.ids[j] = op.todo[1]
  <2>1. Listing(op.ids) /\ Len(op.todo) > 0 /\ Listing(op.todo) /\ \A k \in 1 .. Len(op.todo) : \E j \in 1 .. Len(op.ids) : op.ids[j] = op.todo[k]
    BY <1>2 DEF MessagesInv, Known, Fetching
  <2>2. 1 \in 1 .. Len(op.todo) /\ DOMAIN op.ids = 1 .. Len(op.ids)
    BY <2>1, ListFacts
  <2> QED BY <2>1, <2>2
<1>5. op' = Messages!Looked(op, Messages!SetToSeq(S))
  BY <1>1
<1> HIDE DEF S
<1>6. IsFiniteSet(S) /\ S \in SUBSET op.shown
  BY <1>3, FS_Subset DEF MessagesInv, ServerKnown
<1>7. \A m \in S : Asked(op, m)
  BY <1>3, <1>4, <1>6 DEF Asked
<1> DEFINE found == Messages!SetToSeq(S)
<1>8. Listing(found) /\ \A i \in 1 .. Len(found) : found[i] \in S
  BY <1>6, SetListed
<1>9. op' = Messages!Looked(op, found)
  BY <1>5
<1> HIDE DEF found
<1> QED BY <1>2, <1>7, <1>8, <1>9, LookKeeps

\* The history is not to be had.
LEMMA GetHistoryFailsKeeps == ASSUME MessagesInv, Messages!GetHistoryFails PROVE MessagesInv'
<1>1. op.pc = "history" /\ msgs' = msgs /\ op' = Messages!Looked(op, <<>>)
  BY DEF Messages!GetHistoryFails
<1>2. \A i \in 1 .. Len(<<>>) : Asked(op, <<>>[i])
  BY ListOfNone
<1> QED BY <1>1, <1>2, ListOfNone, LookKeeps

\* The newest of some messages are the first page of them.
LEMMA NewestFacts ==
  ASSUME NEW S \in SUBSET Int, IsFiniteSet(S), NEW page \in Nat \ {0}
  PROVE  LET p == Messages!Newest(S, page) IN
         /\ Listing(p) /\ (p = <<>> => S = {}) /\ Len(p) <= page
         /\ Len(p) # page => \A id \in S : \E k \in 1 .. Len(p) : p[k] = id
<1> DEFINE A == Messages!Ascending(S)
           R == Messages!Reverse(A)
           n == Cardinality(S)
           top == IF page < n THEN page ELSE n
           p == Messages!Newest(S, page)
<1>1. /\ n \in Nat /\ Len(A) = n /\ DOMAIN A = 1 .. n /\ \A i \in 1 .. n : A[i] \in S
      /\ \A id \in S : \E i \in 1 .. n : A[i] = id
  BY AscendingHolds
<1>2. p = SubSeq(R, 1, top)
  <2>1. Messages!Cardinality(S) = n
    BY CountMessages
  <2> QED BY <2>1 DEF Messages!Newest
<1> HIDE DEF A, n, p
<1>3. /\ Len(R) = n /\ DOMAIN R = 1 .. n /\ \A i \in 1 .. n : R[i] = A[n - i + 1] /\ R[i] \in S
  BY <1>1 DEF Messages!Reverse
<1> HIDE DEF R
<1>4. top \in Nat /\ top <= n /\ top <= page /\ (top # page => top = n) /\ (top = 0 => n = 0)
  BY <1>1
<1> HIDE DEF top
<1>5. p \in Seq(S) /\ Len(p) = top /\ \A i \in 1 .. top : p[i] = R[i]
  <2>1. \A i \in 1 .. top : R[i] \in S
    BY <1>1, <1>3, <1>4
  <2>2. R \in [1 .. n -> S]
    BY <1>3 DEF Messages!Reverse, R
  <2>3. R \in Seq(S)
    BY <1>1, <2>2
  <2> QED BY <1>2, <1>3, <1>4, <2>3
<1>6. p = [i \in 1 .. top |-> p[i]] /\ DOMAIN p = 1 .. top
  BY <1>4, <1>5
<1>7. Listing(p)
  BY <1>4, <1>5, <1>6, ListMade
<1>8. p = <<>> => S = {}
  BY <1>1, <1>4, <1>5
<1>9. ASSUME Len(p) # page, NEW id \in S PROVE \E k \in 1 .. Len(p) : p[k] = id
  <2>1. top = n
    BY <1>4, <1>5, <1>9
  <2>2. PICK i \in 1 .. n : A[i] = id
    BY <1>1
  <2>3. n - i + 1 \in 1 .. n /\ n - (n - i + 1) + 1 = i
    BY <1>1, <2>2
  <2>4. R[n - i + 1] = A[n - (n - i + 1) + 1]
    BY <1>3, <2>3
  <2>5. R[n - i + 1] = id
    BY <2>2, <2>3, <2>4
  <2> QED BY <1>5, <2>1, <2>3, <2>5
<1> QED BY <1>4, <1>5, <1>7, <1>8, <1>9 DEF p

\* The pinned messages are searched.
LEMMA SearchKeeps == ASSUME MessagesInv, Messages!Search PROVE MessagesInv'
<1> DEFINE S == Messages!Pinned(Messages!Target(op.peer))
           page == Messages!Newest(S, Page)
<1>1. /\ op.pc = "search" /\ msgs' = msgs
      /\ op' = IF op.op = "pinned" \/ page = <<>> THEN Messages!Done(op, "ok", page)
               ELSE [op EXCEPT !.pc = "rpc", !.todo = page, !.full = Len(page) = Page,
                               !.req = Messages!UnpinMessage(op.peer, page[1])]
  BY DEF Messages!Search
<1>2. IsFiniteSet(S) /\ S \in SUBSET Int
  <2> DEFINE B == {x \in Messages!In(Messages!Target(op.peer)) : x.pinned /\ ~x.sched}
             number == [m \in B |-> m.id]
  <2>1. B \in SUBSET msgs
    BY DEF Messages!In
  <2>2. IsFiniteSet(B) /\ \A m \in B : m.id \in Int
    BY <2>1, FS_Subset DEF MessagesInv, ServerKnown, MessageKnown
  <2>3. S = {m.id : m \in B}
    BY DEF Messages!Pinned
  <2> HIDE DEF B, S
  <2>4. S = {number[m] : m \in B}
    BY <2>3
  <2> HIDE DEF number
  <2>5. IsFiniteSet(S)
    BY <2>2, <2>4, ImageFinite
  <2> QED BY <2>2, <2>3, <2>5
<1>3. \A id \in op.held : id \in S
  BY DEF MessagesInv, HeldThere, ServerKnown, MessageKnown, Messages!Pinned, Messages!In
<1>4. /\ CallShape(op) /\ op.op \in {"pinned", "clear"} /\ ~op.full /\ op.made = {} /\ ~op.lost
      /\ op.out = "none" /\ op.req.rpc = "none"
      /\ Known(op)
  BY <1>1 DEF MessagesInv, Known, Begun, Clearing
<1>5. Page \in Nat \ {0}
  BY PartsAssumption DEF Messages!MessagesOK
<1> HIDE DEF S
<1>6. Listing(page) /\ (page = <<>> => S = {}) /\ (Len(page) # Page => \A id \in S : \E k \in 1 .. Len(page) : page[k] = id)
  BY <1>2, <1>5, NewestFacts
<1> HIDE DEF page
<1>7. CASE op.op = "pinned" \/ page = <<>>
  <2> DEFINE c == Messages!Done(op, "ok", page)
  <2>1. /\ c.op = op.op /\ c.req = op.req /\ c.made = {} /\ c.shown = op.shown /\ c.held = op.held /\ c.peer = op.peer
        /\ op' = c
    BY <1>1, <1>4, <1>7, DoneFields
  <2>2. c.op = "clear" => c.held = {}
    BY <1>3, <1>4, <1>6, <1>7, <2>1
  <2>3. Truthful(c)
    <3> HIDE DEF c
    <3> QED BY <1>4, <2>1, <2>2 DEF Truthful, AsAsked, CopyFaithful, PinsCleared, AlbumWhole,
               ReturnsMade
  <2>4. Known(c)
    BY <1>4, <2>3, EndKnown
  <2> HIDE DEF c
  <2> QED BY <1>1, <2>1, <2>4, Moves
<1>8. CASE ~(op.op = "pinned" \/ page = <<>>)
  <2> DEFINE r == Messages!UnpinMessage(op.peer, page[1])
             full == Len(page) = Page
             c == [op EXCEPT !.pc = "rpc", !.todo = page, !.full = full, !.req = r]
  <2>1. op' = c
    BY <1>1, <1>8
  <2>2. RequestKnown(r)
    <3>1. r.rpc = "unpin" /\ r.ids = <<page[1]>> /\ r.new = <<>>
      BY DEF Messages!UnpinMessage, Messages!Request
    <3> HIDE DEF r
    <3> QED BY <3>1, ListOfOne, ListOfNone DEF RequestKnown, Rpcs
  <2>5. full \in BOOLEAN
    OBVIOUS
  <2>6. ~full => \A id \in op.held : \E k \in 1 .. Len(page) : page[k] = id
    BY <1>3, <1>6
  <2> HIDE DEF full
  <2>7. r = Messages!UnpinMessage(op.peer, page[1])
    OBVIOUS
  <2> HIDE DEF r
  <2>3. /\ CallShape(c) /\ c.pc = "rpc" /\ c.todo = page /\ c.req = r /\ (c.full <=> full)
        /\ c.op = op.op /\ c.peer = op.peer /\ c.out = op.out /\ c.made = op.made /\ c.lost = op.lost
        /\ c.shown = op.shown /\ c.held = op.held
    BY <1>4 DEF CallShape
  <2> HIDE DEF c
  <2>4. Clearing(c)
    <3>1. Len(page) > 0
      BY <1>6, <1>8 DEF Listing
    <3> QED BY <1>6, <2>3, <2>6, <2>7, <3>1 DEF Clearing
  <2>8. c.op = "clear" /\ c.out = "none" /\ c.made = {} /\ ~c.lost
    BY <1>4, <1>8, <2>3
  <2>9. Known(c)
    BY <2>2, <2>3, <2>4, <2>8, NotYet DEF Known, Begun, Fetching, Uploading, Copying, Sending, Ended
  <2> QED BY <1>1, <2>1, <2>3, <2>9, Moves
<1> QED BY <1>7, <1>8

\* One page is read.
LEMMA ListedKeeps == ASSUME MessagesInv, Messages!Listed PROVE MessagesInv'
<1>1. PICK page : op.pc = "list" /\ msgs' = msgs /\ op' = Messages!Done(op, "ok", page)
  BY DEF Messages!Listed
<1> DEFINE c == Messages!Done(op, "ok", page)
<1>2. CallShape(op) /\ op.op = "list" /\ op.made = {} /\ op.req.rpc = "none" /\ Known(op)
  BY <1>1 DEF MessagesInv, Known, Begun, Ended
<1>3. c.op = op.op /\ c.req = op.req /\ c.made = {} /\ c.shown = op.shown /\ c.held = op.held /\ c.peer = op.peer /\ op' = c
  BY <1>1, <1>2, DoneFields
<1>4. Truthful(c)
  <2> HIDE DEF c
  <2> QED BY <1>2, <1>3 DEF Truthful, AsAsked, CopyFaithful, PinsCleared, AlbumWhole, ReturnsMade
<1>5. Known(c)
  BY <1>2, <1>4, EndKnown
<1> HIDE DEF c
<1> QED BY <1>1, <1>3, <1>5, Moves

\* A file is uploaded.
LEMMA UploadKeeps == ASSUME MessagesInv, Messages!Upload PROVE MessagesInv'
<1> DEFINE text == IF op.todo[1] = 1 THEN "caption" ELSE ""
           file == Messages!New(text, "document", 0, FALSE)
           media == Append(op.got, file)
<1>1. /\ op.pc = "upload" /\ msgs' = msgs
      /\ op' = IF Len(op.todo) > 1 THEN [op EXCEPT !.todo = Tail(@), !.got = media]
               ELSE [op EXCEPT !.todo = <<>>, !.got = <<>>, !.pc = "rpc", !.req = Messages!Sending(op.peer, media)]
  BY DEF Messages!Upload, Messages!NextFile
<1>2. /\ CallShape(op) /\ op.op \in {"album", "voice"} /\ op.made = {} /\ ~op.lost /\ op.out = "none"
      /\ op.req.rpc = "none"
      /\ Listing(op.got) /\ Listing(op.todo) /\ Len(op.todo) > 0 /\ Len(op.ids) = Len(op.got) + Len(op.todo)
      /\ \A k \in 1 .. Len(op.todo) : op.todo[k] = Len(op.got) + k
      /\ Len(op.got) > 0 => op.got[1].text = "caption"
  BY <1>1 DEF MessagesInv, Known, Begun, Uploading
<1>3. Len(op.got) \in Nat /\ Len(op.todo) \in Nat
  BY <1>2, ListFacts
<1>4. file.text = text
  BY DEF Messages!New
<1> HIDE DEF file
<1>5. Listing(media) /\ Len(media) = Len(op.got) + 1 /\ media[Len(op.got) + 1] = file /\ \A i \in 1 .. Len(op.got) : media[i] = op.got[i]
  BY <1>2, ListAppend
<1> HIDE DEF media
<1>6. media[1].text = "caption"
  <2>1. CASE Len(op.got) = 0
    <3>1. op.todo[1] = 1
      BY <1>2, <1>3, <2>1
    <3> QED BY <1>4, <1>5, <2>1, <3>1
  <2>2. CASE Len(op.got) # 0
    <3>1. 1 \in 1 .. Len(op.got) /\ Len(op.got) > 0
      BY <1>3, <2>2
    <3> QED BY <1>2, <1>5, <3>1
  <2> QED BY <2>1, <2>2
<1>7. op.op = "voice" => Len(op.ids) = 1
  BY DEF MessagesInv, Known, Uploading
<1>8. CASE Len(op.todo) > 1
  <2> DEFINE rest == Tail(op.todo)
             c == [op EXCEPT !.todo = rest, !.got = media]
  <2>1. op' = c
    BY <1>1, <1>8
  <2>2. Listing(rest) /\ Len(rest) = Len(op.todo) - 1 /\ \A i \in 1 .. Len(op.todo) - 1 : rest[i] = op.todo[i + 1]
    BY <1>2, ListTail
  <2> HIDE DEF rest
  <2>3. /\ CallShape(c) /\ c.pc = op.pc /\ c.todo = rest /\ c.got = media /\ c.req = op.req /\ c.ids = op.ids
        /\ c.op = op.op /\ c.peer = op.peer /\ c.out = op.out /\ c.made = op.made /\ c.lost = op.lost
        /\ c.shown = op.shown /\ c.held = op.held
    BY <1>2 DEF CallShape
  <2> HIDE DEF c
  <2>4. Len(rest) > 0 /\ Len(op.ids) = Len(media) + Len(rest) /\ \A k \in 1 .. Len(rest) : rest[k] = Len(media) + k
    <3> DEFINE g == Len(op.got)
               t == Len(op.todo)
    <3>1. g \in Nat /\ t \in Nat /\ t > 1 /\ Len(media) = g + 1 /\ Len(op.ids) = g + t /\ Len(rest) = t - 1
      BY <1>2, <1>3, <1>5, <1>8, <2>2
    <3>2. \A k \in 1 .. t - 1 : rest[k] = op.todo[k + 1]
      BY <2>2
    <3>3. \A k \in 1 .. t : op.todo[k] = g + k
      BY <1>2
    <3> HIDE DEF g, t
    <3>4. ASSUME NEW k \in 1 .. t - 1 PROVE rest[k] = g + 1 + k
      <4>1. k + 1 \in 1 .. t
        BY <3>1
      <4>2. op.todo[k + 1] = g + (k + 1)
        BY <3>3, <4>1
      <4> QED BY <3>1, <3>2, <4>2
    <3>5. \A k \in 1 .. Len(rest) : rest[k] = Len(media) + k
      BY <3>1, <3>4
    <3>6. Len(rest) > 0 /\ Len(op.ids) = Len(media) + Len(rest)
      BY <3>1
    <3> QED BY <3>5, <3>6
  <2>5. Uploading(c)
    BY <1>1, <1>2, <1>5, <1>6, <1>7, <2>2, <2>3, <2>4 DEF Uploading
  <2>6. Known(c)
    BY <1>1, <1>2, <2>3, <2>5, NotYet DEF Known, Begun, Fetching, Clearing, Copying, Sending, Ended
  <2> QED BY <1>1, <2>1, <2>3, <2>6, Moves
<1>9. CASE ~(Len(op.todo) > 1)
  <2> DEFINE r == Messages!Sending(op.peer, media)
             c == [op EXCEPT !.todo = <<>>, !.got = <<>>, !.pc = "rpc", !.req = r]
  <2>1. op' = c
    BY <1>1, <1>9
  <2>2. Len(media) = Len(op.ids) /\ Len(media) > 0
    <3> DEFINE g == Len(op.got)
               t == Len(op.todo)
    <3>1. g \in Nat /\ t \in Nat /\ t > 0 /\ ~(t > 1) /\ Len(media) = g + 1 /\ Len(op.ids) = g + t
      BY <1>2, <1>3, <1>5, <1>9
    <3> HIDE DEF g, t
    <3> QED BY <3>1
  <2>3. RequestKnown(r) /\ r.rpc = "send" /\ r.new = media
    BY <1>5, <2>2, SendingKnown
  <2> HIDE DEF r
  <2>4. /\ CallShape(c) /\ c.pc = "rpc" /\ c.req = r /\ c.ids = op.ids
        /\ c.op = op.op /\ c.peer = op.peer /\ c.out = op.out /\ c.made = op.made /\ c.lost = op.lost
        /\ c.shown = op.shown /\ c.held = op.held
    BY <1>2 DEF CallShape
  <2> HIDE DEF c
  <2>5. Uploading(c)
    BY <1>6, <1>7, <2>2, <2>3, <2>4 DEF Uploading
  <2>6. Known(c)
    BY <1>2, <2>3, <2>4, <2>5, NotYet DEF Known, Begun, Fetching, Clearing, Copying, Sending, Ended
  <2> QED BY <1>1, <2>1, <2>4, <2>6, Moves
<1> QED BY <1>8, <1>9

-----------------------------------------------------------------------------
(* The requests of a call. *)

\* What is known of a call that is about to send a request.
LEMMA AboutToSend ==
  ASSUME MessagesInv, op.pc = "rpc"
  PROVE  /\ CallShape(op) /\ op.op \in {"single", "album", "voice", "copy", "clear"} /\ op.made = {} /\ ~op.lost /\ op.out = "none"
         /\ RequestKnown(op.req) /\ ServerKnown(msgs) /\ op.req.rpc \in Rpcs
  BY DEF MessagesInv, Known, Begun, Sending, RequestKnown

\* A copy adds one message, with what one version of the source had.
LEMMA CopyMade ==
  ASSUME MessagesInv, op.pc = "rpc", op.op = "copy"
  PROVE  /\ Cardinality(Messages!Made(op)) = 1
         /\ \A copy \in Messages!Made(op) :
              /\ copy.place = Messages!Target(op.to)
              /\ \E m \in op.shown :
                   /\ m.id = op.ids[1] /\ Messages!Box(m.place) = Messages!Box(Messages!Target(op.peer))
                   /\ copy.text = m.text
                   /\ copy.media = IF m.media \in {"photo", "document"} THEN m.media ELSE "none"
<1> DEFINE r == op.req
           A == Messages!Added(r)
           S == Messages!ToSet(A)
           next == Messages!NextId(Messages!Box(r.at))
<1>1. PICK m \in op.shown :
        /\ m.id = op.ids[1] /\ Messages!Box(m.place) = Messages!Box(Messages!Target(op.peer))
        /\ r = Messages!Sending(op.to, << Messages!New(m.text, Messages!Carried(m), 0, FALSE) >>)
  BY DEF MessagesInv, Known, Copying
<1> DEFINE n == Messages!New(m.text, Messages!Carried(m), 0, FALSE)
           new == <<n>>
<1>2. Listing(new) /\ Len(new) = 1 /\ Len(new) > 0 /\ new[1] = n
  BY ListOfOne
<1>3. RequestKnown(r) /\ r.rpc = "send" /\ r.new = new /\ r.at = Messages!Target(op.to)
  <2>1. r = Messages!Sending(op.to, new)
    BY <1>1
  <2> DEFINE q == Messages!Sending(op.to, new)
  <2>2. RequestKnown(q) /\ q.rpc = "send" /\ q.new = new /\ q.at = Messages!Target(op.to)
    <3> HIDE DEF new
    <3> QED BY <1>2, SendingKnown
  <2>3. r = q
    BY <2>1
  <2> HIDE DEF new, r, q
  <2> QED BY <2>2, <2>3
<1>4. ServerKnown(msgs)
  BY DEF MessagesInv
<1>5. n.text = m.text /\ n.media = IF m.media \in {"photo", "document"} THEN m.media ELSE "none"
  BY DEF Messages!New, Messages!Carried
<1>6. Messages!Made(op) = S
  BY <1>3 DEF Messages!Made
<1> HIDE DEF n, new, r, next
<1>7. Len(A) = 1 /\ A[1] = Messages!Message(r.at, next + 1 - 1, n)
  <2>1. /\ Len(A) = Len(Messages!Contents(r)) /\ Messages!Contents(r) = r.new
        /\ \A i \in 1 .. Len(A) : A[i] = Messages!Message(r.at, next + i - 1, Messages!Contents(r)[i])
    BY <1>3, <1>4, AddedFacts DEF next
  <2> HIDE DEF A
  <2> QED BY <1>2, <1>3, <2>1
<1>8. S = {A[i] : i \in 1 .. Len(A)} /\ Cardinality(S) = Len(A)
  BY <1>3, <1>4, AddedKnown
<1> DEFINE a == A[1]
<1>9. a.place = r.at /\ a.text = n.text /\ a.media = n.media
  <2> DEFINE id == next + 1 - 1
             b == Messages!Message(r.at, id, n)
  <2>1. b.place = r.at /\ b.text = n.text /\ b.media = n.media
    <3> HIDE DEF id
    <3> QED BY MessageFields
  <2>2. a = b
    BY <1>7
  <2> HIDE DEF a, b
  <2> QED BY <2>1, <2>2
<1>10. \A copy \in S : copy = a
  <2> HIDE DEF A, S
  <2> QED BY <1>7, <1>8
<1> HIDE DEF S, a, A
<1>11. Cardinality(S) = 1
  BY <1>7, <1>8
<1> QED BY <1>1, <1>3, <1>5, <1>6, <1>9, <1>10, <1>11

\* An album adds as many messages as it has files, one with the caption.
LEMMA AlbumMade ==
  ASSUME MessagesInv, op.pc = "rpc", op.op \in {"album", "voice"}
  PROVE  /\ Cardinality(Messages!Made(op)) = Len(op.ids)
         /\ \E m \in Messages!Made(op) : m.text = "caption"
<1> DEFINE r == op.req
           A == Messages!Added(r)
           S == Messages!ToSet(A)
           C == Messages!Contents(r)
           next == Messages!NextId(Messages!Box(r.at))
<1>1. RequestKnown(r) /\ ServerKnown(msgs)
  BY AboutToSend
<1>2. r.rpc = "send" /\ Len(r.new) = Len(op.ids) /\ r.new[1].text = "caption"
  BY DEF MessagesInv, Known, Uploading
<1>3. Messages!Made(op) = S
  BY <1>2 DEF Messages!Made
<1> HIDE DEF r, next
<1>4. /\ C = r.new /\ Len(C) > 0 /\ Len(A) = Len(C)
      /\ \A i \in 1 .. Len(A) : A[i] = Messages!Message(r.at, next + i - 1, C[i])
  BY <1>1, <1>2, AddedFacts DEF next
<1>5. S = {A[i] : i \in 1 .. Len(A)} /\ Cardinality(S) = Len(A)
  BY <1>1, AddedKnown
<1>6. Len(A) \in Nat
  <2>1. Listing(A)
    BY <1>1, AddedFacts
  <2> QED BY <2>1, ListFacts
<1> HIDE DEF A, S, C
<1>7. Cardinality(S) = Len(op.ids) /\ 1 \in 1 .. Len(A)
  BY <1>2, <1>4, <1>5, <1>6
<1>8. A[1] \in S
  BY <1>5, <1>7
<1>9. A[1].text = "caption"
  <2> DEFINE id == next + 1 - 1
             n == C[1]
             b == Messages!Message(r.at, id, n)
  <2>1. b.text = n.text
    <3> HIDE DEF id, n
    <3> QED BY MessageFields
  <2>2. A[1] = b /\ n = r.new[1]
    BY <1>4, <1>7
  <2> HIDE DEF b, n
  <2> QED BY <1>2, <2>1, <2>2
<1> QED BY <1>3, <1>7, <1>8, <1>9

\* A call whose request was carried out keeps what is known, if it is known.
LEMMA Carries ==
  ASSUME MessagesInv, op.pc = "rpc", Messages!Possible(op.req), Messages!Effect(op.req),
         NEW c, Known(c), op' = Messages!Seen(c, msgs')
  PROVE  MessagesInv'
<1>1. msgs' = Messages!After(op.req) /\ op.req.at \in Rooms
  BY DEF Messages!Effect, Messages!Possible
<1>2. ServerKnown(msgs')
  BY <1>1, AboutToSend, AfterKnown
<1>3. Known(op') /\ msgs' \subseteq op'.shown /\ HeldThere(op', msgs')
  BY SeenKeeps
<1> QED BY <1>2, <1>3 DEF MessagesInv

\* The answer is lost.
LEMMA LoseKeeps == ASSUME MessagesInv, Messages!Lose PROVE MessagesInv'
<1> DEFINE made == op.made \cup Messages!Made(op)
           b == [op EXCEPT !.made = made, !.lost = TRUE]
           c == Messages!Done(b, "error", <<>>)
<1>1. op.pc = "rpc" /\ Messages!Possible(op.req) /\ Messages!Effect(op.req) /\ op' = Messages!Seen(c, msgs')
  BY DEF Messages!Lose
<1>2. CallShape(op) /\ op.op \in {"single", "album", "voice", "copy", "clear"} /\ op.made = {}
  BY <1>1, AboutToSend
<1>3. made = Messages!Made(op)
  BY <1>2
<1> HIDE DEF made
<1>4. /\ CallShape(b) /\ b.op = op.op /\ b.made = made /\ b.lost /\ b.to = op.to /\ b.shown = op.shown
      /\ b.ids = op.ids /\ b.peer = op.peer
  BY <1>2 DEF CallShape
<1> HIDE DEF b
<1>5. /\ CallShape(c) /\ c.op = op.op /\ c.made = made /\ c.lost /\ c.to = op.to /\ c.shown = op.shown
      /\ c.ids = op.ids /\ c.peer = op.peer
      /\ c.out = "error" /\ c.pc = "done"
  BY <1>4, DoneFields
<1> HIDE DEF c
<1>6. CopyFaithful(c)
  <2>1. CASE op.op = "copy"
    <3>1. /\ Cardinality(made) = 1
          /\ \A copy \in made :
               /\ copy.place = Messages!Target(op.to)
               /\ \E m \in op.shown :
                    /\ m.id = op.ids[1] /\ Messages!Box(m.place) = Messages!Box(Messages!Target(op.peer))
                    /\ copy.text = m.text
                    /\ copy.media = IF m.media \in {"photo", "document"} THEN m.media ELSE "none"
      BY <1>1, <1>3, <2>1, CopyMade
    <3> QED BY <1>5, <3>1 DEF CopyFaithful
  <2>2. CASE op.op # "copy"
    BY <1>5, <2>2 DEF CopyFaithful
  <2> QED BY <2>1, <2>2
<1>7. Truthful(c)
  BY <1>5, <1>6 DEF Truthful, AsAsked, PinsCleared, AlbumWhole, ReturnsMade
<1>8. op.op = "voice" => Len(op.ids) = 1
  BY DEF MessagesInv, Known, Uploading
<1>9. Known(c)
  BY <1>2, <1>5, <1>7, <1>8 DEF Known, Begun, Fetching, Uploading, Copying, Clearing, Sending, Ended
<1> QED BY <1>1, <1>9, Carries

\* A request that is no step of clearing pins was answered.
LEMMA ServedKnown ==
  ASSUME MessagesInv, op.pc = "rpc", op.op # "clear", NEW got, Listing(got),
         op.req.rpc \in {"send", "forward"} =>
           /\ \A i \in 1 .. Len(got) : got[i] \in Messages!Made(op) /\ ~got[i].sched
           /\ op.req.at.kind = "channel" =>
                \A m \in Messages!Made(op) : ~m.sched => \E i \in 1 .. Len(got) : got[i] = m
  PROVE  Known(Messages!Done([op EXCEPT !.made = @ \cup Messages!Made(op)], "ok", got))
<1> DEFINE made == op.made \cup Messages!Made(op)
           b == [op EXCEPT !.made = made]
           c == Messages!Done(b, "ok", got)
<1>2. CallShape(op) /\ op.op \in {"single", "album", "voice", "copy"} /\ op.made = {}
  BY AboutToSend
<1>3. made = Messages!Made(op)
  BY <1>2
<1>9. c = Messages!Done([op EXCEPT !.made = @ \cup Messages!Made(op)], "ok", got)
  OBVIOUS
<1> HIDE DEF made
<1>4. /\ CallShape(b) /\ b.op = op.op /\ b.made = made /\ b.to = op.to /\ b.shown = op.shown
      /\ b.ids = op.ids /\ b.peer = op.peer
      /\ b.req = op.req
  BY <1>2 DEF CallShape
<1> HIDE DEF b
<1>5. /\ CallShape(c) /\ c.op = op.op /\ c.made = made /\ c.to = op.to /\ c.shown = op.shown
      /\ c.ids = op.ids /\ c.peer = op.peer
      /\ c.out = "ok" /\ c.pc = "done" /\ c.got = got /\ c.req = op.req
  BY <1>4, DoneFields
<1> HIDE DEF c
<1>6. CopyFaithful(c)
  <2>1. CASE op.op = "copy"
    <3>1. /\ Cardinality(made) = 1
          /\ \A copy \in made :
               /\ copy.place = Messages!Target(op.to)
               /\ \E m \in op.shown :
                    /\ m.id = op.ids[1] /\ Messages!Box(m.place) = Messages!Box(Messages!Target(op.peer))
                    /\ copy.text = m.text
                    /\ copy.media = IF m.media \in {"photo", "document"} THEN m.media ELSE "none"
      BY <1>3, <2>1, CopyMade
    <3> QED BY <1>5, <3>1 DEF CopyFaithful
  <2>2. CASE op.op # "copy"
    BY <1>5, <2>2 DEF CopyFaithful
  <2> QED BY <2>1, <2>2
<1>7. AlbumWhole(c)
  BY <1>3, <1>5, AlbumMade DEF AlbumWhole
<1>8. ReturnsMade(c)
  <2>1. DOMAIN got = 1 .. Len(got)
    BY ListFacts
  <2> QED BY <1>3, <1>5, <2>1 DEF ReturnsMade
<1>10. Truthful(c)
  BY <1>2, <1>5, <1>6, <1>7, <1>8 DEF Truthful, AsAsked, PinsCleared
<1>12. op.op = "voice" => Len(op.ids) = 1
  BY DEF MessagesInv, Known, Uploading
<1>11. Known(c)
  BY <1>2, <1>5, <1>10, <1>12 DEF Known, Begun, Fetching, Uploading, Copying, Clearing, Sending, Ended
<1> QED BY <1>9, <1>11

\* A message that was unpinned is pinned no more.
LEMMA Unpinned ==
  ASSUME MessagesInv, op.pc = "rpc", op.op = "clear"
  PROVE  \A m \in Messages!After(op.req) : m.place = Messages!Target(op.peer) /\ m.pinned => m.id # op.todo[1]
<1> DEFINE r == op.req
           N == Messages!Named(r)
<1>1. r = Messages!UnpinMessage(op.peer, op.todo[1])
  BY DEF MessagesInv, Known, Clearing
<1>2. r.rpc = "unpin" /\ r.at = Messages!Target(op.peer) /\ r.ids = <<op.todo[1]>>
  <2> HIDE DEF r
  <2> QED BY <1>1 DEF Messages!UnpinMessage, Messages!Request
<1> HIDE DEF r
<1>3. Messages!After(r) = (msgs \ N) \cup {[m EXCEPT !.pinned = FALSE] : m \in N}
  BY <1>2 DEF Messages!After, Messages!Replace
<1>4. \A m \in msgs : MessageShape(m) /\ (m.pinned => ~m.sched)
  BY DEF MessagesInv, ServerKnown, MessageKnown
<1>5. \A m \in msgs : m.place = Messages!Target(op.peer) /\ m.id = op.todo[1] /\ ~m.sched => m \in N
  BY <1>2 DEF Messages!Named, Messages!In, Messages!ToSet
<1>6. N \subseteq msgs
  BY DEF Messages!Named, Messages!In
<1> HIDE DEF N
<1>7. \A m \in N : ~[m EXCEPT !.pinned = FALSE].pinned
  BY <1>4, <1>6 DEF MessageShape
<1> QED BY <1>3, <1>4, <1>5, <1>7 DEF r

\* A pin was cleared: the next one is, or the call has cleared them all.
LEMMA ClearedKeeps ==
  ASSUME MessagesInv, op.op = "clear", Messages!Serve
  PROVE  MessagesInv'
<1> DEFINE made == op.made \cup Messages!Made(op)
           b == [op EXCEPT !.made = made]
           d == Messages!GoOn(b, Messages!Answer(op.req))
           e == Messages!Seen(d, msgs')
           rest == Tail(op.todo)
           after == Messages!UnpinMessage(op.peer, op.todo[2])
<1>1. op.pc = "rpc" /\ Messages!Possible(op.req) /\ Messages!Effect(op.req) /\ op' = e
  BY DEF Messages!Serve
<1>2. /\ CallShape(op) /\ op.made = {} /\ ~op.lost /\ op.out = "none" /\ RequestKnown(op.req) /\ ServerKnown(msgs)
  BY <1>1, AboutToSend
<1>3. /\ Listing(op.todo) /\ Len(op.todo) > 0 /\ Len(op.todo) \in Nat
      /\ op.req = Messages!UnpinMessage(op.peer, op.todo[1])
      /\ ~op.full => \A id \in op.held : \E k \in 1 .. Len(op.todo) : op.todo[k] = id
  BY <1>1, ListFacts DEF MessagesInv, Known, Clearing
<1>4. op.req.rpc = "unpin" /\ made = {}
  BY <1>2, <1>3 DEF Messages!UnpinMessage, Messages!Request, Messages!Made
<1>5. msgs' = Messages!After(op.req) /\ ServerKnown(msgs')
  <2>1. msgs' = Messages!After(op.req) /\ op.req.at \in Rooms
    BY <1>1 DEF Messages!Effect, Messages!Possible
  <2> QED BY <1>2, <2>1, AfterKnown
<1>6. \A m \in msgs' : m.place = Messages!Target(op.peer) /\ m.pinned => m.id # op.todo[1]
  BY <1>1, <1>5, Unpinned
<1> HIDE DEF made
<1>7. /\ CallShape(b) /\ b.op = op.op /\ b.made = made /\ b.to = op.to /\ b.shown = op.shown
      /\ b.ids = op.ids /\ b.peer = op.peer
      /\ b.req = op.req /\ b.todo = op.todo /\ b.full = op.full /\ b.held = op.held /\ b.out = op.out
      /\ b.lost = op.lost /\ b.pc = op.pc
  BY <1>2 DEF CallShape
<1> HIDE DEF b
<1>8. CASE Len(op.todo) > 1
  <2>1. d = [b EXCEPT !.todo = rest, !.req = after]
    BY <1>7, <1>8, <1>4 DEF Messages!GoOn
  <2>2. Listing(rest) /\ Len(rest) = Len(op.todo) - 1 /\ \A i \in 1 .. Len(op.todo) - 1 : rest[i] = op.todo[i + 1]
    BY <1>3, ListTail
  <2>3. RequestKnown(after) /\ after = Messages!UnpinMessage(op.peer, op.todo[2])
    <3>1. after.rpc = "unpin" /\ after.ids = <<op.todo[2]>> /\ after.new = <<>>
      BY DEF Messages!UnpinMessage, Messages!Request
    <3> HIDE DEF after
    <3>2. RequestKnown(after)
      BY <3>1, ListOfOne, ListOfNone DEF RequestKnown, Rpcs
    <3> QED BY <3>2 DEF after
  <2> HIDE DEF d, rest, after
  <2>4. /\ CallShape(d) /\ d.pc = op.pc /\ d.todo = rest /\ d.req = after /\ d.op = op.op /\ d.peer = op.peer /\ d.made = {}
        /\ d.full = op.full /\ d.held = op.held /\ d.out = op.out /\ d.lost = op.lost /\ d.shown = op.shown
    BY <1>4, <1>7, <2>1 DEF CallShape
  <2>5. /\ CallShape(e) /\ e.pc = op.pc /\ e.todo = rest /\ e.req = after /\ e.op = op.op /\ e.peer = op.peer /\ e.made = {}
        /\ e.full = op.full /\ e.out = op.out /\ e.lost = op.lost /\ e.shown = op.shown \cup msgs'
        /\ e.held \subseteq op.held
        /\ \A id \in e.held : \E m \in msgs' : m.place = Messages!Target(op.peer) /\ m.id = id /\ m.pinned
    BY <2>4, SeenFields
  <2> HIDE DEF e
  <2>6. ASSUME ~op.full, NEW id \in e.held PROVE \E k \in 1 .. Len(rest) : rest[k] = id
    <3>1. PICK k \in 1 .. Len(op.todo) : op.todo[k] = id
      BY <1>3, <2>5, <2>6
    <3>2. id # op.todo[1]
      BY <1>6, <2>5, <2>6
    <3>3. k # 1 /\ k - 1 \in 1 .. Len(op.todo) - 1 /\ k - 1 + 1 = k
      BY <1>3, <3>1, <3>2
    <3>4. rest[k - 1] = op.todo[k - 1 + 1]
      BY <2>2, <3>3
    <3> QED BY <2>2, <3>1, <3>3, <3>4
  <2>7. after = Messages!UnpinMessage(op.peer, rest[1]) /\ Len(rest) > 0
    <3>1. rest[1] = op.todo[2] /\ Len(rest) > 0
      BY <1>3, <1>8, <2>2
    <3> QED BY <2>3, <3>1
  <2>8. Clearing(e)
    BY <1>1, <2>2, <2>5, <2>6, <2>7 DEF Clearing
  <2>9. Known(e)
    BY <1>1, <1>2, <2>3, <2>5, <2>8, NotYet DEF Known, Begun, Fetching, Uploading, Copying,
       Sending, Ended
  <2>10. msgs' \subseteq e.shown /\ HeldThere(e, msgs')
    BY <2>5 DEF HeldThere
  <2> QED BY <1>1, <1>5, <2>9, <2>10 DEF MessagesInv
<1>9. CASE ~(Len(op.todo) > 1)
  <2>1. d = Messages!Done(b, "ok", <<>>)
    BY <1>4, <1>7, <1>9 DEF Messages!GoOn
  <2> HIDE DEF d
  <2>2. /\ CallShape(d) /\ d.pc = "done" /\ d.req = op.req /\ d.op = op.op /\ d.peer = op.peer /\ d.made = {}
        /\ d.full = op.full /\ d.held = op.held /\ d.out = "ok" /\ d.shown = op.shown
    BY <1>4, <1>7, <2>1, DoneFields
  <2>3. /\ CallShape(e) /\ e.pc = "done" /\ e.req = op.req /\ e.op = op.op /\ e.peer = op.peer /\ e.made = {}
        /\ e.full = op.full /\ e.out = "ok" /\ e.shown = op.shown \cup msgs' /\ e.held \subseteq op.held
        /\ \A id \in e.held : \E m \in msgs' : m.place = Messages!Target(op.peer) /\ m.id = id /\ m.pinned
    BY <2>2, SeenFields
  <2> HIDE DEF e
  <2>4. ~op.full => e.held = {}
    <3> SUFFICES ASSUME ~op.full, NEW id \in e.held PROVE FALSE
      OBVIOUS
    <3>1. PICK k \in 1 .. Len(op.todo) : op.todo[k] = id
      BY <1>3, <2>3
    <3>2. k = 1
      BY <1>3, <1>9
    <3>3. id # op.todo[1]
      BY <1>6, <2>3
    <3> QED BY <3>1, <3>2, <3>3
  <2>5. Truthful(e)
    BY <1>4, <2>3, <2>4 DEF Truthful, AsAsked, CopyFaithful, PinsCleared, AlbumWhole, ReturnsMade
  <2>6. Known(e)
    BY <2>3, <2>5 DEF Known, Begun, Fetching, Clearing, Uploading, Copying, Sending, Ended
  <2>7. msgs' \subseteq e.shown /\ HeldThere(e, msgs')
    BY <2>3 DEF HeldThere
  <2> QED BY <1>1, <1>5, <2>6, <2>7 DEF MessagesInv
<1> QED BY <1>8, <1>9

\* A call that sends one message adds one.
LEMMA OnlyOne ==
  ASSUME MessagesInv, op.pc = "rpc", op.op \in {"single", "voice", "copy"}, op.req.rpc = "send",
         NEW x \in Messages!ToSet(Messages!Added(op.req)), NEW y \in Messages!ToSet(Messages!Added(op.req))
  PROVE  x = y
<1> DEFINE r == op.req
           A == Messages!Added(r)
<1>1. ServerKnown(msgs) /\ RequestKnown(r)
  BY AboutToSend
<1>2. Len(r.new) = 1
  <2>1. CASE op.op = "single"
    BY <2>1 DEF MessagesInv, Known, Sending, OneMessage
  <2>2. CASE op.op = "voice"
    BY <2>2 DEF MessagesInv, Known, Uploading
  <2>3. CASE op.op = "copy"
    <3>1. PICK n : r = Messages!Sending(op.to, <<n>>)
      BY <2>3 DEF MessagesInv, Known, Copying
    <3>2. r.new = <<n>>
      BY <3>1 DEF Messages!Sending, Messages!Request
    <3> QED BY <3>2, ListOfOne
  <2> QED BY <2>1, <2>2, <2>3
<1>3. Len(A) = 1 /\ Messages!ToSet(A) = {A[i] : i \in 1 .. Len(A)}
  BY <1>1, <1>2, AddedFacts, AddedKnown
<1> HIDE DEF A
<1>4. Messages!ToSet(A) = {A[1]}
  BY <1>3
<1> QED BY <1>4 DEF A

\* A request is answered.
LEMMA ServeKeeps == ASSUME MessagesInv, Messages!Serve PROVE MessagesInv'
<1> DEFINE b == [op EXCEPT !.made = @ \cup Messages!Made(op)]
           r == op.req
           answer0 == Messages!Answer(r)
           d == Messages!GoOn(b, answer0)
           S == {m \in Messages!ToSet(Messages!Added(r)) : ~m.sched}
           first == Messages!extractMessageFromUpdates(answer0)
           several == Messages!newMessages(answer0)
<1>1. op.pc = "rpc" /\ Messages!Possible(r) /\ Messages!Effect(r) /\ op' = Messages!Seen(d, msgs')
  BY DEF Messages!Serve
<1>2. CallShape(op) /\ RequestKnown(r) /\ ServerKnown(msgs) /\ op.op \in {"single", "album", "voice", "copy", "clear"}
  BY <1>1, AboutToSend
<1>3. b.op = op.op /\ b.req = r
  BY <1>2 DEF CallShape
<1>4. r.rpc \in {"send", "forward"} =>
        /\ S = {m \in Messages!Made(op) : ~m.sched}
        /\ Listing(several) /\ \A i \in 1 .. Len(several) : several[i] \in S
        /\ first = Messages!Nothing \/ first \in S
        /\ r.at.kind = "channel" => \A m \in S : \E i \in 1 .. Len(several) : several[i] = m
        /\ r.at.kind = "channel" /\ first = Messages!Nothing => S = {}
  <2>1. r.rpc \in {"send", "forward"} => Messages!Made(op) = Messages!ToSet(Messages!Added(r))
    BY DEF Messages!Made
  <2>2. r.rpc \in {"send", "forward"} => S = {m \in Messages!Made(op) : ~m.sched}
    BY <2>1
  <2> QED BY <1>2, <2>2, AnswerTells
<1>7. op.op \in {"single", "voice", "copy"} /\ r.rpc = "send" => \A x, y \in S : x = y
  BY <1>1, OnlyOne
<1>5. CASE op.op = "clear"
  BY <1>5, ClearedKeeps
<1>6. CASE op.op # "clear"
  <2>1. CASE op.op = "album" \/ r.rpc = "forward"
    <3>1. d = Messages!Done(b, "ok", several)
      BY <1>3, <1>6, <2>1 DEF Messages!GoOn
    <3>2. r.rpc \in {"send", "forward"}
      BY <1>1, <2>1 DEF MessagesInv, Known, Uploading
    <3> HIDE DEF several, S
    <3>3. Known(Messages!Done(b, "ok", several))
      BY <1>1, <1>4, <1>6, <3>2, ServedKnown
    <3> HIDE DEF d
    <3> QED BY <1>1, <3>1, <3>3, Carries
  <2>2. CASE op.op # "album" /\ r.rpc \in {"send", "edit"}
    <3> DEFINE got == IF first = Messages!Nothing THEN <<>> ELSE <<first>>
    <3>1. d = Messages!Done(b, "ok", got)
      BY <1>3, <1>6, <2>2 DEF Messages!GoOn
    <3>2. Listing(got) /\ (first = Messages!Nothing => Len(got) = 0)
      BY ListOfOne, ListOfNone
    <3>5. first # Messages!Nothing => Len(got) = 1 /\ got[1] = first
      BY ListOfOne
    <3>6. r.rpc # "forward" /\ (r.rpc = "send" => op.op \in {"single", "voice", "copy"})
      BY <1>2, <1>6, <2>2
    <3> HIDE DEF got
    <3> HIDE DEF first, S
    <3>3. ASSUME r.rpc \in {"send", "forward"}
          PROVE  /\ \A i \in 1 .. Len(got) : got[i] \in Messages!Made(op) /\ ~got[i].sched
                 /\ r.at.kind = "channel" =>
                      \A m \in Messages!Made(op) : ~m.sched => \E i \in 1 .. Len(got) : got[i] = m
      <4>1. CASE first = Messages!Nothing
        BY <1>4, <3>2, <3>3, <4>1
      <4>2. CASE first # Messages!Nothing
        <5>1. first \in S /\ S = {m \in Messages!Made(op) : ~m.sched}
          BY <1>4, <3>3, <4>2
        <5>2. \A i \in 1 .. Len(got) : got[i] = first
          <6>1. Len(got) = 1 /\ got[1] = first
            BY <3>5, <4>2
          <6>2. \A i \in 1 .. Len(got) : i = 1
            BY <6>1
          <6> QED BY <6>1, <6>2
        <5>3. \A m \in S : got[1] = m /\ 1 \in 1 .. Len(got)
          BY <1>7, <3>3, <3>5, <3>6, <4>2, <5>1
        <5> QED BY <5>1, <5>2, <5>3
      <4> QED BY <4>1, <4>2
    <3>4. Known(Messages!Done(b, "ok", got))
      BY <1>1, <1>6, <3>2, <3>3, ServedKnown
    <3> HIDE DEF d
    <3> QED BY <1>1, <3>1, <3>4, Carries
  <2>3. CASE ~(op.op = "album" \/ r.rpc = "forward") /\ ~(op.op # "album" /\ r.rpc \in {"send", "edit"})
    <3>1. d = Messages!Done(b, "ok", <<>>)
      BY <1>3, <1>6, <2>3 DEF Messages!GoOn
    <3>2. r.rpc \notin {"send", "forward"}
      BY <2>3
    <3>3. Known(Messages!Done(b, "ok", <<>>))
      BY <1>1, <1>6, <3>2, ListOfNone, ServedKnown
    <3> HIDE DEF d
    <3> QED BY <1>1, <3>1, <3>3, Carries
  <2> QED BY <2>1, <2>2, <2>3
<1> QED BY <1>5, <1>6

\* Others change the chats.
LEMMA OtherKeeps == ASSUME MessagesInv, Messages!Other PROVE MessagesInv'
<1>1. op' = Messages!Seen(op, msgs')
  BY DEF Messages!Other
<1>2. ServerKnown(msgs) /\ Known(op)
  BY DEF MessagesInv
<1>3. ServerKnown(msgs')
  <2>1. ASSUME NEW place \in Rooms,
               msgs' = msgs \cup {Messages!Message(place, Messages!NextId(Messages!Box(place)), Messages!New("other", "photo", 0, FALSE))}
        PROVE  ServerKnown(msgs')
    <3> DEFINE next == Messages!NextId(Messages!Box(place))
               n == Messages!New("other", "photo", 0, FALSE)
               m == Messages!Message(place, next, n)
    <3>1. next \in Nat
      BY <1>2, NextFree
    <3> HIDE DEF next, n
    <3>2. MessageShape(m) /\ m.place = place /\ m.id = next /\ ~m.pinned
      BY MessageFields
    <3>3. msgs' = msgs \cup {m}
      BY <2>1 DEF next, n
    <3> HIDE DEF m
    <3>4. MessageKnown(m)
      BY <3>1, <3>2 DEF MessageKnown
    <3>5. IsFiniteSet(msgs')
      BY <1>2, <3>3, FS_AddElement DEF ServerKnown
    <3> QED BY <1>2, <3>3, <3>4, <3>5 DEF ServerKnown
  <2>2. ASSUME NEW m \in msgs, msgs' = msgs \ {m}
        PROVE  ServerKnown(msgs')
    BY <1>2, <2>2, FewerKnown
  <2>3. ASSUME NEW m \in msgs, NEW x, MessageKnown(x), msgs' = Messages!Replace({m}, {x})
        PROVE  ServerKnown(msgs')
    <3> DEFINE f == [y \in {m} |-> x]
    <3>1. {f[y] : y \in {m}} = {x} /\ \A y \in {m} : MessageKnown(f[y])
      BY <2>3
    <3> HIDE DEF f
    <3>2. ServerKnown(Messages!Replace({m}, {f[y] : y \in {m}}))
      BY <1>2, <3>1, ReplaceKnown
    <3> QED BY <2>3, <3>1, <3>2
  <2>4. \A m \in msgs : MessageKnown(m)
    BY <1>2 DEF ServerKnown
  <2>5. \A m \in msgs : MessageKnown([m EXCEPT !.text = "edited"])
    BY <2>4 DEF MessageKnown, MessageShape
  <2>6. \A m \in msgs : ~m.sched => MessageKnown([m EXCEPT !.pinned = ~@])
    BY <2>4 DEF MessageKnown, MessageShape
  <2> QED
    BY <2>1, <2>2, <2>3, <2>5, <2>6 DEF Messages!Other
<1>4. Known(op') /\ msgs' \subseteq op'.shown /\ HeldThere(op', msgs')
  BY <1>1, <1>2, SeenKeeps
<1> QED BY <1>3, <1>4 DEF MessagesInv

-----------------------------------------------------------------------------
\* At first nothing was called.
LEMMA MessagesBegin == PartsInit => MessagesInv
<1> SUFFICES ASSUME PartsInit PROVE MessagesInv
  OBVIOUS
<1> DEFINE b == Messages!Call("none", "done", 0, 0, <<>>, Messages!NoRequest)
           c == Messages!Done(b, "none", <<>>)
<1>1. msgs = Start /\ op = c
  BY DEF PartsInit, Messages!Init
<1>2. CallShape(b) /\ b.op = "none" /\ b.req = Messages!NoRequest /\ b.made = {} /\ b.shown = msgs /\ HeldThere(b, msgs)
  BY CallFields
<1> HIDE DEF b
<1>3. /\ CallShape(c) /\ c.op = "none" /\ c.pc = "done" /\ c.out = "none" /\ c.req = b.req /\ c.made = {}
      /\ c.shown = msgs
      /\ c.held = b.held /\ c.peer = b.peer
  BY <1>2, DoneFields
<1> HIDE DEF c
<1>4. HeldThere(c, msgs)
  BY <1>2, <1>3 DEF HeldThere
<1>5. Known(c)
  BY <1>2, <1>3, NoneIs, NotYet DEF Known, Begun, Fetching, Clearing, Uploading, Copying, Sending,
     Ended
<1>6. ServerKnown(msgs)
  <2>1. IsFiniteSet(Start)
    BY PartsAssumption, CountMessages DEF Messages!MessagesOK
  <2> QED BY <1>1, <2>1, PartsAssumption DEF ServerKnown, MessageKnown, MessageShape,
             Messages!MessagesOK
<1> QED BY <1>1, <1>3, <1>4, <1>5, <1>6 DEF MessagesInv

\* Every step of a call keeps what is known.
LEMMA MessagesKeep == MessagesInv /\ [PartsNext]_partsVars => MessagesInv'
<1> SUFFICES ASSUME MessagesInv, [PartsNext]_partsVars PROVE MessagesInv'
  OBVIOUS
<1>1. CASE UNCHANGED msgVars
  BY <1>1 DEF msgVars, MessagesInv
<1>2. CASE Messages!Next
  <2>1. CASE \/ Messages!CallSingle \/ Messages!SendAlbum \/ Messages!SendVoice \/ Messages!GetMessages \/ Messages!GetReplyTo
             \/ Messages!CopyMessage \/ Messages!GetMessageByLink \/ Messages!List
    BY <2>1, CallSingleKeeps, SendAlbumKeeps, SendVoiceKeeps, GetMessagesKeeps, GetReplyToKeeps,
       CopyMessageKeeps, GetMessageByLinkKeeps, ListKeeps
  <2>2. CASE Messages!GetPinnedMessages \/ Messages!ClearPinnedMessages
    BY <2>2, SearchBegins DEF Messages!GetPinnedMessages, Messages!ClearPinnedMessages
  <2>3. CASE Messages!UploadFails \/ Messages!Refuse \/ Messages!Fails
    BY <2>3, FailKeeps DEF Messages!UploadFails, Messages!Refuse, Messages!Fails, Messages!Fail,
       Messages!OnError
  <2>4. CASE Messages!Resolved \/ Messages!GetOwnFails
    BY <2>4, FetchMoves DEF Messages!Resolved, Messages!GetOwnFails
  <2>5. CASE Messages!GetChannel
    BY <2>5, GetKeeps DEF Messages!GetChannel
  <2>6. CASE Messages!GetOwn
    <3>1. CASE op' = [op EXCEPT !.pc = "history"]
      BY <2>6, <3>1, FetchMoves DEF Messages!GetOwn
    <3>2. CASE op' = Messages!Fetched(op, Messages!Found(Messages!Own, op.ids))
      BY <2>6, <3>2, GetKeeps DEF Messages!GetOwn
    <3> QED BY <2>6, <3>1, <3>2 DEF Messages!GetOwn
  <2>7. CASE \/ Messages!GetHistoryAt \/ Messages!GetHistoryFails \/ Messages!Search \/ Messages!Listed \/ Messages!Upload
    BY <2>7, GetHistoryAtKeeps, GetHistoryFailsKeeps, SearchKeeps, ListedKeeps, UploadKeeps
  <2>8. CASE Messages!Serve \/ Messages!Lose \/ Messages!Other
    BY <2>8, ServeKeeps, LoseKeeps, OtherKeeps
  <2> QED
    BY <1>2, <2>1, <2>2, <2>3, <2>4, <2>5, <2>6, <2>7, <2>8 DEF Messages!Next
<1> QED
  BY <1>1, <1>2 DEF PartsNext, PipelineOnly, AuthOnly, partsVars

\* A call on messages does what it says and returns what it did, whatever others
\* do to the chats between its requests, and whether these are refused or their
\* answers are lost, for any chats, messages and pages (messages.go:150-203,
\* 350-409, 469-505, 929-953, 1077-1147).
THEOREM CallsTruthfulHolds == PartsSpec => []CallsTruthful
<1>1. MessagesInv => CallsTruthful
  BY DEF MessagesInv, Known, CallsTruthful
<1> QED
  BY MessagesBegin, MessagesKeep, <1>1, PTL DEF PartsSpec

-----------------------------------------------------------------------------
(* The limiter and the retries of requests. *)

USE IntervalAssumption, PolicyAssumption, FloodAssumption, RunAssumption

\* The limiter's last is the latest slot.
LastIsLatest == \A s \in slots : last # Never /\ s.time <= last

\* A request on its way to the server has an attempt left, has waited out
\* the last FLOOD_WAIT, and once past the limiter has a slot.
HasSlot(r, time) ==
  \E t \in slots : t.req = r /\ t.attempt = call[r].attempts /\ t.time <= time
OnItsWay(r) ==
  /\ call[r].pc \in {"new", "limit", "held", "send"} =>
       call[r].attempts <= RetryCount /\ call[r].notBefore <= now
  /\ call[r].pc = "held" => HasSlot(r, call[r].wake)
  /\ call[r].pc = "send" => HasSlot(r, now)
  /\ call[r].pc = "flooded" => call[r].notBefore <= call[r].wake

IInv == /\ TypeOK /\ LastIsLatest /\ SlotSpacing /\ AttemptsBounded
        /\ \A r \in Requests : OnItsWay(r)

\* A step that leaves a request alone keeps what is known of it, whatever
\* slots it adds and however much time passes.
LEMMA Frame ==
  ASSUME NEW r \in Requests, TypeOK, OnItsWay(r),
         call'[r] = call[r], slots \subseteq slots', now' \in Nat, now <= now'
  PROVE  OnItsWay(r)'
  <1>1. /\ now \in Nat /\ call[r].notBefore \in Nat /\ call[r].wake \in Nat
        /\ \A t \in slots : t.time \in Nat
    BY DEF TypeOK, Stamps
  <1>2. ASSUME call[r].pc = "held" PROVE HasSlot(r, call[r].wake)'
    BY <1>2 DEF OnItsWay, HasSlot
  <1>3. ASSUME call[r].pc = "send" PROVE HasSlot(r, now)'
    <2>1. PICK t \in slots : t.req = r /\ t.attempt = call[r].attempts /\ t.time <= now
      BY <1>3 DEF OnItsWay, HasSlot
    <2>2. t \in slots' /\ t.time <= now'
      BY <2>1, <1>1
    <2> QED
      BY <2>1, <2>2 DEF HasSlot
  <1>4. call[r].notBefore <= now => call[r].notBefore <= now'
    BY <1>1
  <1> QED
    BY <1>2, <1>3, <1>4 DEF OnItsWay

LEMMA InitIInv == Init => IInv
  <1> SUFFICES ASSUME Init PROVE IInv
    OBVIOUS
  <1>1. \A r \in Requests : call[r] = NewCall
    BY DEF Init
  <1>2. TypeOK
    <2>1. /\ now \in Nat /\ last = Never /\ slots = {} /\ sends = {}
          /\ call = [r \in Requests |-> NewCall]
      BY DEF Init
    <2>2. 0 \in 0 .. RetryCount + 1
      OBVIOUS
    <2>3. call \in [Requests ->
             [pc : {"new", "limit", "held", "send", "sent", "flooded", "done"},
              wake : Nat, attempts : 0 .. RetryCount + 1, notBefore : Nat,
              outcome : {"none", "ok", "error", "flood", "cancelled"}]]
      BY <2>1, <2>2 DEF NewCall
    <2>4. last = Never /\ slots \subseteq Stamps /\ sends \subseteq Stamps
      BY <2>1
    <2> QED
      BY <2>1, <2>3, <2>4 DEF TypeOK
  <1>3. \A r \in Requests : OnItsWay(r)
    <2>1. now = 0 /\ 0 <= RetryCount
      BY PolicyAssumption DEF Init
    <2> SUFFICES ASSUME NEW r \in Requests PROVE OnItsWay(r)
      OBVIOUS
    <2>2. /\ NewCall.pc = "new" /\ NewCall.attempts = 0
          /\ NewCall.notBefore = 0
      BY DEF NewCall
    <2>3. call[r] = NewCall
      BY <1>1
    <2>4. call[r].pc = "new" /\ call[r].attempts = 0 /\ call[r].notBefore = 0
      BY <2>2, <2>3
    <2> QED
      BY <2>1, <2>4 DEF OnItsWay
  <1> QED
    BY <1>2, <1>3 DEF Init, IInv, LastIsLatest, SlotSpacing, AttemptsBounded

\* The steps that only move one request on.
CallType == [pc : {"new", "limit", "held", "send", "sent", "flooded", "done"},
             wake : Nat, attempts : 0 .. RetryCount + 1, notBefore : Nat,
             outcome : {"none", "ok", "error", "flood", "cancelled"}]

LEMMA MoveOn ==
  ASSUME IInv, NEW r \in Requests, NEW c \in CallType,
         call' = [call EXCEPT ![r] = c], UNCHANGED <<now, last, slots, sends>>,
         OnItsWay(r)'
  PROVE  IInv'
  <1>1. TypeOK'
    BY DEF IInv, TypeOK, CallType
  <1>2. ASSUME NEW q \in Requests, q # r PROVE OnItsWay(q)'
    <2>1. call'[q] = call[q]
      BY <1>2 DEF IInv, TypeOK
    <2> QED
      BY <2>1, Frame DEF IInv, TypeOK
  <1>3. (LastIsLatest /\ SlotSpacing /\ AttemptsBounded)'
    BY DEF IInv, LastIsLatest, SlotSpacing, AttemptsBounded
  <1> QED
    BY <1>1, <1>2, <1>3 DEF IInv

LEMMA MovesIInv ==
  ASSUME IInv, NEW r \in Requests,
         Invoke(r) \/ Wake(r) \/ Cancel(r) \/ Answer(r) \/ Retry(r)
  PROVE  IInv'
  <1>1. TypeOK /\ OnItsWay(r) /\ call[r] \in CallType /\ now \in Nat
    BY DEF IInv, TypeOK, CallType
  <1>2. ASSUME Invoke(r) PROVE IInv'
    <2> DEFINE c == [call[r] EXCEPT !.pc = "limit"]
    <2>1. c \in CallType /\ c.pc = "limit" /\ c.attempts = call[r].attempts /\ c.notBefore = call[r].notBefore
      BY <1>1 DEF CallType
    <2>2. call' = [call EXCEPT ![r] = c] /\ UNCHANGED <<now, last, slots, sends>> /\ call[r].pc = "new"
      BY <1>2 DEF Invoke
    <2>3. call'[r] = c
      BY <2>2 DEF IInv, TypeOK
    <2> HIDE DEF c
    <2>4. OnItsWay(r)'
      BY <1>1, <2>1, <2>2, <2>3 DEF OnItsWay
    <2> QED
      BY <2>1, <2>2, <2>4, MoveOn
  <1>3. ASSUME Wake(r) PROVE IInv'
    <2> DEFINE c == [call[r] EXCEPT !.pc = "send"]
    <2>1. /\ c \in CallType /\ c.pc = "send" /\ c.attempts = call[r].attempts
          /\ c.notBefore = call[r].notBefore /\ c.wake = call[r].wake
      BY <1>1 DEF CallType
    <2>2. /\ call' = [call EXCEPT ![r] = c] /\ UNCHANGED <<now, last, slots, sends>>
          /\ call[r].pc = "held" /\ call[r].wake <= now
      BY <1>1, <1>3 DEF Wake, Due, CallType
    <2>3. call'[r] = c
      BY <2>2 DEF IInv, TypeOK
    <2> HIDE DEF c
    <2>4. HasSlot(r, now)'
      <3>1. PICK t \in slots : t.req = r /\ t.attempt = call[r].attempts /\ t.time <= call[r].wake
        BY <1>1, <2>2 DEF OnItsWay, HasSlot
      <3>2. t.time \in Nat /\ call[r].wake \in Nat
        BY <1>1 DEF CallType, TypeOK, Stamps
      <3>3. t.time <= now
        BY <3>1, <3>2, <2>2, <1>1
      <3> QED
        BY <3>1, <3>3, <2>1, <2>2, <2>3 DEF HasSlot
    <2>5. OnItsWay(r)'
      BY <1>1, <2>1, <2>2, <2>3, <2>4 DEF OnItsWay
    <2> QED
      BY <2>1, <2>2, <2>5, MoveOn
  <1>4. ASSUME NEW o \in {"ok", "error", "flood", "cancelled"}, Return(r, o),
               UNCHANGED <<now, last, slots, sends>>
        PROVE  IInv'
    <2> DEFINE c == [call[r] EXCEPT !.pc = "done", !.outcome = o]
    <2>1. c \in CallType /\ c.pc = "done"
      BY <1>1, <1>4 DEF CallType
    <2>2. call' = [call EXCEPT ![r] = c]
      BY <1>4 DEF Return
    <2>3. call'[r] = c
      BY <2>2 DEF IInv, TypeOK
    <2> HIDE DEF c
    <2>4. OnItsWay(r)'
      BY <2>1, <2>3 DEF OnItsWay
    <2> QED
      BY <2>1, <2>2, <2>4, <1>4, MoveOn
  <1>5. ASSUME Cancel(r) PROVE IInv'
    BY <1>4, <1>5 DEF Cancel
  <1>6. ASSUME AnswerResult(r) \/ AnswerError(r) PROVE IInv'
    BY <1>4, <1>6 DEF AnswerResult, AnswerError
  <1>7. ASSUME NEW secs \in Floods, AnswerFlood(r, secs) PROVE IInv'
    <2>0. PICK begins \in BOOLEAN :
            IF begins /\ secs <= MaxFlood
            THEN call' = [call EXCEPT ![r].pc = "flooded", ![r].wake = now + secs, ![r].notBefore = now + secs]
            ELSE Return(r, IF begins THEN "flood" ELSE "error")
      BY <1>7 DEF AnswerFlood
    <2>1. CASE begins /\ secs <= MaxFlood
      <3> DEFINE c == [call[r] EXCEPT !.pc = "flooded", !.wake = now + secs, !.notBefore = now + secs]
      <3>0. now + secs \in Nat
        BY <1>1, <1>7
      <3>1. c \in CallType /\ c.pc = "flooded" /\ c.wake = now + secs /\ c.notBefore = now + secs
        <4>1. PICK w \in Nat : w = now + secs
          BY <3>0
        <4>2. c = [call[r] EXCEPT !.pc = "flooded", !.wake = w, !.notBefore = w]
          BY <4>1
        <4>3. call[r] \in CallType
          BY <1>1
        <4> HIDE DEF c
        <4>4. c \in CallType
          BY <4>2, <4>3 DEF CallType
        <4>5. c.pc = "flooded" /\ c.wake = w /\ c.notBefore = w
          BY <4>2, <4>3 DEF CallType
        <4> QED
          BY <4>1, <4>4, <4>5
      <3>2. call' = [call EXCEPT ![r] = c] /\ UNCHANGED <<now, last, slots, sends>>
        BY <1>7, <2>0, <2>1 DEF AnswerFlood
      <3>3. call'[r] = c
        BY <3>2 DEF IInv, TypeOK
      <3> HIDE DEF c
      <3>4. now + secs \in Nat
        BY <1>1, <1>7
      <3>5. OnItsWay(r)'
        BY <3>1, <3>3, <3>4 DEF OnItsWay
      <3> QED
        BY <3>1, <3>2, <3>5, MoveOn
    <2>2. CASE ~(begins /\ secs <= MaxFlood)
      BY <1>4, <1>7, <2>0, <2>2 DEF AnswerFlood
    <2> QED
      BY <2>1, <2>2
  <1>8. ASSUME Retry(r) PROVE IInv'
    <2>1. CASE call[r].attempts < RetryCount + 1
      <3> DEFINE c == [call[r] EXCEPT !.pc = "limit"]
      <3>1. c \in CallType /\ c.pc = "limit" /\ c.attempts = call[r].attempts /\ c.notBefore = call[r].notBefore
        BY <1>1 DEF CallType
      <3>2. /\ call' = [call EXCEPT ![r] = c] /\ UNCHANGED <<now, last, slots, sends>>
            /\ call[r].pc = "flooded" /\ call[r].wake <= now
        BY <1>1, <1>8, <2>1 DEF Retry, Due, CallType
      <3>3. call'[r] = c
        BY <3>2 DEF IInv, TypeOK
      <3> HIDE DEF c
      <3>4. call[r].notBefore <= now /\ call[r].attempts <= RetryCount
        <4>1. call[r].notBefore <= call[r].wake
          BY <1>1, <3>2 DEF OnItsWay
        <4>2. call[r].notBefore \in Nat /\ call[r].wake \in Nat /\ call[r].attempts \in 0 .. RetryCount + 1
          BY <1>1 DEF CallType
        <4> QED
          BY <1>1, <2>1, <3>2, <4>1, <4>2
      <3>5. OnItsWay(r)'
        BY <3>1, <3>2, <3>3, <3>4 DEF OnItsWay
      <3> QED
        BY <3>1, <3>2, <3>5, MoveOn
    <2>2. CASE ~(call[r].attempts < RetryCount + 1)
      BY <1>4, <1>8, <2>2 DEF Retry
    <2> QED
      BY <2>1, <2>2
  <1> QED
    BY <1>2, <1>3, <1>5, <1>6, <1>7, <1>8 DEF Answer

LEMMA TakeSlotIInv ==
  ASSUME IInv, NEW r \in Requests, TakeSlot(r)
  PROVE  IInv'
  <1> DEFINE n == NextSlot
             t == [req |-> r, attempt |-> call[r].attempts, time |-> n]
  <1>1. /\ TypeOK /\ OnItsWay(r) /\ call[r] \in CallType /\ now \in Nat
        /\ last \in Nat \cup {Never} /\ call[r].pc = "limit"
    BY DEF IInv, TypeOK, CallType, TakeSlot
  <1>2. n \in Nat /\ now <= n /\ (last # Never => last + Interval <= n)
    BY <1>1 DEF NextSlot, Never
  <1>3. /\ last' = n /\ slots' = slots \cup {t} /\ now' = now /\ sends' = sends
        /\ call' = [call EXCEPT ![r].pc = IF n > now THEN "held" ELSE "send", ![r].wake = n]
    BY DEF TakeSlot, Stamp
  <1> HIDE DEF n
  <1>4. /\ call[r].attempts \in 0 .. RetryCount /\ call[r].notBefore <= now
        /\ call[r].notBefore \in Nat
    BY <1>1 DEF OnItsWay, CallType
  <1>5. t \in Stamps /\ t.req = r /\ t.attempt = call[r].attempts /\ t.time = n
    BY <1>2, <1>4 DEF Stamps
  <1>6. /\ call'[r] \in CallType
        /\ call'[r].pc = IF n > now THEN "held" ELSE "send"
        /\ call'[r].wake = n /\ call'[r].attempts = call[r].attempts
        /\ call'[r].notBefore = call[r].notBefore
    <2>1. call'[r] = [pc |-> IF n > now THEN "held" ELSE "send", wake |-> n,
                      attempts |-> call[r].attempts, notBefore |-> call[r].notBefore,
                      outcome |-> call[r].outcome]
      BY <1>1, <1>3 DEF TypeOK, CallType
    <2> QED
      BY <2>1, <1>1, <1>2 DEF CallType
  <1>7. call' \in [Requests -> CallType] /\ \A q \in Requests : q # r => call'[q] = call[q]
    BY <1>1, <1>3, <1>6 DEF TypeOK, CallType
  <1> HIDE DEF t
  <1>8. TypeOK'
    BY <1>1, <1>2, <1>3, <1>5, <1>7 DEF TypeOK, CallType
  <1>9. LastIsLatest'
    <2>1. \A s \in slots : s.time \in Nat /\ (last # Never /\ s.time <= last)
      BY <1>1 DEF IInv, LastIsLatest, TypeOK, Stamps
    <2>2. \A s \in slots : s.time <= n
      BY <1>1, <1>2, <2>1
    <2> QED
      BY <1>2, <1>3, <1>5, <2>2 DEF LastIsLatest, Never
  <1>10. SlotSpacing'
    <2>1. \A s \in slots : s.time \in Nat /\ (last # Never /\ s.time <= last)
      BY <1>1 DEF IInv, LastIsLatest, TypeOK, Stamps
    <2>2. \A s \in slots : t.time >= s.time + Interval
      BY <1>1, <1>2, <1>5, <2>1
    <2> QED
      BY <1>3, <2>2 DEF IInv, SlotSpacing
  <1>11. AttemptsBounded'
    BY <1>3 DEF IInv, AttemptsBounded
  <1>12. OnItsWay(r)'
    <2>1. HasSlot(r, call[r].wake)'
      BY <1>2, <1>3, <1>5, <1>6 DEF HasSlot
    <2>2. ASSUME ~(n > now) PROVE HasSlot(r, now)'
      <3>1. t.time <= now'
        BY <2>2, <1>1, <1>2, <1>3, <1>5
      <3> QED
        BY <3>1, <1>3, <1>5, <1>6 DEF HasSlot
    <2> QED
      BY <2>1, <2>2, <1>3, <1>4, <1>6 DEF OnItsWay
  <1>13. ASSUME NEW q \in Requests, q # r PROVE OnItsWay(q)'
    BY <1>1, <1>3, <1>7, <1>13, Frame DEF IInv
  <1> QED
    BY <1>8, <1>9, <1>10, <1>11, <1>12, <1>13 DEF IInv

LEMMA SendIInv ==
  ASSUME IInv, NEW r \in Requests, Send(r)
  PROVE  IInv'
  <1> DEFINE s == Stamp(r)
  <1>1. /\ TypeOK /\ OnItsWay(r) /\ call[r] \in CallType /\ now \in Nat /\ call[r].pc = "send"
    BY DEF IInv, TypeOK, CallType, Send
  <1>2. call[r].attempts \in 0 .. RetryCount /\ HasSlot(r, now)
    BY <1>1 DEF OnItsWay, CallType
  <1>3. s \in Stamps /\ s.req = r /\ s.attempt = call[r].attempts /\ s.time = now
    BY <1>1, <1>2 DEF Stamp, Stamps
  <1> HIDE DEF s
  <1>4. sends' = sends \cup {s} /\ slots' = slots /\ last' = last /\ now' = now
    BY DEF Send, s
  <1>5. call'[r] = [pc |-> "sent", wake |-> call[r].wake, attempts |-> call[r].attempts + 1,
                    notBefore |-> call[r].notBefore, outcome |-> call[r].outcome]
    BY <1>1 DEF Send, TypeOK, CallType
  <1>6. call'[r] \in CallType /\ call'[r].pc = "sent"
    BY <1>1, <1>2, <1>5 DEF CallType
  <1>7. call' \in [Requests -> CallType] /\ \A q \in Requests : q # r => call'[q] = call[q]
    BY <1>1, <1>6 DEF Send, TypeOK, CallType
  <1>8. TypeOK'
    BY <1>1, <1>3, <1>4, <1>7 DEF TypeOK, CallType
  <1>9. AttemptsBounded'
    <2>1. \E t \in slots : t.req = s.req /\ t.attempt = s.attempt /\ t.time <= s.time
      BY <1>2, <1>3 DEF HasSlot
    <2> QED
      BY <2>1, <1>2, <1>3, <1>4 DEF IInv, AttemptsBounded
  <1>10. (LastIsLatest /\ SlotSpacing)'
    BY <1>4 DEF IInv, LastIsLatest, SlotSpacing
  <1>11. OnItsWay(r)'
    BY <1>6 DEF OnItsWay
  <1>12. ASSUME NEW q \in Requests, q # r PROVE OnItsWay(q)'
    BY <1>1, <1>4, <1>7, <1>12, Frame DEF IInv
  <1> QED
    BY <1>8, <1>9, <1>10, <1>11, <1>12 DEF IInv

LEMMA TickIInv == ASSUME IInv, Tick PROVE IInv'
  <1>1. TypeOK /\ now \in Nat /\ now' = now + 1 /\ UNCHANGED <<last, call, slots, sends>>
    BY DEF IInv, TypeOK, Tick
  <1>2. TypeOK'
    BY <1>1 DEF TypeOK
  <1>3. ASSUME NEW r \in Requests PROVE OnItsWay(r)'
    BY <1>1, Frame DEF IInv
  <1>4. (LastIsLatest /\ SlotSpacing /\ AttemptsBounded)'
    BY <1>1 DEF IInv, LastIsLatest, SlotSpacing, AttemptsBounded
  <1> QED
    BY <1>2, <1>3, <1>4 DEF IInv

LEMMA NextIInv == IInv /\ [Next]_vars => IInv'
  <1> SUFFICES ASSUME IInv, [Next]_vars PROVE IInv'
    OBVIOUS
  <1>1. ASSUME NEW r \in Requests, Invoke(r) \/ Wake(r) \/ Cancel(r) \/ Answer(r) \/ Retry(r)
        PROVE  IInv'
    BY <1>1, MovesIInv
  <1>2. ASSUME NEW r \in Requests, TakeSlot(r) PROVE IInv'
    BY <1>2, TakeSlotIInv
  <1>3. ASSUME NEW r \in Requests, Send(r) PROVE IInv'
    BY <1>3, SendIInv
  <1>4. ASSUME Tick PROVE IInv'
    BY <1>4, TickIInv
  <1>5. ASSUME UNCHANGED vars PROVE IInv'
    <2>1. UNCHANGED <<now, last, call, slots, sends>>
      BY <1>5 DEF vars
    <2>2. TypeOK' /\ (LastIsLatest /\ SlotSpacing /\ AttemptsBounded)'
      BY <2>1 DEF IInv, TypeOK, LastIsLatest, SlotSpacing, AttemptsBounded
    <2>3. ASSUME NEW r \in Requests PROVE OnItsWay(r)'
      BY <2>1, Frame DEF IInv, TypeOK
    <2> QED
      BY <2>2, <2>3 DEF IInv
  <1> QED
    BY <1>1, <1>2, <1>3, <1>4, <1>5 DEF Next, Step

LEMMA Invariant == Spec => []IInv
  BY InitIInv, NextIInv, PTL DEF Spec

----------------------------------------------------------------------------
(* The variables keep their types; a request has used at most RetryCount + 1 *)
(* attempts.                                                                 *)
THEOREM TypeCorrect == Spec => []TypeOK
  <1>1. IInv => TypeOK
    BY DEF IInv
  <1> QED
    BY Invariant, <1>1, PTL

(* The limiter never gives two slots less than an interval apart, for any   *)
(* number of concurrent requests, retries and cancelled waits               *)
(* (middleware.go:189-201).                                                 *)
THEOREM SlotSpacingHolds == Spec => []SlotSpacing
  <1>1. IInv => SlotSpacing
    BY DEF IInv
  <1> QED
    BY Invariant, <1>1, PTL

(* Every attempt has a slot of its own and is not sent before it, and a     *)
(* request has at most RetryCount + 1 of them (protection.go:20-44).        *)
THEOREM AttemptsBoundedHolds == Spec => []AttemptsBounded
  <1>1. IInv => AttemptsBounded
    BY DEF IInv
  <1> QED
    BY Invariant, <1>1, PTL

(* No request is sent before the time that the last FLOOD_WAIT demanded     *)
(* (protection.go:33-40).                                                   *)
THEOREM FloodHonouredHolds == Spec => FloodHonoured
  <1>1. IInv /\ [Next]_vars => [\A r \in Requests : Send(r) => now >= call[r].notBefore]_vars
    <2> SUFFICES ASSUME IInv, NEW r \in Requests, Send(r) PROVE now >= call[r].notBefore
      OBVIOUS
    <2>1. call[r].pc = "send" /\ OnItsWay(r) /\ now \in Nat /\ call[r].notBefore \in Nat
      BY DEF Send, IInv, TypeOK
    <2> QED
      BY <2>1 DEF OnItsWay
  <1> QED
    BY Invariant, <1>1, PTL DEF Spec, FloodHonoured

=============================================================================
