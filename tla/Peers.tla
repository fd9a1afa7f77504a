-------------------------------- MODULE Peers --------------------------------
(***************************************************************************)
(* How users, basic groups and channels are numbered, and how a number     *)
(* becomes the peer of a request: resolvePeer of client/messages.go with   *)
(* the cache of access hashes of client/client.go, and the conversions of  *)
(* utils/utils.go.  Pure functions.                                        *)
(*                                                                         *)
(* An entity, as the server shows it, is a record [kind, id, hash], kind   *)
(* "user", "chat" or "channel"; a peer is [kind, id]; what a request names *)
(* is [kind, id, hash].  The cache maps numbers to hashes, 0 is no hash.   *)
(***************************************************************************)
EXTENDS Integers, FiniteSetsExt, Functions

CONSTANTS Mark, \* 1 000 000 000 000, with which a channel is marked
          Edge  \* 999 999 999: numbers below -Edge are channels

ParametersOK == Mark \in Nat /\ Edge \in Nat /\ Edge < Mark

Input(kind, id, hash) == [kind |-> kind, id |-> id, hash |-> hash]
Self   == Input("self", 0, 0)
Refused == Input("refused", 0, 0)     \* an error instead of a peer

(* cacheEntities: the users and the channels of an update, of which those
   without a hash leave what is cached alone. *)
CacheKey(e) == IF e.kind = "channel" THEN -e.id - Mark ELSE e.id
Hashed(entities) == {e \in entities : e.kind \in {"user", "channel"} /\ e.hash # 0}
CacheWithEmpty(cache, entities) ==
    LET new == {e \in entities : e.kind \in {"user", "channel"}}
    IN  [n \in DOMAIN cache \cup {CacheKey(e) : e \in new} |->
            IF \E e \in new : CacheKey(e) = n THEN (CHOOSE e \in new : CacheKey(e) = n).hash ELSE cache[n]]
cacheEntities(cache, entities) ==
    [n \in DOMAIN cache \cup {CacheKey(e) : e \in Hashed(entities)} |->
        IF \E e \in Hashed(entities) : CacheKey(e) = n
        THEN (CHOOSE e \in Hashed(entities) : CacheKey(e) = n).hash ELSE cache[n]]
accessHashForPeer(cache, n) == IF n \in DOMAIN cache THEN cache[n] ELSE 0

channelIDFromPeerID(n) == -n - Mark

(* The number decides the kind. *)
resolvePeer(cache, n) ==
    CASE n = 0     -> Self
      [] n > 0     -> Input("user", n, accessHashForPeer(cache, n))
      [] n < -Edge -> Input("channel", channelIDFromPeerID(n), accessHashForPeer(cache, n))
      [] OTHER     -> Input("chat", -n, 0)

(* These two do not look at the cache. *)
resolveInputUser(n) == IF n = 0 THEN Self ELSE Input("user", n, 0)
resolveInputChannel(n) ==
    CASE n < -Edge -> Input("channel", channelIDFromPeerID(n), 0)
      [] n > 0     -> Input("channel", n, 0)
      [] OTHER     -> Refused

-----------------------------------------------------------------------------
(* utils.go: chats are never marked, and every negative number is a channel. *)
GetPeerID(p, addMark) == IF p.kind = "channel" /\ addMark THEN -Mark - p.id ELSE p.id
GetPeer(n) == IF n < 0 THEN [kind |-> "channel", id |-> -(n + Mark)] ELSE [kind |-> "user", id |-> n]

GetInputPeer(e, self, allowSelf) ==
    CASE e.kind = "user" /\ self /\ allowSelf -> Self
      [] e.kind = "chat"                      -> Input("chat", e.id, 0)
      [] OTHER                                -> Input(e.kind, e.id, e.hash)
GetInputChannel(e)    == IF e.kind = "channel" THEN Input("channel", e.id, e.hash) ELSE Refused
GetInputUser(e, self) ==
    CASE e.kind # "user" -> Refused
      [] e.kind = "user" /\ self -> Self
      [] OTHER -> Input("user", e.id, e.hash)
IsChannel(e) == e.kind = "channel"
=============================================================================
