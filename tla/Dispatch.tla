------------------------------ MODULE Dispatch ------------------------------
(***************************************************************************)
(* How updates reach event handlers: MCUBClient.HandleUpdates, the         *)
(* Dispatcher it calls for each update, and the calls of MCUBClient that   *)
(* edit the lists of handlers and middlewares meanwhile.                   *)
(*                                                                         *)
(* The edits hold the client's mu.  A dispatch holds no lock: it copies    *)
(* the header of the handler list once, and reads the length of the        *)
(* middleware list, and then each element, from the list as it is at that  *)
(* moment.  Handlers and middlewares are only appended, or all middlewares *)
(* cut off at once, so sequences stand for the slices; a racing read of a  *)
(* slice returns the list before the write or after it.                    *)
(*                                                                         *)
(* The Dispatcher's own HandleUpdatesClass is the case in which every kind *)
(* of update is routed (to Raw at last) and no entities are cached.        *)
(* Handlers are the user's: each call returns, fails or panics, and what a *)
(* handler does to the lists is a step between two of the dispatch.        *)
(***************************************************************************)
EXTENDS Integers, Sequences

CONSTANTS Callers,     \* goroutines in which gotd calls HandleUpdates
          Kinds,       \* kinds of updates
          Routed,      \* those that the client's dispatch turns into events
          Handlers,    \* event handlers
          Accepts,     \* the kinds that the filter of each handler lets pass
          Middlewares, \* event middlewares
          Recovers,    \* those that recover from panics
          Peers,       \* users and channels with an access hash
          Batches,     \* update containers: the updates and their entities
          MaxList      \* bound on the lengths of the lists

ASSUME KindAssumption ==
  /\ Routed \subseteq Kinds
  /\ Accepts \in [Handlers -> SUBSET Kinds]
  /\ \A b \in Batches : b.updates \in Seq(Kinds) /\ b.peers \subseteq Peers
ASSUME RecoverAssumption == Recovers \subseteq Middlewares
ASSUME ListAssumption == MaxList \in Nat

VARIABLES
  handlers,  \* d.handlers
  mws,       \* d.middlewares
  clientMws, \* c.eventMiddlewares
  peerCache, \* the peers whose hash c.peerCache holds
  call,      \* per caller: where its HandleUpdates is
  owed,      \* history: per caller: the handler calls that its updates demand
  ran,       \* history: per caller: the handler calls it has made, in order
  built      \* history: per caller: d.middlewares when it began to build the
             \*          chain, and whether they were cut off since

lists == <<handlers, mws, clientMws>>
vars  == <<handlers, mws, clientMws, peerCache, call, owed, ran, built>>

\* update: the update it is at; sub: the handler it is at, of the first len;
\* i and chain: the middleware it reads next and those it has read.
Begun(pc, updates, peers) ==
  [pc |-> pc, updates |-> updates, peers |-> peers, update |-> 1,
   len |-> 0, sub |-> 1, i |-> 0, chain |-> << >>, result |-> "none"]
Idle == Begun("idle", << >>, {})

Kind(c)    == call[c].updates[call[c].update]
Matches(c) == Kind(c) \in Accepts[handlers[call[c].sub]]
This(c)    == <<call[c].update, call[c].sub, handlers[call[c].sub]>>
Elements(list) == {list[i] : i \in 1 .. Len(list)}

Return(c, result) ==
  call' = [call EXCEPT ![c].pc = "idle", ![c].result = result]

----------------------------------------------------------------------------
Init ==
  /\ handlers  = << >>
  /\ mws       = << >>
  /\ clientMws = << >>
  /\ peerCache = {}
  /\ call  = [c \in Callers |-> Idle]
  /\ owed  = [c \in Callers |-> {}]
  /\ ran   = [c \in Callers |-> << >>]
  /\ built = [c \in Callers |-> [mws |-> << >>, cut |-> FALSE]]

\* Seeded fault: the entities are not cached.
HandleUpdatesUncached(c, b) ==
  /\ call[c].pc = "idle"
  /\ UNCHANGED peerCache
  /\ call' = [call EXCEPT ![c] = Begun("update", b.updates, b.peers)]
  /\ owed' = [owed EXCEPT ![c] = {}]
  /\ ran'  = [ran  EXCEPT ![c] = << >>]
  /\ UNCHANGED <<lists, built>>

\* HandleUpdates caches the entities of a container and takes its updates.
HandleUpdates(c, b) ==
  /\ call[c].pc = "idle"
  /\ peerCache' = peerCache \cup b.peers
  /\ call' = [call EXCEPT ![c] = Begun("update", b.updates, b.peers)]
  /\ owed' = [owed EXCEPT ![c] = {}]
  /\ ran'  = [ran  EXCEPT ![c] = << >>]
  /\ UNCHANGED <<lists, built>>

HandleUpdatesReturn(c) ==
  /\ call[c].pc = "update"
  /\ call[c].update > Len(call[c].updates)
  /\ Return(c, "ok")
  /\ UNCHANGED <<lists, peerCache, owed, ran, built>>

\* dispatch has no event for an update of another kind.
Unrouted(c) ==
  /\ call[c].pc = "update"
  /\ call[c].update <= Len(call[c].updates)
  /\ Kind(c) \notin Routed
  /\ call' = [call EXCEPT ![c].update = @ + 1]
  /\ UNCHANGED <<lists, peerCache, owed, ran, built>>

\* Seeded fault: the loop leaves out the last handler.
DispatchAllButLast(c) ==
  /\ call[c].pc = "update"
  /\ call[c].update <= Len(call[c].updates)
  /\ Kind(c) \in Routed
  /\ call' = [call EXCEPT ![c].pc = "sub", ![c].len = Len(handlers) - 1, ![c].sub = 1]
  /\ UNCHANGED <<lists, peerCache, owed, ran, built>>

\* Dispatch ranges over the handlers that there are now.
Dispatch(c) ==
  /\ call[c].pc = "update"
  /\ call[c].update <= Len(call[c].updates)
  /\ Kind(c) \in Routed
  /\ call' = [call EXCEPT ![c].pc = "sub", ![c].len = Len(handlers), ![c].sub = 1]
  /\ owed' = [owed EXCEPT ![c] = @ \cup
                {<<call[c].update, j, handlers[j]>> :
                   j \in {k \in 1 .. Len(handlers) : Kind(c) \in Accepts[handlers[k]]}}]
  /\ UNCHANGED <<lists, peerCache, ran, built>>

\* Seeded fault: the loop asks for the length of the list in every turn.
MoreLive(c) == call[c].sub <= Len(handlers)

More(c) == call[c].sub <= call[c].len

\* Seeded fault: a filter that fails ends the dispatch.
FilteredReturns(c) ==
  /\ call[c].pc = "sub"
  /\ More(c)
  /\ ~Matches(c)
  /\ call' = [call EXCEPT ![c].pc = "update", ![c].update = @ + 1]
  /\ UNCHANGED <<lists, peerCache, owed, ran, built>>

Filtered(c) ==
  /\ call[c].pc = "sub"
  /\ More(c)
  /\ ~Matches(c)
  /\ call' = [call EXCEPT ![c].sub = @ + 1]
  /\ UNCHANGED <<lists, peerCache, owed, ran, built>>

\* buildChain begins at the last middleware ...
BuildChain(c) ==
  /\ call[c].pc = "sub"
  /\ More(c)
  /\ Matches(c)
  /\ call'  = [call  EXCEPT ![c].pc = "build", ![c].i = Len(mws), ![c].chain = << >>]
  /\ built' = [built EXCEPT ![c] = [mws |-> mws, cut |-> FALSE]]
  /\ UNCHANGED <<lists, peerCache, owed, ran>>

\* Seeded fault: the last middleware becomes the outermost one.
ReadMiddlewareLastOut(c) ==
  /\ call[c].pc = "build"
  /\ call[c].i \in 1 .. Len(mws)
  /\ call' = [call EXCEPT ![c].i = @ - 1, ![c].chain = Append(@, mws[call[c].i])]
  /\ UNCHANGED <<lists, peerCache, owed, ran, built>>

\* ... and wraps what it has in one after the other, up to the first ...
ReadMiddleware(c) ==
  /\ call[c].pc = "build"
  /\ call[c].i \in 1 .. Len(mws)
  /\ call' = [call EXCEPT ![c].i = @ - 1, ![c].chain = <<mws[call[c].i]>> \o @]
  /\ UNCHANGED <<lists, peerCache, owed, ran, built>>

\* ... or panics with an index out of range, if the list has been cut.
ReadPanics(c) ==
  /\ call[c].pc = "build"
  /\ call[c].i > Len(mws)
  /\ Return(c, "panic")
  /\ UNCHANGED <<lists, peerCache, owed, ran, built>>

\* The chain runs; some middleware may answer for the handler.  An error or a
\* panic that no middleware recovers ends HandleUpdates, its batch with it.
RunChain(c, outcome) ==
  /\ call[c].pc = "build"
  /\ call[c].i = 0
  /\ ran' = [ran EXCEPT ![c] = Append(@, This(c))]
  /\ IF outcome = "ok" \/ (outcome = "panic" /\ Elements(call[c].chain) \cap Recovers # {})
     THEN call' = [call EXCEPT ![c].pc = "sub", ![c].sub = @ + 1, ![c].chain = << >>]
     ELSE Return(c, outcome)
  /\ UNCHANGED <<lists, peerCache, owed, built>>

DispatchReturn(c) ==
  /\ call[c].pc = "sub"
  /\ ~More(c)
  /\ call' = [call EXCEPT ![c].pc = "update", ![c].update = @ + 1]
  /\ UNCHANGED <<lists, peerCache, owed, ran, built>>

----------------------------------------------------------------------------
(* The edits, each of which is one section under c.mu. *)

AddEventHandler(h) ==
  /\ Len(handlers) < MaxList
  /\ handlers' = Append(handlers, h)
  /\ UNCHANGED <<mws, clientMws, peerCache, call, owed, ran, built>>

AddEventMiddleware(m) ==
  /\ Len(mws) < MaxList /\ Len(clientMws) < MaxList
  /\ mws'       = Append(mws, m)
  /\ clientMws' = Append(clientMws, m)
  /\ UNCHANGED <<handlers, peerCache, call, owed, ran, built>>

\* The pointers of all functions compare as equal, so that every middleware
\* is taken for the one to remove; the client's own list is left as it is.
RemoveEventMiddleware ==
  /\ mws'   = << >>
  /\ built' = [c \in Callers |-> [built[c] EXCEPT !.cut = TRUE]]
  /\ UNCHANGED <<handlers, clientMws, peerCache, call, owed, ran>>

\* Removal by index removes from the client's list, and from it only.
RemoveEventMiddlewareAt(index) ==
  /\ clientMws' = SubSeq(clientMws, 1, index - 1) \o SubSeq(clientMws, index + 1, Len(clientMws))
  /\ UNCHANGED <<handlers, mws, peerCache, call, owed, ran, built>>

Edit ==
  \/ \E h \in Handlers : AddEventHandler(h)
  \/ \E m \in Middlewares : AddEventMiddleware(m)
  \/ RemoveEventMiddleware
  \/ \E index \in 1 .. Len(clientMws) : RemoveEventMiddlewareAt(index)

Step(c) ==
  \/ HandleUpdatesReturn(c) \/ Unrouted(c)
  \/ Dispatch(c) \/ Filtered(c) \/ DispatchReturn(c)
  \/ BuildChain(c) \/ ReadMiddleware(c) \/ ReadPanics(c)
  \/ \E outcome \in {"ok", "error", "panic"} : RunChain(c, outcome)

Next ==
  \/ Edit
  \/ \E c \in Callers : Step(c) \/ \E b \in Batches : HandleUpdates(c, b)

Spec == Init /\ [][Next]_vars

----------------------------------------------------------------------------
TypeOK ==
  /\ handlers \in Seq(Handlers)
  /\ mws \in Seq(Middlewares) /\ clientMws \in Seq(Middlewares)
  /\ peerCache \subseteq Peers
  /\ call \in [Callers -> [pc : {"idle", "update", "sub", "build"}, updates : Seq(Kinds),
                           peers : SUBSET Peers, update : Nat, len : Nat, sub : Nat, i : Nat,
                           chain : Seq(Middlewares), result : {"none", "ok", "error", "panic"}]]
  /\ owed \in [Callers -> SUBSET (Nat \X Nat \X Handlers)]
  /\ ran \in [Callers -> Seq(Nat \X Nat \X Handlers)]
  /\ built \in [Callers -> [mws : Seq(Middlewares), cut : BOOLEAN]]

Precedes(x, y) == x[1] < y[1] \/ (x[1] = y[1] /\ x[2] < y[2])

\* A batch makes each handler call at most once, update by update and in the
\* order of registration, and only calls of handlers that were registered when
\* the dispatch of the update began: one that is added meanwhile, by the
\* handler that runs or by another goroutine, waits for the next update
\* (events.go:70-82, client.go:490-514).
CallsInOrder ==
  \A c \in Callers :
    /\ \A i \in 1 .. Len(ran[c]) : ran[c][i] \in owed[c]
    /\ \A i, j \in 1 .. Len(ran[c]) : i < j => Precedes(ran[c][i], ran[c][j])

\* HandleUpdates returns nil only when every update of the batch has reached
\* every handler that was registered, and lets it pass, when its turn came.
OkMeansAll ==
  \A c \in Callers :
    call[c].result = "ok" => owed[c] = {ran[c][i] : i \in 1 .. Len(ran[c])}

\* While nobody removes middlewares, a chain holds those that there were when
\* its building began, the first added outermost, and building it does not
\* panic, whatever is added meanwhile (events.go:84-95).
ChainAsRegistered ==
  \A c \in Callers : (call[c].pc = "build" /\ ~built[c].cut) =>
    /\ call[c].i <= Len(mws)
    /\ call[c].chain = SubSeq(built[c].mws, call[c].i + 1, Len(built[c].mws))

\* When a handler runs, the access hashes of the entities that came with its
\* update are in the cache (client.go:492-494, 500-502).
HashesFirst ==
  \A c \in Callers : call[c].pc = "build" => call[c].peers \subseteq peerCache

=============================================================================
