------------------------------ MODULE Dialogs ------------------------------
(***************************************************************************)
(* IterDialogs, and GetDialogs on top of it (client/dialogs.go): one       *)
(* goroutine pages through the dialogs of the account, newest top message  *)
(* first, skips what it has seen or cannot resolve, and sends the others   *)
(* to a channel that its caller drains.                                    *)
(*                                                                         *)
(* The server is external.  It finds a page by the date of the offset; the *)
(* message id and the peer of the offset only tell equal dates apart, and  *)
(* dates here differ.  Pinned dialogs come first on the first page, no     *)
(* more than it holds, and may be shown again where their date puts them.  *)
(* Dialogs move while a call runs: up when a message arrives, down when    *)
(* the top message is deleted, and away.                                   *)
(***************************************************************************)
EXTENDS Integers, FiniteSets, FiniteSetsExt, Functions, Sequences

CONSTANTS Peers,    \* the peers of the account
          Accounts, \* the contents with which it may begin
          Params,   \* the parameters with which IterDialogs is called
          PageSize, \* dialogs per request
          MaxDate,  \* bound on the dates of top messages
          MaxMoves  \* bound on the dialogs that move during a call

\* A limit of 0 or less is none.  The dates of top messages differ, and the
\* pinned dialogs fill at most one page.
ParametersOK ==
  /\ IsFiniteSet(Peers) /\ PageSize \in Nat \ {0} /\ MaxDate \in Nat
  /\ Params \subseteq [Limit : Int, IgnoreMigrated : BOOLEAN, OffsetDate : 0 .. MaxDate]
  /\ \A a \in Accounts :
       /\ a \in [Peers -> [sort : {"plain", "migrated", "hidden"}, date : 0 .. MaxDate, message : BOOLEAN, pinned : BOOLEAN]]
       /\ \A p, q \in Peers : a[p].date = a[q].date => p = q \/ a[p].date = 0
       /\ Cardinality({p \in Peers : a[p].pinned}) <= PageSize

VARIABLES
  dialogs, \* per peer its dialog; date 0 if there is none
  iter,    \* the goroutine
  given,   \* the peers whose dialogs it has sent, in order
  steady   \* history: the peers whose dialogs have not moved

vars == <<dialogs, iter, given, steady>>

Exists(p) == dialogs[p].date # 0
Pinned    == {p \in Peers : Exists(p) /\ dialogs[p].pinned}
NoDialog  == [sort |-> "plain", date |-> 0, message |-> FALSE, pinned |-> FALSE]
Return(result) == iter' = [iter EXCEPT !.pc = "idle", !.result = result]

Init ==
  /\ dialogs \in Accounts
  /\ \E params \in Params :
       iter = [pc |-> "fetch", params |-> params, offset |-> params.OffsetDate, seen |-> {}, page |-> <<>>,
               more |-> TRUE, last |-> NoDialog, result |-> "none", stuck |-> FALSE, misled |-> FALSE]
  /\ given = <<>>
  /\ steady = Peers

Limit == IF iter.params.Limit <= 0 \/ iter.params.Limit - Len(given) >= PageSize
         THEN PageSize ELSE iter.params.Limit - Len(given)

----------------------------------------------------------------------------
(* messages.getDialogs.  It may ignore the date with which a call begins. *)

Before(date) == {p \in Peers : Exists(p) /\ (date = 0 \/ dialogs[p].date < date)}
ByDate(S) == [i \in 1 .. Cardinality(S) |->
                CHOOSE p \in S : Cardinality({q \in S : dialogs[q].date > dialogs[p].date}) = i - 1]
Listings ==
  IF iter.offset = 0 THEN {ByDate(Pinned) \o ByDate(Before(0) \ Pinned)}
  ELSE {ByDate(S) : S \in {Before(iter.offset), Before(iter.offset) \ Pinned}
                          \cup (IF iter.offset = iter.params.OffsetDate THEN {Before(0)} ELSE {})}

Shown(p) == [peer |-> p, dialog |-> dialogs[p]]
GetPage ==
  /\ iter.pc = "fetch"
  /\ \E listing \in Listings :
       LET page == [i \in 1 .. (IF Len(listing) < Limit THEN Len(listing) ELSE Limit) |-> Shown(listing[i])]
       IN  iter' = [iter EXCEPT !.pc = "page", !.page = page, !.last = NoDialog,
                                !.more = Len(page) >= Limit /\ Cardinality(Before(0)) > Limit]
  /\ UNCHANGED <<dialogs, given, steady>>

GetPageFails ==
  /\ iter.pc = "fetch"
  /\ Return("error")
  /\ UNCHANGED <<dialogs, given, steady>>

----------------------------------------------------------------------------
\* A "hidden" dialog is that of a folder, or its peer is not in the answer.
\* Whether a dialog was seen is asked first; the skipped count as seen, too.
Refused(e) ==
  \/ e.dialog.sort = "hidden"
  \/ iter.params.IgnoreMigrated /\ e.dialog.sort = "migrated"
  \/ iter.params.OffsetDate # 0 /\ e.dialog.message /\ e.dialog.date > iter.params.OffsetDate
RefusedOnly(e) == Refused(e) \* seeded fault: the dialogs seen before are not remembered
Skips(e) == e.peer \in iter.seen \/ Refused(e)

Skip ==
  /\ iter.pc = "page" /\ iter.page # <<>>
  /\ Skips(Head(iter.page))
  /\ iter' = [iter EXCEPT !.page = Tail(@), !.seen = @ \cup {Head(iter.page).peer}]
  /\ UNCHANGED <<dialogs, given, steady>>

\* The channel takes the dialog; lastMsg is nil after a service message.
Give ==
  LET e == Head(iter.page)
      left == [iter EXCEPT !.page = Tail(@), !.seen = @ \cup {e.peer},
                           !.last = IF e.dialog.message THEN e.dialog ELSE NoDialog]
  IN /\ iter.pc = "page" /\ iter.page # <<>> /\ ~Skips(e)
     /\ given' = Append(given, e.peer)
     /\ iter' = IF iter.params.Limit > 0 /\ Len(given') >= iter.params.Limit
                THEN [left EXCEPT !.pc = "idle", !.result = "ok"] ELSE left
     /\ UNCHANGED <<dialogs, steady>>

\* ... or the context ends before there is room in it.
Cancelled ==
  /\ iter.pc = "page" /\ iter.page # <<>> /\ ~Skips(Head(iter.page))
  /\ Return("error")
  /\ UNCHANGED <<dialogs, given, steady>>

\* The offset is the last dialog given on the page, if it has a message.
NextOffset == IF iter.last = NoDialog THEN iter.offset ELSE iter.last.date

NextPage ==
  /\ iter.pc = "page" /\ iter.page = <<>>
  /\ IF ~iter.more THEN Return("ok")
     ELSE iter' = [iter EXCEPT !.pc = "fetch", !.offset = NextOffset,
                               !.stuck = @ \/ iter.last = NoDialog,
                               !.misled = @ \/ (iter.offset = 0 /\ iter.last.pinned)]
  /\ UNCHANGED <<dialogs, given, steady>>

----------------------------------------------------------------------------
\* A message arrives in p, or those that it begins with are deleted.
Moves(p) ==
  /\ iter.pc # "idle" /\ p \in steady /\ Cardinality(Peers \ steady) < MaxMoves
  /\ steady' = steady \ {p}
  /\ UNCHANGED <<iter, given>>
Dates == {dialogs[p].date : p \in Peers}
MessageArrives(p, message) ==
  /\ Max(Dates) < MaxDate
  /\ dialogs' = [dialogs EXCEPT ![p].date = Max(Dates) + 1, ![p].message = message]
  /\ Moves(p)
MessagesDeleted(p) ==
  \E date \in 0 .. dialogs[p].date - 1 :
    /\ date \notin Dates \ {0}
    /\ dialogs' = [dialogs EXCEPT ![p].date = date]
    /\ Moves(p)

Step == GetPage \/ Skip \/ Give \/ NextPage
Next ==
  \/ Step \/ GetPageFails \/ Cancelled
  \/ \E p \in Peers : MessagesDeleted(p) \/ \E message \in BOOLEAN : MessageArrives(p, message)

\* The goroutine runs on, and its caller drains the channel.
Spec == Init /\ [][Next]_vars /\ WF_vars(Step)

----------------------------------------------------------------------------
TypeOK ==
  /\ iter.pc \in {"fetch", "page", "idle"} /\ iter.result \in {"none", "ok", "error"}
  /\ iter.offset \in 0 .. MaxDate /\ iter.seen \subseteq Peers
  /\ given \in Seq(Peers) /\ Len(iter.page) <= PageSize

\* A dialog is given once, also if it moves down or is pinned and is shown again
\* (dialogs.go:353-356), and no more than the limit are.
GivenOnce ==
  /\ IsInjective(given)
  /\ iter.params.Limit > 0 => Len(given) <= iter.params.Limit

\* A call without a limit that ends with success has given every dialog asked
\* for that has not moved meanwhile, wherever others moved.  A first page whose
\* last dialog given is a pinned one is excluded: its date is no place in the
\* list, and the next page may begin far behind it.
AskedFor(p) ==
  /\ Exists(p) /\ dialogs[p].sort # "hidden"
  /\ iter.params.IgnoreMigrated => dialogs[p].sort # "migrated"
  /\ iter.params.OffsetDate # 0 => ~dialogs[p].pinned /\ dialogs[p].date < iter.params.OffsetDate
GivenAll ==
  iter.result = "ok" /\ iter.params.Limit <= 0 /\ ~iter.misled =>
    \A p \in steady : AskedFor(p) => p \in Range(given)

\* dialogs.go:208: "The dialog channel is closed when iteration is complete or
\* an error occurs": in an account that stays as it is, the iteration completes.
ChannelIsClosed == (steady = Peers /\ iter.pc # "idle") ~> (iter.pc = "idle" \/ steady # Peers)
=============================================================================
