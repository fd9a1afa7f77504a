----------------------------- MODULE MCHistory -----------------------------
(***************************************************************************)
(* What pages through a list on the server, checked in one run: the        *)
(* readers of a history (History, which this module extends), the dialogs, *)
(* the listings of a forum and the buffered iterator.  They share no       *)
(* state; the "subject" chosen at first is the one that runs, and the      *)
(* others stay where they begin.                                           *)
(*                                                                         *)
(* Four messages and pages of two: a chat of two full pages, of a full and *)
(* a short one, and pages that service messages shorten or empty.  Four    *)
(* dialogs and five posts, also by two: the dialogs of a page may all be   *)
(* skipped, and a forum may have one page more than the listing gives.     *)
(***************************************************************************)
EXTENDS History, FiniteSets

CONSTANTS Peers, Accounts, Params, MaxDate, MaxMoves,
          MaxPost,
          Items, MaxPage, Caps

VARIABLES
  subject,
  dialogs, iter, given, steady,
  posts, walk, shown, ever, stayed,
  it, fetched, taken, dropped, user

Dialogs == INSTANCE Dialogs WITH PageSize <- BatchSize
Topics  == INSTANCE Topics
Iter    == INSTANCE RequestIter

ASSUME ListsAssumption == Dialogs!ParametersOK /\ Topics!ParametersOK /\ Iter!ParametersOK

dialogVars == <<dialogs, iter, given, steady>>
topicVars  == <<posts, walk, shown, ever, stayed>>
iterVars   == <<it, fetched, taken, dropped, user>>
allVars == <<vars, subject, dialogVars, topicVars, iterVars>>

-----------------------------------------------------------------------------
(* The accounts: dialogs that are older the lower their number, at most two of
   which end in a service message or may be skipped, or one, and the oldest one
   is pinned. *)
Dialog(date, sort, message, pinned) == [sort |-> sort, date |-> date, message |-> message, pinned |-> pinned]
Odd == {<<"plain", FALSE>>, <<"migrated", TRUE>>, <<"hidden", TRUE>>}
SmallAccounts ==
  UNION {{[p \in Peers |-> IF p \in DOMAIN odd THEN Dialog(p, odd[p][1], odd[p][2], p = pin) ELSE Dialog(p, "plain", TRUE, p = pin)] :
            odd \in UNION {[S -> Odd] : S \in {T \in SUBSET Peers : Cardinality(T) <= 2 - pin}}} : pin \in {0, 1}}
Migrations == {[p \in Peers |-> Dialog(p, "migrated", TRUE, FALSE)]}

Asked(limit, ignore, date) == [Limit |-> limit, IgnoreMigrated |-> ignore, OffsetDate |-> date]
DialogParams == {Asked(0, TRUE, 0), Asked(3, FALSE, 0), Asked(0, FALSE, 4)}

-----------------------------------------------------------------------------
\* A chat, an account and a forum in which nothing has happened yet.
AllInit ==
  /\ subject \in {"history", "dialogs", "topics", "iter"}
  /\ Init
  /\ Dialogs!Init /\ (subject # "dialogs" => dialogs = (CHOOSE a \in Accounts : TRUE) /\ iter.params = CHOOSE p \in Params : TRUE)
  /\ Topics!Init /\ (subject # "topics" => posts = [i \in 1 .. MaxPost - 1 |-> "post"] /\ walk.how = "IterTopics")
  /\ Iter!Init /\ (subject # "iter" => it.limit = CHOOSE n \in Caps : TRUE)

HistoryOnly == UNCHANGED <<subject, dialogVars, topicVars, iterVars>>
DialogsOnly == UNCHANGED <<vars, subject, topicVars, iterVars>>
TopicsOnly  == UNCHANGED <<vars, subject, dialogVars, iterVars>>
AllNext ==
  \/ subject = "history" /\ Next /\ HistoryOnly
  \/ subject = "dialogs" /\ Dialogs!Next /\ DialogsOnly
  \/ subject = "topics" /\ Topics!Next /\ TopicsOnly
  \/ subject = "iter" /\ Iter!Next /\ UNCHANGED <<vars, subject, dialogVars, topicVars>>

\* The steps of a call, whichever part it belongs to.
Progress ==
  \/ subject = "history" /\ Step /\ HistoryOnly
  \/ subject = "dialogs" /\ Dialogs!Step /\ DialogsOnly
  \/ subject = "topics" /\ Topics!Step /\ TopicsOnly
AllSpec == AllInit /\ [][AllNext]_allVars /\ WF_allVars(Progress)

\* One part alone, for the runs of one property.
HistorySpec == AllInit /\ subject = "history" /\ [][AllNext]_allVars
DialogsSpec == AllInit /\ subject = "dialogs" /\ [][AllNext]_allVars /\ WF_allVars(Progress)

-----------------------------------------------------------------------------
\* What comes and goes between two pages makes no listing give anything twice or
\* leave out what stayed, except in the cases that each part names.
ListingsSound ==
  /\ Dialogs!TypeOK /\ Dialogs!GivenOnce /\ Dialogs!GivenAll
  /\ Topics!TypeOK /\ Topics!ShownOnce /\ Topics!MessagesWhole /\ Topics!TopicsWhole
  /\ Iter!TypeOK /\ Iter!ItemsInOrder /\ Iter!EndIsTheEnd

\* Every call that pages ends, since its offset goes down with every page
\* (history.go:167-169, topics.go:178-186, 284), that of the dialogs unless a
\* full page left it where it was (dialogs.go:435-441).
Busy ==
  CASE subject = "history" -> call.pc # "idle"
    [] subject = "dialogs" -> iter.pc # "idle" /\ ~iter.stuck
    [] subject = "topics"  -> walk.pc # "idle"
    [] subject = "iter"    -> FALSE
CallsEnd == Busy ~> ~Busy

\* dialogs.go:208: "The dialog channel is closed when iteration is complete or
\* an error occurs".
ChannelIsClosed == Dialogs!ChannelIsClosed
=============================================================================
