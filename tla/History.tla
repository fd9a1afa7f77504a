------------------------------ MODULE History ------------------------------
(***************************************************************************)
(* The readers of a chat's history, newest message first: ExportHistory,   *)
(* IterHistoryBatches, StreamHistoryBatches, the MessageIterator that      *)
(* IterMessages returns, and ExportHistoryJSONL, which appends to a file   *)
(* and keeps a state file to resume from.  They share one way of paging:   *)
(* ask for the messages below an offset, keep those that are no service    *)
(* messages, and take the id of the last one kept as the next offset.      *)
(*                                                                         *)
(* Messages arrive and are deleted while a call runs.  Calls come one      *)
(* after the other, each from the newest message; ids stand for dates as   *)
(* well, since both grow together.  The readers' Reverse options and the   *)
(* media that ExportHistoryJSONL may download are left out.                *)
(***************************************************************************)
EXTENDS Integers, Sequences

CONSTANTS MaxId,     \* bound on the number of messages of the chat
          BatchSize, \* messages per request
          Limits,    \* values of Limit; 0 is none
          MinDates   \* values of MinDate; 0 is none

ASSUME MaxIdAssumption == MaxId \in Nat
ASSUME BatchSizeAssumption == BatchSize \in Nat \ {0}
ASSUME LimitsAssumption == Limits \subseteq Nat /\ MinDates \subseteq Nat

VARIABLES
  chat,    \* per id given out: a message, a service message, or gone
  call,    \* the call that runs, or the last one
  got,     \* the messages it has given to its caller or written, in order
  buf,     \* IterMessages: messages not yet given; JSONL: lines not yet in the file
  file,    \* the lines of the output file of ExportHistoryJSONL
  state,   \* the content of its state file
  present, \* history: the messages in the chat ever since the call began
  pages    \* history: the pages it met that service messages made "short"
           \*          or left "empty"

vars == <<chat, call, got, buf, file, state, present, pages>>
output == <<file, state>>

Torn     == 0 \* a line that a crash has cut
NoState  == [last |-> 0, total |-> 0]
Elements(s) == {s[i] : i \in 1 .. Len(s)}
Descending(s) == \A i, j \in 1 .. Len(s) : i < j => s[i] > s[j]

Readers == {"ExportHistory", "IterHistoryBatches", "StreamHistoryBatches", "IterMessages"}
Capped  == {"ExportHistory", "ExportHistoryJSONL"} \* these cut the last batch at the limit

\* The combinations of parameters that a reader has.
Options(how) == [how : {how},
                 limit : IF how = "StreamHistoryBatches" THEN {0} ELSE Limits,
                 minDate : IF how \in {"ExportHistory", "IterHistoryBatches"} THEN MinDates ELSE {0}]

Call(pc, option, offset, stored) ==
  [pc |-> pc, how |-> option.how, limit |-> option.limit, minDate |-> option.minDate,
   offset |-> offset, minID |-> stored.last, total |-> stored.total, last |-> FALSE,
   result |-> "none"]

Return(result) == call' = [call EXCEPT !.pc = "idle", !.result = result]

----------------------------------------------------------------------------
(* The server: messages.getHistory. *)

Visible == {m \in 1 .. Len(chat) : /\ chat[m] # "gone"
                                   /\ call.offset = 0 \/ m < call.offset
                                   /\ m > call.minID}

\* A page holds the newest messages asked for, and less than n only at the end.
IsPage(p, n) ==
  /\ Elements(p) \subseteq Visible /\ Len(p) <= n
  /\ \A m \in Visible \ Elements(p) : Len(p) = n /\ \A i \in 1 .. Len(p) : m < p[i]

Pages == {p \in UNION {[1 .. n -> 1 .. MaxId] : n \in 0 .. BatchSize} : Descending(p)}

NewMessage(sort) ==
  /\ Len(chat) < MaxId
  /\ chat' = Append(chat, sort)
  /\ UNCHANGED <<call, got, buf, output, present, pages>>

DeleteMessage(m) ==
  /\ chat[m] # "gone"
  /\ chat' = [chat EXCEPT ![m] = "gone"]
  /\ present' = present \ {m}
  /\ UNCHANGED <<call, got, buf, output, pages>>

----------------------------------------------------------------------------
Init ==
  /\ chat = << >>
  /\ call = [Call("idle", [how |-> "ExportHistory", limit |-> 0, minDate |-> 0], 0, NoState)
               EXCEPT !.result = "error"]
  /\ got = << >> /\ buf = << >> /\ file = << >>
  /\ state = NoState
  /\ present = {} /\ pages = {}

\* Messages that the call may still deliver before its limit, which counts
\* those that interrupted exports wrote.  It is tested after each message.
Room == IF call.total + Len(got) < call.limit THEN call.limit - call.total - Len(got) ELSE 1

\* The iterator asks for no more than it may still give.
PageSize == IF call.how = "IterMessages" /\ call.limit > 0 /\ Room < BatchSize
            THEN Room ELSE BatchSize

\* extractMessages keeps the messages of a page in their order.
Batch(p, b) ==
  /\ Elements(b) = {m \in Elements(p) : chat[m] = "message"}
  /\ pages' = pages \cup (IF Len(b) = Len(p) THEN {} ELSE
                          IF b = << >> THEN {"short", "empty"} ELSE {"short"})

\* Seeded faults: the next page begins one too early, or two too late.
CursorIncluded(b) == b[Len(b)] + 1
CursorSkips(b)    == b[Len(b)] - 1

Cursor(b) == b[Len(b)]

Advance(b, pc) == call' = [call EXCEPT !.pc = pc, !.offset = Cursor(b)]

\* The first k messages of the batch are not older than MinDate.
Young(b, k) == \A i \in 1 .. Len(b) : i <= k <=> b[i] >= call.minDate

LimitReached(n) == call.limit > 0 /\ n >= Room

\* Seeded fault: the batch that reaches the limit is kept as a whole.
CutWhole(n) == n

Cut(n) == IF call.how \in Capped /\ LimitReached(n) THEN Room ELSE n

Begin(option) ==
  /\ call.pc = "idle"
  /\ call' = Call("fetch", option, 0, NoState)
  /\ got' = << >> /\ buf' = << >>
  /\ present' = {m \in 1 .. Len(chat) : chat[m] = "message"}
  /\ pages' = {}
  /\ UNCHANGED <<chat, output>>

\* Seeded fault: after an empty batch the same page is asked for again.
GetNothingAgain(p, b) ==
  /\ Batch(p, b) /\ b = << >>
  /\ UNCHANGED <<chat, call, got, buf, output, present>>

\* An empty batch ends every loop.
GetNothing(p, b) ==
  /\ Batch(p, b) /\ b = << >>
  /\ IF call.how = "ExportHistoryJSONL"
     THEN call' = [call EXCEPT !.pc = "finish"]
     ELSE Return("ok")
  /\ UNCHANGED <<chat, got, buf, output, present>>

\* A failed request ends every call but the iterator's, which asks again.
GetFails ==
  /\ call.pc = "fetch" /\ call.how # "IterMessages"
  /\ Return("error")
  /\ UNCHANGED <<chat, got, buf, output, present, pages>>

ExportHistory(p, b, k) ==
  /\ call.how = "ExportHistory"
  /\ Batch(p, b) /\ b # << >> /\ Young(b, k)
  /\ got' = got \o SubSeq(b, 1, Cut(k))
  /\ IF LimitReached(k) \/ k < Len(b) \/ Len(b) < BatchSize THEN Return("ok") ELSE Advance(b, "fetch")
  /\ UNCHANGED <<chat, buf, output, present>>

\* The callback sees whole batches, and may stop the iteration.
IterHistoryBatches(p, b, k, more) ==
  /\ call.how = "IterHistoryBatches"
  /\ Batch(p, b) /\ b # << >> /\ Young(b, k)
  /\ got' = got \o SubSeq(b, 1, k)
  /\ IF k > 0 /\ ~more THEN Return("stopped") ELSE
     IF LimitReached(k) \/ k < BatchSize THEN Return("ok") ELSE Advance(b, "fetch")
  /\ UNCHANGED <<chat, buf, output, present>>

\* The batch is sent, unless the context ends before somebody receives it.
StreamHistoryBatches(p, b, sent) ==
  /\ call.how = "StreamHistoryBatches"
  /\ Batch(p, b) /\ b # << >>
  /\ got' = IF sent THEN got \o b ELSE got
  /\ IF ~sent THEN Return("error") ELSE
     IF Len(b) < BatchSize THEN Return("ok") ELSE Advance(b, "fetch")
  /\ UNCHANGED <<chat, buf, output, present>>

FetchBatch(p, b) ==
  /\ call.how = "IterMessages"
  /\ Batch(p, b) /\ b # << >>
  /\ buf' = b
  /\ Advance(b, "serve")
  /\ UNCHANGED <<chat, got, output, present>>

\* Next gives one message; the next page is fetched when none is left.
NextMessage ==
  /\ call.pc = "serve"
  /\ got' = Append(got, Head(buf))
  /\ buf' = Tail(buf)
  /\ IF LimitReached(1) THEN Return("ok")
     ELSE call' = [call EXCEPT !.pc = IF Len(buf) = 1 THEN "fetch" ELSE "serve"]
  /\ UNCHANGED <<chat, output, present, pages>>

\* The caller need not ask the iterator again.
Abandon ==
  /\ call.how = "IterMessages" /\ call.pc \in {"fetch", "serve"}
  /\ Return("stopped")
  /\ UNCHANGED <<chat, got, buf, output, present, pages>>

----------------------------------------------------------------------------
(* ExportHistoryJSONL, always with the same Output and StateFile. *)

\* Without a state the file is truncated; with one, only newer messages than
\* the last one exported, and no newer ones than that, are asked for.
BeginJSONL(option) ==
  /\ call.pc = "idle"
  /\ call' = Call("fetch", option, IF state = NoState THEN 0 ELSE state.last + 1, state)
  /\ file' = IF state = NoState THEN << >> ELSE file
  /\ got' = << >> /\ buf' = << >>
  /\ present' = {m \in 1 .. Len(chat) : chat[m] = "message"}
  /\ pages' = {}
  /\ UNCHANGED <<chat, state>>

\* The lines of a batch up to the limit go to the buffer.
WriteLines(p, b) ==
  LET n == Cut(Len(b)) IN
  /\ call.how = "ExportHistoryJSONL"
  /\ Batch(p, b) /\ b # << >>
  /\ got' = got \o SubSeq(b, 1, n) /\ buf' = SubSeq(b, 1, n)
  /\ call' = [call EXCEPT !.pc = IF LimitReached(Len(b)) THEN "finish" ELSE "flush",
                          !.offset = Cursor(b), !.last = Len(b) < BatchSize]
  /\ UNCHANGED <<chat, output, present>>

\* Seeded fault: the state is saved although the lines are still in the buffer.
FlushLater ==
  /\ call.pc = "flush"
  /\ UNCHANGED <<file, buf>>
  /\ call' = [call EXCEPT !.pc = "save"]
  /\ UNCHANGED <<chat, got, state, present, pages>>

Flush ==
  /\ call.pc = "flush"
  /\ file' = file \o buf /\ buf' = << >>
  /\ call' = [call EXCEPT !.pc = "save"]
  /\ UNCHANGED <<chat, got, state, present, pages>>

\* Seeded fault: the id of the last message is not recorded.
SaveWithoutId(saved) ==
  /\ call.pc = "save"
  /\ state' = IF saved THEN [last |-> 0, total |-> call.total + Len(got)] ELSE state
  /\ call' = [call EXCEPT !.pc = IF call.last THEN "finish" ELSE "fetch"]
  /\ UNCHANGED <<chat, got, buf, file, present, pages>>

\* The state file is replaced as a whole, or an error is ignored.
Save(saved) ==
  /\ call.pc = "save"
  /\ state' = IF saved THEN [last |-> got[Len(got)], total |-> call.total + Len(got)] ELSE state
  /\ call' = [call EXCEPT !.pc = IF call.last THEN "finish" ELSE "fetch"]
  /\ UNCHANGED <<chat, got, buf, file, present, pages>>

Finish(removed) ==
  /\ call.pc = "finish"
  /\ file' = file \o buf /\ buf' = << >>
  /\ state' = IF removed THEN NoState ELSE state
  /\ Return("ok")
  /\ UNCHANGED <<chat, got, present, pages>>

\* Of the lines in the buffer, some reach the file, the last one perhaps in part.
Break(n, torn) ==
  file' = file \o SubSeq(buf, 1, n) \o (IF torn /\ n < Len(buf) THEN <<Torn>> ELSE << >>)

WriteFails(n, torn) ==
  /\ call.pc \in {"flush", "finish"}
  /\ Break(n, torn)
  /\ Return("error")
  /\ UNCHANGED <<chat, got, buf, state, present, pages>>

Crash(n, torn) ==
  /\ call.pc # "idle" /\ call.how = "ExportHistoryJSONL"
  /\ Break(n, torn)
  /\ Return("crash")
  /\ UNCHANGED <<chat, got, buf, state, present, pages>>

----------------------------------------------------------------------------
Read(p, b) ==
  \/ GetNothing(p, b)
  \/ \E k \in 0 .. Len(b) : \/ ExportHistory(p, b, k)
                            \/ \E more \in BOOLEAN : IterHistoryBatches(p, b, k, more)
  \/ \E sent \in BOOLEAN : StreamHistoryBatches(p, b, sent)
  \/ FetchBatch(p, b)
  \/ WriteLines(p, b)

Step ==
  \/ /\ call.pc = "fetch"
     /\ \E p \in Pages : IsPage(p, PageSize) /\ \E b \in Pages : Read(p, b)
  \/ NextMessage
  \/ Flush
  \/ \E done \in BOOLEAN : Save(done) \/ Finish(done)

Fault ==
  \/ GetFails \/ Abandon
  \/ \E n \in 0 .. Len(buf), torn \in BOOLEAN : WriteFails(n, torn) \/ Crash(n, torn)

Next ==
  \/ \E how \in Readers : \E option \in Options(how) : Begin(option)
  \/ \E option \in Options("ExportHistoryJSONL") : BeginJSONL(option)
  \/ Step
  \/ Fault
  \/ \E sort \in {"message", "service"} : NewMessage(sort)
  \/ \E m \in 1 .. Len(chat) : DeleteMessage(m)

Spec == Init /\ [][Next]_vars

----------------------------------------------------------------------------
TypeOK ==
  /\ chat \in Seq({"message", "service", "gone"}) /\ Len(chat) <= MaxId
  /\ call \in [pc : {"idle", "fetch", "serve", "flush", "save", "finish"},
               how : Readers \cup {"ExportHistoryJSONL"}, limit : Nat, minDate : Nat,
               offset : 0 .. MaxId + 1, minID : 0 .. MaxId, total : Nat, last : BOOLEAN,
               result : {"none", "ok", "error", "stopped", "crash"}]
  /\ got \in Seq(1 .. MaxId) /\ buf \in Seq(1 .. MaxId) /\ file \in Seq(0 .. MaxId)
  /\ state \in [last : 1 .. MaxId, total : Nat] \cup {NoState}
  /\ present \subseteq 1 .. MaxId
  /\ pages \subseteq {"short", "empty"}

\* Whatever arrives or is deleted meanwhile, no reader gives a message twice
\* or out of order, and the output file has none twice or out of order either,
\* across all the calls that wrote to it; a torn line can only be the last.  This
\* is the order of the code (every loop begins at OffsetID 0 and pages downwards),
\* against the comment of StreamHistoryBatches, "oldest-first when batchSize > 0"
\* (history.go:291-293).
NewestFirst == Descending(got) /\ Descending(file)

Whole == IF call.how = "IterMessages" THEN "empty" \notin pages ELSE pages = {}
Given == IF call.how = "ExportHistoryJSONL" THEN Elements(file) ELSE Elements(got)

\* A reader that ends with success below its limit, and that service messages
\* did not mislead, has given every message, not older than MinDate, that was
\* there from its beginning to its end (an interrupted export excepted).
NothingSkipped ==
  (call.result = "ok" /\ Whole /\ call.total = 0 /\ (call.limit = 0 \/ Len(got) < call.limit)) =>
    \A m \in present : m >= call.minDate => m \in Given

\* Limit bounds what is given; IterHistoryBatches may exceed it by less than a
\* batch, since it hands over whole ones.
LimitRespected ==
  call.limit > 0 => IF call.how = "IterHistoryBatches"
                    THEN Len(got) < call.limit + BatchSize
                    ELSE Len(got) <= call.limit

\* The state file never runs ahead of the output: its last id is the line of
\* the output that its count says (history.go:208-220).
StateBehindFile ==
  state # NoState => state.total \in 1 .. Len(file) /\ file[state.total] = state.last

\* history.go:74: "When params.StateFile is set the export can be resumed
\* after interruption."  An export that ends with success, resumed or not,
\* leaves a file with every message that is older than its newest line.
ResumedIsWhole ==
  (call.how = "ExportHistoryJSONL" /\ call.result = "ok" /\ Whole /\ call.limit = 0) =>
    \A m \in present : file # << >> /\ m < file[1] => m \in Elements(file)

=============================================================================
