--------------------------- MODULE RequestPipeline ---------------------------
(***************************************************************************)
(* The request middlewares of a client: protectionMiddleware, which the    *)
(* client always installs first, around RateLimitMiddleware, as a user     *)
(* installs it in Options.  Every attempt of the retry loop of the first   *)
(* passes the second.  RetryMiddleware is the same loop with another       *)
(* parameter list, but for two things: it finds the wait anywhere in the   *)
(* text of an error, and with a negative maxRetries it returns nil without *)
(* a request (middleware.go:110).                                          *)
(*                                                                         *)
(* The requests of several goroutines run at the same time.  The limiter's *)
(* section under mu is one step.  A sleeping goroutine runs again when its *)
(* timer has fired or at any later time, since neither timers nor the      *)
(* scheduler promise more.  The server is external: it answers with a      *)
(* result, a FLOOD_WAIT or another error.                                  *)
(***************************************************************************)
EXTENDS Integers

CONSTANTS Requests,   \* calls of the client's API
          Interval,   \* time.Second / requestsPerSecond
          RetryCount, \* policy.RetryCount
          MaxFlood,   \* policy.MaxFloodWaitSeconds
          Floods,     \* the FLOOD_WAIT seconds that the server answers
          MaxTime     \* time in which nobody sleeps passes only before it

ASSUME IntervalAssumption == Interval \in Nat \ {0}
ASSUME PolicyAssumption == RetryCount \in Nat /\ MaxFlood \in Nat
ASSUME FloodAssumption == Floods \subseteq Nat \ {0}
ASSUME RunAssumption == MaxTime \in Nat

VARIABLES
  now,   \* the time
  last,  \* the limiter's last, or Never
  call,  \* per request: its progress
  slots, \* history: the slots that the limiter has given
  sends  \* history: the attempts that were sent

vars == <<now, last, call, slots, sends>>

Never == -1

NewCall == [pc |-> "new", wake |-> 0, attempts |-> 0, notBefore |-> 0, outcome |-> "none"]

Stamp(r) == [req |-> r, attempt |-> call[r].attempts, time |-> now]

Asleep(r) == call[r].pc \in {"held", "flooded"}
Due(r)    == Asleep(r) /\ now >= call[r].wake

Return(r, outcome) ==
  call' = [call EXCEPT ![r].pc = "done", ![r].outcome = outcome]

----------------------------------------------------------------------------
Init ==
  /\ now   = 0
  /\ last  = Never
  /\ call  = [r \in Requests |-> NewCall]
  /\ slots = {}
  /\ sends = {}

\* The client invokes the chain.
Invoke(r) ==
  /\ call[r].pc = "new"
  /\ call' = [call EXCEPT ![r].pc = "limit"]
  /\ UNCHANGED <<now, last, slots, sends>>

\* The time of the next slot: now, unless the last one was too recent.
NextSlot == IF last # Never /\ now < last + Interval THEN last + Interval ELSE now

\* Seeded fault: the limiter remembers the time of the call, not the slot.
TakeSlotAtNow(r) ==
  /\ call[r].pc = "limit"
  /\ last' = now
  /\ slots' = slots \cup {[Stamp(r) EXCEPT !.time = NextSlot]}
  /\ call' = [call EXCEPT ![r].pc = IF NextSlot > now THEN "held" ELSE "send",
                          ![r].wake = NextSlot]
  /\ UNCHANGED <<now, sends>>

\* The limiter reserves the next slot; a request whose slot is in the future
\* waits for it.
TakeSlot(r) ==
  /\ call[r].pc = "limit"
  /\ last' = NextSlot
  /\ slots' = slots \cup {[Stamp(r) EXCEPT !.time = NextSlot]}
  /\ call' = [call EXCEPT ![r].pc = IF NextSlot > now THEN "held" ELSE "send",
                          ![r].wake = NextSlot]
  /\ UNCHANGED <<now, sends>>

\* Seeded fault: the timer is missed unless the goroutine runs in time.
WakeOnTime(r) ==
  /\ call[r].pc = "held"
  /\ now = call[r].wake
  /\ call' = [call EXCEPT ![r].pc = "send"]
  /\ UNCHANGED <<now, last, slots, sends>>

Wake(r) ==
  /\ call[r].pc = "held"
  /\ Due(r)
  /\ call' = [call EXCEPT ![r].pc = "send"]
  /\ UNCHANGED <<now, last, slots, sends>>

\* The caller's context ends a wait of either middleware; the slot is lost.
Cancel(r) ==
  /\ Asleep(r)
  /\ Return(r, "cancelled")
  /\ UNCHANGED <<now, last, slots, sends>>

Send(r) ==
  /\ call[r].pc = "send"
  /\ call'  = [call EXCEPT ![r].pc = "sent", ![r].attempts = @ + 1]
  /\ sends' = sends \cup {Stamp(r)}
  /\ UNCHANGED <<now, last, slots>>

AnswerResult(r) ==
  /\ call[r].pc = "sent"
  /\ Return(r, "ok")
  /\ UNCHANGED <<now, last, slots, sends>>

\* Any other error leaves the loop.
AnswerError(r) ==
  /\ call[r].pc = "sent"
  /\ Return(r, "error")
  /\ UNCHANGED <<now, last, slots, sends>>

\* Seeded fault: the wait is taken in another unit, and is over at once.
AnswerFloodUnit(r, secs) ==
  /\ call[r].pc = "sent"
  /\ IF secs <= MaxFlood
     THEN call' = [call EXCEPT ![r].pc = "flooded", ![r].wake = now,
                               ![r].notBefore = now + secs]
     ELSE Return(r, "flood")
  /\ UNCHANGED <<now, last, slots, sends>>

\* A FLOOD_WAIT within the policy puts the request to sleep for that time, if the
\* text of the error begins with it; with anything before it, the text is not
\* recognised, and the error is one like any other (protection.go:54-63).
AnswerFlood(r, secs) ==
  /\ call[r].pc = "sent"
  /\ \E begins \in BOOLEAN :
       IF begins /\ secs <= MaxFlood
       THEN call' = [call EXCEPT ![r].pc = "flooded", ![r].wake = now + secs,
                                 ![r].notBefore = now + secs]
       ELSE Return(r, IF begins THEN "flood" ELSE "error")
  /\ UNCHANGED <<now, last, slots, sends>>

\* Seeded fault: the loop counts retries and forgets the first attempt.
RetryOneMore(r) ==
  /\ call[r].pc = "flooded"
  /\ Due(r)
  /\ IF call[r].attempts <= RetryCount + 1
     THEN call' = [call EXCEPT ![r].pc = "limit"]
     ELSE Return(r, "flood")
  /\ UNCHANGED <<now, last, slots, sends>>

\* After the sleep the loop goes on, if it has attempts left.
Retry(r) ==
  /\ call[r].pc = "flooded"
  /\ Due(r)
  /\ IF call[r].attempts < RetryCount + 1
     THEN call' = [call EXCEPT ![r].pc = "limit"]
     ELSE Return(r, "flood")
  /\ UNCHANGED <<now, last, slots, sends>>

Tick ==
  /\ now < MaxTime \/ \E r \in Requests : Asleep(r) /\ now < call[r].wake
  /\ now' = now + 1
  /\ UNCHANGED <<last, call, slots, sends>>

Answer(r) == AnswerResult(r) \/ AnswerError(r) \/ \E s \in Floods : AnswerFlood(r, s)
Step(r)   == TakeSlot(r) \/ Wake(r) \/ Send(r) \/ Retry(r)

Next ==
  \/ \E r \in Requests : Invoke(r) \/ Step(r) \/ Answer(r) \/ Cancel(r)
  \/ Tick

Spec == Init /\ [][Next]_vars

\* Goroutines that can run do, time passes, and the server answers; nobody
\* has to make a call or to cancel one.
FairSpec ==
  /\ Spec
  /\ WF_vars(Tick)
  /\ \A r \in Requests : WF_vars(Step(r)) /\ WF_vars(Answer(r))

----------------------------------------------------------------------------
Stamps == [req : Requests, attempt : 0 .. RetryCount, time : Nat]

TypeOK ==
  /\ now \in Nat
  /\ last \in Nat \cup {Never}
  /\ call \in [Requests -> [pc : {"new", "limit", "held", "send", "sent", "flooded", "done"},
                            wake : Nat, attempts : 0 .. RetryCount + 1, notBefore : Nat,
                            outcome : {"none", "ok", "error", "flood", "cancelled"}]]
  /\ slots \subseteq Stamps
  /\ sends \subseteq Stamps

\* Two slots that the limiter gives, to whatever requests and attempts, are
\* an interval apart, cancelled waits included (middleware.go:189-201).
SlotSpacing ==
  \A s, t \in slots : s # t => s.time >= t.time + Interval \/ t.time >= s.time + Interval

\* No request is sent more than RetryCount + 1 times, and each attempt takes
\* one slot and is sent no earlier than it (protection.go:20-27).
AttemptsBounded ==
  /\ \A s \in sends : s.attempt \in 0 .. RetryCount
  /\ \A s \in sends : \E t \in slots :
       t.req = s.req /\ t.attempt = s.attempt /\ t.time <= s.time

\* A request is not sent again before the time that the server demanded has
\* passed (protection.go:33-40).
FloodHonoured == [][\A r \in Requests : Send(r) => now >= call[r].notBefore]_vars

\* Every call that was made returns.
EveryCallReturns == \A r \in Requests : call[r].pc # "new" ~> call[r].pc = "done"

=============================================================================
