-------------------------------- MODULE Login --------------------------------
(***************************************************************************)
(* How a session is authorised (client/auth.go): by a QR code, which       *)
(* another device scans while QRLoginWait polls, or by a code, perhaps     *)
(* with a password.                                                        *)
(*                                                                         *)
(* The server is external.  It hands out login tokens, each for a while,   *)
(* and answers a poll with the same token or another one until somebody    *)
(* has scanned one that is still valid; then with success, or with the     *)
(* order to import a token at another data centre.  Time passes in         *)
(* seconds, and a sleeping wait wakes at any time after its second.        *)
(***************************************************************************)
EXTENDS Integers, FiniteSets

CONSTANTS Life,     \* how long a token is valid
          MaxTime,  \* bound: time in which no wait sleeps passes only before it
          MaxTokens \* bound: the tokens and codes that the server hands out

ParametersOK == Life \in Nat /\ MaxTime \in Nat /\ MaxTokens \in Nat

VARIABLES
  now,
  tokens,  \* the server: the tokens so far, each with its expiry
  scanned, \* the server: a valid token was scanned
  account, \* the server: the session is "out", needs a "password", is "in"
  qr,      \* the QR login: its step, the token in the URL, the current token
  codes,   \* the server: the codes sent so far, and which may sign in
  valid,
  answer   \* what the last call of the program returned

vars == <<now, tokens, scanned, account, qr, codes, valid, answer>>

Nobody == 0
Token(n) == CHOOSE t \in tokens : t.n = n
NoQR == [pc |-> "none", url |-> 0, token |-> 0, expires |-> 0, wake |-> 0]

Init ==
  /\ now = 0
  /\ tokens = {}
  /\ scanned = FALSE
  /\ account = "out"
  /\ qr = NoQR
  /\ codes = 0
  /\ valid = {}
  /\ answer = "none"

\* AuthExportLoginToken while nobody has scanned: some valid token, or a new one.
Export == {t \in tokens : now <= t.expires}
          \cup (IF Cardinality(tokens) < MaxTokens THEN {[n |-> Cardinality(tokens) + 1, expires |-> now + Life]} ELSE {})

----------------------------------------------------------------------------
\* The program shows the URL of the token, and keeps the token itself.
QRLoginStart ==
  /\ qr.pc = "none" /\ ~scanned /\ account = "out"
  /\ \E t \in Export :
       /\ tokens' = tokens \cup {t}
       /\ qr' = [pc |-> "shown", url |-> t.n, token |-> t.n, expires |-> t.expires, wake |-> 0]
  /\ UNCHANGED <<now, scanned, account, codes, valid, answer>>

QRReturn(result) == qr' = NoQR /\ answer' = result

\* QRLoginWait, and every turn of its loop, looks at the deadline first.
QRLoginWait ==
  /\ qr.pc = "shown"
  /\ answer' = "none"
  /\ qr' = [qr EXCEPT !.pc = "poll"]
  /\ UNCHANGED <<now, tokens, scanned, account, codes, valid>>
TimedOut ==
  /\ qr.pc = "poll" /\ now > qr.expires
  /\ QRReturn("error")
  /\ UNCHANGED <<now, tokens, scanned, account, codes, valid>>
Cancelled ==
  /\ qr.pc \in {"poll", "sleep"}
  /\ QRReturn("error")
  /\ UNCHANGED <<now, tokens, scanned, account, codes, valid>>
PollFails ==
  /\ qr.pc = "poll" /\ now <= qr.expires
  /\ QRReturn("error")
  /\ UNCHANGED <<now, tokens, scanned, account, codes, valid>>
PollWaiting ==
  /\ qr.pc = "poll" /\ now <= qr.expires /\ ~scanned
  /\ \E t \in Export :
       /\ tokens' = tokens \cup {t}
       /\ qr' = [qr EXCEPT !.pc = "sleep", !.token = t.n, !.expires = t.expires, !.wake = now + 1]
  /\ UNCHANGED <<now, scanned, account, codes, valid, answer>>
PollIgnoresScan ==
  /\ qr.pc = "poll" /\ now <= qr.expires /\ scanned
  /\ qr' = [qr EXCEPT !.pc = "sleep", !.wake = now]
  /\ UNCHANGED <<now, tokens, scanned, account, codes, valid, answer>>
PollSuccess ==
  /\ qr.pc = "poll" /\ now <= qr.expires /\ scanned
  /\ account' = "in"
  /\ QRReturn("ok")
  /\ UNCHANGED <<now, tokens, scanned, codes, valid>>
PollMigrate ==
  /\ qr.pc = "poll" /\ now <= qr.expires /\ scanned
  /\ qr' = [qr EXCEPT !.pc = "import"]
  /\ UNCHANGED <<now, tokens, scanned, account, codes, valid, answer>>
\* QRLoginAccept: only success is no error.
QRLoginAccept ==
  /\ qr.pc = "import"
  /\ \/ account' = "in" /\ QRReturn("ok")
     \/ account' = account /\ QRReturn("error")
  /\ UNCHANGED <<now, tokens, scanned, codes, valid>>
Wake ==
  /\ qr.pc = "sleep" /\ now >= qr.wake
  /\ qr' = [qr EXCEPT !.pc = "poll"]
  /\ UNCHANGED <<now, tokens, scanned, account, codes, valid, answer>>

\* Somebody scans the code on the screen, the one of the URL.
Scan ==
  /\ qr.url # Nobody /\ ~scanned
  /\ now <= Token(qr.url).expires
  /\ scanned' = TRUE
  /\ UNCHANGED <<now, tokens, account, qr, codes, valid, answer>>

----------------------------------------------------------------------------
\* The calls of a login by code; a cancelled or replaced code signs nobody in.
Called == UNCHANGED <<now, tokens, scanned, qr>>
SendCodeRequest ==
  /\ codes < MaxTokens /\ account = "out"
  /\ codes' = codes + 1 /\ valid' = {codes + 1}
  /\ answer' = "code"
  /\ UNCHANGED account /\ Called
ResendCode(h) ==
  /\ h \in valid /\ codes < MaxTokens
  /\ codes' = codes + 1 /\ valid' = (valid \ {h}) \cup {codes + 1}
  /\ answer' = "code"
  /\ UNCHANGED account /\ Called
CancelCode(h) ==
  /\ valid' = valid \ {h}
  /\ answer' = "ok out"
  /\ UNCHANGED <<account, codes>> /\ Called
\* SignUp asks for the same code.
SignIn(h) ==
  /\ h \in valid /\ account = "out"
  /\ valid' = valid \ {h}
  /\ \/ account' = "in" /\ answer' = "ok"
     \/ account' = "password" /\ answer' = "error"
  /\ UNCHANGED codes /\ Called
SignInStale(h) ==
  /\ h \notin valid
  /\ answer' = "error"
  /\ UNCHANGED <<account, codes, valid>> /\ Called
CheckPassword ==
  /\ account = "password"
  /\ \/ account' = "in" /\ answer' = "ok"
     \/ account' = account /\ answer' = "error"
  /\ UNCHANGED <<codes, valid>> /\ Called
SignOut ==
  /\ account' = "out" /\ scanned' = FALSE
  /\ answer' = "ok out"
  /\ UNCHANGED <<now, tokens, qr, codes, valid>>

\* What the program is told of the session, if the request is answered.
IsUserAuthorized == account = "in"

----------------------------------------------------------------------------
Tick ==
  /\ now < MaxTime \/ (qr.pc = "sleep" /\ now < qr.wake)
  /\ now' = now + 1
  /\ UNCHANGED <<tokens, scanned, account, qr, codes, valid, answer>>

WaitStep ==
  \/ TimedOut \/ PollFails \/ PollWaiting \/ PollSuccess \/ PollMigrate
  \/ QRLoginAccept \/ Wake

Next ==
  \/ QRLoginStart \/ QRLoginWait \/ WaitStep \/ Cancelled \/ Scan
  \/ SendCodeRequest \/ CheckPassword \/ SignOut
  \/ \E h \in 1 .. codes : ResendCode(h) \/ CancelCode(h) \/ SignIn(h) \/ SignInStale(h)
  \/ Tick

Spec == Init /\ [][Next]_vars /\ WF_vars(WaitStep) /\ WF_vars(Tick)
=============================================================================
