--------------------------- MODULE ClientLifecycle ---------------------------
(***************************************************************************)
(* A client from New on: the calls of Run under way, the protection mode   *)
(* and policy, the proxy and the connections dialled through it            *)
(* (client/client.go, types/protection.go).  Every accessor takes c.mu for *)
(* a whole step.  What New bakes into the transport is never replaced: its *)
(* middlewares and its dialer.                                             *)
(*                                                                         *)
(* A policy is named by the mode it belongs to, or is a member of Custom.  *)
(* The transport of gotd is external: while a Run goes on it dials, again  *)
(* after every broken connection, and Run waits for a dial before it ends. *)
(***************************************************************************)
EXTENDS Integers, FiniteSets

CONSTANTS Runs,     \* calls of Run and Connect
          Custom,   \* custom policies
          Proxies,  \* proxy configurations, [type, id]
          MaxDials  \* bound: connections dialled

VARIABLES
  baked,     \* the transport: the policy of its protection middleware, its proxy
  running,   \* the calls under way, and the proxy that was set when they began
  connected, \* c.connected
  mode, policy, proxy,
  conn,      \* the dial under way
  dials,     \* the connections so far
  open,      \* the sockets that are open
  given      \* history: the sockets that the dialer returned

vars == <<baked, running, connected, mode, policy, proxy, conn, dials, open, given>>

Modes == {"off", "safe", "strict", "custom"}
NoProxy  == [type |-> "none", id |-> 0]
NoPolicy == "none"
PolicyForMode(m) == IF m = "custom" THEN "safe" ELSE m

NoDial == [pc |-> "none", run |-> "none", via |-> NoProxy, socket |-> 0]

(* buildProxyDialer: nil when the proxy is of no known type. *)
buildProxyDialer(p) == IF p.type \in {"none", "socks5", "http"} THEN p ELSE [p EXCEPT !.type = "refused"]

(* New: the zero value of the mode is "off". *)
protectionPolicy(m, custom) == IF m = "custom" THEN custom ELSE PolicyForMode(m)
New(m, custom, p) ==
  /\ baked  = [policy |-> IF m = "off" THEN NoPolicy ELSE protectionPolicy(m, custom), proxy |-> buildProxyDialer(p)]
  /\ mode   = m
  /\ policy = protectionPolicy(m, custom)
  /\ proxy  = p

Init ==
  /\ \E m \in Modes, custom \in Custom, p \in Proxies \cup {NoProxy} : New(m, custom, p)
  /\ running = {}
  /\ connected = FALSE
  /\ conn = NoDial
  /\ dials = 0
  /\ open = {}
  /\ given = {}

Usable == baked.proxy.type # "refused"
settings == <<baked, mode, policy, proxy>>
Rest == UNCHANGED <<conn, dials, open, given>>

----------------------------------------------------------------------------
Run(r) ==
  /\ Usable /\ r \notin {x.run : x \in running}
  /\ connected' = TRUE
  /\ running' = running \cup {[run |-> r, wanted |-> proxy]}
  /\ UNCHANGED settings /\ Rest

\* f returned or the context was cancelled: the connections of the run are closed.
Leave == connected' = FALSE
RunReturns(x) ==
  /\ x \in running
  /\ conn.run # x.run
  /\ Leave
  /\ running' = running \ {x}
  /\ open' = {k \in open : k.run # x.run}
  /\ UNCHANGED <<settings, conn, dials, given>>

\* Disconnect only clears the flag.
Disconnect ==
  /\ Usable
  /\ connected' = FALSE
  /\ UNCHANGED <<settings, running>> /\ Rest

SetProtectionMode(m) ==
  /\ mode' = m
  /\ policy' = IF m = "custom" THEN policy ELSE PolicyForMode(m)
  /\ UNCHANGED <<baked, proxy, running, connected>> /\ Rest
SetProtectionPolicy(custom) ==
  /\ mode' = "custom"
  /\ policy' = custom
  /\ UNCHANGED <<baked, proxy, running, connected>> /\ Rest
SetProxy(p) ==
  /\ proxy' = p
  /\ UNCHANGED <<baked, mode, policy, running, connected>> /\ Rest

----------------------------------------------------------------------------
\* The transport dials through the baked proxy.  Of an HTTP proxy a socket is
\* opened, the CONNECT line written and an answer read; a failure closes it.
Socket == [run |-> conn.run, via |-> conn.via, id |-> conn.socket]
Dial ==
  /\ conn.pc = "none" /\ dials < MaxDials
  /\ \E x \in running :
       conn' = [pc |-> "dial", run |-> x.run, via |-> baked.proxy, socket |-> dials + 1]
  /\ dials' = dials + 1
  /\ UNCHANGED <<settings, running, connected, open, given>>
DialEnds(isOpen, isGiven) ==
  /\ conn' = NoDial
  /\ open' = IF isOpen THEN open \cup {Socket} ELSE open \ {Socket}
  /\ given' = IF isGiven THEN given \cup {Socket} ELSE given
  /\ UNCHANGED <<settings, running, connected, dials>>
Opened ==
  /\ conn.pc = "dial"
  /\ IF conn.via.type = "http"
     THEN /\ conn' = [conn EXCEPT !.pc = "write"]
          /\ open' = open \cup {Socket}
          /\ UNCHANGED <<settings, running, connected, dials, given>>
     ELSE DialEnds(TRUE, TRUE)
DialFails == conn.pc = "dial" /\ DialEnds(FALSE, FALSE)
\* Neither the write nor the read looks at the context.
WriteConnect ==
  /\ conn.pc = "write"
  /\ conn' = [conn EXCEPT !.pc = "read"]
  /\ UNCHANGED <<settings, running, connected, dials, open, given>>
WriteOrReadFails == conn.pc \in {"write", "read"} /\ DialEnds(FALSE, FALSE)
ReadOK           == conn.pc = "read" /\ DialEnds(TRUE, TRUE)
KeepRefused      == conn.pc = "read" /\ DialEnds(TRUE, FALSE)
ReadRefusal      == conn.pc = "read" /\ DialEnds(FALSE, FALSE)
\* The transport drops a connection that broke.
Drop ==
  /\ conn = NoDial
  /\ \E s \in open \cap given : open' = open \ {s}
  /\ UNCHANGED <<settings, running, connected, conn, dials, given>>

Next ==
  \/ \E r \in Runs : Run(r)
  \/ \E x \in running : RunReturns(x)
  \/ Disconnect
  \/ \E m \in Modes : SetProtectionMode(m)
  \/ \E custom \in Custom : SetProtectionPolicy(custom)
  \/ \E p \in Proxies \cup {NoProxy} : SetProxy(p)
  \/ Dial \/ Opened \/ DialFails \/ WriteConnect \/ WriteOrReadFails \/ ReadOK \/ ReadRefusal \/ Drop

Spec == Init /\ [][Next]_vars
=============================================================================
