----------------------------- MODULE MCStorages -----------------------------
(***************************************************************************)
(* The storages, checked in one run: the cached session storage            *)
(* (SessionCache, which this module extends), the transfer state store and *)
(* the memory storage with the strings that carry a session.  They share   *)
(* no state; the "subject" chosen at first is the one that runs, and the   *)
(* others stay where they begin.                                           *)
(***************************************************************************)
EXTENDS SessionCache, Integers, Sequences

CONSTANTS Writers, States, Inodes, None, Garbage, Byte, Word, KeyLen, Filled, Accounts, Received

VARIABLES subject, path, tmp, data, at, fd, held, read, store, sess, text, exporting

Json    == INSTANCE JsonStateStore WITH pc <- at, val <- held, ret <- read
Strings == INSTANCE StringSession

ASSUME StoresAssumption == Json!ParametersOK /\ Strings!ParametersOK

\* Two saves of one key at a time use the same temporary file (transfers.go:78):
\* what a store keeps is promised to a writer that is alone.
ASSUME OneWriter == \A v, w \in Writers : v = w

(* Addresses of both families, one of them an IPv4 address in the form of an
   IPv6 one, and numbers and keys on both sides of their widths. *)
V4 == <<0, 0, 65535, 7>>
V6 == <<8, 0, 0, 1>>
Session(dc, ip, port, key) == [DCID |-> dc, ServerAddr |-> ip, Port |-> port, AuthKey |-> key]
Data(dc, ip, port, key) == [DC |-> dc, Addr |-> [host |-> ip, port |-> port], AuthKey |-> key, AuthKeyID |-> key]
Message(version, raw, form) == [version |-> version, raw |-> raw, form |-> form]

SomeSessions ==
  {Session(2, ip, 443, key) : ip \in {V4, V6, <<>>}, key \in {<<>>, <<5>>, <<5, 6, 7>>}}
    \cup {Session(dc, V4, port, <<5, 6>>) : dc \in {2, 256}, port \in {-1, 65536}}
SomeData == {Data(2, ip, port, <<5, 6>>) : ip \in {V4, V6, <<>>}, port \in {<<>>, <<80>>}}
SomeStrings ==
  {Message(version, <<3>> \o ip \o <<443, 8, 9>>, form) :
     version \in {"1", "2"}, ip \in {<<7>>, V4, V6, <<7, 7>>}, form \in {"padded", "raw", "broken"}}

jsonVars   == <<path, tmp, data, at, fd, held, read>>
stringVars == <<store, sess, text, exporting>>
allVars    == <<vars, subject, jsonVars, stringVars>>

AllInit == subject \in {"cache", "json", "strings"} /\ Init /\ Json!Init /\ Strings!Init
AllNext ==
  \/ subject = "cache" /\ Next /\ UNCHANGED <<subject, jsonVars, stringVars>>
  \/ subject = "json" /\ Json!Next /\ UNCHANGED <<vars, subject, stringVars>>
  \/ subject = "strings" /\ Strings!Next /\ UNCHANGED <<vars, subject, jsonVars>>
AllSpec == AllInit /\ [][AllNext]_allVars

-----------------------------------------------------------------------------
\* The transfer state store is a register of whole states for its one writer,
\* wherever it crashes (transfers.go:50-91); and a session that travels as a
\* string, out of a storage and into another one, stays the session it was
\* (session.go:294-394, client.go:609-659).
StoresKeep == Json!ImplementsStore /\ []Strings!SessionTravels

=============================================================================
