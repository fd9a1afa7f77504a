---------------------------- MODULE StringSession ----------------------------
(***************************************************************************)
(* session.StringSession and the strings that carry a session from one     *)
(* client to another: Encode and ParseString, the memory storage that      *)
(* ToStorage fills, and MCUBClient.ExportSession, which packs what a       *)
(* storage holds with code of its own.                                     *)
(*                                                                         *)
(* An address is what net.ParseIP makes of its text: four words of 32      *)
(* bits, of which the last alone is kept if the others say that it is an   *)
(* IPv4 address; NoIP stands for a text that is no address.  A packed      *)
(* session is a sequence with an element for the data centre, one for each *)
(* word of the address, one for the port and one for each byte of the key. *)
(***************************************************************************)
EXTENDS Integers, Sequences

CONSTANTS Byte,     \* 2^8, the values of the byte of the data centre
          Word,     \* 2^16, the values of the two bytes of the port
          KeyLen,   \* 256, the bytes of a key
          Filled,   \* the sessions that a user fills in
          Accounts, \* the data that a client saves
          Received  \* the strings that come from elsewhere

(* What Go's types say of them: an address has four words, or is none; the
   data centre of a payload is one byte and its port is two. *)
IPs  == [1 .. 4 -> Nat]
Keys == Seq(Nat)

ParametersOK ==
  /\ {Byte, Word, KeyLen} \subseteq Nat \ {0}
  /\ Filled \subseteq [DCID : Int, ServerAddr : IPs \cup {<<>>}, Port : Int, AuthKey : Keys]
  /\ \A a \in Accounts : /\ a.DC \in Int /\ a.AuthKey \in Keys
                         /\ a.Addr.host \in IPs \cup {<<>>}
                         /\ a.Addr.port = <<>> \/ a.Addr.port \in [1 .. 1 -> Int]
  /\ \A t \in Received, n \in {1, 4} :
       /\ t.raw \in Seq(Nat)
       /\ Len(t.raw) = 2 + n + KeyLen => t.raw[1] < Byte /\ t.raw[2 + n] < Word

VARIABLES
  store,    \* the data in the memory storage, or NoData
  sess,     \* the StringSession
  text,     \* the string, or NoText
  exporting \* ExportSession has found the storage filled and loads it again

vars == <<store, sess, text, exporting>>

NoData   == <<>>
NoText  == <<>>
Refused == [refused |-> TRUE]
NoIP    == <<>>
NoPort  == <<>>

NewStringSession == [DCID |-> 0, ServerAddr |-> NoIP, Port |-> 0, AuthKey |-> <<>>]

\* copy into a slice of 256 zeros.
Fit(key) == [i \in 1..KeyLen |-> IF i <= Len(key) THEN key[i] ELSE 0]

\* The words of net.IP.To4 and To16, and back.
MappedPrefix == <<0, 0, 65535>>
Short(ip)    == IF SubSeq(ip, 1, 3) = MappedPrefix THEN <<ip[4]>> ELSE ip
Long(words)  == IF Len(words) = 1 THEN MappedPrefix \o words ELSE words

Pack(dc, ip, port, key) == <<dc % Byte>> \o Short(ip) \o <<port % Word>> \o Fit(key)

\* base64.URLEncoding writes the padding; the form says whether it is there, and
\* "broken" that the characters are not those of Base64.
Encoded(raw) == [version |-> "1", raw |-> raw, form |-> "padded"]

Encode(s) ==
  IF s.AuthKey = <<>> \/ s.ServerAddr = NoIP THEN NoText
  ELSE Encoded(Pack(s.DCID, s.ServerAddr, s.Port, s.AuthKey))

\* The words of the address, by the length of the payload; 0 for no such length.
IPLen(raw) ==
  CASE Len(raw) = 1 + 1 + 1 + KeyLen -> 1
    [] Len(raw) = 1 + 4 + 1 + KeyLen -> 4
    [] OTHER -> 0

Unpack(raw) ==
  LET n == IPLen(raw)
  IN  [DCID |-> raw[1], ServerAddr |-> Long(SubSeq(raw, 2, 1 + n)), Port |-> raw[2 + n],
       AuthKey |-> Fit(SubSeq(raw, 3 + n, Len(raw)))]

ParseString(t) ==
  IF t = NoText THEN NewStringSession
  ELSE IF t.version # "1" \/ t.form \notin {"padded", "raw"} \/ IPLen(t.raw) = 0 THEN Refused
  ELSE Unpack(t.raw)

\* The identifier of the key is a hash of the bytes of AuthKey as they are: the
\* bytes stand for it.
ToStorage(s) ==
  IF s.AuthKey = <<>> THEN NoData
  ELSE [DC |-> s.DCID, Addr |-> [host |-> s.ServerAddr, port |-> <<s.Port>>], AuthKey |-> s.AuthKey, AuthKeyID |-> s.AuthKey]

\* An address without a port, or with one that is not a number, gets 443.
ExportSession(data) ==
  IF data = NoData \/ data.Addr.host = NoIP THEN NoText
  ELSE Encoded(Pack(data.DC, data.Addr.host, IF data.Addr.port = NoPort THEN 443 ELSE data.Addr.port[1], data.AuthKey))

-----------------------------------------------------------------------------
Init == store = NoData /\ sess = NewStringSession /\ text = NoText /\ exporting = FALSE

\* The client of the storage saves its session; a StringSession made from the
\* storage, or the other way round, keeps its own copy.
StoreSession == store' \in Accounts /\ UNCHANGED <<sess, text, exporting>>

\* ExportSession looks at the storage, and gives up if it is empty ...
ExportCheck == ~exporting /\ store # NoData /\ exporting' = TRUE /\ UNCHANGED <<store, sess, text>>

\* ... and loads it a second time, through gotd's loader.
ExportLoad ==
  /\ exporting /\ exporting' = FALSE
  /\ text' = ExportSession(store)
  /\ UNCHANGED <<store, sess>>

Fill    == sess' \in Filled /\ UNCHANGED <<store, text, exporting>>
Receive == text' \in Received /\ UNCHANGED <<store, sess, exporting>>
Write   == text' = Encode(sess) /\ UNCHANGED <<store, sess, exporting>>

Parse ==
  /\ ParseString(text) # Refused
  /\ sess' = ParseString(text)
  /\ UNCHANGED <<store, text, exporting>>

\* Another client gets a storage of its own.
Start == ~exporting /\ store' = ToStorage(sess) /\ UNCHANGED <<sess, text, exporting>>

Next == StoreSession \/ ExportCheck \/ ExportLoad \/ Fill \/ Receive \/ Write \/ Parse \/ Start

-----------------------------------------------------------------------------
InRange(data) ==
  data.DC \in 0..(Byte - 1) /\ data.Addr.port # NoPort /\ data.Addr.port[1] \in 0..(Word - 1)

\* gotd hashes the key that it has padded to 256 bytes, and refuses another
\* identifier.
Restores(data) == data.AuthKeyID = Fit(data.AuthKey)

\* The string that a client exports leads the next client to the same data
\* centre, address and port with the same key, which gotd accepts.
ExportLeadsBack ==
  store # NoData /\ ExportSession(store) # NoText =>
    LET next == ToStorage(ParseString(ExportSession(store)))
    IN  /\ next.Addr.host = store.Addr.host /\ next.AuthKey = Fit(store.AuthKey) /\ Restores(next)
        /\ InRange(store) => next.DC = store.DC /\ next.Addr.port = store.Addr.port

\* The two encoders, written apart, make the same string of the same session.
EncodersAgree == sess.AuthKey # <<>> => ExportSession(ToStorage(sess)) = Encode(sess)

\* A string that parses is a session that is encoded, and parses again as itself,
\* whichever of the two lengths it had.
ParsedIsStable ==
  LET s == ParseString(text)
  IN  text # NoText /\ s # Refused => Encode(s) # NoText /\ ParseString(Encode(s)) = s

\* A session stays the same on every way from a storage to a string and back
\* (session.go:293-404, client.go:609-671).
SessionTravels == ExportLeadsBack /\ EncodersAgree /\ ParsedIsStable

=============================================================================
