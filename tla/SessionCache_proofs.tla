------------------------- MODULE SessionCache_proofs ------------------------
(***************************************************************************)
(* Proofs about the storages that MCStorages composes: SessionCache, for   *)
(* any sets of goroutines and blobs, StringSession, for any widths, keys   *)
(* and addresses, and JsonStateStore, for any states and files.            *)
(*                                                                         *)
(* That the cache is coherent is inductive only together with what makes   *)
(* it so: a Store that overlaps nothing is alone, and what a call carries  *)
(* to its second step is still what the inner storage holds.  The strings  *)
(* need only types, and the lemma that a payload has the pieces it was     *)
(* made of.  The state store needs that its one writer has the temporary   *)
(* file for itself.                                                        *)
(***************************************************************************)
EXTENDS MCStorages, SequenceTheorems, TLAPS

\* A Store that has raced nobody is the only call in progress.
Exclusive ==
  ~raced => \A t \in Threads : pc[t] \in {"store", "setCache"} =>
              \A u \in Threads \ {t} : ~Busy(u)

\* The blob read or written in the first step is still the inner one.
Carried ==
  ~raced => \A t \in Threads : pc[t] \in {"fill", "setCache"} => val[t] = inner

IInv == TypeOK /\ Exclusive /\ Carried /\ CoherentUnlessRaced

\* The invariant holds of an empty storage that nobody uses.
LEMMA InitIInv == Init => IInv
  BY EmptyAssumption DEF Init, IInv, TypeOK, Exclusive, Carried, CoherentUnlessRaced, Blob, Busy

\* The steps of LoadSession.
LEMMA LoadIInv ==
  ASSUME IInv, NEW t \in Threads,
         LoadHit(t) \/ LoadMiss(t) \/ LoadInner(t) \/ LoadFails(t) \/ LoadFill(t)
  PROVE  IInv'
<1> USE EmptyAssumption DEF IInv, TypeOK, Blob, Goto, Busy, Storing
<1>1. CASE LoadHit(t)
  BY <1>1 DEF LoadHit, Exclusive, Carried, CoherentUnlessRaced
<1>2. CASE LoadMiss(t)
  <2>1. TypeOK' /\ CoherentUnlessRaced'
    BY <1>2 DEF LoadMiss, CoherentUnlessRaced
  <2>2. Exclusive' /\ Carried'
    BY <1>2 DEF LoadMiss, Exclusive, Carried
  <2> QED BY <2>1, <2>2
<1>3. CASE LoadInner(t)
  <2>1. TypeOK' /\ CoherentUnlessRaced'
    BY <1>3 DEF LoadInner, CoherentUnlessRaced
  <2>2. Exclusive' /\ Carried'
    BY <1>3 DEF LoadInner, Exclusive, Carried
  <2> QED BY <2>1, <2>2
<1>4. CASE LoadFails(t)
  <2>1. TypeOK' /\ CoherentUnlessRaced'
    BY <1>4 DEF LoadFails, CoherentUnlessRaced
  <2>2. Exclusive' /\ Carried'
    BY <1>4 DEF LoadFails, Exclusive, Carried
  <2> QED BY <2>1, <2>2
<1>5. CASE LoadFill(t)
  <2>1. TypeOK'
    BY <1>5 DEF LoadFill
  <2>2. Exclusive' /\ Carried'
    BY <1>5 DEF LoadFill, Exclusive, Carried
  <2>3. CoherentUnlessRaced'
    BY <1>5 DEF LoadFill, Exclusive, Carried, CoherentUnlessRaced
  <2> QED BY <2>1, <2>2, <2>3
<1> QED BY <1>1, <1>2, <1>3, <1>4, <1>5

\* The steps of StoreSession.
LEMMA StoreIInv ==
  ASSUME IInv, NEW t \in Threads,
         (\E b \in Blob : Store(t, b)) \/ StoreInner(t) \/ StoreFails(t) \/ StoreCache(t)
  PROVE  IInv'
<1> USE EmptyAssumption DEF IInv, TypeOK, Blob, Goto, Busy, Storing
<1>1. ASSUME NEW b \in Blob, Store(t, b) PROVE IInv'
  <2>1. TypeOK' /\ CoherentUnlessRaced'
    BY <1>1 DEF Store, CoherentUnlessRaced
  <2>2. Exclusive' /\ Carried'
    BY <1>1 DEF Store, Exclusive, Carried
  <2> QED BY <2>1, <2>2
<1>2. CASE StoreInner(t)
  <2>1. TypeOK' /\ CoherentUnlessRaced'
    BY <1>2 DEF StoreInner, CoherentUnlessRaced
  <2>2. Exclusive' /\ Carried'
    BY <1>2 DEF StoreInner, Exclusive, Carried
  <2> QED BY <2>1, <2>2
<1>3. CASE StoreFails(t)
  <2>1. TypeOK' /\ CoherentUnlessRaced'
    BY <1>3 DEF StoreFails, CoherentUnlessRaced
  <2>2. Exclusive' /\ Carried'
    BY <1>3 DEF StoreFails, Exclusive, Carried
  <2> QED BY <2>1, <2>2
<1>4. CASE StoreCache(t)
  <2>1. TypeOK'
    BY <1>4 DEF StoreCache
  <2>2. Exclusive' /\ Carried' /\ CoherentUnlessRaced'
    BY <1>4 DEF StoreCache, Exclusive, Carried, CoherentUnlessRaced
  <2> QED BY <2>1, <2>2
<1> QED BY <1>1, <1>2, <1>3, <1>4

\* Every step keeps the invariant.
LEMMA NextIInv == IInv /\ [Next]_vars => IInv'
<1> SUFFICES ASSUME IInv, [Next]_vars PROVE IInv'
  OBVIOUS
<1>1. CASE Invalidate
  BY <1>1 DEF Invalidate, IInv, TypeOK, Exclusive, Carried, CoherentUnlessRaced, Blob, Busy
<1>2. CASE UNCHANGED vars
  BY <1>2 DEF vars, IInv, TypeOK, Exclusive, Carried, CoherentUnlessRaced, Busy
<1> QED BY <1>1, <1>2, LoadIInv, StoreIInv DEF Next

\* The variables keep their types.
THEOREM TypeCorrect == Spec => []TypeOK
<1>1. IInv => TypeOK
  BY DEF IInv
<1> QED BY InitIInv, NextIInv, <1>1, PTL DEF Spec

\* However many goroutines load, miss and invalidate, the cache goes stale
\* only if a Store overlaps another call (session.go:541-584).
THEOREM CoherentUnlessRacedHolds == Spec => []CoherentUnlessRaced
<1>1. IInv => CoherentUnlessRaced
  BY DEF IInv
<1> QED BY InitIInv, NextIInv, <1>1, PTL DEF Spec

\* As long as no Store overlaps another call, the cached storage is a session
\* storage: it maps the write of the inner storage to Store, and the return of
\* a Load to Load (session.go:539-584).
THEOREM StorageUnlessRacedHolds == Spec => StorageUnlessRaced
<1> USE EmptyAssumption
<1>1. Init => Storage!Init
  BY DEF Init, Storage!Init
<1>2. IInv /\ [Next]_vars => [raced' \/ Storage!Next]_<<inner, ret>>
  <2> SUFFICES ASSUME IInv, [Next]_vars, ~raced' PROVE [Storage!Next]_<<inner, ret>>
    OBVIOUS
  <2> USE DEF Storage!Next, Storage!Load, Storage!Store
  <2>1. ASSUME NEW t \in Threads, LoadHit(t) PROVE Storage!Next
    <3>1. ~raced /\ Storing = {} /\ cached # Empty /\ ret' = cached /\ inner' = inner
      BY <2>1 DEF LoadHit
    <3>2. cached = inner
      BY <3>1 DEF IInv, CoherentUnlessRaced, Storing
    <3> QED BY <3>1, <3>2
  <2>2. ASSUME NEW t \in Threads, LoadFill(t) PROVE Storage!Next
    BY <2>2 DEF LoadFill, IInv, Carried
  <2>3. ASSUME NEW t \in Threads, StoreInner(t) PROVE Storage!Next
    BY <2>3 DEF StoreInner, IInv, TypeOK
  <2>4. ASSUME NEW t \in Threads,
               \/ LoadMiss(t) \/ LoadInner(t) \/ LoadFails(t) \/ StoreFails(t) \/ StoreCache(t)
               \/ \E b \in Blob : Store(t, b)
        PROVE  UNCHANGED <<inner, ret>>
    BY <2>4 DEF LoadMiss, LoadInner, LoadFails, StoreFails, StoreCache, Store
  <2>5. ASSUME Invalidate \/ UNCHANGED vars PROVE UNCHANGED <<inner, ret>>
    BY <2>5 DEF Invalidate, vars
  <2> QED BY <2>1, <2>2, <2>3, <2>4, <2>5 DEF Next
<1> QED BY InitIInv, NextIInv, <1>1, <1>2, PTL DEF Spec, StorageUnlessRaced

\* What StringSession's assumption says of the widths.
LEMMA Widths == Byte \in Nat \ {0} /\ Word \in Nat \ {0} /\ KeyLen \in Nat \ {0}
BY StoresAssumption DEF Strings!ParametersOK

\* copy into a slice of KeyLen zeros makes a key of that length, and leaves one that has it alone.
LEMMA FitKey ==
  ASSUME NEW key \in Seq(Nat)
  PROVE  /\ Strings!Fit(key) \in Seq(Nat) /\ Len(Strings!Fit(key)) = KeyLen
         /\ Strings!Fit(key) # <<>>
         /\ Strings!Fit(Strings!Fit(key)) = Strings!Fit(key)
<1> DEFINE f == Strings!Fit(key)
<1> USE Widths
<1>1. f = [i \in 1 .. KeyLen |-> IF i <= Len(key) THEN key[i] ELSE 0]  BY DEF Strings!Fit
<1>2. Len(key) \in Nat  OBVIOUS
<1>3. f \in [1 .. KeyLen -> Nat]
  <2>1. ASSUME NEW i \in 1 .. KeyLen PROVE (IF i <= Len(key) THEN key[i] ELSE 0) \in Nat
    BY <1>2
  <2> QED  BY <1>1, <2>1
<1> HIDE DEF f
<1>4. f \in Seq(Nat) /\ Len(f) = KeyLen  BY <1>3
<1>5. f # <<>>  BY <1>4
<1>6. Strings!Fit(f) = f
  <2>1. Strings!Fit(f) = [i \in 1 .. KeyLen |-> f[i]]
    <3>1. Strings!Fit(f) = [i \in 1 .. KeyLen |-> IF i <= Len(f) THEN f[i] ELSE 0]  BY DEF Strings!Fit
    <3> QED  BY <1>4, <3>1
  <2> QED  BY <1>3, <2>1
<1> QED  BY <1>4, <1>5, <1>6 DEF f

\* The prefix and single words are sequences of numbers.
LEMMA Mapped ==
  /\ Strings!MappedPrefix \in Seq(Nat) /\ Len(Strings!MappedPrefix) = 3
  /\ Strings!MappedPrefix[1] = 0 /\ Strings!MappedPrefix[2] = 0 /\ Strings!MappedPrefix[3] = 65535
BY DEF Strings!MappedPrefix

\* A sequence of one element.
LEMMA Single == ASSUME NEW x \in Nat PROVE <<x>> \in Seq(Nat) /\ Len(<<x>>) = 1 /\ <<x>>[1] = x
OBVIOUS

\* A function over the first n numbers is a sequence of length n.
LEMMA FunctionSeq ==
  ASSUME NEW S, NEW n \in Nat, NEW f \in [1 .. n -> S]
  PROVE  f \in Seq(S) /\ Len(f) = n
OBVIOUS

\* The elements of a concatenation.
LEMMA Joined ==
  ASSUME NEW a \in Seq(Nat), NEW b \in Seq(Nat)
  PROVE  /\ a \o b \in Seq(Nat)
         /\ Len(a \o b) = Len(a) + Len(b)
         /\ \A i \in 1 .. Len(a) : (a \o b)[i] = a[i]
         /\ \A i \in 1 .. Len(b) : (a \o b)[Len(a) + i] = b[i]
OBVIOUS

\* An address is a sequence of four words, and none.
LEMMA AddressWords ==
  ASSUME NEW ip \in Strings!IPs
  PROVE  ip \in Seq(Nat) /\ Len(ip) = 4 /\ ip # <<>>
<1>1. ip \in Seq(Nat) /\ Len(ip) = 4  BY FunctionSeq DEF Strings!IPs
<1>2. Len(<<>>) = 0 /\ 4 # 0  OBVIOUS
<1>3. ip # <<>>  BY <1>1, <1>2, Zenon
<1> QED  BY <1>1, <1>3

\* One word or four are an address.
LEMMA LongIP ==
  ASSUME NEW w \in Seq(Nat), Len(w) \in {1, 4}
  PROVE  Strings!Long(w) \in Strings!IPs
<1>1. CASE Len(w) = 4
  <2>1. w \in [1 .. 4 -> Nat]  BY <1>1, LenProperties
  <2> QED  BY <1>1, <2>1 DEF Strings!Long, Strings!IPs
<1>2. CASE Len(w) = 1
  <2> DEFINE m == Strings!MappedPrefix
  <2>1. Strings!Long(w) = m \o w  BY <1>2 DEF Strings!Long
  <2>2. m \in Seq(Nat) /\ Len(m) = 3  BY Mapped
  <2> HIDE DEF m
  <2>3. m \o w \in Seq(Nat) /\ Len(m \o w) = Len(m) + Len(w)  BY <2>2, Joined
  <2>4. m \o w \in Seq(Nat) /\ Len(m \o w) = 4  BY <1>2, <2>2, <2>3
  <2>5. m \o w \in [1 .. 4 -> Nat]  BY <2>4, LenProperties
  <2> QED  BY <2>1, <2>5 DEF Strings!IPs
<1> QED  BY <1>1, <1>2

\* The short form of an address, and back.
LEMMA ShortLong ==
  ASSUME NEW ip \in Strings!IPs
  PROVE  /\ Strings!Short(ip) \in Seq(Nat) /\ Len(Strings!Short(ip)) \in {1, 4}
         /\ Strings!Long(Strings!Short(ip)) = ip
<1> DEFINE m == Strings!MappedPrefix
           p == SubSeq(ip, 1, 3)
<1>1. ip \in Seq(Nat) /\ Len(ip) = 4  BY AddressWords
<1>2. CASE p = m
  <2> DEFINE w == <<ip[4]>>
  <2>1. Strings!Short(ip) = w  BY <1>2 DEF Strings!Short
  <2>2. \A i \in 1 .. 4 : ip[i] \in Nat  BY <1>1, ElementOfSeq
  <2>3. w \in Seq(Nat) /\ Len(w) = 1 /\ w[1] = ip[4]  BY <2>2, Single
  <2>4. Strings!Long(w) = m \o w  BY <2>3 DEF Strings!Long
  <2>5. ip[1] = m[1] /\ ip[2] = m[2] /\ ip[3] = m[3]
    <3>1. \A i \in 1 .. 3 : p[i] = ip[i]  BY <2>2, SubSeqProperties
    <3> HIDE DEF p, m
    <3> QED  BY <1>2, <3>1
  <2>6. m \in Seq(Nat) /\ Len(m) = 3  BY Mapped
  <2> HIDE DEF w, m
  <2>7. /\ m \o w \in Seq(Nat) /\ Len(m \o w) = Len(m) + Len(w)
        /\ \A i \in 1 .. Len(m) : (m \o w)[i] = m[i]
        /\ \A i \in 1 .. Len(w) : (m \o w)[Len(m) + i] = w[i]
    BY <2>3, <2>6, Joined
  <2>8. m \o w \in Seq(Nat) /\ Len(m \o w) = 3 + Len(w)  BY <2>6, <2>7
  <2>9. (\A i \in 1 .. 3 : (m \o w)[i] = m[i]) /\ (\A i \in 1 .. Len(w) : (m \o w)[3 + i] = w[i])
    BY <2>6, <2>7
  <2>10. \A i \in 1 .. 4 : (m \o w)[i] = ip[i]
    <3>1. (m \o w)[1] = ip[1] /\ (m \o w)[2] = ip[2] /\ (m \o w)[3] = ip[3] /\ (m \o w)[4] = ip[4]
      <4>1. 1 \in 1 .. 3 /\ 2 \in 1 .. 3 /\ 3 \in 1 .. 3 /\ 1 \in 1 .. Len(w) /\ 3 + 1 = 4  BY <2>3
      <4>2. (m \o w)[4] = ip[4]  BY <2>3, <2>9, <4>1
      <4> QED  BY <2>5, <2>9, <4>1, <4>2
    <3>2. \A i \in 1 .. 4 : i = 1 \/ i = 2 \/ i = 3 \/ i = 4  OBVIOUS
    <3> QED  BY <3>1, <3>2
  <2>11. m \o w = ip
    <3>1. Len(m \o w) = 4  BY <2>3, <2>8
    <3> QED  BY <1>1, <2>8, <2>10, <3>1, SeqEqual
  <2> QED  BY <2>1, <2>3, <2>4, <2>11
<1>3. CASE p # m
  <2>1. Strings!Short(ip) = ip  BY <1>3 DEF Strings!Short
  <2>2. Strings!Long(ip) = ip  BY <1>1 DEF Strings!Long
  <2> QED  BY <1>1, <2>1, <2>2
<1> QED  BY <1>2, <1>3

\* A part of a sequence of numbers is one.
LEMMA SlicedOK ==
  ASSUME NEW raw, NEW m \in Int, NEW n \in Int, \A i \in m .. n : raw[i] \in Nat
  PROVE  SubSeq(raw, m, n) \in Seq(Nat) /\ (m <= n => Len(SubSeq(raw, m, n)) = n - m + 1)
BY SubSeqProperties

\* A part of a sequence whose elements are those of another.
LEMMA Slice ==
  ASSUME NEW raw \in Seq(Nat), NEW w \in Seq(Nat), NEW m \in Nat, m + Len(w) <= Len(raw),
         \A i \in 1 .. Len(w) : raw[m + i] = w[i]
  PROVE  SubSeq(raw, m + 1, m + Len(w)) = w
<1> DEFINE n == m + Len(w)
           s == SubSeq(raw, m + 1, n)
<1>1. Len(w) \in Nat /\ n \in Nat /\ n <= Len(raw) /\ Len(raw) \in Nat  OBVIOUS
<1>2. \A i \in m + 1 .. n : raw[i] \in Nat
  <2>1. \A i \in m + 1 .. n : i \in 1 .. Len(raw)  BY <1>1
  <2> QED  BY <2>1, ElementOfSeq
<1>3. /\ s \in Seq(Nat)
      /\ Len(s) = IF m + 1 <= n THEN n - (m + 1) + 1 ELSE 0
      /\ \A i \in 1 .. n - (m + 1) + 1 : s[i] = raw[m + 1 + i - 1]
  <2>1. m + 1 \in Int /\ n \in Int  BY <1>1
  <2> HIDE DEF n
  <2> QED  BY <1>2, <2>1, SubSeqProperties
<1>4. n - (m + 1) + 1 = Len(w)  BY <1>1
<1>5. Len(s) = Len(w)  BY <1>1, <1>3, <1>4
<1>6. ASSUME NEW i \in 1 .. Len(w) PROVE s[i] = w[i]
  <2>1. m + 1 + i - 1 = m + i  BY <1>1
  <2>2. s[i] = raw[m + i]  BY <1>3, <1>4, <2>1
  <2> QED  BY <2>2
<1> QED
  <2> HIDE DEF s, n
  <2> QED  BY <1>3, <1>5, <1>6, SeqEqual DEF s, n

\* A payload is a word, the words w, a word and the words k.
Laid(x, w, y, k) == <<x>> \o w \o <<y>> \o k

\* Each of its pieces is where its length says.
HasPieces(raw, x, w, y, k) ==
  /\ raw \in Seq(Nat) /\ Len(raw) = 2 + Len(w) + Len(k)
  /\ raw[1] = x /\ raw[2 + Len(w)] = y
  /\ SubSeq(raw, 2, 1 + Len(w)) = w
  /\ SubSeq(raw, 3 + Len(w), Len(raw)) = k

\* They are the ones it was made of.
LEMMA Payload ==
  ASSUME NEW x \in Nat, NEW w \in Seq(Nat), NEW y \in Nat, NEW k \in Seq(Nat)
  PROVE  HasPieces(Laid(x, w, y, k), x, w, y, k)
<1> DEFINE a == <<x>>
           b == <<y>>
           p == a \o w
           q == p \o b
           raw == Laid(x, w, y, k)
<1>1. /\ a \in Seq(Nat) /\ Len(a) = 1 /\ a[1] = x
      /\ b \in Seq(Nat) /\ Len(b) = 1 /\ b[1] = y
  BY Single
<1>2. raw = q \o k  BY DEF Laid
<1>3. Len(w) \in Nat /\ Len(k) \in Nat  OBVIOUS
<1> HIDE DEF a, b, raw
<1>4. /\ p \in Seq(Nat) /\ Len(p) = Len(a) + Len(w)
      /\ \A i \in 1 .. Len(a) : p[i] = a[i]
      /\ \A i \in 1 .. Len(w) : p[Len(a) + i] = w[i]
  BY <1>1, Joined
<1> HIDE DEF p
<1>5. /\ q \in Seq(Nat) /\ Len(q) = Len(p) + Len(b)
      /\ \A i \in 1 .. Len(p) : q[i] = p[i]
      /\ \A i \in 1 .. Len(b) : q[Len(p) + i] = b[i]
  BY <1>1, <1>4, Joined
<1> HIDE DEF q
<1>6. /\ q \o k \in Seq(Nat) /\ Len(q \o k) = Len(q) + Len(k)
      /\ \A i \in 1 .. Len(q) : (q \o k)[i] = q[i]
      /\ \A i \in 1 .. Len(k) : (q \o k)[Len(q) + i] = k[i]
  BY <1>5, Joined
<1>7. Len(p) = 1 + Len(w) /\ Len(q) = 2 + Len(w) /\ Len(raw) = 2 + Len(w) + Len(k)
  BY <1>1, <1>2, <1>3, <1>4, <1>5, <1>6
<1>8. raw[1] = x
  <2>1. 1 \in 1 .. Len(a) /\ 1 \in 1 .. Len(p) /\ 1 \in 1 .. Len(q)  BY <1>1, <1>3, <1>7
  <2> QED  BY <1>1, <1>2, <1>4, <1>5, <1>6, <2>1
<1>9. raw[2 + Len(w)] = y
  <2>1. 1 \in 1 .. Len(b) /\ Len(p) + 1 = 2 + Len(w) /\ 2 + Len(w) \in 1 .. Len(q)  BY <1>1, <1>3, <1>7
  <2> QED  BY <1>1, <1>2, <1>5, <1>6, <2>1
<1>10. \A i \in 1 .. Len(w) : raw[1 + i] = w[i]
  <2> TAKE i \in 1 .. Len(w)
  <2>1. 1 + i \in 1 .. Len(p) /\ 1 + i \in 1 .. Len(q) /\ Len(a) + i = 1 + i  BY <1>1, <1>3, <1>7
  <2> QED  BY <1>2, <1>4, <1>5, <1>6, <2>1
<1>11. \A i \in 1 .. Len(k) : raw[2 + Len(w) + i] = k[i]
  BY <1>2, <1>6, <1>7
<1>12. SubSeq(raw, 2, 1 + Len(w)) = w
  <2>1. 1 + Len(w) <= Len(raw) /\ 1 \in Nat /\ raw \in Seq(Nat)  BY <1>2, <1>3, <1>6, <1>7
  <2>2. SubSeq(raw, 1 + 1, 1 + Len(w)) = w  BY <1>10, <2>1, Slice
  <2> QED  BY <2>2
<1>13. SubSeq(raw, 3 + Len(w), Len(raw)) = k
  <2> DEFINE m == 2 + Len(w)
  <2>1. /\ m \in Nat /\ m + Len(k) <= Len(raw) /\ m + Len(k) = Len(raw) /\ m + 1 = 3 + Len(w)
        /\ raw \in Seq(Nat)
    BY <1>2, <1>3, <1>6, <1>7
  <2>2. \A i \in 1 .. Len(k) : raw[m + i] = k[i]  BY <1>11
  <2> HIDE DEF m
  <2>3. SubSeq(raw, m + 1, m + Len(k)) = k  BY <2>1, <2>2, Slice
  <2> QED  BY <2>1, <2>3
<1> QED  BY <1>2, <1>6, <1>7, <1>8, <1>9, <1>12, <1>13 DEF raw, HasPieces

(* ------------------------- strings of sessions ------------------------- *)

\* What the variables of StringSession hold.
SessOK(s) ==
  s.DCID \in Int /\ s.ServerAddr \in Strings!IPs \cup {<<>>} /\ s.Port \in Int /\ s.AuthKey \in Seq(Nat)
StoreOK(d) ==
  d # Strings!NoData =>
    /\ d.DC \in Int /\ d.AuthKey \in Seq(Nat)
    /\ d.Addr.host \in Strings!IPs \cup {<<>>}
    /\ d.Addr.port = <<>> \/ d.Addr.port \in [1 .. 1 -> Int]
TextOK(t) ==
  t # Strings!NoText =>
    /\ t.raw \in Seq(Nat)
    /\ \A n \in {1, 4} : Len(t.raw) = 2 + n + KeyLen => t.raw[1] < Byte /\ t.raw[2 + n] < Word

StringsInv == SessOK(sess) /\ StoreOK(store) /\ TextOK(text)

\* The length of a payload tells how many words its address has.
LEMMA Lengths ==
  ASSUME NEW raw \in Seq(Nat)
  PROVE  /\ Len(raw) = 3 + KeyLen => Strings!IPLen(raw) = 1
         /\ Len(raw) = 6 + KeyLen => Strings!IPLen(raw) = 4
         /\ Strings!IPLen(raw) # 0 => Len(raw) = 3 + KeyLen \/ Len(raw) = 6 + KeyLen
<1> DEFINE l == Len(raw)
           A == l = 1 + 1 + 1 + KeyLen
           B == l = 1 + 4 + 1 + KeyLen
<1>1. Strings!IPLen(raw) = CASE A -> 1 [] B -> 4 [] OTHER -> 0  BY DEF Strings!IPLen
<1>2. l \in Nat /\ KeyLen \in Nat  BY Widths
<1> HIDE DEF l
<1>3. (A <=> l = 3 + KeyLen) /\ (B <=> l = 6 + KeyLen) /\ ~ (A /\ B)  BY <1>2
<1> HIDE DEF A, B
<1>4. (A => Strings!IPLen(raw) = 1) /\ (B => Strings!IPLen(raw) = 4)
      /\ (~ A /\ ~ B => Strings!IPLen(raw) = 0)
  BY <1>1, <1>3
<1> QED  BY <1>3, <1>4 DEF l

\* What an encoded session is, and that it parses as the session again, with the
\* numbers cut to their widths and a key of the full length.
LEMMA PackParses ==
  ASSUME NEW dc \in Int, NEW ip \in Strings!IPs, NEW port \in Int, NEW key \in Seq(Nat), NEW t,
         t = Strings!Encoded(Strings!Pack(dc, ip, port, key))
  PROVE  /\ t # Strings!NoText /\ TextOK(t)
         /\ Strings!ParseString(t) =
              [DCID |-> dc % Byte, ServerAddr |-> ip, Port |-> port % Word, AuthKey |-> Strings!Fit(key)]
<1> DEFINE raw == Strings!Pack(dc, ip, port, key)
           w   == Strings!Short(ip)
           k   == Strings!Fit(key)
           x   == dc % Byte
           y   == port % Word
<1>1. x \in Nat /\ x < Byte /\ y \in Nat /\ y < Word /\ KeyLen \in Nat
  BY Widths
<1>2. w \in Seq(Nat) /\ Len(w) \in {1, 4} /\ Strings!Long(w) = ip  BY ShortLong
<1>3. k \in Seq(Nat) /\ Len(k) = KeyLen /\ Strings!Fit(k) = k  BY FitKey
<1>4. raw = Laid(x, w, y, k)  BY DEF Strings!Pack, Laid
<1>5. t.raw = raw /\ t.version = "1" /\ t.form = "padded" /\ t # <<>>
  <2> HIDE DEF raw
  <2> QED  BY DEF Strings!Encoded, raw
<1> HIDE DEF raw, w, k, x, y
<1>6. /\ raw \in Seq(Nat) /\ Len(raw) = 2 + Len(w) + Len(k)
      /\ raw[1] = x /\ raw[2 + Len(w)] = y
      /\ SubSeq(raw, 2, 1 + Len(w)) = w
      /\ SubSeq(raw, 3 + Len(w), Len(raw)) = k
  <2>1. x \in Nat /\ w \in Seq(Nat) /\ y \in Nat /\ k \in Seq(Nat)  BY <1>1, <1>2, <1>3
  <2>2. HasPieces(raw, x, w, y, k)  BY <1>4, <2>1, Payload
  <2> QED  BY <2>2 DEF HasPieces
<1>7. Strings!IPLen(raw) = Len(w)
  <2>1. (Len(w) = 1 /\ Len(raw) = 3 + KeyLen) \/ (Len(w) = 4 /\ Len(raw) = 6 + KeyLen)
    <3> DEFINE m == Len(w)
               l == Len(raw)
    <3>1. m \in {1, 4} /\ l = 2 + m + KeyLen /\ KeyLen \in Nat  BY <1>1, <1>2, <1>3, <1>6
    <3> HIDE DEF m, l
    <3>2. (m = 1 /\ l = 3 + KeyLen) \/ (m = 4 /\ l = 6 + KeyLen)  BY <3>1
    <3> QED  BY <3>2 DEF m, l
  <2> QED  BY <1>6, <2>1, Lengths
<1>8. Strings!Unpack(raw) = [DCID |-> x, ServerAddr |-> ip, Port |-> y, AuthKey |-> k]
  BY <1>2, <1>3, <1>6, <1>7 DEF Strings!Unpack
<1>9. Strings!ParseString(t) = Strings!Unpack(raw)
  <2>1. Strings!IPLen(t.raw) # 0  BY <1>2, <1>5, <1>7
  <2> QED  BY <1>5, <2>1 DEF Strings!ParseString, Strings!NoText
<1>10. TextOK(t)
  <2>1. ASSUME NEW n \in {1, 4}, Len(raw) = 2 + n + KeyLen PROVE raw[1] < Byte /\ raw[2 + n] < Word
    <3> DEFINE m == Len(w)
    <3>1. /\ m \in {1, 4} /\ Len(raw) = 2 + m + KeyLen /\ raw[2 + m] = y /\ n \in {1, 4}
      BY <1>2, <1>3, <1>6
    <3> HIDE DEF m
    <3>2. n = m  BY <1>1, <2>1, <3>1
    <3> QED  BY <1>1, <1>6, <3>1, <3>2
  <2> QED  BY <1>5, <1>6, <2>1 DEF TextOK
<1> QED  BY <1>5, <1>8, <1>9, <1>10 DEF x, y, k, Strings!NoText

\* A string that parses becomes a session whose numbers fit, with an address and
\* a key of the full length.
LEMMA ParsedOK ==
  ASSUME NEW t, TextOK(t), t # Strings!NoText, NEW s, s = Strings!ParseString(t), s # Strings!Refused
  PROVE  /\ SessOK(s) /\ s.ServerAddr \in Strings!IPs
         /\ s.DCID \in 0 .. Byte - 1 /\ s.Port \in 0 .. Word - 1
         /\ s.AuthKey # <<>> /\ Strings!Fit(s.AuthKey) = s.AuthKey
         /\ s = [DCID |-> s.DCID, ServerAddr |-> s.ServerAddr, Port |-> s.Port, AuthKey |-> s.AuthKey]
<1> DEFINE raw == t.raw
           n   == Strings!IPLen(raw)
           w   == SubSeq(raw, 2, 1 + n)
           k   == SubSeq(raw, 3 + n, Len(raw))
<1>1. s = Strings!Unpack(raw) /\ n # 0  BY DEF Strings!ParseString
<1>2. raw \in Seq(Nat) /\ KeyLen \in Nat /\ Len(raw) \in Nat  BY Widths DEF TextOK
<1>3. n \in {1, 4} /\ Len(raw) = 2 + n + KeyLen
  <2> HIDE DEF raw
  <2>1. Len(raw) = 3 + KeyLen \/ Len(raw) = 6 + KeyLen  BY <1>1, <1>2, Lengths
  <2>2. (n = 1 /\ Len(raw) = 3 + KeyLen) \/ (n = 4 /\ Len(raw) = 6 + KeyLen)  BY <1>2, <2>1, Lengths
  <2> HIDE DEF n
  <2> QED  BY <1>2, <2>2
<1>4. s = [DCID |-> raw[1], ServerAddr |-> Strings!Long(w), Port |-> raw[2 + n], AuthKey |-> Strings!Fit(k)]
  BY <1>1 DEF Strings!Unpack
<1>5. raw[1] < Byte /\ raw[2 + n] < Word  BY <1>3 DEF TextOK
<1> HIDE DEF raw, n
<1>6. \A i \in 1 .. Len(raw) : raw[i] \in Nat  BY <1>2, ElementOfSeq
<1>7. raw[1] \in 0 .. Byte - 1 /\ raw[2 + n] \in 0 .. Word - 1
  <2>1. 1 \in 1 .. Len(raw) /\ 2 + n \in 1 .. Len(raw)  BY <1>2, <1>3
  <2>2. raw[1] \in Nat /\ raw[2 + n] \in Nat  BY <1>6, <2>1
  <2> QED  BY <1>5, <2>2, Widths
<1>8. w \in Seq(Nat) /\ Len(w) = n
  <2>1. \A i \in 2 .. 1 + n : raw[i] \in Nat  BY <1>2, <1>3, <1>6
  <2>2. 2 \in Int /\ 1 + n \in Int /\ 2 <= 1 + n /\ 1 + n - 2 + 1 = n  BY <1>3
  <2> DEFINE e == 1 + n
  <2> HIDE DEF e
  <2>3. (\A i \in 2 .. e : raw[i] \in Nat) /\ 2 \in Int /\ e \in Int /\ 2 <= e /\ w = SubSeq(raw, 2, e)
    BY <2>1, <2>2 DEF e
  <2> HIDE DEF w
  <2>4. w \in Seq(Nat) /\ Len(w) = e - 2 + 1  BY <2>3, SlicedOK
  <2> QED  BY <1>3, <2>4 DEF e
<1>9. k \in Seq(Nat)
  <2>1. \A i \in 3 + n .. Len(raw) : raw[i] \in Nat  BY <1>2, <1>3, <1>6
  <2>2. 3 + n \in Int /\ Len(raw) \in Int  BY <1>2, <1>3
  <2> QED  BY <2>1, <2>2, SlicedOK
<1>10. Strings!Long(w) \in Strings!IPs  BY <1>3, <1>8, LongIP
<1>11. Strings!Fit(k) \in Seq(Nat) /\ Strings!Fit(k) # <<>> /\ Strings!Fit(Strings!Fit(k)) = Strings!Fit(k)
  BY <1>9, FitKey
<1> HIDE DEF w, k
<1>12. s.DCID = raw[1] /\ s.ServerAddr = Strings!Long(w) /\ s.Port = raw[2 + n] /\ s.AuthKey = Strings!Fit(k)
  BY <1>4
<1>13. s.DCID \in Int /\ s.Port \in Int  BY <1>7, <1>12
<1> QED  BY <1>4, <1>7, <1>10, <1>11, <1>12, <1>13 DEF SessOK

\* The types hold of an empty storage and an empty session.
LEMMA StringsInit == Strings!Init => StringsInv
<1>1. <<>> \in Seq(Nat)  OBVIOUS
<1> QED
  BY <1>1 DEF Strings!Init, StringsInv, SessOK, StoreOK, TextOK, Strings!NewStringSession, Strings!NoIP, Strings!NoData, Strings!NoText

\* A storage filled from a session holds it.
LEMMA StoredOK ==
  ASSUME NEW s, SessOK(s)
  PROVE  StoreOK(Strings!ToStorage(s))
<1> DEFINE a == [host |-> s.ServerAddr, port |-> <<s.Port>>]
           d == [DC |-> s.DCID, Addr |-> a, AuthKey |-> s.AuthKey, AuthKeyID |-> s.AuthKey]
<1>1. Strings!ToStorage(s) = Strings!NoData \/ Strings!ToStorage(s) = d  BY DEF Strings!ToStorage
<1>2. d.DC = s.DCID /\ d.AuthKey = s.AuthKey /\ d.Addr.host = s.ServerAddr /\ d.Addr.port = <<s.Port>>  OBVIOUS
<1>3. <<s.Port>> \in [1 .. 1 -> Int]  BY DEF SessOK
<1> HIDE DEF d
<1> QED  BY <1>1, <1>2, <1>3 DEF StoreOK, SessOK

\* What ExportSession encodes.
Port(d) == IF d.Addr.port = <<>> THEN 443 ELSE d.Addr.port[1]

\* The string that ExportSession makes of a storage.
LEMMA Exported ==
  ASSUME NEW d, StoreOK(d), d # Strings!NoData, d.Addr.host # Strings!NoIP
  PROVE  /\ d.DC \in Int /\ d.Addr.host \in Strings!IPs /\ Port(d) \in Int /\ d.AuthKey \in Seq(Nat)
         /\ Strings!ExportSession(d) = Strings!Encoded(Strings!Pack(d.DC, d.Addr.host, Port(d), d.AuthKey))
<1>1. d.DC \in Int /\ d.Addr.host \in Strings!IPs /\ d.AuthKey \in Seq(Nat)
  BY DEF StoreOK, Strings!NoIP
<1>2. Port(d) \in Int
  <2>1. CASE d.Addr.port = <<>>  BY <2>1 DEF Port
  <2>2. CASE d.Addr.port # <<>>
    <3>1. d.Addr.port \in [1 .. 1 -> Int]  BY <2>2 DEF StoreOK
    <3> QED  BY <2>2, <3>1 DEF Port
  <2> QED  BY <2>1, <2>2
<1>3. Strings!ExportSession(d) = Strings!Encoded(Strings!Pack(d.DC, d.Addr.host, Port(d), d.AuthKey))
  BY DEF Strings!ExportSession, Strings!NoPort, Port
<1> QED  BY <1>1, <1>2, <1>3

\* Every step of StringSession keeps the types.
LEMMA StringsNext == StringsInv /\ [Strings!Next]_stringVars => StringsInv'
<1> SUFFICES ASSUME StringsInv, [Strings!Next]_stringVars PROVE StringsInv'  OBVIOUS
<1> USE DEF StringsInv
<1>1. CASE Strings!StoreSession
  <2>1. store' \in Accounts /\ sess' = sess /\ text' = text  BY <1>1 DEF Strings!StoreSession
  <2>2. StoreOK(store')  BY <2>1, StoresAssumption DEF Strings!ParametersOK, StoreOK, Strings!Keys
  <2> QED  BY <2>1, <2>2
<1>2. CASE Strings!ExportCheck  BY <1>2 DEF Strings!ExportCheck
<1>3. CASE Strings!ExportLoad
  <2>1. text' = Strings!ExportSession(store) /\ sess' = sess /\ store' = store  BY <1>3 DEF Strings!ExportLoad
  <2>2. TextOK(text')
    <3>1. CASE store = Strings!NoData \/ store.Addr.host = Strings!NoIP
      BY <2>1, <3>1 DEF Strings!ExportSession, TextOK
    <3>2. CASE ~ (store = Strings!NoData \/ store.Addr.host = Strings!NoIP)
      BY <2>1, <3>2, Exported, PackParses
    <3> QED  BY <3>1, <3>2
  <2> QED  BY <2>1, <2>2
<1>4. CASE Strings!Fill
  <2>1. sess' \in Filled /\ store' = store /\ text' = text  BY <1>4 DEF Strings!Fill
  <2>2. SessOK(sess')  BY <2>1, StoresAssumption DEF Strings!ParametersOK, SessOK, Strings!Keys
  <2> QED  BY <2>1, <2>2
<1>5. CASE Strings!Receive
  <2>1. text' \in Received /\ sess' = sess /\ store' = store  BY <1>5 DEF Strings!Receive
  <2>2. TextOK(text')  BY <2>1, StoresAssumption DEF Strings!ParametersOK, TextOK
  <2> QED  BY <2>1, <2>2
<1>6. CASE Strings!Write
  <2>1. text' = Strings!Encode(sess) /\ sess' = sess /\ store' = store  BY <1>6 DEF Strings!Write
  <2>2. TextOK(text')
    <3>1. CASE sess.AuthKey = <<>> \/ sess.ServerAddr = Strings!NoIP
      BY <2>1, <3>1 DEF Strings!Encode, TextOK
    <3>2. CASE ~ (sess.AuthKey = <<>> \/ sess.ServerAddr = Strings!NoIP)
      <4>1. text' = Strings!Encoded(Strings!Pack(sess.DCID, sess.ServerAddr, sess.Port, sess.AuthKey))
        BY <2>1, <3>2 DEF Strings!Encode
      <4>2. sess.DCID \in Int /\ sess.ServerAddr \in Strings!IPs /\ sess.Port \in Int /\ sess.AuthKey \in Seq(Nat)
        BY <3>2 DEF SessOK, Strings!NoIP
      <4> QED  BY <4>1, <4>2, PackParses
    <3> QED  BY <3>1, <3>2
  <2> QED  BY <2>1, <2>2
<1>7. CASE Strings!Parse
  <2>1. /\ sess' = Strings!ParseString(text) /\ sess' # Strings!Refused
        /\ store' = store /\ text' = text
    BY <1>7 DEF Strings!Parse
  <2>2. SessOK(sess')
    <3>1. CASE text = Strings!NoText
      <4>1. sess' = Strings!NewStringSession  BY <2>1, <3>1 DEF Strings!ParseString
      <4>2. <<>> \in Seq(Nat)  OBVIOUS
      <4> QED  BY <4>1, <4>2 DEF SessOK, Strings!NewStringSession, Strings!NoIP
    <3>2. CASE text # Strings!NoText  BY <2>1, <3>2, ParsedOK
    <3> QED  BY <3>1, <3>2
  <2> QED  BY <2>1, <2>2
<1>8. CASE Strings!Start
  <2>1. store' = Strings!ToStorage(sess) /\ sess' = sess /\ text' = text  BY <1>8 DEF Strings!Start
  <2> QED  BY <2>1, StoredOK
<1>9. CASE UNCHANGED stringVars  BY <1>9 DEF stringVars
<1> QED  BY <1>1, <1>2, <1>3, <1>4, <1>5, <1>6, <1>7, <1>8, <1>9 DEF Strings!Next

\* The types are enough for a session to stay the same on every way.
LEMMA Travels == StringsInv => Strings!SessionTravels
<1> SUFFICES ASSUME StringsInv PROVE Strings!SessionTravels  OBVIOUS
<1>1. ASSUME NEW s, SessOK(s), s.AuthKey # <<>>
      PROVE  Strings!ExportSession(Strings!ToStorage(s)) = Strings!Encode(s)
  <2> DEFINE d == [DC |-> s.DCID, Addr |-> [host |-> s.ServerAddr, port |-> <<s.Port>>],
                   AuthKey |-> s.AuthKey, AuthKeyID |-> s.AuthKey]
  <2>1. Strings!ToStorage(s) = d  BY <1>1 DEF Strings!ToStorage
  <2>2. /\ d.DC = s.DCID /\ d.AuthKey = s.AuthKey /\ d.Addr.host = s.ServerAddr /\ d.Addr.port = <<s.Port>>
        /\ d # <<>>
    OBVIOUS
  <2>3. <<s.Port>> # <<>> /\ <<s.Port>>[1] = s.Port  OBVIOUS
  <2> HIDE DEF d
  <2>4. d.Addr.port # Strings!NoPort /\ d.Addr.port[1] = s.Port  BY <2>2, <2>3 DEF Strings!NoPort
  <2> QED  BY <1>1, <2>1, <2>2, <2>4 DEF Strings!ExportSession, Strings!Encode, Strings!NoData
<1>2. Strings!EncodersAgree  BY <1>1 DEF Strings!EncodersAgree, StringsInv
<1>3. Strings!ExportLeadsBack
  <2> SUFFICES ASSUME store # Strings!NoData, Strings!ExportSession(store) # Strings!NoText
               PROVE  LET next == Strings!ToStorage(Strings!ParseString(Strings!ExportSession(store)))
                      IN  /\ next.Addr.host = store.Addr.host /\ next.AuthKey = Strings!Fit(store.AuthKey)
                          /\ Strings!Restores(next)
                          /\ Strings!InRange(store) => next.DC = store.DC /\ next.Addr.port = store.Addr.port
    BY DEF Strings!ExportLeadsBack
  <2> DEFINE t    == Strings!ExportSession(store)
             key  == Strings!Fit(store.AuthKey)
             s    == Strings!ParseString(t)
             next == Strings!ToStorage(s)
  <2>1. store.Addr.host # Strings!NoIP  BY DEF Strings!ExportSession
  <2>2. /\ store.DC \in Int /\ store.Addr.host \in Strings!IPs /\ Port(store) \in Int /\ store.AuthKey \in Seq(Nat)
        /\ t = Strings!Encoded(Strings!Pack(store.DC, store.Addr.host, Port(store), store.AuthKey))
    BY <2>1, Exported DEF StringsInv
  <2>3. key \in Seq(Nat) /\ key # <<>> /\ Strings!Fit(key) = key  BY <2>2, FitKey
  <2>4. s = [DCID |-> store.DC % Byte, ServerAddr |-> store.Addr.host, Port |-> Port(store) % Word, AuthKey |-> key]
    BY <2>2, PackParses
  <2> HIDE DEF t, key, s
  <2>5. /\ s.DCID = store.DC % Byte /\ s.ServerAddr = store.Addr.host /\ s.Port = Port(store) % Word
        /\ s.AuthKey = key
    BY <2>4
  <2>6. next = [DC |-> s.DCID, Addr |-> [host |-> s.ServerAddr, port |-> <<s.Port>>],
                AuthKey |-> s.AuthKey, AuthKeyID |-> s.AuthKey]
    BY <2>3, <2>5 DEF Strings!ToStorage
  <2>7. /\ next.DC = s.DCID /\ next.Addr.host = s.ServerAddr /\ next.Addr.port = <<s.Port>>
        /\ next.AuthKey = key /\ next.AuthKeyID = key
    BY <2>5, <2>6
  <2> HIDE DEF next
  <2>8. Strings!Restores(next)  BY <2>3, <2>7 DEF Strings!Restores
  <2>9. ASSUME Strings!InRange(store) PROVE next.DC = store.DC /\ next.Addr.port = store.Addr.port
    <3>1. store.DC \in 0 .. Byte - 1 /\ store.Addr.port # <<>> /\ store.Addr.port[1] \in 0 .. Word - 1
      BY <2>9 DEF Strings!InRange, Strings!NoPort
    <3>2. store.DC % Byte = store.DC  BY <3>1, Widths
    <3>3. Port(store) = store.Addr.port[1]  BY <3>1 DEF Port
    <3>4. Port(store) % Word = Port(store)  BY <3>1, <3>3, Widths
    <3>5. store.Addr.port \in [1 .. 1 -> Int]  BY <3>1 DEF StringsInv, StoreOK
    <3>6. store.Addr.port = <<store.Addr.port[1]>>  BY <3>5
    <3> QED  BY <2>5, <2>7, <3>2, <3>3, <3>4, <3>6
  <2> QED  BY <2>5, <2>7, <2>8, <2>9 DEF key, next, s, t
<1>4. Strings!ParsedIsStable
  <2> DEFINE s == Strings!ParseString(text)
  <2> SUFFICES ASSUME text # Strings!NoText, s # Strings!Refused
               PROVE  Strings!Encode(s) # Strings!NoText /\ Strings!ParseString(Strings!Encode(s)) = s
    BY DEF Strings!ParsedIsStable
  <2>1. /\ SessOK(s) /\ s.ServerAddr \in Strings!IPs
        /\ s.DCID \in 0 .. Byte - 1 /\ s.Port \in 0 .. Word - 1
        /\ s.AuthKey # <<>> /\ Strings!Fit(s.AuthKey) = s.AuthKey
        /\ s = [DCID |-> s.DCID, ServerAddr |-> s.ServerAddr, Port |-> s.Port, AuthKey |-> s.AuthKey]
    BY ParsedOK DEF StringsInv
  <2> HIDE DEF s
  <2>2. s.ServerAddr # Strings!NoIP  BY <2>1, AddressWords DEF Strings!NoIP
  <2>3. Strings!Encode(s) = Strings!Encoded(Strings!Pack(s.DCID, s.ServerAddr, s.Port, s.AuthKey))
    BY <2>1, <2>2 DEF Strings!Encode
  <2>4. s.DCID % Byte = s.DCID /\ s.Port % Word = s.Port  BY <2>1, Widths
  <2>5. /\ Strings!Encode(s) # Strings!NoText
        /\ Strings!ParseString(Strings!Encode(s)) =
             [DCID |-> s.DCID % Byte, ServerAddr |-> s.ServerAddr, Port |-> s.Port % Word, AuthKey |-> Strings!Fit(s.AuthKey)]
    BY <2>1, <2>3, PackParses DEF SessOK
  <2> QED  BY <2>1, <2>4, <2>5
<1> QED  BY <1>2, <1>3, <1>4 DEF Strings!SessionTravels

(* -------------------- the state store of transfers --------------------- *)

\* The one writer has opened the temporary file, which is not the state file; its
\* data is empty before the write and the state after it; and the state file
\* holds a state.
WriterAlone ==
  \A w \in Writers :
    /\ at[w] # "idle" => fd[w] = tmp /\ tmp # None /\ held[w] \in States
    /\ at[w] = "write" => data[tmp] = Empty
    /\ at[w] = "rename" => data[tmp] = held[w]
NamesApart == path # None => path # tmp /\ data[path] \in States

JsonInv == Json!TypeOK /\ WriterAlone /\ NamesApart

\* The writer is the only one.
LEMMA Alone == ASSUME NEW w \in Writers PROVE Writers = {w}
BY OneWriter

\* The invariant holds of a directory without files.
LEMMA JsonInit == Json!Init => JsonInv
BY DEF Json!Init, JsonInv, Json!TypeOK, WriterAlone, NamesApart, Json!Idle

\* Every step keeps it, and is a step of the register for the state file.
LEMMA JsonStep ==
  ASSUME JsonInv, [Json!Next]_jsonVars
  PROVE  JsonInv' /\ [Json!Store!Next]_<<Json!Content, read>>
<1>1. None \notin Inodes /\ Empty \notin States /\ Garbage \notin States /\ Empty # Garbage
  BY StoresAssumption DEF Json!ParametersOK
<1>2. /\ path \in Inodes \cup {None} /\ tmp \in Inodes \cup {None}
      /\ data \in [Inodes -> States \cup {Empty, Garbage}]
      /\ at \in [Writers -> {"idle", "write", "rename"}]
      /\ fd \in [Writers -> Inodes \cup {None}]
      /\ held \in [Writers -> States \cup {Empty}]
      /\ read \in States \cup {Empty, Garbage}
      /\ Json!Content \in States \cup {Empty}
  BY DEF JsonInv, Json!TypeOK, NamesApart, Json!Content
<1> USE DEF JsonInv, Json!TypeOK, WriterAlone, NamesApart
<1>3. ASSUME NEW w \in Writers, NEW s \in States, Json!SaveOpen(w, s)
      PROVE  JsonInv' /\ UNCHANGED <<Json!Content, read>>
  <2>1. Writers = {w}  BY Alone
  <2>2. PICK i \in Inodes :
          /\ i # path /\ at[w] = "idle"
          /\ tmp' = i /\ data' = [data EXCEPT ![i] = Empty] /\ fd' = [fd EXCEPT ![w] = i]
          /\ at' = [at EXCEPT ![w] = "write"] /\ held' = [held EXCEPT ![w] = s]
          /\ UNCHANGED <<path, read>>
    <3>1. CASE tmp = None  BY <1>3, <1>2, <3>1 DEF Json!SaveOpen, Json!Free
    <3>2. CASE tmp # None  BY <1>3, <1>1, <1>2, <3>2 DEF Json!SaveOpen
    <3> QED  BY <3>1, <3>2
  <2>3. Json!TypeOK'  BY <1>2, <2>2
  <2>4. WriterAlone'  BY <1>1, <1>2, <2>1, <2>2
  <2>5. NamesApart' /\ UNCHANGED <<Json!Content, read>>
    BY <1>1, <1>2, <2>2 DEF Json!Content
  <2> QED  BY <2>3, <2>4, <2>5
<1>4. ASSUME NEW w \in Writers, Json!SaveWrite(w)
      PROVE  JsonInv' /\ UNCHANGED <<Json!Content, read>>
  <2>1. Writers = {w}  BY Alone
  <2>2. /\ at[w] = "write" /\ at' = [at EXCEPT ![w] = "rename"]
        /\ tmp \in Inodes /\ tmp # path /\ held[w] \in States
        /\ data' = [data EXCEPT ![tmp] = held[w]]
        /\ UNCHANGED <<path, tmp, fd, held, read>>
    BY <1>4, <1>1, <1>2 DEF Json!SaveWrite
  <2>3. Json!TypeOK'  BY <1>2, <2>2
  <2>4. WriterAlone'  BY <1>1, <1>2, <2>1, <2>2
  <2>5. NamesApart' /\ UNCHANGED <<Json!Content, read>>
    BY <1>1, <1>2, <2>2 DEF Json!Content
  <2> QED  BY <2>3, <2>4, <2>5
<1>5. ASSUME NEW w \in Writers, Json!SaveWriteFails(w)
      PROVE  JsonInv' /\ UNCHANGED <<Json!Content, read>>
  <2>1. Writers = {w}  BY Alone
  <2>2. /\ at' = [at EXCEPT ![w] = "idle"]
        /\ tmp \in Inodes /\ tmp # path
        /\ data' = data \/ data' = [data EXCEPT ![tmp] = Garbage]
        /\ fd' = [fd EXCEPT ![w] = None] /\ held' = [held EXCEPT ![w] = Empty]
        /\ UNCHANGED <<path, tmp, read>>
    BY <1>5, <1>1, <1>2 DEF Json!SaveWriteFails
  <2>3. Json!TypeOK'  BY <1>2, <2>2
  <2>4. WriterAlone'  BY <1>1, <1>2, <2>1, <2>2
  <2>5. NamesApart' /\ UNCHANGED <<Json!Content, read>>
    BY <1>1, <1>2, <2>2 DEF Json!Content
  <2> QED  BY <2>3, <2>4, <2>5
<1>6. ASSUME NEW w \in Writers, Json!SaveRename(w)
      PROVE  JsonInv' /\ Json!Store!Next
  <2>1. Writers = {w}  BY Alone
  <2>2. /\ at[w] = "rename" /\ at' = [at EXCEPT ![w] = "idle"]
        /\ tmp \in Inodes /\ data[tmp] \in States /\ path' = tmp /\ tmp' = None
        /\ fd' = [fd EXCEPT ![w] = None] /\ held' = [held EXCEPT ![w] = Empty]
        /\ read' = Empty /\ data' = data
    BY <1>6, <1>1, <1>2 DEF Json!SaveRename
  <2>3. Json!TypeOK'  BY <1>2, <2>2
  <2>4. WriterAlone'  BY <1>1, <1>2, <2>1, <2>2
  <2>5. NamesApart'  BY <1>1, <1>2, <2>2
  <2>6. Json!Content' \in States  BY <1>1, <2>2 DEF Json!Content
  <2>7. Json!Store!Store(Json!Content')  BY <2>2 DEF Json!Store!Store
  <2> QED  BY <2>3, <2>4, <2>5, <2>6, <2>7 DEF Json!Store!Next
<1>7. ASSUME NEW w \in Writers, Json!Delete(w)
      PROVE  JsonInv' /\ Json!Store!Next
  <2>1. JsonInv'  BY <1>7, <1>1, <1>2 DEF Json!Delete
  <2>2. Json!Content' = Empty /\ read' = Empty  BY <1>7 DEF Json!Delete, Json!Content
  <2> QED  BY <2>1, <2>2 DEF Json!Store!Next, Json!Store!Store
<1>8. CASE Json!Load
  <2>1. JsonInv'  BY <1>8, <1>2 DEF Json!Load
  <2>2. Json!Content' = Json!Content /\ read' = Json!Content  BY <1>8 DEF Json!Load, Json!Content
  <2> QED  BY <2>1, <2>2 DEF Json!Store!Next, Json!Store!Load
<1>9. CASE Json!Crash
  BY <1>9, <1>2 DEF Json!Crash, Json!Idle, Json!Content
<1>30. CASE UNCHANGED jsonVars
  BY <1>30 DEF jsonVars, Json!Content
<1> QED  BY <1>3, <1>4, <1>5, <1>6, <1>7, <1>8, <1>9, <1>30 DEF Json!Next

\* A state store with one writer is a register for whole states, whatever its
\* saves meet, and a session is the same after every way between storages and
\* strings, for any widths, keys and addresses (transfers.go:50-91,
\* session.go:293-404, client.go:609-671).
THEOREM StoresKeepHolds == AllSpec => StoresKeep
<1>1. AllInit => JsonInv /\ StringsInv /\ Json!Store!Init
  BY JsonInit, StringsInit DEF AllInit, Json!Init, Json!Store!Init, Json!Content
<1>2. JsonInv /\ StringsInv /\ [AllNext]_allVars => JsonInv' /\ StringsInv' /\ [Json!Store!Next]_<<Json!Content, read>>
  <2>1. [AllNext]_allVars => [Json!Next]_jsonVars /\ [Strings!Next]_stringVars
    BY DEF AllNext, allVars
  <2> QED  BY <2>1, JsonStep, StringsNext
<1> QED  BY <1>1, <1>2, Travels, PTL DEF AllSpec, StoresKeep, Json!ImplementsStore, Json!Store!Spec

=============================================================================
