-------------------------- MODULE CapsuleApiProofs --------------------------
(***************************************************************************)
(* The replay cache of the Capsule API, for any capacity, any clients and  *)
(* any number of connections: its queue, its set and the history of the    *)
(* nonces that were taken never part.                                      *)
(***************************************************************************)
EXTENDS CapsuleApi, TLAPS

Entries == Fingerprints \cup {None}

\* A connection is its steps and a nonce.
ConnOK ==
  /\ conn = [c \in Conns |-> conn[c]]
  /\ \A c \in Conns : /\ conn[c] = [todo |-> conn[c].todo, fp |-> conn[c].fp]
                      /\ conn[c].fp \in Entries

\* The queue holds the last nonces that were taken, once each, and the set is that of
\* its elements.
CacheOK ==
  /\ order \in Seq(Entries)
  /\ Len(order) <= Capacity
  /\ \A i, j \in 1 .. Len(order) : order[i] = order[j] => i = j
  /\ \A x : x \in seen <=> \E i \in 1 .. Len(order) : order[i] = x
  /\ recent = order

Inv == ConnOK /\ CacheOK

\* The cache starts empty.
LEMMA InitInv == Init => Inv
BY ApiAssumption DEF Init, Inv, ConnOK, CacheOK, Entries, Idle

\* Whatever steps it is left with, a connection keeps its nonce or is idle.
LEMMA SetOK ==
  ASSUME ConnOK, NEW c \in Conns, NEW todo, Set(c, todo)
  PROVE  ConnOK'
<1>1. conn' = [conn EXCEPT ![c] = IF todo = <<>> THEN Idle ELSE [conn[c] EXCEPT !.todo = todo]]
  BY Zenon DEF Set
<1>2. /\ conn'[c] = [todo |-> conn'[c].todo, fp |-> conn'[c].fp]
      /\ conn'[c].fp \in Entries
  <2>1. conn'[c] = IF todo = <<>> THEN Idle ELSE [conn[c] EXCEPT !.todo = todo]
    BY <1>1, Zenon DEF ConnOK
  <2>2. CASE todo = <<>>
    BY <2>1, <2>2 DEF Idle, Entries
  <2>3. CASE todo # <<>>
    BY <2>1, <2>3, Zenon DEF ConnOK
  <2>. QED
    BY <2>2, <2>3, Zenon
<1>3. \A d \in Conns : d # c => conn'[d] = conn[d]
  BY <1>1, Zenon DEF ConnOK
<1>4. conn' = [d \in Conns |-> conn'[d]]
  BY <1>1, Zenon DEF ConnOK
<1>. QED
  BY <1>2, <1>3, <1>4, Zenon DEF ConnOK

\* Every step of a connection but Request leaves it in the form of Set.
LEMMA StepsSet ==
  ASSUME NEW c \in Conns,
         Local(c) \/ LookupEnds(c) \/ Remote(c)
  PROVE  \E todo : Set(c, todo)
BY Zenon DEF Local, LookupEnds, Remote, Plain, ProxyRequest, CollectRandomBytes, Seal, Attest, Register,
   Decrypt, Opens, Lookup, Resolve, CacheWallet, Self, Authz, ClearAuthz, StoreAuthz, Operate,
   OpenEnvelope, ReadRegistry, Prepare, CallNode, Expand, Done, Fail

\* insert_if_new: a nonce that is new is added, and the oldest goes if there are too
\* many.
LEMMA InsertOK ==
  ASSUME CacheOK, NEW fp \in Entries, fp \notin seen, Insert(fp),
         recent' = IF Len(recent) = Capacity THEN Append(Tail(recent), fp) ELSE Append(recent, fp)
  PROVE  CacheOK' /\ Newest' = fp
<1>. DEFINE all == Append(order, fp)
<1>1. /\ order \in Seq(Entries) /\ Len(order) \in Nat /\ Capacity \in Nat \ {0}
      /\ Len(order) <= Capacity
  BY ApiAssumption DEF CacheOK
<1>2. /\ all \in Seq(Entries) /\ Len(all) = Len(order) + 1
      /\ \A i \in 1 .. Len(order) : all[i] = order[i]
      /\ all[Len(order) + 1] = fp
  BY <1>1
<1>3. \A i, j \in 1 .. Len(all) : all[i] = all[j] => i = j
  <2>1. \A i \in 1 .. Len(order) : order[i] # fp
    BY Zenon DEF CacheOK
  <2>2. \A i, j \in 1 .. Len(order) : order[i] = order[j] => i = j
    BY Zenon DEF CacheOK
  <2>. QED
    BY <1>1, <1>2, <2>1, <2>2, SMTT(30)
<1>4. \A x : x \in seen \cup {fp} <=> \E i \in 1 .. Len(all) : all[i] = x
  <2>1. \A x : x \in seen <=> \E i \in 1 .. Len(order) : order[i] = x
    BY Zenon DEF CacheOK
  <2>. QED
    BY <1>1, <1>2, <2>1
<1>. HIDE DEF all
<1>5. CASE Len(order) = Capacity
  <2>1. order' = Tail(all) /\ seen' = (seen \cup {fp}) \ {Head(all)}
    BY <1>1, <1>2, <1>5 DEF Insert, all
  <2>2. /\ Tail(all) \in Seq(Entries) /\ Len(Tail(all)) = Len(order)
        /\ \A i \in 1 .. Len(order) : Tail(all)[i] = all[i + 1]
        /\ Head(all) = all[1]
    BY <1>1, <1>2
  <2>3. recent' = order'
    <3>1. recent' = Append(Tail(order), fp)
      BY <1>5, Zenon DEF CacheOK
    <3>2. /\ Append(Tail(order), fp) \in Seq(Entries)
          /\ Len(Append(Tail(order), fp)) = Len(order)
          /\ \A i \in 1 .. Len(order) : Append(Tail(order), fp)[i] = all[i + 1]
      BY <1>1, <1>2, <1>5
    <3>3. Append(Tail(order), fp) = Tail(all)
      BY <2>2, <3>2, SMTT(30)
    <3>. QED
      BY <2>1, <3>1, <3>3, Zenon
  <2>4. \A x : x \in seen' <=> \E i \in 1 .. Len(order') : order'[i] = x
    <3>. TAKE x
    <3>1. ASSUME NEW i \in 1 .. Len(all), all[i] = x, x # all[1]
          PROVE  \E j \in 1 .. Len(order') : order'[j] = x
      <4>1. i - 1 \in 1 .. Len(order) /\ (i - 1) + 1 = i
        BY <1>1, <1>2, <3>1
      <4>. QED
        BY <2>1, <2>2, <3>1, <4>1, Zenon
    <3>2. ASSUME NEW j \in 1 .. Len(order'), order'[j] = x
          PROVE  x # all[1] /\ \E i \in 1 .. Len(all) : all[i] = x
      <4>1. j + 1 \in 1 .. Len(all) /\ 1 \in 1 .. Len(all) /\ j + 1 # 1 /\ all[j + 1] = x
        BY <1>1, <1>2, <2>1, <2>2, <3>2
      <4>. QED
        BY <1>3, <4>1, Zenon
    <3>. QED
      BY <1>4, <2>1, <2>2, <3>1, <3>2, Zenon
  <2>5. \A i, j \in 1 .. Len(order') : order'[i] = order'[j] => i = j
    BY <1>1, <1>2, <1>3, <2>1, <2>2, SMTT(30)
  <2>6. Newest' = fp
    BY <1>1, <1>2, <1>5, <2>1, <2>2, <2>3 DEF Newest
  <2>. QED
    BY <1>1, <2>1, <2>2, <2>3, <2>4, <2>5, <2>6, Zenon DEF CacheOK
<1>6. CASE Len(order) # Capacity
  <2>1. order' = all /\ seen' = seen \cup {fp} /\ recent' = all
    BY <1>1, <1>2, <1>6 DEF Insert, CacheOK, all
  <2>. QED
    BY <1>1, <1>2, <1>3, <1>4, <1>6, <2>1 DEF CacheOK, Newest
<1>. QED
  BY <1>5, <1>6, Zenon

\* A decryption, with its two outcomes
LEMMA DecryptOK ==
  ASSUME CacheOK, NEW c, NEW fp \in Entries, Decrypt(c, fp)
  PROVE  /\ CacheOK'
         /\ recent' # recent => \A i \in 1 .. Len(recent) : recent[i] # Newest'
<1>1. CASE UNCHANGED <<order, seen, recent>>
  BY <1>1, Zenon DEF CacheOK
<1>2. CASE /\ fp \notin seen
           /\ Insert(fp)
           /\ recent' = IF Len(recent) = Capacity THEN Append(Tail(recent), fp) ELSE Append(recent, fp)
  <2>1. CacheOK' /\ Newest' = fp
    BY <1>2, InsertOK, Zenon
  <2>2. \A i \in 1 .. Len(recent) : recent[i] # fp
    BY <1>2, Zenon DEF CacheOK
  <2>. QED
    BY <2>1, <2>2, Zenon
<1>. QED
  BY <1>1, <1>2, Zenon DEF Decrypt

Replay == recent' # recent => \A i \in 1 .. Len(recent) : recent[i] # Newest'

\* Every step preserves the invariant and takes no recent nonce again.
LEMMA StepInv == Inv /\ [Next]_vars => Inv' /\ Replay
<1>. SUFFICES ASSUME Inv, [Next]_vars PROVE Inv' /\ Replay
  BY Zenon
<1>0. ConnOK /\ CacheOK
  BY Zenon DEF Inv
<1>1. ASSUME UNCHANGED nonces PROVE CacheOK' /\ Replay
  BY <1>0, <1>1, Zenon DEF nonces, CacheOK, Replay
<1>2. ASSUME NEW c \in Conns, Register(c) PROVE CacheOK' /\ Replay
  BY <1>0, <1>2, DecryptOK, Zenon DEF Register, ConnOK, Replay
<1>3. ASSUME NEW c \in Conns, OpenEnvelope(c) PROVE CacheOK' /\ Replay
  <2>1. PICK n \in Nonces : Decrypt(c, <<NodeDer, n>>)
    BY <1>3, Zenon DEF OpenEnvelope
  <2>2. <<NodeDer, n>> \in Entries
    BY Zenon DEF Entries, Fingerprints, Ders
  <2>. QED
    BY <1>0, <2>1, <2>2, DecryptOK, Zenon DEF Replay
<1>4. ASSUME NEW c \in Conns, Local(c), ~Register(c), ~OpenEnvelope(c) PROVE UNCHANGED nonces
  BY <1>4, Zenon DEF Local, Plain, ProxyRequest, CollectRandomBytes, Seal, Attest, Lookup, Resolve,
     CacheWallet, Self, Authz, ClearAuthz, StoreAuthz, Operate, caches
<1>5. ASSUME NEW c \in Conns, Request(c) \/ LookupEnds(c) \/ Remote(c) PROVE UNCHANGED nonces
  BY <1>5, Zenon DEF Request, LookupEnds, Remote, ReadRegistry, Prepare, CallNode, Plain, caches
<1>6. ASSUME Start \/ RegistryChanges \/ Tick \/ WalletExpires \/ UNCHANGED vars
      PROVE  UNCHANGED nonces /\ ConnOK'
  BY <1>0, <1>6, Zenon DEF Start, RegistryChanges, Tick, WalletExpires, vars, caches, ConnOK
<1>7. ASSUME NEW c \in Conns, Local(c) \/ LookupEnds(c) \/ Remote(c) PROVE ConnOK'
  BY <1>0, <1>7, StepsSet, SetOK, Zenon
<1>8. ASSUME NEW c \in Conns, Request(c) PROVE ConnOK'
  <2>1. ASSUME NEW kind, Set(c, Program(kind)) PROVE ConnOK'
    BY <1>0, <2>1, SetOK, Zenon
  <2>2. ASSUME NEW k \in ClientDers, NEW raw \in Raw, NEW todo,
               conn' = [conn EXCEPT ![c] = [todo |-> todo, fp |-> <<k, NormalizeNonce(raw)>>]]
        PROVE  ConnOK'
    <3>1. <<k, NormalizeNonce(raw)>> \in Entries
      BY DEF Entries, Fingerprints, Ders, NormalizeNonce, Raw
    <3>. QED
      BY <1>0, <2>2, <3>1, Zenon DEF ConnOK
  <2>. QED
    BY <1>8, <2>1, <2>2, Zenon DEF Request
<1>. QED
  BY <1>1, <1>2, <1>3, <1>4, <1>5, <1>6, <1>7, <1>8, Zenon DEF Next, Inv

\* No nonce is taken that is among the last Capacity taken with the same bytes for a
\* public key, whichever client or KMS node it came from and however requests
\* interleave: the replay cache rejects it (insert_if_new).
THEOREM NoncesAreFresh == Spec => NonceUsedOnce
<1>1. Inv /\ [Next]_vars => [Replay]_vars
  BY StepInv, Zenon
<1>2. Inv /\ [Next]_vars => Inv'
  BY StepInv, Zenon
<1>. QED
  BY <1>1, <1>2, InitInv, PTL DEF Spec, NonceUsedOnce, Replay
=============================================================================
