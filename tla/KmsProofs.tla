----------------------------- MODULE KmsProofs -----------------------------
(***************************************************************************)
(* Proofs about what the enclave keeps with the KMS and how it reaches it: *)
(* the wallet of the application, for any number of instances that share a *)
(* namespace, of requests and of lapses of the cache; and the KMS nodes,   *)
(* for any registry, any number of requests and faults and any TTLs.       *)
(***************************************************************************)
EXTENDS AppWallet, KmsNodes, TLAPS

-----------------------------------------------------------------------------
(***************************************************************************)
(* The application wallet                                                  *)
(*                                                                         *)
(* For any number of instances, requests and wallets: as long as requests  *)
(* come in turn, and none of them generates a wallet because it was denied *)
(* a record that is there, the application sees one wallet; and in any     *)
(* order nobody starts an initialisation over existing records but one who *)
(* was denied a record.                                                    *)
(*                                                                         *)
(* A wallet is handed out only if its address was written, and its address *)
(* is written only after its private key.  So it is enough to follow the   *)
(* wallets whose address is written, under way or about to be (Addressed): *)
(* there is at most one, and none while a request that has rightly found   *)
(* no private key may still generate a wallet.                             *)
(***************************************************************************)

Addressed ==
  {w \in Wallets : \/ store["address"] = w
                   \/ <<"address", w>> \in late
                   \/ \E r \in Requests : pc[r] = "put_addr" /\ own[r] = w
                   \/ w \in handed}

\* A request that writes has generated a wallet.
Owns == \A r \in Requests : Writing(r) => own[r] # None

InTurn ==
  /\ \A r, q \in Requests : pc[r] # "idle" /\ pc[q] # "idle" => r = q
  /\ \A v, w \in Addressed : v = w
  /\ Addressed # {} => store["key"] # None
  /\ \A r \in Requests : pc[r] = "get_addr" /\ key[r] = None /\ r \notin missed => Addressed = {}
  /\ \A r \in Requests : pc[r] = "put_key" => Addressed = {}
  /\ \A i \in Instances : cache[i].fresh => cache[i].wallet \in handed

Inv ==
  /\ TypeOK
  /\ Owns
  /\ \A i \in Instances : cache[i].fresh => cache[i].wallet # None
  /\ ~overlap /\ ~blind => InTurn

\* It holds before any request.
LEMMA InitInv == Init => Inv
<1>. SUFFICES ASSUME Init PROVE Inv
  BY Zenon
<1>1. None \notin Wallets /\ MaxWallets \in Nat
  BY WalletAssumption, Zenon DEF Wallets
<1>2. TypeOK
  <2>1. made \in 0 .. MaxWallets
    BY <1>1 DEF Init
  <2>. QED
    BY <2>1, ZenonT(30) DEF Init, TypeOK, PCs, Records, NoWallet
<1>3. Addressed = {}
  BY <1>1, Zenon DEF Init, Addressed, Records
<1>. QED
  BY <1>2, <1>3, Zenon DEF Init, Inv, InTurn, Owns, Writing, NoWallet

-----------------------------------------------------------------------------
(* Types *)

\* A function that is changed in one place keeps its type.
LEMMA ExceptType ==
  ASSUME NEW S, NEW V, NEW f \in [S -> V], NEW x, NEW v \in V
  PROVE  [f EXCEPT ![x] = v] \in [S -> V]
BY Zenon

\* The three ends of the second read: a wallet is generated; the one whose address is
\* stored is handed out; an error.
LEMMA GetAddrEnds ==
  ASSUME NEW r \in Requests, GetAddr(r)
  PROVE  /\ pc[r] = "get_addr"
         /\ store' = store /\ late' = late /\ overlap' = overlap
         /\ \/ /\ Generate(r) /\ key[r] = None
               /\ store["address"] = None \/ r \in missed'
               /\ missed' \in {missed, missed \cup {r}} /\ blind' = (blind \/ r \in missed')
               /\ key' = key /\ cache' = cache /\ handed' = handed
            \/ /\ store["address"] # None
               /\ cache' = [cache EXCEPT ![Home[r]] = [wallet |-> store["address"], fresh |-> TRUE]]
               /\ HandOut(store["address"])
               /\ Return(r)
               /\ made' = made
            \/ Return(r) /\ cache' = cache /\ made' = made /\ handed' = handed
<1>1. PICK a \in KvGet("address") :
        LET w == Decode(key[r], a)
            new == own[r] = None /\ NothingStored(key[r], a)
        IN  \/ /\ new
               /\ Generate(r)
               /\ missed' = IF a = store["address"] THEN missed ELSE missed \cup {r}
               /\ blind' = (blind \/ r \in missed')
               /\ UNCHANGED <<key, cache, handed>>
            \/ /\ w # None
               /\ own[r] \in {None, w}
               /\ cache' = [cache EXCEPT ![Home[r]] = [wallet |-> w, fresh |-> TRUE]]
               /\ HandOut(w)
               /\ Return(r)
               /\ UNCHANGED made
            \/ /\ ~new
               /\ w = None \/ own[r] \notin {None, w}
               /\ Return(r)
               /\ UNCHANGED <<cache, made, handed>>
  BY Zenon DEF GetAddr
<1>2. a = store["address"] \/ a = None
  BY Zenon DEF KvGet
<1>3. Decode(key[r], a) # None => Decode(key[r], a) = store["address"]
  BY <1>2, Zenon DEF Decode
<1>4. pc[r] = "get_addr" /\ store' = store /\ late' = late /\ overlap' = overlap
  BY Zenon DEF GetAddr
<1>5. CASE /\ own[r] = None /\ NothingStored(key[r], a)
           /\ Generate(r)
           /\ missed' = IF a = store["address"] THEN missed ELSE missed \cup {r}
           /\ blind' = (blind \/ r \in missed')
           /\ UNCHANGED <<key, cache, handed>>
  <2>1. key[r] = None /\ a = None
    BY <1>5, Zenon DEF NothingStored
  <2>2. store["address"] = None \/ r \in missed'
    BY <1>5, <2>1, Zenon
  <2>3. missed' \in {missed, missed \cup {r}}
    BY <1>5, Zenon
  <2>. QED
    BY <1>4, <1>5, <2>1, <2>2, <2>3, Zenon
<1>. QED
  BY <1>1, <1>3, <1>4, <1>5, Zenon

\* Every step of a request keeps the types.
LEMMA StepTypes == Inv /\ [Next]_vars => TypeOK'
<1>. SUFFICES ASSUME Inv, [Next]_vars PROVE TypeOK'
  BY Zenon
<1>0. TypeOK /\ Owns /\ None \notin Wallets /\ Wallets = 1 .. MaxWallets /\ MaxWallets \in Nat
      /\ Home \in [Requests -> Instances]
      /\ \A i \in Instances : cache[i].fresh => cache[i].wallet # None
  BY WalletAssumption, Zenon DEF Inv, Wallets
<1>1. ASSUME NEW r \in Requests, Lookup(r) PROVE TypeOK'
  <2>1. Home[r] \in Instances
    BY <1>0, Zenon
  <2>2. handed' \subseteq Wallets
    BY <1>0, <1>1, <2>1, ZenonT(30) DEF Lookup, TypeOK, HandOut
  <2>3. pc' \in [Requests -> PCs]
    BY <1>0, <1>1, ZenonT(30) DEF Lookup, TypeOK, Goto, PCs
  <2>. QED
    BY <1>0, <1>1, <2>2, <2>3, Zenon DEF Lookup, TypeOK, locals, history
<1>2. ASSUME NEW r \in Requests, ClearCache(r) PROVE TypeOK'
  BY <1>0, <1>2, Zenon DEF ClearCache, TypeOK, locals, history, NoWallet, Goto, PCs
<1>3. ASSUME NEW r \in Requests, GetKey(r) PROVE TypeOK'
  <2>1. PICK k \in KvGet("key") :
          /\ key' = [key EXCEPT ![r] = k]
          /\ missed' = IF k = store["key"] THEN missed ELSE missed \cup {r}
    BY <1>3, Zenon DEF GetKey
  <2>2. k \in Wallets \cup {None}
    BY <1>0, Zenon DEF KvGet, TypeOK, Records
  <2>3. key' \in [Requests -> Wallets \cup {None}] /\ missed' \subseteq Requests
    BY <1>0, <2>1, <2>2, ExceptType, ZenonT(30) DEF TypeOK
  <2>4. pc' \in [Requests -> PCs]
    BY <1>0, <1>3, Zenon DEF GetKey, TypeOK, Goto, PCs
  <2>. QED
    BY <1>0, <1>3, <2>3, <2>4, Zenon DEF GetKey, TypeOK
<1>4. ASSUME NEW r \in Requests, GetAddr(r) PROVE TypeOK'
  <2>1. store["address"] \in Wallets \cup {None}
    BY <1>0, Zenon DEF TypeOK, Records
  <2>2. UNCHANGED <<store, late, overlap>>
    BY <1>4, GetAddrEnds, Zenon
  <2>3. made' \in 0 .. MaxWallets
    <3>1. made' = made \/ (made < MaxWallets /\ made' = made + 1)
      BY <1>4, GetAddrEnds, Zenon DEF Generate
    <3>. QED
      BY <1>0, <3>1 DEF TypeOK
  <2>4. own' \in [Requests -> Wallets \cup {None}] /\ key' \in [Requests -> Wallets \cup {None}]
    <3>1. \/ key' = key /\ own' = [own EXCEPT ![r] = made + 1] /\ made < MaxWallets
          \/ key' = [key EXCEPT ![r] = None] /\ own' = [own EXCEPT ![r] = None]
      BY <1>4, GetAddrEnds, Zenon DEF Generate, Return
    <3>2. made \in 0 .. MaxWallets
      BY <1>0, Zenon DEF TypeOK
    <3>3. made < MaxWallets => made + 1 \in Wallets
      BY <1>0, <3>2
    <3>4. own \in [Requests -> Wallets \cup {None}] /\ key \in [Requests -> Wallets \cup {None}]
      BY <1>0, Zenon DEF TypeOK
    <3>. QED
      BY <3>1, <3>3, <3>4, Zenon
  <2>5. pc' \in [Requests -> PCs]
    <3>1. pc' = [pc EXCEPT ![r] = "put_key"] \/ pc' = [pc EXCEPT ![r] = "idle"]
      BY <1>4, GetAddrEnds, Zenon DEF Generate, Goto, Return
    <3>. QED
      BY <1>0, <3>1, Zenon DEF TypeOK, PCs
  <2>6. handed' \subseteq Wallets
    BY <1>0, <1>4, <2>1, GetAddrEnds, ZenonT(30) DEF TypeOK, HandOut
  <2>7. cache' \in [Instances -> [wallet : Wallets \cup {None}, fresh : BOOLEAN]]
    <3>1. \/ cache' = cache
          \/ cache' = [cache EXCEPT ![Home[r]] =
                          [wallet |-> store["address"], fresh |-> TRUE]]
      BY <1>4, GetAddrEnds, Zenon
    <3>2. [wallet |-> store["address"], fresh |-> TRUE]
            \in [wallet : Wallets \cup {None}, fresh : BOOLEAN]
      BY <2>1, Zenon
    <3>3. cache \in [Instances -> [wallet : Wallets \cup {None}, fresh : BOOLEAN]]
      BY <1>0, Zenon DEF TypeOK
    <3>. QED
      BY <3>1, <3>2, <3>3, ExceptType, ZenonT(30)
  <2>8. missed' \subseteq Requests /\ blind' \in BOOLEAN
    <3>1. \/ missed' \in {missed, missed \cup {r}} /\ blind' = (blind \/ r \in missed')
          \/ missed' = missed \ {r} /\ blind' = blind
      BY <1>4, GetAddrEnds, Zenon DEF Return
    <3>. QED
      BY <1>0, <3>1, Zenon DEF TypeOK
  <2>. QED
    BY <1>0, <2>2, <2>3, <2>4, <2>5, <2>6, <2>7, <2>8, Zenon DEF TypeOK
<1>5. ASSUME NEW r \in Requests, PutKey(r) PROVE TypeOK'
  <2>1. own[r] \in Wallets
    BY <1>0, <1>5, Zenon DEF PutKey, Owns, Writing, TypeOK
  <2>. QED
    BY <1>0, <1>5, <2>1 DEF PutKey, Put, TypeOK, locals, history, Records, Goto, PCs
<1>6. ASSUME NEW r \in Requests, PutAddr(r) PROVE TypeOK'
  <2>1. own[r] \in Wallets
    BY <1>0, <1>6, Zenon DEF PutAddr, Owns, Writing, TypeOK
  <2>. QED
    BY <1>0, <1>6, <2>1 DEF PutAddr, Put, TypeOK, locals, history, Records, Goto, PCs
<1>7. ASSUME NEW r \in Requests, Abandon(r) PROVE TypeOK'
  <2>1. Writing(r) => own[r] \in Wallets
    BY <1>0, Zenon DEF Owns, TypeOK
  <2>2. late' \subseteq Records \X Wallets
    BY <1>0, <1>7, <2>1 DEF Abandon, Writing, TypeOK, Records
  <2>. QED
    BY <1>0, <1>7, <2>2, Zenon DEF Abandon, Return, TypeOK, PCs
<1>8. CASE LatePut
  BY <1>0, <1>8 DEF LatePut, TypeOK, locals, history, Records
<1>9. ASSUME NEW i \in Instances, Expire(i) PROVE TypeOK'
  BY <1>0, <1>9, ZenonT(30) DEF Expire, TypeOK, locals, history
<1>10. CASE UNCHANGED vars
  BY <1>0, <1>10, Zenon DEF vars, history, TypeOK
<1>. QED
  BY <1>1, <1>2, <1>3, <1>4, <1>5, <1>6, <1>7, <1>8, <1>9, <1>10, Zenon DEF Next, Request

-----------------------------------------------------------------------------
(* The invariant *)

\* A request that writes owns its wallet, and nothing empty is fresh in a cache.
LEMMA StepOwns ==
  ASSUME Inv, [Next]_vars
  PROVE  /\ Owns'
         /\ \A i \in Instances : cache'[i].fresh => cache'[i].wallet # None
<1>0. TypeOK /\ Owns /\ None \notin Wallets /\ Wallets = 1 .. MaxWallets /\ MaxWallets \in Nat
      /\ Home \in [Requests -> Instances]
      /\ \A i \in Instances : cache[i].fresh => cache[i].wallet # None
  BY WalletAssumption, Zenon DEF Inv, Wallets
<1>1. Owns'
  <2>1. ASSUME NEW r \in Requests, GetAddr(r) PROVE Owns'
    <3>1. made \in 0 .. MaxWallets
      BY <1>0, Zenon DEF TypeOK
    <3>2. made < MaxWallets => made + 1 # None
      BY <1>0, <3>1
    <3>3. \/ /\ pc' = [pc EXCEPT ![r] = "put_key"]
             /\ own' = [own EXCEPT ![r] = made + 1] /\ made < MaxWallets
          \/ pc' = [pc EXCEPT ![r] = "idle"] /\ own' = [own EXCEPT ![r] = None]
      BY <2>1, GetAddrEnds, Zenon DEF Generate, Return, Goto
    <3>4. pc \in [Requests -> PCs] /\ own \in [Requests -> Wallets \cup {None}]
      BY <1>0, Zenon DEF TypeOK
    <3>. QED
      BY <1>0, <3>2, <3>3, <3>4, ZenonT(30) DEF Owns, Writing
  <2>2. ASSUME NEW r \in Requests, Lookup(r) \/ ClearCache(r) \/ GetKey(r) \/ PutKey(r) \/ PutAddr(r)
        PROVE  Owns'
    BY <1>0, <2>2, ZenonT(30) DEF Lookup, ClearCache, GetKey, PutKey, PutAddr, Put, Goto, locals, Owns, Writing, TypeOK
  <2>3. ASSUME NEW r \in Requests, Abandon(r) PROVE Owns'
    BY <1>0, <2>3, Zenon DEF Abandon, Return, Owns, Writing, TypeOK
  <2>4. CASE LatePut \/ (\E i \in Instances : Expire(i)) \/ UNCHANGED vars
    BY <1>0, <2>4, Zenon DEF LatePut, Expire, vars, locals, Owns, Writing
  <2>. QED
    BY <2>1, <2>2, <2>3, <2>4, Zenon DEF Next, Request
<1>2. \A i \in Instances : cache'[i].fresh => cache'[i].wallet # None
  <2>0. cache \in [Instances -> [wallet : Wallets \cup {None}, fresh : BOOLEAN]]
    BY <1>0, Zenon DEF TypeOK
  <2>1. ASSUME NEW r \in Requests, GetAddr(r)
        PROVE  \A i \in Instances : cache'[i].fresh => cache'[i].wallet # None
    <3>1. \/ cache' = cache
          \/ \E w : w # None /\ cache' = [cache EXCEPT ![Home[r]] = [wallet |-> w, fresh |-> TRUE]]
      BY <2>1, GetAddrEnds, Zenon
    <3>. QED
      BY <1>0, <2>0, <3>1, SMTT(30)
  <2>2. ASSUME NEW r \in Requests, ClearCache(r)
        PROVE  \A i \in Instances : cache'[i].fresh => cache'[i].wallet # None
    BY <1>0, <2>0, <2>2, Zenon DEF ClearCache, NoWallet
  <2>3. ASSUME NEW i \in Instances, Expire(i)
        PROVE  \A j \in Instances : cache'[j].fresh => cache'[j].wallet # None
    BY <1>0, <2>0, <2>3, Zenon DEF Expire
  <2>4. ASSUME NEW r \in Requests, Lookup(r) \/ GetKey(r) \/ PutKey(r) \/ PutAddr(r) \/ Abandon(r)
        PROVE  cache' = cache
    BY <2>4, Zenon DEF Lookup, GetKey, PutKey, PutAddr, Put, Abandon
  <2>5. CASE LatePut \/ UNCHANGED vars
    BY <1>0, <2>5, Zenon DEF LatePut, vars
  <2>. QED
    BY <1>0, <2>1, <2>2, <2>3, <2>4, <2>5, Zenon DEF Next, Request
<1>. QED
  BY <1>1, <1>2, Zenon

\* Only PutKey adds to the wallets whose address may come to be written.
LEMMA AddressedShrinks ==
  ASSUME Inv, ~overlap, ~blind,
         \/ \E r \in Requests : Lookup(r) \/ ClearCache(r) \/ GetKey(r) \/ GetAddr(r) \/ PutAddr(r) \/ Abandon(r)
         \/ LatePut
         \/ \E i \in Instances : Expire(i)
         \/ UNCHANGED vars
  PROVE  Addressed' \subseteq Addressed
<1>0. TypeOK /\ Owns /\ InTurn /\ None \notin Wallets /\ Home \in [Requests -> Instances]
  BY WalletAssumption, Zenon DEF Inv, Wallets
<1>1. ASSUME NEW r \in Requests, Lookup(r) PROVE Addressed' \subseteq Addressed
  <2>1. handed' = handed
    BY <1>0, <1>1, ZenonT(30) DEF Lookup, HandOut, InTurn
  <2>. QED
    BY <1>0, <1>1, <2>1, ZenonT(30) DEF Lookup, Goto, locals, TypeOK, Addressed
<1>2. ASSUME NEW r \in Requests, ClearCache(r) \/ GetKey(r) PROVE Addressed' \subseteq Addressed
  BY <1>0, <1>2, ZenonT(30) DEF ClearCache, GetKey, Goto, locals, TypeOK, Addressed
<1>3. ASSUME NEW r \in Requests, GetAddr(r) PROVE Addressed' \subseteq Addressed
  <2>1. \A w \in handed' : w \in handed \/ (w # None /\ w = store["address"])
    BY <1>3, GetAddrEnds, Zenon DEF HandOut
  <2>2. /\ store' = store /\ late' = late
        /\ \A q \in Requests : pc'[q] = "put_addr" => pc[q] = "put_addr" /\ own'[q] = own[q]
    <3>1. \/ pc' = [pc EXCEPT ![r] = "put_key"] /\ own' = [own EXCEPT ![r] = made + 1]
          \/ pc' = [pc EXCEPT ![r] = "idle"] /\ own' = [own EXCEPT ![r] = None]
      BY <1>3, GetAddrEnds, Zenon DEF Generate, Return, Goto
    <3>2. pc \in [Requests -> PCs] /\ own \in [Requests -> Wallets \cup {None}]
      BY <1>0, Zenon DEF TypeOK
    <3>3. store' = store /\ late' = late
      BY <1>3, GetAddrEnds, Zenon
    <3>. QED
      BY <3>1, <3>2, <3>3, ZenonT(30)
  <2>. QED
    BY <2>1, <2>2, Zenon DEF Addressed
<1>4. ASSUME NEW r \in Requests, PutAddr(r) PROVE Addressed' \subseteq Addressed
  <2>1. own[r] \in Addressed
    BY <1>0, <1>4, Zenon DEF PutAddr, Owns, Writing, Addressed, TypeOK
  <2>2. /\ store'["address"] = own[r]
        /\ \A w : <<"address", w>> \in late' => <<"address", w>> \in late \/ w = own[r]
        /\ handed' = handed
        /\ \A q \in Requests : pc'[q] = "put_addr" => pc[q] = "put_addr" /\ own'[q] = own[q]
    BY <1>0, <1>4, Zenon DEF PutAddr, Put, Goto, locals, TypeOK, Records
  <2>. QED
    BY <2>1, <2>2, Zenon DEF Addressed
<1>5. ASSUME NEW r \in Requests, Abandon(r) PROVE Addressed' \subseteq Addressed
  <2>1. pc[r] = "put_addr" => own[r] \in Addressed
    BY <1>0, Zenon DEF Owns, Writing, Addressed, TypeOK
  <2>2. /\ store' = store /\ handed' = handed
        /\ \A w : <<"address", w>> \in late' =>
             <<"address", w>> \in late \/ (pc[r] = "put_addr" /\ w = own[r])
        /\ \A q \in Requests : pc'[q] = "put_addr" => pc[q] = "put_addr" /\ own'[q] = own[q]
    BY <1>0, <1>5 DEF Abandon, Return, TypeOK
  <2>. QED
    BY <2>1, <2>2, Zenon DEF Addressed
<1>6. CASE LatePut
  <2>1. PICK p \in late : /\ store' = [store EXCEPT ![p[1]] = p[2]]
                          /\ late' = late \ {p}
                          /\ UNCHANGED <<pc, locals, cache, made, overlap, handed>>
    BY <1>6, Zenon DEF LatePut
  <2>2. p = <<p[1], p[2]>> /\ p[1] \in {"key", "address"}
    BY <1>0 DEF TypeOK, Records
  <2>3. store'["address"] = store["address"] \/ <<"address", store'["address"]>> \in late
    BY <1>0, <2>1, <2>2, Zenon DEF TypeOK, Records
  <2>. QED
    BY <2>1, <2>3, Zenon DEF Addressed, locals
<1>7. CASE (\E i \in Instances : Expire(i)) \/ UNCHANGED vars
  BY <1>7, Zenon DEF Expire, vars, locals, Addressed
<1>. QED
  BY <1>1, <1>2, <1>3, <1>4, <1>5, <1>6, <1>7, Zenon

\* What a step that does not write has to show for InTurn
LEMMA InTurnKept ==
  ASSUME InTurn, Addressed' \subseteq Addressed,
         \A r, q \in Requests : pc'[r] # "idle" /\ pc'[q] # "idle" => r = q,
         store["key"] # None => store'["key"] # None,
         \A r \in Requests : pc'[r] = "get_addr" /\ key'[r] = None /\ r \notin missed' =>
           store["key"] = None \/ (pc[r] = "get_addr" /\ key[r] = None /\ r \notin missed),
         \A r \in Requests : pc'[r] = "put_key" =>
           pc[r] = "put_key" \/ (pc[r] = "get_addr" /\ key[r] = None /\ r \notin missed),
         \A i \in Instances : cache'[i].fresh => cache'[i].wallet \in handed'
  PROVE  InTurn'
BY ZenonT(30) DEF InTurn

\* Requests in turn keep one wallet.
LEMMA StepInTurn ==
  ASSUME Inv, [Next]_vars, ~overlap, ~blind, ~blind'
  PROVE  InTurn'
<1>0. TypeOK /\ Owns /\ InTurn /\ None \notin Wallets /\ Home \in [Requests -> Instances]
  BY WalletAssumption, Zenon DEF Inv, Wallets
<1>a. /\ pc \in [Requests -> PCs] /\ key \in [Requests -> Wallets \cup {None}]
      /\ store \in [Records -> Wallets \cup {None}]
      /\ cache \in [Instances -> [wallet : Wallets \cup {None}, fresh : BOOLEAN]]
      /\ late \subseteq Records \X Wallets
  BY <1>0, Zenon DEF TypeOK
<1>b. /\ \A r, q \in Requests : pc[r] # "idle" /\ pc[q] # "idle" => r = q
      /\ \A i \in Instances : cache[i].fresh => cache[i].wallet \in handed
  BY <1>0, Zenon DEF InTurn
<1>1. ASSUME NEW r \in Requests, Lookup(r) PROVE InTurn'
  <2>1. Addressed' \subseteq Addressed
    BY <1>1, AddressedShrinks, Zenon
  <2>2. /\ \A q, s \in Requests : pc'[q] # "idle" /\ pc'[s] # "idle" => q = s
        /\ \A q \in Requests : pc'[q] \in {"get_addr", "put_key"} => pc[q] = pc'[q]
    BY <1>1, <1>a, <1>b, ZenonT(30) DEF Lookup, Goto
  <2>3. key' = key /\ missed' = missed /\ store' = store /\ cache' = cache /\ handed \subseteq handed'
    BY <1>1, Zenon DEF Lookup, locals, history, HandOut
  <2>. QED
    BY <1>0, <1>b, <2>1, <2>2, <2>3, InTurnKept, Zenon
<1>2. ASSUME NEW r \in Requests, ClearCache(r) PROVE InTurn'
  <2>1. Addressed' \subseteq Addressed
    BY <1>2, AddressedShrinks, Zenon
  <2>2. /\ \A q, s \in Requests : pc'[q] # "idle" /\ pc'[s] # "idle" => q = s
        /\ \A q \in Requests : pc'[q] \in {"get_addr", "put_key"} => pc[q] = pc'[q]
    BY <1>2, <1>a, <1>b, Zenon DEF ClearCache, Goto
  <2>3. key' = key /\ missed' = missed /\ store' = store
    BY <1>2, Zenon DEF ClearCache, locals, history
  <2>4. \A i \in Instances : cache'[i].fresh => cache'[i].wallet \in handed'
    BY <1>2, <1>a, <1>b, Zenon DEF ClearCache, NoWallet
  <2>. QED
    BY <1>0, <2>1, <2>2, <2>3, <2>4, InTurnKept, Zenon
<1>3. ASSUME NEW r \in Requests, GetKey(r) PROVE InTurn'
  <2>1. Addressed' \subseteq Addressed
    BY <1>3, AddressedShrinks, Zenon
  <2>2. /\ \A q, s \in Requests : pc'[q] # "idle" /\ pc'[s] # "idle" => q = s
        /\ \A q \in Requests : pc'[q] = "put_key" => pc[q] = "put_key"
        /\ \A q \in Requests : pc'[q] = "get_addr" /\ key'[q] = None /\ q \notin missed' =>
             store["key"] = None \/ (pc[q] = "get_addr" /\ key[q] = None /\ q \notin missed)
    <3>1. PICK k \in KvGet("key") :
            /\ key' = [key EXCEPT ![r] = k]
            /\ missed' = IF k = store["key"] THEN missed ELSE missed \cup {r}
      BY <1>3, Zenon DEF GetKey
    <3>2. pc[r] = "get_key" /\ pc' = [pc EXCEPT ![r] = "get_addr"]
      BY <1>3, Zenon DEF GetKey, Goto
    <3>. QED
      BY <1>a, <1>b, <3>1, <3>2, ZenonT(30)
  <2>3. store' = store /\ cache' = cache /\ handed' = handed
    BY <1>3, Zenon DEF GetKey
  <2>. QED
    BY <1>0, <1>b, <2>1, <2>2, <2>3, InTurnKept, Zenon
<1>4. ASSUME NEW r \in Requests, GetAddr(r) PROVE InTurn'
  <2>1. Addressed' \subseteq Addressed
    BY <1>4, AddressedShrinks, Zenon
  <2>2. /\ pc[r] = "get_addr"
        /\ \/ /\ pc' = [pc EXCEPT ![r] = "put_key"]
              /\ key' = key /\ key[r] = None
              /\ missed' \in {missed, missed \cup {r}} /\ r \notin missed'
           \/ /\ pc' = [pc EXCEPT ![r] = "idle"]
              /\ key' = [key EXCEPT ![r] = None]
              /\ missed' = missed \ {r}
    BY <1>4, GetAddrEnds, Zenon DEF Generate, Return, Goto
  <2>3. /\ \A q, s \in Requests : pc'[q] # "idle" /\ pc'[s] # "idle" => q = s
        /\ \A q \in Requests : pc'[q] = "put_key" =>
             pc[q] = "put_key" \/ (pc[q] = "get_addr" /\ key[q] = None /\ q \notin missed)
        /\ \A q \in Requests : pc'[q] = "get_addr" /\ key'[q] = None /\ q \notin missed' =>
             pc[q] = "get_addr" /\ key[q] = None /\ q \notin missed
    <3>1. CASE /\ pc' = [pc EXCEPT ![r] = "put_key"] /\ key' = key /\ key[r] = None
               /\ missed' \in {missed, missed \cup {r}} /\ r \notin missed'
      BY <1>a, <1>b, <2>2, <3>1, ZenonT(30)
    <3>2. CASE /\ pc' = [pc EXCEPT ![r] = "idle"] /\ key' = [key EXCEPT ![r] = None]
               /\ missed' = missed \ {r}
      BY <1>a, <1>b, <2>2, <3>2, ZenonT(30)
    <3>. QED
      BY <2>2, <3>1, <3>2, Zenon
  <2>4. \/ cache' = cache /\ handed' = handed
        \/ \E w : cache' = [cache EXCEPT ![Home[r]] = [wallet |-> w, fresh |-> TRUE]]
                  /\ handed' = handed \cup {w}
    BY <1>4, GetAddrEnds, Zenon DEF HandOut
  <2>5. \A i \in Instances : cache'[i].fresh => cache'[i].wallet \in handed'
    <3>1. CASE cache' = cache /\ handed' = handed
      BY <1>b, <3>1, Zenon
    <3>2. ASSUME NEW w, cache' = [cache EXCEPT ![Home[r]] = [wallet |-> w, fresh |-> TRUE]],
                 handed' = handed \cup {w}
          PROVE  \A i \in Instances : cache'[i].fresh => cache'[i].wallet \in handed'
      <4>. TAKE i \in Instances
      <4>1. CASE i = Home[r]
        BY <1>a, <3>2, <4>1, Zenon
      <4>2. CASE i # Home[r]
        BY <1>a, <1>b, <3>2, <4>2, Zenon
      <4>. QED
        BY <4>1, <4>2, Zenon
    <3>. QED
      BY <2>4, <3>1, <3>2, Zenon
  <2>6. store' = store
    BY <1>4, GetAddrEnds, Zenon
  <2>. QED
    BY <1>0, <2>1, <2>3, <2>5, <2>6, InTurnKept, Zenon
<1>5. ASSUME NEW r \in Requests, PutKey(r) PROVE InTurn'
  <2>1. Addressed = {} /\ own[r] # None
    BY <1>0, <1>5, Zenon DEF PutKey, InTurn, Owns, Writing
  <2>2. /\ store'["address"] = store["address"] /\ store'["key"] = own[r]
        /\ \A w : <<"address", w>> \in late' => <<"address", w>> \in late
        /\ handed' = handed /\ own' = own /\ cache' = cache
    BY <1>5, <1>a, Zenon DEF PutKey, Put, locals, history, Records
  <2>3. \A q \in Requests : pc'[q] = IF q = r THEN "put_addr" ELSE pc[q]
    BY <1>5, <1>a, Zenon DEF PutKey, Goto
  <2>4. \A q \in Requests : q # r => pc[q] = "idle"
    BY <1>5, <1>b, Zenon DEF PutKey
  <2>5. Addressed' \subseteq {own[r]}
    BY <2>1, <2>2, <2>3, <2>4, Zenon DEF Addressed
  <2>. QED
    BY <1>b, <2>1, <2>2, <2>3, <2>4, <2>5, ZenonT(30) DEF InTurn
<1>6. ASSUME NEW r \in Requests, PutAddr(r) PROVE InTurn'
  <2>1. Addressed' \subseteq Addressed
    BY <1>6, AddressedShrinks, Zenon
  <2>2. /\ \A q, s \in Requests : pc'[q] # "idle" /\ pc'[s] # "idle" => q = s
        /\ \A q \in Requests : pc'[q] \in {"get_addr", "put_key"} => pc[q] = pc'[q]
    BY <1>6, <1>a, <1>b, Zenon DEF PutAddr, Goto
  <2>3. key' = key /\ missed' = missed /\ store'["key"] = store["key"] /\ cache' = cache /\ handed' = handed
    BY <1>6, <1>a, Zenon DEF PutAddr, Put, locals, history, Records
  <2>. QED
    BY <1>0, <1>b, <2>1, <2>2, <2>3, InTurnKept, Zenon
<1>7. ASSUME NEW r \in Requests, Abandon(r) PROVE InTurn'
  <2>1. Addressed' \subseteq Addressed
    BY <1>7, AddressedShrinks, Zenon
  <2>2. /\ \A q, s \in Requests : pc'[q] # "idle" /\ pc'[s] # "idle" => q = s
        /\ \A q \in Requests : pc'[q] # "idle" =>
             pc[q] = pc'[q] /\ key'[q] = key[q] /\ (q \in missed' <=> q \in missed)
    BY <1>7, <1>a, <1>b, Zenon DEF Abandon, Return
  <2>3. store' = store /\ cache' = cache /\ handed' = handed
    BY <1>7, Zenon DEF Abandon
  <2>. QED
    BY <1>0, <1>b, <2>1, <2>2, <2>3, InTurnKept, Zenon
<1>8. CASE LatePut
  <2>1. Addressed' \subseteq Addressed
    BY <1>8, AddressedShrinks, Zenon
  <2>2. store["key"] # None => store'["key"] # None
    BY <1>0, <1>8, <1>a DEF LatePut, Records
  <2>3. pc' = pc /\ key' = key /\ missed' = missed /\ cache' = cache /\ handed' = handed
    BY <1>8, Zenon DEF LatePut, locals, history
  <2>. QED
    BY <1>0, <1>b, <2>1, <2>2, <2>3, InTurnKept, Zenon
<1>9. ASSUME NEW i \in Instances, Expire(i) PROVE InTurn'
  <2>1. Addressed' \subseteq Addressed
    BY <1>9, AddressedShrinks, Zenon
  <2>2. pc' = pc /\ key' = key /\ missed' = missed /\ store' = store /\ handed' = handed
    BY <1>9, Zenon DEF Expire, locals, history
  <2>3. \A j \in Instances : cache'[j].fresh => cache'[j].wallet \in handed'
    BY <1>9, <1>a, <1>b, <2>2, ZenonT(30) DEF Expire
  <2>. QED
    BY <1>0, <1>b, <2>1, <2>2, <2>3, InTurnKept, Zenon
<1>10. CASE UNCHANGED vars
  BY <1>0, <1>10, ZenonT(30) DEF vars, history, InTurn, Addressed
<1>. QED
  BY <1>1, <1>2, <1>3, <1>4, <1>5, <1>6, <1>7, <1>8, <1>9, <1>10, Zenon DEF Next, Request

\* Every step of a request, and of a put that is applied late, preserves the invariant.
LEMMA StepInv == Inv /\ [Next]_vars => Inv'
<1>. SUFFICES ASSUME Inv, [Next]_vars PROVE Inv'
  BY Zenon
<1>1. overlap' = overlap
  BY Zenon DEF Next, Request, Lookup, ClearCache, GetKey, GetAddr, PutKey, PutAddr, Put, Abandon, LatePut,
     Expire, vars
<1>2. blind => blind'
  <2>1. ASSUME NEW r \in Requests, GetAddr(r) PROVE blind => blind'
    BY <2>1, GetAddrEnds, Zenon DEF Return
  <2>. QED
    BY <2>1, Zenon DEF Next, Request, Lookup, ClearCache, GetKey, PutKey, PutAddr, Put, Abandon, Return, LatePut,
       Expire, vars, locals, history
<1>. QED
  BY <1>1, <1>2, StepTypes, StepOwns, StepInTurn, Zenon DEF Inv

-----------------------------------------------------------------------------
(* Theorems *)

\* Requests that come in turn, none of which generates a wallet on a false report that
\* a record is missing, hand out one wallet, ever, however many instances there are,
\* whichever initialisations were abandoned and whatever the KMS applies late
\* (resolve_app_wallet_material, decode_app_wallet_material).
THEOREM OneWalletIsHandedOut == Spec => []OneWalletInTurn
<1>1. Inv => OneWalletInTurn
  <2>. SUFFICES ASSUME Inv, ~overlap, ~blind PROVE \A v, w \in handed : v = w
    BY Zenon DEF OneWalletInTurn, OneWallet
  <2>. QED
    BY Zenon DEF Inv, InTurn, TypeOK, Addressed
<1>. QED
  BY <1>1, InitInv, StepInv, PTL DEF Spec

\* Once both records are there nobody but those who are already writing, and requests
\* that are told a record is missing, changes them: a request whose reads straddle
\* another's initialisation finds the address, and does not generate a wallet
\* (NothingStored looks at both).
THEOREM InitialisersStop == Spec => NoLateInitialiser
<1>1. ASSUME Inv, [Next]_vars, None \notin {store["key"], store["address"]},
             \A r \in Requests : ~Writing(r)
      PROVE  \A r \in Requests : Writing(r)' => r \in missed'
  <2>0. pc \in [Requests -> PCs]
    BY <1>1, Zenon DEF Inv, TypeOK
  <2>1. ASSUME NEW q \in Requests, GetAddr(q)
        PROVE  \/ pc' = [pc EXCEPT ![q] = "idle"]
               \/ pc' = [pc EXCEPT ![q] = "put_key"] /\ q \in missed'
    BY <1>1, <2>1, GetAddrEnds, Zenon DEF Generate, Goto, Return
  <2>2. ASSUME NEW q \in Requests, Lookup(q) \/ ClearCache(q) \/ GetKey(q) \/ Abandon(q)
        PROVE  \/ pc' = pc
               \/ \E l \in {"clear", "get_key", "get_addr", "idle"} : pc' = [pc EXCEPT ![q] = l]
    BY <2>2, Zenon DEF Lookup, ClearCache, GetKey, Abandon, Goto, Return
  <2>3. ASSUME NEW q \in Requests, PutKey(q) \/ PutAddr(q) PROVE FALSE
    BY <1>1, <2>3, Zenon DEF PutKey, PutAddr, Writing
  <2>4. CASE LatePut \/ (\E i \in Instances : Expire(i)) \/ UNCHANGED vars
    BY <1>1, <2>4, Zenon DEF LatePut, Expire, vars, Writing
  <2>. QED
    BY <1>1, <2>0, <2>1, <2>2, <2>3, <2>4, Zenon DEF Next, Request, Writing
<1>. QED
  BY <1>1, InitInv, StepInv, PTL DEF Spec, NoLateInitialiser

-----------------------------------------------------------------------------
(***************************************************************************)
(* The KMS nodes                                                           *)
(*                                                                         *)
(* A node list only holds registered URLs, with observations no older than *)
(* their TTL: age + left stays within the longest TTL, whoever built the   *)
(* list.  One request at a time discovers, the one that holds              *)
(* discovery_refresh_lock.                                                 *)
(***************************************************************************)

Entry == [id : Ids, seen : Observation]

\* An observation is not older than what the TTLs allow for.
Dated(o) == o.age + o.left <= MaxAge

\* A list of nodes as it is stored or built
NodeList(f) ==
  /\ DOMAIN f \subseteq Urls
  /\ f = [u \in DOMAIN f |-> f[u]]
  /\ \A u \in DOMAIN f : f[u] \in Entry /\ Dated(f[u].seen)

\* The fields of a request
CallOk(q) ==
  /\ q = [pc |-> q.pc, waited |-> q.waited, all |-> q.all, rest |-> q.rest,
          attempt |-> q.attempt, missing |-> q.missing]
  /\ q.pc \in {"idle", "lock", "discover", "identity", "send", "exhausted"}
  /\ q.waited \in 0 .. DiscoveryTtl
  /\ q.attempt \in 0 .. MaxRetries

Environment ==
  /\ registry \in [Urls -> Ids \cup {Absent}]
  /\ serves \in [Urls -> Ids] /\ \A u \in Urls : serves[u] <= faults + 1
  /\ up \in [Urls -> BOOLEAN]
  /\ rpc \in BOOLEAN
  /\ faults \in 0 .. MaxFaults

Lists ==
  /\ discovery = [nodes |-> discovery.nodes, left |-> discovery.left]
  /\ NodeList(discovery.nodes) /\ discovery.left \in 0 .. DiscoveryTtl
  /\ task = [pc |-> task.pc, nodes |-> task.nodes, todo |-> task.todo]
  /\ task.pc \in {"sleep", "discover", "probe"}
  /\ NodeList(task.nodes) /\ task.todo \subseteq DOMAIN task.nodes
  /\ task.pc # "probe" => task.todo = {}

Identities == identity \in [Urls -> [id : Ids \cup {Absent}, left : 0 .. IdentityTtl]]

Requesting ==
  /\ lock \in Calls \cup {Absent}
  /\ call = [r \in Calls |-> call[r]]
  /\ \A r \in Calls : CallOk(call[r]) /\ (lock = r <=> call[r].pc = "discover")

KmsInv == Environment /\ Lists /\ Identities /\ Requesting

-----------------------------------------------------------------------------
(* Node lists *)

\* The numbers the constants stand for.
LEMMA Numbers ==
  /\ MaxRetries \in Nat \ {0} /\ DiscoveryTtl \in Nat \ {0} /\ UpTtl \in Nat \ {0}
  /\ DownTtl \in Nat \ {0} /\ IdentityTtl \in Nat \ {0} /\ MaxFaults \in Nat
  /\ MaxAge \in Nat /\ 1 <= MaxAge /\ UpTtl <= MaxAge /\ DownTtl <= MaxAge
  /\ Ids = 1 .. MaxFaults + 1 /\ 1 \in Ids
<1>1. /\ MaxRetries \in Nat \ {0} /\ DiscoveryTtl \in Nat \ {0} /\ UpTtl \in Nat \ {0}
      /\ DownTtl \in Nat \ {0} /\ IdentityTtl \in Nat \ {0} /\ MaxFaults \in Nat
  BY KmsAssumption, Zenon
<1>. QED
  BY <1>1 DEF MaxAge, Ids

\* Such a list has the type of a node list.
LEMMA NodeListTyped ==
  ASSUME NEW f, NodeList(f)
  PROVE  f \in NodeLists
<1>1. f \in [DOMAIN f -> Entry] /\ DOMAIN f \in SUBSET Urls
  BY Zenon DEF NodeList
<1>. QED
  BY <1>1, Zenon DEF NodeLists, Entry

\* What is known of whether a node is up
Ups == {Absent, TRUE, FALSE}

\* An observation
Obs(b, l, a) == [up |-> b, left |-> l, age |-> a]

HasFields(b, l, a) ==
  Obs(b, l, a) \in Observation /\ Obs(b, l, a).left = l /\ Obs(b, l, a).age = a

\* The fields of an observation
LEMMA ObservationIs ==
  ASSUME NEW b \in Ups, NEW l \in 0 .. MaxAge, NEW a \in 0 .. MaxAge
  PROVE  HasFields(b, l, a)
BY Zenon DEF HasFields, Obs, Observation, Ups

\* The fields of an entry
LEMMA EntryIs ==
  ASSUME NEW i \in Ids, NEW o \in Observation, NEW e, e = [id |-> i, seen |-> o]
  PROVE  e \in Entry /\ e.seen = o
<1>1. [id |-> i, seen |-> o] \in Entry
  BY Zenon DEF Entry
<1>2. e.seen = o
  OBVIOUS
<1>. QED
  BY <1>1, <1>2, Zenon

\* A node nothing is known of has a well-formed observation.
LEMMA UnseenOk == Unseen \in Observation /\ Dated(Unseen)
<1>1. Unseen \in Observation
  BY Numbers DEF Unseen, Observation
<1>2. Dated(Unseen)
  BY Numbers DEF Unseen, Dated
<1>. QED
  BY <1>1, <1>2, Zenon

\* So has a node that has just answered, or not: its TTL is within the bound.
LEMMA SeenOk ==
  ASSUME NEW b \in BOOLEAN
  PROVE  Seen(b) \in Observation /\ Dated(Seen(b))
<1>. DEFINE ttl == IF b THEN UpTtl ELSE DownTtl
<1>1. ttl \in 0 .. MaxAge /\ 0 \in 0 .. MaxAge
  BY Numbers
<1>2. b \in Ups
  BY Zenon DEF Ups
<1>3. Seen(b) = Obs(b, ttl, 0)
  BY Zenon DEF Seen, Obs
<1>. HIDE DEF ttl
<1>4. Seen(b) \in Observation /\ Seen(b).age = 0 /\ Seen(b).left = ttl
  <2>1. HasFields(b, ttl, 0)
    BY <1>1, <1>2, ObservationIs, Zenon
  <2>. QED
    BY <1>3, <2>1, Zenon DEF HasFields
<1>6. Dated(Seen(b))
  BY <1>1, <1>4, Numbers DEF Dated
<1>. QED
  BY <1>4, <1>6, Zenon

\* An observation that ages stays within the bound, or lapses.
LEMMA OlderOk ==
  ASSUME NEW o \in Observation, Dated(o)
  PROVE  OlderSeen(o) \in Observation /\ Dated(OlderSeen(o))
<1>1. o.left \in 0 .. MaxAge /\ o.age \in 0 .. MaxAge /\ o.up \in Ups
      /\ o = [up |-> o.up, left |-> o.left, age |-> o.age]
  BY Zenon DEF Observation, Ups
<1>2. CASE o.left <= 1
  BY <1>2, UnseenOk, Zenon DEF OlderSeen
<1>3. CASE ~(o.left <= 1)
  <2>1. OlderSeen(o) = Obs(o.up, o.left - 1, o.age + 1)
    BY <1>1, <1>3 DEF OlderSeen, Obs
  <2>2. /\ o.left - 1 \in 0 .. MaxAge /\ o.age + 1 \in 0 .. MaxAge
        /\ (o.age + 1) + (o.left - 1) <= MaxAge
    BY <1>1, <1>3, Numbers DEF Dated
  <2>3. /\ OlderSeen(o) \in Observation
        /\ OlderSeen(o).left = o.left - 1 /\ OlderSeen(o).age = o.age + 1
    <3>1. HasFields(o.up, o.left - 1, o.age + 1)
      BY <1>1, <2>2, ObservationIs, Zenon
    <3>. QED
      BY <2>1, <3>1, Zenon DEF HasFields
  <2>. QED
    BY <2>2, <2>3, Zenon DEF Dated
<1>. QED
  BY <1>2, <1>3, Zenon

\* Replacing an observation in an entry
LEMMA Observed ==
  ASSUME NEW e \in Entry, NEW o \in Observation
  PROVE  /\ [e EXCEPT !.seen = o] \in Entry
         /\ [e EXCEPT !.seen = o].seen = o
         /\ [e EXCEPT !.seen = o].id = e.id
BY Zenon DEF Entry

\* The empty list is a node list.
LEMMA NoNodesList == NodeList(NoNodes)
BY DEF NodeList, NoNodes

\* So is what discover_nodes builds from the registry,
LEMMA DiscoveredList ==
  ASSUME Environment
  PROVE  NodeList(Discovered) /\ DOMAIN Discovered = Listed
<1>1. DOMAIN Discovered = Listed /\ Listed \subseteq Urls
  BY Zenon DEF Discovered, Listed
<1>2. ASSUME NEW u \in Listed PROVE Discovered[u] \in Entry /\ Discovered[u].seen = Unseen
  <2>1. registry[u] \in Ids
    BY Zenon DEF Listed, Environment
  <2>2. Discovered[u] = [id |-> registry[u], seen |-> Unseen]
    BY Zenon DEF Discovered
  <2>. QED
    BY <2>1, <2>2, UnseenOk, EntryIs, Zenon
<1>3. Discovered = [u \in DOMAIN Discovered |-> Discovered[u]]
  BY Zenon DEF Discovered
<1>. QED
  BY <1>1, <1>2, <1>3, UnseenOk, Zenon DEF NodeList

\* what merge_with_previous makes of it, over the same URLs,
LEMMA MergePreviousList ==
  ASSUME NEW f, NEW g, NodeList(f), NodeList(g)
  PROVE  NodeList(MergeWithPrevious(f, g)) /\ DOMAIN MergeWithPrevious(f, g) = DOMAIN f
<1>. DEFINE m == MergeWithPrevious(f, g)
<1>1. DOMAIN m = DOMAIN f /\ m = [u \in DOMAIN m |-> m[u]]
  BY Zenon DEF MergeWithPrevious
<1>2. ASSUME NEW u \in DOMAIN f PROVE m[u] \in Entry /\ Dated(m[u].seen)
  <2>0. f[u] \in Entry /\ Dated(f[u].seen)
    BY Zenon DEF NodeList
  <2>1. CASE u \in DOMAIN g /\ g[u].seen.left > 0
    <3>1. m[u] = [f[u] EXCEPT !.seen = g[u].seen]
      BY <2>1, Zenon DEF MergeWithPrevious
    <3>2. g[u].seen \in Observation /\ Dated(g[u].seen)
      BY <2>1, Zenon DEF NodeList, Entry
    <3>. QED
      BY <2>0, <3>1, <3>2, Observed, ZenonT(30)
  <2>2. CASE ~(u \in DOMAIN g /\ g[u].seen.left > 0)
    <3>1. m[u] = f[u]
      BY <2>2, Zenon DEF MergeWithPrevious
    <3>. QED
      BY <2>0, <3>1, Zenon
  <2>. QED
    BY <2>1, <2>2, Zenon
<1>. QED
  BY <1>1, <1>2, Zenon DEF NodeList

\* what the refresh task merges with the live list, over the same URLs,
LEMMA MergeLiveList ==
  ASSUME NEW f, NEW g, NodeList(f), NodeList(g)
  PROVE  NodeList(MergeWithLive(f, g)) /\ DOMAIN MergeWithLive(f, g) = DOMAIN f
<1>. DEFINE m == MergeWithLive(f, g)
            newer(u) == u \in DOMAIN g /\ g[u].seen.left > 0 /\ g[u].seen.age < f[u].seen.age
<1>1. DOMAIN m = DOMAIN f /\ m = [u \in DOMAIN m |-> m[u]]
  BY Zenon DEF MergeWithLive
<1>2. ASSUME NEW u \in DOMAIN f PROVE m[u] \in Entry /\ Dated(m[u].seen)
  <2>0. f[u] \in Entry /\ Dated(f[u].seen)
    BY Zenon DEF NodeList
  <2>1. CASE newer(u)
    <3>1. m[u] = [f[u] EXCEPT !.seen = g[u].seen]
      BY <2>1, Zenon DEF MergeWithLive
    <3>2. g[u].seen \in Observation /\ Dated(g[u].seen)
      BY <2>1, Zenon DEF NodeList, Entry
    <3>. QED
      BY <2>0, <3>1, <3>2, Observed, ZenonT(30)
  <2>2. CASE ~newer(u)
    <3>1. m[u] = f[u]
      BY <2>2, Zenon DEF MergeWithLive
    <3>. QED
      BY <2>0, <3>1, Zenon
  <2>. QED
    BY <2>1, <2>2, Zenon
<1>. QED
  BY <1>1, <1>2, Zenon DEF NodeList

\* and a list in which every observation has aged.
LEMMA OlderList ==
  ASSUME NEW f, NodeList(f)
  PROVE  NodeList(OlderNodes(f)) /\ DOMAIN OlderNodes(f) = DOMAIN f
<1>. DEFINE m == OlderNodes(f)
<1>1. DOMAIN m = DOMAIN f /\ m = [u \in DOMAIN m |-> m[u]]
  BY Zenon DEF OlderNodes
<1>2. ASSUME NEW u \in DOMAIN f PROVE m[u] \in Entry /\ Dated(m[u].seen)
  <2>0. f[u] \in Entry /\ f[u].seen \in Observation /\ Dated(f[u].seen)
    BY Zenon DEF NodeList, Entry
  <2>1. m[u] = [f[u] EXCEPT !.seen = OlderSeen(f[u].seen)]
    BY Zenon DEF OlderNodes
  <2>2. OlderSeen(f[u].seen) \in Observation /\ Dated(OlderSeen(f[u].seen))
    BY <2>0, OlderOk, Zenon
  <2>3. [f[u] EXCEPT !.seen = OlderSeen(f[u].seen)] \in Entry
        /\ [f[u] EXCEPT !.seen = OlderSeen(f[u].seen)].seen = OlderSeen(f[u].seen)
    BY <2>0, <2>2, Observed, Zenon
  <2>. QED
    BY <2>1, <2>2, <2>3, Zenon
<1>. QED
  BY <1>1, <1>2, Zenon DEF NodeList

\* An observation noted in a list, at a node that may not be in it any more
LEMMA NotedList ==
  ASSUME NEW f, NodeList(f), NEW v, NEW b \in BOOLEAN
  PROVE  /\ NodeList([f EXCEPT ![v] = [f[v] EXCEPT !.seen = Seen(b)]])
         /\ DOMAIN [f EXCEPT ![v] = [f[v] EXCEPT !.seen = Seen(b)]] = DOMAIN f
<1>. DEFINE m == [f EXCEPT ![v] = [f[v] EXCEPT !.seen = Seen(b)]]
<1>1. DOMAIN m = DOMAIN f /\ m = [u \in DOMAIN m |-> m[u]]
  BY Zenon
<1>2. ASSUME NEW u \in DOMAIN f PROVE m[u] \in Entry /\ Dated(m[u].seen)
  <2>0. f[u] \in Entry /\ Dated(f[u].seen)
    BY Zenon DEF NodeList
  <2>1. CASE u = v
    <3>1. m[u] = [f[u] EXCEPT !.seen = Seen(b)]
      BY <2>1, Zenon
    <3>2. Seen(b) \in Observation /\ Dated(Seen(b))
      BY SeenOk, Zenon
    <3>3. [f[u] EXCEPT !.seen = Seen(b)] \in Entry /\ [f[u] EXCEPT !.seen = Seen(b)].seen = Seen(b)
      BY <2>0, <3>2, Observed, Zenon
    <3>. QED
      BY <3>1, <3>2, <3>3, Zenon
  <2>2. CASE u # v
    <3>1. m[u] = f[u]
      BY <2>2, Zenon
    <3>. QED
      BY <2>0, <3>1, Zenon
  <2>. QED
    BY <2>1, <2>2, Zenon
<1>. QED
  BY <1>1, <1>2, Zenon DEF NodeList
-----------------------------------------------------------------------------
(* Requests *)

\* A request's record keeps its shape when a field of it is set, whatever the
\* value of its flag.
LEMMA SetFlag ==
  ASSUME NEW q, CallOk(q), NEW m
  PROVE  CallOk([q EXCEPT !.missing = m])
BY DEF CallOk

\* A request as it is at the start, at any of its first steps.
LEMMA FreshCall ==
  ASSUME NEW m, NEW x \in {"idle", "lock", "discover"}
  PROVE  LET q == [pc |-> "idle", waited |-> 0, all |-> <<>>, rest |-> <<>>, attempt |-> 0,
                   missing |-> m]
         IN  CallOk([q EXCEPT !.pc = x]) /\ [q EXCEPT !.pc = x].pc = x
<1>1. 0 \in 0 .. DiscoveryTtl /\ 0 \in 0 .. MaxRetries
  BY Numbers
<1>2. [[pc |-> "idle", waited |-> 0, all |-> <<>>, rest |-> <<>>, attempt |-> 0,
         missing |-> m] EXCEPT !.pc = x] =
        [pc |-> x, waited |-> 0, all |-> <<>>, rest |-> <<>>, attempt |-> 0, missing |-> m]
  OBVIOUS
<1>. QED
  BY <1>1, <1>2, Zenon DEF CallOk

\* A request may be as it is at the start, waiting for its turn, discovering, or
\* at the first candidate.
LEMMA IdleOk ==
  /\ CallOk(Idle) /\ Idle.pc = "idle"
  /\ CallOk([Idle EXCEPT !.pc = "lock"]) /\ [Idle EXCEPT !.pc = "lock"].pc = "lock"
  /\ CallOk([Idle EXCEPT !.pc = "discover"]) /\ [Idle EXCEPT !.pc = "discover"].pc = "discover"
<1>1. 0 \in 0 .. DiscoveryTtl /\ 0 \in 0 .. MaxRetries
  BY Numbers
<1>2. CallOk(Idle) /\ Idle.pc = "idle"
  BY <1>1, Zenon DEF CallOk, Idle
<1>3. ASSUME NEW x \in {"lock", "discover"}
      PROVE  CallOk([Idle EXCEPT !.pc = x]) /\ [Idle EXCEPT !.pc = x].pc = x
  BY FreshCall, Zenon DEF Idle
<1>. QED
  BY <1>2, <1>3, Zenon

\* A request at its first candidate.
LEMMA BeginOk ==
  ASSUME NEW c
  PROVE  LET q == [pc |-> "identity", waited |-> 0, all |-> c, rest |-> c, attempt |-> 1,
                   missing |-> FALSE]
         IN  CallOk(q) /\ q.pc = "identity"
<1>1. 0 \in 0 .. DiscoveryTtl /\ 1 \in 0 .. MaxRetries
  BY Numbers
<1>. QED
  BY <1>1, Zenon DEF CallOk

\* A request that has the identity of its candidate.
LEMMA SendOk ==
  ASSUME NEW q, CallOk(q)
  PROVE  CallOk([q EXCEPT !.pc = "send"]) /\ [q EXCEPT !.pc = "send"].pc = "send"
BY DEF CallOk

\* A request that has met a 404.
LEMMA MissingOk ==
  ASSUME NEW q, CallOk(q)
  PROVE  CallOk([q EXCEPT !.missing = TRUE])
BY SetFlag, Zenon

\* A request that waits for its turn to discover.
LEMMA WaitedOk ==
  ASSUME NEW q, CallOk(q), q.waited < DiscoveryTtl
  PROVE  CallOk([q EXCEPT !.waited = @ + 1]) /\ [q EXCEPT !.waited = @ + 1].pc = q.pc
<1>1. q.waited + 1 \in 0 .. DiscoveryTtl
  BY Numbers DEF CallOk
<1>. QED
  BY <1>1 DEF CallOk

\* The next candidate, the next round or the end.
LEMMA FollowingOk ==
  ASSUME NEW q, CallOk(q)
  PROVE  CallOk(Following(q)) /\ Following(q).pc \in {"identity", "exhausted"}
<1>1. CASE Len(q.rest) > 1
  <2>1. Following(q) = [q EXCEPT !.pc = "identity", !.rest = Tail(@)]
    BY <1>1, Zenon DEF Following
  <2>. QED
    BY <2>1 DEF CallOk
<1>2. CASE ~(Len(q.rest) > 1) /\ q.attempt < MaxRetries
  <2>1. Following(q) = [q EXCEPT !.pc = "identity", !.rest = q.all, !.attempt = @ + 1]
    BY <1>2, Zenon DEF Following
  <2>2. q.attempt + 1 \in 0 .. MaxRetries
    BY <1>2, Numbers DEF CallOk
  <2>. QED
    BY <2>1, <2>2 DEF CallOk
<1>3. CASE ~(Len(q.rest) > 1) /\ ~(q.attempt < MaxRetries)
  <2>1. Following(q) = [q EXCEPT !.pc = "exhausted", !.rest = <<>>]
    BY <1>3, Zenon DEF Following
  <2>. QED
    BY <2>1 DEF CallOk
<1>. QED
  BY <1>1, <1>2, <1>3, Zenon

\* One request moves on, and takes or releases the lock only on its own account.
LEMMA OneCall ==
  ASSUME Requesting, NEW r \in Calls, NEW q, CallOk(q), Set(r, q),
         lock' \in Calls \cup {Absent}, lock' = r <=> q.pc = "discover",
         \A p \in Calls : p # r => (lock' = p <=> lock = p)
  PROVE  Requesting'
<1>1. call' = [call EXCEPT ![r] = q] /\ call = [p \in Calls |-> call[p]]
  BY Zenon DEF Set, Requesting
<1>2. call' = [p \in Calls |-> call'[p]] /\ call'[r] = q /\ \A p \in Calls : p # r => call'[p] = call[p]
  BY <1>1, Zenon
<1>. QED
  BY <1>2, Zenon DEF Requesting

\* ... and does not touch the lock.
LEMMA OneCallOnly ==
  ASSUME Requesting, NEW r \in Calls, NEW q, CallOk(q), Set(r, q), UNCHANGED lock,
         call[r].pc # "discover", q.pc # "discover"
  PROVE  Requesting'
<1>1. lock \in Calls \cup {Absent} /\ lock # r
  BY Zenon DEF Requesting
<1>. QED
  BY <1>1, OneCall, Zenon

\* ... and is done with the lock.
LEMMA OneCallReleases ==
  ASSUME Requesting, NEW r \in Calls, NEW q, CallOk(q), Set(r, q), lock' = Absent,
         call[r].pc = "discover", q.pc # "discover"
  PROVE  Requesting'
<1>1. lock = r /\ Absent \notin Calls
  BY KmsAssumption, Zenon DEF Requesting
<1>. QED
  BY <1>1, OneCall, Zenon

\* The request a step is about.
LEMMA CallTyped ==
  ASSUME KmsInv, NEW r \in Calls
  PROVE  Requesting /\ CallOk(call[r])
BY Zenon DEF KmsInv, Requesting

-----------------------------------------------------------------------------
(* Steps *)

\* The invariant holds in the initial state, with nothing discovered.
LEMMA KmsInitInv == KmsInit => KmsInv
<1>. SUFFICES ASSUME KmsInit PROVE KmsInv
  OBVIOUS
<1>1. /\ 0 \in 0 .. MaxFaults /\ 1 \in Ids /\ 1 <= 0 + 1 /\ 0 \in 0 .. DiscoveryTtl
      /\ 0 \in 0 .. IdentityTtl
  BY Numbers
<1>2. Environment
  BY <1>1, Zenon DEF KmsInit, Environment
<1>3. Lists
  <2>1. /\ discovery.nodes = NoNodes /\ discovery.left = 0
        /\ discovery = [nodes |-> NoNodes, left |-> 0]
        /\ task = Asleep /\ task = [pc |-> "sleep", nodes |-> NoNodes, todo |-> {}]
        /\ task.pc = "sleep" /\ task.nodes = NoNodes /\ task.todo = {}
    BY DEF KmsInit, Asleep
  <2>. QED
    BY <1>1, <2>1, NoNodesList, Zenon DEF Lists
<1>4. Identities
  BY <1>1, Zenon DEF KmsInit, Identities
<1>5. Requesting
  BY IdleOk, KmsAssumption, Zenon DEF KmsInit, Requesting
<1>. QED
  BY <1>2, <1>3, <1>4, <1>5, Zenon DEF KmsInv

\* What a step leaves alone
LEMMA SameEnvironment ==
  ASSUME Environment, UNCHANGED env
  PROVE  Environment'
BY Zenon DEF Environment, env, Urls, Ids

\* The discovery cache and the refresh task stay as they are.
LEMMA SameLists ==
  ASSUME Lists, UNCHANGED <<discovery, task>>
  PROVE  Lists'
BY Zenon DEF Lists

\* A list that is stored while the task goes on with its own
LEMMA StoredList ==
  ASSUME Lists, UNCHANGED task, NEW f, NEW n \in 0 .. DiscoveryTtl, NodeList(f),
         discovery' = [nodes |-> f, left |-> n]
  PROVE  Lists'
<1>1. discovery'.nodes = f /\ discovery'.left = n
  BY Zenon
<1>. QED
  BY <1>1, Zenon DEF Lists

\* A node marked up or down stays in a well-formed list; one that has left the
\* list is not put back.
LEMMA MarkLists ==
  ASSUME Lists, UNCHANGED task, NEW u, NEW b \in BOOLEAN, Mark(u, b)
  PROVE  Lists'
<1>1. CASE u \notin DOMAIN discovery.nodes
  BY <1>1, SameLists, Zenon DEF Mark
<1>2. CASE u \in DOMAIN discovery.nodes
  <2>. DEFINE f == [discovery.nodes EXCEPT ![u] = [discovery.nodes[u] EXCEPT !.seen = Seen(b)]]
  <2>1. discovery' = [discovery EXCEPT !.nodes[u].seen = Seen(b)]
    BY <1>2, Zenon DEF Mark
  <2>2. /\ discovery = [nodes |-> discovery.nodes, left |-> discovery.left]
        /\ NodeList(discovery.nodes) /\ discovery.left \in 0 .. DiscoveryTtl
    BY Zenon DEF Lists
  <2>3. discovery' = [nodes |-> f, left |-> discovery.left]
    BY <2>1, <2>2
  <2>4. NodeList(f)
    BY <2>2, NotedList, Zenon
  <2>. HIDE DEF f
  <2>. QED
    BY <2>2, <2>3, <2>4, StoredList, Zenon
<1>. QED
  BY <1>1, <1>2, Zenon

\* A request that starts, from the discovery cache or for the lock, keeps the
\* invariant.
LEMMA StartInv ==
  ASSUME KmsInv, NEW r \in Calls, Start(r)
  PROVE  KmsInv'
<1>1. Environment' /\ Lists' /\ Identities'
  BY SameEnvironment, SameLists, Zenon DEF KmsInv, Start, Identities, Urls, Ids
<1>2. Requesting'
  <2>1. Requesting /\ call[r].pc # "discover" /\ UNCHANGED lock
    BY Zenon DEF KmsInv, Start
  <2>2. CASE Begin(r, discovery.nodes)
    BY <2>1, <2>2, BeginOk, OneCallOnly, Zenon DEF Begin
  <2>3. CASE Set(r, [Idle EXCEPT !.pc = "lock"])
    BY <2>1, <2>3, IdleOk, OneCallOnly, Zenon
  <2>. QED
    BY <2>2, <2>3, Zenon DEF Start
<1>. QED
  BY <1>1, <1>2, Zenon DEF KmsInv

\* So does one that takes the lock, or finds the cache filled once it has it,
LEMMA LockInv ==
  ASSUME KmsInv, NEW r \in Calls, Lock(r)
  PROVE  KmsInv'
<1>1. Environment' /\ Lists' /\ Identities'
  BY SameEnvironment, SameLists, Zenon DEF KmsInv, Lock, Identities, Urls, Ids
<1>2. Requesting'
  <2>1. Requesting /\ call[r].pc # "discover" /\ lock = Absent
    BY Zenon DEF KmsInv, Lock
  <2>2. CASE Begin(r, discovery.nodes) /\ UNCHANGED lock
    BY <2>1, <2>2, BeginOk, OneCallOnly, Zenon DEF Begin
  <2>3. CASE Set(r, [Idle EXCEPT !.pc = "discover"]) /\ lock' = r
    <3>1. Absent \notin Calls
      BY KmsAssumption, Zenon
    <3>. QED
      BY <2>1, <2>3, <3>1, IdleOk, OneCall, Zenon
  <2>. QED
    BY <2>2, <2>3, Zenon DEF Lock
<1>. QED
  BY <1>1, <1>2, Zenon DEF KmsInv

\* one that discovers nodes and releases the lock,
LEMMA DiscoverNodesInv ==
  ASSUME KmsInv, NEW r \in Calls, DiscoverNodes(r)
  PROVE  KmsInv'
<1>1. Environment' /\ Identities'
  BY SameEnvironment, Zenon DEF KmsInv, DiscoverNodes, Identities, Urls, Ids
<1>2. Lists'
  <2>1. Lists /\ NodeList(MergeWithPrevious(Discovered, discovery.nodes)) /\ UNCHANGED task
    BY DiscoveredList, MergePreviousList, Zenon DEF KmsInv, Lists, DiscoverNodes
  <2>2. DiscoveryTtl - call[r].waited \in 0 .. DiscoveryTtl
    <3>1. call[r].waited \in 0 .. DiscoveryTtl
      BY CallTyped, Zenon DEF CallOk
    <3>. QED
      BY <3>1, Numbers
  <2>. QED
    BY <2>1, <2>2, StoredList, Zenon DEF DiscoverNodes
<1>3. Requesting'
  <2>1. Requesting /\ call[r].pc = "discover" /\ lock' = Absent /\ Begin(r, discovery'.nodes)
    BY Zenon DEF KmsInv, DiscoverNodes
  <2>. QED
    BY <2>1, BeginOk, OneCallReleases, Zenon DEF Begin
<1>. QED
  BY <1>1, <1>2, <1>3, Zenon DEF KmsInv

\* one that finds none,
LEMMA DiscoverNothingInv ==
  ASSUME KmsInv, NEW r \in Calls, DiscoverNothing(r)
  PROVE  KmsInv'
<1>1. Environment' /\ Lists' /\ Identities'
  BY SameEnvironment, SameLists, Zenon DEF KmsInv, DiscoverNothing, Identities, Urls, Ids
<1>2. Requesting'
  BY IdleOk, OneCallReleases, Zenon DEF KmsInv, DiscoverNothing
<1>. QED
  BY <1>1, <1>2, Zenon DEF KmsInv

\* The next candidate, for a request that does not hold the lock
LEMMA FailedOk ==
  ASSUME KmsInv, NEW r \in Calls, Failed(r), UNCHANGED lock, call[r].pc \in {"identity", "send"}
  PROVE  Requesting'
<1>1. Requesting /\ CallOk(call[r])
  BY CallTyped, Zenon
<1>2. CallOk(Following(call[r])) /\ Following(call[r]).pc # "discover" /\ call[r].pc # "discover"
  BY <1>1, FollowingOk, Zenon
<1>. QED
  BY <1>1, <1>2, OneCallOnly, Zenon DEF Failed

\* one that resolves the identity of its candidate,
LEMMA ResolveIdentityInv ==
  ASSUME KmsInv, NEW r \in Calls, ResolveIdentity(r)
  PROVE  KmsInv'
<1>1. Environment' /\ Lists'
  BY SameEnvironment, SameLists, Zenon DEF KmsInv, ResolveIdentity
<1>2. Identities'
  <2>1. CASE UNCHANGED identity
    BY <2>1, Zenon DEF KmsInv, Identities, Urls, Ids
  <2>2. ASSUME NEW u, CacheIdentity(u, FetchIdentity(u)) PROVE Identities'
    <3>1. IdentityTtl \in 0 .. IdentityTtl
      BY Numbers
    <3>2. u \in Urls => FetchIdentity(u) \in Ids
      BY Zenon DEF KmsInv, Environment, FetchIdentity
    <3>3. identity' = [identity EXCEPT ![u] = [id |-> FetchIdentity(u), left |-> IdentityTtl]]
      BY <2>2, Zenon DEF CacheIdentity
    <3>4. identity \in [Urls -> [id : Ids \cup {Absent}, left : 0 .. IdentityTtl]]
      BY Zenon DEF KmsInv, Identities
    <3>5. identity' \in [Urls -> [id : Ids \cup {Absent}, left : 0 .. IdentityTtl]]
      BY <3>1, <3>2, <3>3, <3>4, Zenon
    <3>. QED
      BY <3>5, Zenon DEF Identities, Urls, Ids
  <2>. QED
    BY <2>1, <2>2, Zenon DEF ResolveIdentity
<1>3. Requesting'
  <2>1. Requesting /\ CallOk(call[r]) /\ call[r].pc = "identity" /\ UNCHANGED lock
    BY CallTyped, Zenon DEF ResolveIdentity
  <2>2. CASE Set(r, [call[r] EXCEPT !.pc = "send"])
    <3>1. CallOk([call[r] EXCEPT !.pc = "send"]) /\ [call[r] EXCEPT !.pc = "send"].pc # "discover"
      BY <2>1, SendOk, Zenon
    <3>. QED
      BY <2>1, <2>2, <3>1, OneCallOnly, Zenon
  <2>3. CASE Failed(r)
    BY <2>1, <2>3, FailedOk, Zenon
  <2>. QED
    BY <2>2, <2>3, Zenon DEF ResolveIdentity
<1>. QED
  BY <1>1, <1>2, <1>3, Zenon DEF KmsInv

\* one whose candidate cannot be reached,
LEMMA UnreachableInv ==
  ASSUME KmsInv, NEW r \in Calls, Unreachable(r)
  PROVE  KmsInv'
<1>1. Environment' /\ Identities'
  BY SameEnvironment, Zenon DEF KmsInv, Unreachable, Identities, Urls, Ids
<1>2. Lists'
  BY MarkLists, Zenon DEF KmsInv, Unreachable
<1>3. Requesting'
  BY FailedOk, Zenon DEF Unreachable
<1>. QED
  BY <1>1, <1>2, <1>3, Zenon DEF KmsInv

\* one that is answered,
LEMMA AnsweredInv ==
  ASSUME KmsInv, NEW r \in Calls, Answered(r)
  PROVE  KmsInv'
<1>1. Environment' /\ Identities'
  BY SameEnvironment, Zenon DEF KmsInv, Answered, Identities, Urls, Ids
<1>2. Lists'
  BY MarkLists, Zenon DEF KmsInv, Answered
<1>3. Requesting'
  BY IdleOk, OneCallOnly, Zenon DEF KmsInv, Answered
<1>. QED
  BY <1>1, <1>2, <1>3, Zenon DEF KmsInv

\* one that gets a 404,
LEMMA NotFoundInv ==
  ASSUME KmsInv, NEW r \in Calls, NotFound(r)
  PROVE  KmsInv'
<1>1. Environment' /\ Lists' /\ Identities'
  BY SameEnvironment, SameLists, Zenon DEF KmsInv, NotFound, Identities, Urls, Ids
<1>2. Requesting'
  <2>. DEFINE q == Following([call[r] EXCEPT !.missing = TRUE])
  <2>1. Requesting /\ CallOk(call[r]) /\ call[r].pc = "send" /\ UNCHANGED lock /\ Set(r, q)
    BY CallTyped, Zenon DEF NotFound
  <2>2. CallOk([call[r] EXCEPT !.missing = TRUE])
    BY <2>1, MissingOk, Zenon
  <2>3. CallOk(q) /\ q.pc # "discover"
    BY <2>2, FollowingOk, Zenon
  <2>. HIDE DEF q
  <2>. QED
    BY <2>1, <2>3, OneCallOnly, Zenon
<1>. QED
  BY <1>1, <1>2, Zenon DEF KmsInv

\* one that is refused, and drops the cached identity,
LEMMA RefusedInv ==
  ASSUME KmsInv, NEW r \in Calls, Refused(r)
  PROVE  KmsInv'
<1>1. Environment' /\ Lists'
  BY SameEnvironment, SameLists, Zenon DEF KmsInv, Refused
<1>2. Identities'
  <2>1. 0 \in 0 .. IdentityTtl
    BY Numbers
  <2>2. NoIdentity \in [id : Ids \cup {Absent}, left : 0 .. IdentityTtl]
    BY <2>1, Zenon DEF NoIdentity
  <2>. QED
    BY <2>2, Zenon DEF KmsInv, Refused, Identities, Urls, Ids
<1>3. Requesting'
  BY FailedOk, Zenon DEF Refused
<1>. QED
  BY <1>1, <1>2, <1>3, Zenon DEF KmsInv

\* and one that gives up.
LEMMA ReportInv ==
  ASSUME KmsInv, NEW r \in Calls, ReportMissing(r) \/ ReportFailure(r)
  PROVE  KmsInv'
<1>1. Environment' /\ Lists' /\ Identities'
  BY SameEnvironment, SameLists, Zenon DEF KmsInv, ReportMissing, ReportFailure, Identities, Urls, Ids
<1>2. Requesting'
  BY IdleOk, OneCallOnly, Zenon DEF KmsInv, ReportMissing, ReportFailure
<1>. QED
  BY <1>1, <1>2, Zenon DEF KmsInv

\* The task alone moves on.
LEMMA TaskOnly ==
  ASSUME KmsInv, UNCHANGED <<env, discovery, identity, lock, call>>, NEW p, NEW f, NEW d,
         task' = [pc |-> p, nodes |-> f, todo |-> d], p \in {"sleep", "discover", "probe"},
         NodeList(f), d \subseteq DOMAIN f, p # "probe" => d = {}
  PROVE  KmsInv'
<1>1. Environment' /\ Identities' /\ Requesting'
  BY SameEnvironment, Zenon DEF KmsInv, Identities, Requesting, Urls, Ids
<1>2. task'.pc = p /\ task'.nodes = f /\ task'.todo = d
  BY Zenon
<1>3. Lists'
  BY <1>2, Zenon DEF KmsInv, Lists
<1>. QED
  BY <1>1, <1>3, Zenon DEF KmsInv

\* The refresh task wakes with a copy of the list,
LEMMA WakeInv ==
  ASSUME KmsInv, Wake
  PROVE  KmsInv'
<1>1. /\ task = [pc |-> task.pc, nodes |-> task.nodes, todo |-> task.todo]
      /\ task' = [task EXCEPT !.pc = "discover", !.nodes = discovery.nodes]
      /\ NodeList(discovery.nodes)
      /\ UNCHANGED <<env, discovery, identity, lock, call>>
  BY Zenon DEF KmsInv, Lists, Wake
<1>2. task' = [pc |-> "discover", nodes |-> discovery.nodes, todo |-> task.todo]
  BY <1>1
<1>3. task.todo = {}
  BY Zenon DEF KmsInv, Lists, Wake
<1>. QED
  BY <1>1, <1>2, <1>3, TaskOnly, Zenon

\* reads the registry,
LEMMA RediscoverInv ==
  ASSUME KmsInv, Rediscover
  PROVE  KmsInv'
<1>. DEFINE found == IF Listed = {} THEN task.nodes ELSE MergeWithPrevious(Discovered, task.nodes)
<1>1. NodeList(found)
  BY DiscoveredList, MergePreviousList, Zenon DEF KmsInv, Lists
<1>2. UNCHANGED <<env, discovery, identity, lock, call>>
  BY Zenon DEF Rediscover
<1>3. CASE task' = [pc |-> "probe", nodes |-> found, todo |-> DOMAIN found]
  <2>. HIDE DEF found
  <2>. QED
    BY <1>1, <1>2, <1>3, TaskOnly, Zenon
<1>4. CASE task' = [pc |-> "sleep", nodes |-> NoNodes, todo |-> {}]
  BY <1>2, <1>4, NoNodesList, TaskOnly, Zenon
<1>. QED
  BY <1>3, <1>4, Zenon DEF Rediscover, Asleep

\* probes one node after another,
LEMMA ProbeInv ==
  ASSUME KmsInv, Probe
  PROVE  KmsInv'
<1>1. PICK v : task' = [task EXCEPT !.nodes[v].seen = Seen(up[v]), !.todo = @ \ {v}]
  BY Zenon DEF Probe
<1>2. /\ task = [pc |-> task.pc, nodes |-> task.nodes, todo |-> task.todo] /\ task.pc = "probe"
      /\ NodeList(task.nodes) /\ task.todo \subseteq DOMAIN task.nodes
      /\ UNCHANGED <<env, discovery, identity, lock, call>>
  BY Zenon DEF KmsInv, Lists, Probe
<1>. DEFINE f == [task.nodes EXCEPT ![v] = [task.nodes[v] EXCEPT !.seen = Seen(up[v])]]
            d == task.todo \ {v}
<1>3. task' = [pc |-> "probe", nodes |-> f, todo |-> d]
  BY <1>1, <1>2
<1>4. NodeList(f) /\ DOMAIN f = DOMAIN task.nodes
  <2>1. CASE v \in DOMAIN task.nodes
    <3>1. up[v] \in BOOLEAN
      BY <1>2, <2>1, Zenon DEF KmsInv, Environment, NodeList
    <3>. QED
      BY <1>2, <3>1, NotedList, Zenon
  <2>2. CASE v \notin DOMAIN task.nodes
    <3>1. task.nodes = [u \in DOMAIN task.nodes |-> task.nodes[u]]
      BY <1>2, Zenon DEF NodeList
    <3>2. f = task.nodes
      BY <2>2, <3>1
    <3>. QED
      BY <1>2, <3>2, Zenon
  <2>. QED
    BY <2>1, <2>2, Zenon
<1>5. d \subseteq DOMAIN f
  BY <1>2, <1>4, Zenon
<1>. HIDE DEF f, d
<1>. QED
  BY <1>2, <1>3, <1>4, <1>5, TaskOnly, Zenon

\* and stores what it has, merged with the live list.
LEMMA SwapInv ==
  ASSUME KmsInv, Swap
  PROVE  KmsInv'
<1>1. Environment' /\ Identities' /\ Requesting'
  BY SameEnvironment, Zenon DEF KmsInv, Swap, Identities, Requesting, Urls, Ids
<1>. DEFINE m == MergeWithLive(task.nodes, discovery.nodes)
<1>2. NodeList(m)
  BY MergeLiveList, Zenon DEF KmsInv, Lists
<1>3. DiscoveryTtl \in 0 .. DiscoveryTtl
  BY Numbers
<1>4. /\ discovery' = [nodes |-> m, left |-> DiscoveryTtl]
      /\ task' = [pc |-> "sleep", nodes |-> NoNodes, todo |-> {}]
  BY Zenon DEF Swap, Asleep
<1>. HIDE DEF m
<1>5. /\ discovery'.nodes = m /\ discovery'.left = DiscoveryTtl
      /\ task'.pc = "sleep" /\ task'.nodes = NoNodes /\ task'.todo = {}
  BY <1>4
<1>6. Lists'
  BY <1>2, <1>3, <1>4, <1>5, NoNodesList, Zenon DEF Lists
<1>. QED
  BY <1>1, <1>6, Zenon DEF KmsInv

\* Time passes: every cache ages.
LEMMA TickInv ==
  ASSUME KmsInv, Tick
  PROVE  KmsInv'
<1>1. Environment'
  BY SameEnvironment, Zenon DEF KmsInv, Tick
<1>2. Lists'
  <2>1. /\ task = [pc |-> task.pc, nodes |-> task.nodes, todo |-> task.todo]
        /\ task' = [task EXCEPT !.nodes = OlderNodes(@)]
        /\ discovery' = [nodes |-> OlderNodes(discovery.nodes), left |-> Decrement(discovery.left)]
        /\ discovery.left \in 0 .. DiscoveryTtl
    BY Zenon DEF KmsInv, Lists, Tick
  <2>2. task' = [pc |-> task.pc, nodes |-> OlderNodes(task.nodes), todo |-> task.todo]
    BY <2>1
  <2>3. /\ task'.pc = task.pc /\ task'.nodes = OlderNodes(task.nodes) /\ task'.todo = task.todo
        /\ discovery'.nodes = OlderNodes(discovery.nodes)
        /\ discovery'.left = Decrement(discovery.left)
    BY <2>1, <2>2
  <2>4. Decrement(discovery.left) \in 0 .. DiscoveryTtl
    BY <2>1, Numbers DEF Decrement
  <2>5. /\ NodeList(OlderNodes(task.nodes)) /\ DOMAIN OlderNodes(task.nodes) = DOMAIN task.nodes
        /\ NodeList(OlderNodes(discovery.nodes))
    BY OlderList, Zenon DEF KmsInv, Lists
  <2>. QED
    BY <2>1, <2>2, <2>3, <2>4, <2>5, Zenon DEF KmsInv, Lists
<1>3. Identities'
  <2>1. ASSUME NEW e \in [id : Ids \cup {Absent}, left : 0 .. IdentityTtl]
        PROVE  OlderIdentity(e) \in [id : Ids \cup {Absent}, left : 0 .. IdentityTtl]
    <3>1. 0 \in 0 .. IdentityTtl /\ e.left \in 0 .. IdentityTtl
      BY Numbers
    <3>2. ~(e.left <= 1) => e.left - 1 \in 0 .. IdentityTtl
      BY <3>1, Numbers
    <3>. QED
      BY <3>1, <3>2, Zenon DEF OlderIdentity, NoIdentity
  <2>. QED
    BY <2>1, Zenon DEF KmsInv, Identities, Tick, Urls, Ids
<1>4. Requesting'
  <2>1. ASSUME NEW r \in Calls PROVE CallOk(call'[r]) /\ call'[r].pc = call[r].pc
    <3>1. CallOk(call[r])
      BY CallTyped, Zenon
    <3>2. CASE call[r].pc = "discover" /\ call[r].waited < DiscoveryTtl
      <4>1. call'[r] = [call[r] EXCEPT !.waited = @ + 1]
        BY <3>2, Zenon DEF Tick
      <4>2. /\ CallOk([call[r] EXCEPT !.waited = @ + 1])
            /\ [call[r] EXCEPT !.waited = @ + 1].pc = call[r].pc
        BY <3>1, <3>2, WaitedOk, Zenon
      <4>. QED
        BY <4>1, <4>2, Zenon
    <3>3. CASE ~(call[r].pc = "discover" /\ call[r].waited < DiscoveryTtl)
      <4>1. call'[r] = call[r]
        BY <3>3, Zenon DEF Tick
      <4>. QED
        BY <3>1, <4>1, Zenon
    <3>. QED
      BY <3>2, <3>3, Zenon
  <2>2. call' = [r \in Calls |-> call'[r]] /\ UNCHANGED lock
    BY Zenon DEF Tick
  <2>. QED
    BY <2>1, <2>2, Zenon DEF KmsInv, Requesting
<1>. QED
  BY <1>1, <1>2, <1>3, <1>4, Zenon DEF KmsInv

\* A node or the chain goes down, moves, or comes back.
LEMMA FaultInv ==
  ASSUME KmsInv, Fault \/ Repair
  PROVE  KmsInv'
<1>1. Lists' /\ Identities' /\ Requesting'
  BY SameLists, Zenon DEF KmsInv, Fault, Repair, Identities, Requesting, Urls, Ids
<1>2. Environment'
  <2>1. /\ faults \in 0 .. MaxFaults /\ faults' \in 0 .. MaxFaults /\ faults <= faults'
        /\ Fault => faults' = faults + 1
    BY Numbers DEF KmsInv, Environment, Fault, Repair
  <2>2. ASSUME NEW u \in Urls, Fault
        PROVE  serves[u] + 1 \in Ids /\ serves[u] + 1 <= faults' + 1
    <3>1. serves[u] \in Ids /\ serves[u] <= faults + 1 /\ faults < MaxFaults
      BY <2>2, Zenon DEF KmsInv, Environment, Fault
    <3>. QED
      BY <2>1, <2>2, <3>1, Numbers
  <2>3. ASSUME NEW u \in Urls
        PROVE  serves[u] \in Ids /\ serves[u] <= faults' + 1
    <3>1. serves[u] \in Ids /\ serves[u] <= faults + 1
      BY Zenon DEF KmsInv, Environment
    <3>. QED
      BY <2>1, <3>1, Numbers
  <2>4. serves' \in [Urls -> Ids] /\ \A u \in Urls : serves'[u] <= faults' + 1
    <3>1. CASE UNCHANGED serves
      BY <2>3, <3>1, Zenon DEF KmsInv, Environment
    <3>2. CASE \E v \in Urls : Fault /\ serves' = [serves EXCEPT ![v] = @ + 1]
      BY <2>2, <2>3, <3>2, Zenon DEF KmsInv, Environment
    <3>. QED
      BY <3>1, <3>2, Zenon DEF Fault, Repair
  <2>5. /\ registry' \in [Urls -> Ids \cup {Absent}] /\ up' \in [Urls -> BOOLEAN] /\ rpc' \in BOOLEAN
    BY Zenon DEF KmsInv, Environment, Fault, Repair
  <2>. QED
    BY <2>1, <2>4, <2>5, Zenon DEF Environment, Urls, Ids
<1>. QED
  BY <1>1, <1>2, Zenon DEF KmsInv

\* Every step of KmsNodes keeps the invariant.
LEMMA KmsStepInv == KmsInv /\ [KmsNext]_kmsVars => KmsInv'
<1>. SUFFICES ASSUME KmsInv, [KmsNext]_kmsVars PROVE KmsInv'
  OBVIOUS
<1>1. CASE \E r \in Calls : Start(r) \/ Step(r)
  BY <1>1, StartInv, LockInv, DiscoverNodesInv, DiscoverNothingInv, ResolveIdentityInv,
     UnreachableInv, AnsweredInv, NotFoundInv, RefusedInv, ReportInv, Zenon DEF Step
<1>2. CASE Refresh \/ Tick \/ Fault \/ Repair
  BY <1>2, WakeInv, RediscoverInv, ProbeInv, SwapInv, TickInv, FaultInv, Zenon DEF Refresh
<1>3. CASE UNCHANGED kmsVars
  BY <1>3, SameEnvironment, SameLists, Zenon DEF kmsVars, KmsInv, Identities, Requesting, Urls, Ids
<1>. QED
  BY <1>1, <1>2, <1>3, Zenon DEF KmsNext

\* So the invariant always holds.
LEMMA KmsInvariant == KmsSpec => []KmsInv
BY KmsInitInv, KmsStepInv, PTL DEF KmsSpec

\* The variables of KmsNodes keep their types, for any number of nodes, requests
\* and faults and any TTLs; in particular discovery_refresh_lock lets one request
\* at a time ask the registry.
THEOREM KmsTypeCorrect == KmsSpec => []KmsTypeOK
<1>1. KmsInv => KmsTypeOK
  BY NodeListTyped, Zenon DEF KmsInv, Environment, Lists, Identities, Requesting, CallOk, KmsTypeOK
<1>. QED
  BY <1>1, KmsInvariant, PTL

\* Whoever stores a list, no node in it is left with an older observation than it
\* had: neither the background task nor a discovery undoes what requests saw.
THEOREM NewestIsKept == KmsSpec => NewestObservationKept
<1>. DEFINE A == (Swap \/ \E r \in Calls : DiscoverNodes(r))
                   => \A u \in DOMAIN discovery.nodes \cap DOMAIN discovery'.nodes :
                        discovery.nodes[u].seen.left > 0
                          => discovery'.nodes[u].seen.age <= discovery.nodes[u].seen.age
<1>1. ASSUME KmsInv PROVE A
  <2>. SUFFICES ASSUME Swap \/ \E r \in Calls : DiscoverNodes(r),
                       NEW u \in DOMAIN discovery.nodes, u \in DOMAIN discovery'.nodes,
                       discovery.nodes[u].seen.left > 0
                PROVE  discovery'.nodes[u].seen.age <= discovery.nodes[u].seen.age
    BY Zenon
  <2>1. NodeList(discovery.nodes) /\ NodeList(task.nodes) /\ NodeList(Discovered)
    BY <1>1, DiscoveredList, Zenon DEF KmsInv, Lists
  <2>2. discovery.nodes[u].seen \in Observation /\ discovery.nodes[u].seen.age \in 0 .. MaxAge
    BY <2>1, Zenon DEF NodeList, Entry, Observation
  <2>3. CASE Swap
    <3>. DEFINE m == MergeWithLive(task.nodes, discovery.nodes)
    <3>1. discovery'.nodes = m /\ u \in DOMAIN task.nodes
      BY <2>1, <2>3, MergeLiveList, Zenon DEF Swap
    <3>2. task.nodes[u] \in Entry /\ task.nodes[u].seen.age \in 0 .. MaxAge
      BY <2>1, <3>1, Zenon DEF NodeList, Entry, Observation
    <3>3. CASE discovery.nodes[u].seen.age < task.nodes[u].seen.age
      <4>1. m[u] = [task.nodes[u] EXCEPT !.seen = discovery.nodes[u].seen]
        BY <3>1, <3>3, Zenon DEF MergeWithLive
      <4>2. [task.nodes[u] EXCEPT !.seen = discovery.nodes[u].seen].seen = discovery.nodes[u].seen
        BY <2>2, <3>2, Observed, Zenon
      <4>3. discovery'.nodes[u].seen.age = discovery.nodes[u].seen.age
        BY <3>1, <4>1, <4>2, Zenon
      <4>. QED
        BY <2>2, <4>3
    <3>4. CASE ~(discovery.nodes[u].seen.age < task.nodes[u].seen.age)
      <4>1. m[u] = task.nodes[u]
        BY <3>1, <3>4, Zenon DEF MergeWithLive
      <4>2. discovery'.nodes[u].seen.age = task.nodes[u].seen.age
        BY <3>1, <4>1, Zenon
      <4>. QED
        BY <2>2, <3>2, <3>4, <4>2
    <3>. QED
      BY <3>3, <3>4, Zenon
  <2>4. ASSUME NEW r \in Calls, DiscoverNodes(r)
        PROVE  discovery'.nodes[u].seen.age <= discovery.nodes[u].seen.age
    <3>. DEFINE m == MergeWithPrevious(Discovered, discovery.nodes)
    <3>1. discovery'.nodes = m /\ u \in DOMAIN Discovered
      BY <2>1, <2>4, MergePreviousList, Zenon DEF DiscoverNodes
    <3>2. m[u] = [Discovered[u] EXCEPT !.seen = discovery.nodes[u].seen]
      BY <3>1, Zenon DEF MergeWithPrevious
    <3>3. Discovered[u] \in Entry
      BY <2>1, <3>1, Zenon DEF NodeList
    <3>4. [Discovered[u] EXCEPT !.seen = discovery.nodes[u].seen].seen = discovery.nodes[u].seen
      BY <2>2, <3>3, Observed, Zenon
    <3>5. discovery'.nodes[u].seen.age = discovery.nodes[u].seen.age
      BY <3>1, <3>2, <3>4, Zenon
    <3>. QED
      BY <2>2, <3>5
  <2>. QED
    BY <2>3, <2>4, Zenon
<1>2. KmsInv => [A]_kmsVars
  BY <1>1, Zenon
<1>3. KmsSpec => [][A]_kmsVars
  BY <1>2, KmsInvariant, PTL
<1>. QED
  BY <1>3, Zenon DEF NewestObservationKept
=============================================================================
