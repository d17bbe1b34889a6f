----------------------------- MODULE AppWallet -----------------------------
(***************************************************************************)
(* The app wallet (app_wallet.rs): one Ethereum key that the instances of  *)
(* an application share through two records of the KMS key-value store,    *)
(* the private key and the address.  The first request that finds neither  *)
(* generates a wallet, writes the two records one after the other and      *)
(* reads them back.  Requests of one instance and of several run at the    *)
(* same time, and nothing orders them: no lock, no compare-and-set.        *)
(*                                                                         *)
(* A wallet stands for a private key and for the address it determines.    *)
(* The store is the KMS's (external): a put whose answer is lost, or whose *)
(* request is dropped, may still be applied, now or later, and a record    *)
(* that is there may be reported as missing.  A value that was overwritten *)
(* is assumed not to come back except by a late put.                       *)
(***************************************************************************)
EXTENDS Naturals

CONSTANTS
  Instances,   \* the enclaves that share the KMS namespace
  Requests,    \* requests that may be under way at the same time
  Home,        \* Home[r]: the instance that serves request r
  MaxWallets,  \* bound: wallets that are ever generated
  None

ASSUME WalletAssumption ==
  /\ Home \in [Requests -> Instances]
  /\ MaxWallets \in Nat
  /\ None \notin 1 .. MaxWallets

Wallets == 1 .. MaxWallets
Records == {"key", "address"}

VARIABLES
  pc,         \* where every request is
  key,        \* what it has read of the first record
  own,        \* the wallet it generated
  store,      \* the two records in the KMS
  late,       \* puts that the KMS has received and not applied yet
  cache,      \* app_wallet_cache of every instance
  made,       \* number of wallets generated so far
  overlap,    \* the environment may issue a request while another is running
  handed      \* the wallets handed out to the application so far

\* History: the requests that were told of a record of the store that it is
\* missing, and whether one of them has generated a wallet.
VARIABLES missed, blind

history == <<missed, blind>>
vars == <<pc, key, own, store, late, cache, made, overlap, handed, history>>
locals == <<key, own, history>>

PCs == {"idle", "clear", "get_key", "get_addr", "put_key", "put_addr"}

TypeOK ==
  /\ pc \in [Requests -> PCs]
  /\ key \in [Requests -> Wallets \cup {None}]
  /\ own \in [Requests -> Wallets \cup {None}]
  /\ store \in [Records -> Wallets \cup {None}]
  /\ late \subseteq Records \X Wallets
  /\ cache \in [Instances -> [wallet : Wallets \cup {None}, fresh : BOOLEAN]]
  /\ made \in 0 .. MaxWallets
  /\ overlap \in BOOLEAN
  /\ handed \subseteq Wallets
  /\ missed \subseteq Requests
  /\ blind \in BOOLEAN

NoWallet == [wallet |-> None, fresh |-> FALSE]

Init ==
  /\ pc = [r \in Requests |-> "idle"]
  /\ key = [r \in Requests |-> None]
  /\ own = [r \in Requests |-> None]
  /\ store = [x \in Records |-> None]
  /\ late = {}
  /\ cache = [i \in Instances |-> NoWallet]
  /\ made = 0
  /\ overlap \in BOOLEAN
  /\ handed = {}
  /\ missed = {} /\ blind = FALSE

-----------------------------------------------------------------------------

\* The request returns, with a wallet or with an error.
Return(r) ==
  /\ pc' = [pc EXCEPT ![r] = "idle"]
  /\ key' = [key EXCEPT ![r] = None]
  /\ own' = [own EXCEPT ![r] = None]
  /\ missed' = missed \ {r}
  /\ UNCHANGED blind

Goto(r, label) == pc' = [pc EXCEPT ![r] = label]

HandOut(w) == handed' = handed \cup {w}

\* cached_app_wallet_material, under the read lock: a wallet that has not
\* expired is the answer of app_wallet_key, app_wallet_address and
\* ensure_app_wallet_authorized.
Lookup(r) ==
  /\ pc[r] = "idle"
  /\ overlap \/ \A q \in Requests : pc[q] = "idle"
  /\ \/ /\ cache[Home[r]].fresh
        /\ HandOut(cache[Home[r]].wallet)
        /\ UNCHANGED pc
     \/ ~cache[Home[r]].fresh /\ Goto(r, "clear") /\ UNCHANGED handed
  /\ UNCHANGED <<locals, store, late, cache, made, overlap>>

\* Under the write lock, whatever another request has cached in between.
ClearCache(r) ==
  /\ pc[r] = "clear"
  /\ cache' = [cache EXCEPT ![Home[r]] = NoWallet]
  /\ Goto(r, "get_key")
  /\ UNCHANGED <<locals, store, late, made, overlap, handed>>

\* kv_get: the record, or none: an answer without a value is none, and so is the
\* 404 of one node when no other answers.
KvGet(rec) == {store[rec], None}

\* kv_get(APP_WALLET_KV_PRIVATE_KEY), first or second time
GetKey(r) ==
  /\ pc[r] = "get_key"
  /\ \E k \in KvGet("key") :
       /\ key' = [key EXCEPT ![r] = k]
       /\ missed' = IF k = store["key"] THEN missed ELSE missed \cup {r}
  /\ Goto(r, "get_addr")
  /\ UNCHANGED <<own, blind, store, late, cache, made, overlap, handed>>

\* Fault: the address is not compared with the private key.
DecodeUnchecked(k, a) == IF a = None THEN None ELSE k

\* decode_app_wallet_material: the private key, if the address is its own.
Decode(k, a) == IF k = a THEN k ELSE None

\* Fault: one missing record is enough to start over.
NothingUsable(k, a) == k = None \/ a = None
NothingStored(k, a) == k = None /\ a = None

\* No wallet yet: one is generated (EthKey::new).
Generate(r) ==
  /\ made < MaxWallets
  /\ made' = made + 1
  /\ own' = [own EXCEPT ![r] = made + 1]
  /\ Goto(r, "put_key")

\* kv_get(APP_WALLET_KV_ADDRESS) and what resolve_app_wallet_material makes of
\* the two answers: no wallet yet, an incomplete or foreign one, or the wallet.
GetAddr(r) ==
  /\ pc[r] = "get_addr"
  /\ \E a \in KvGet("address") :
       LET w == Decode(key[r], a)
           new == own[r] = None /\ NothingStored(key[r], a)
       IN  \/ /\ new
              /\ Generate(r)
              /\ missed' = IF a = store["address"] THEN missed ELSE missed \cup {r}
              /\ blind' = (blind \/ r \in missed')
              /\ UNCHANGED <<key, cache, handed>>
           \/ /\ w # None
              /\ own[r] \in {None, w}
              /\ cache' = [cache EXCEPT ![Home[r]] = [wallet |-> w, fresh |-> TRUE]]
              /\ HandOut(w)
              /\ Return(r)
              /\ UNCHANGED made
           \/ /\ ~new
              /\ w = None \/ own[r] \notin {None, w}
              /\ Return(r)
              /\ UNCHANGED <<cache, made, handed>>
  /\ UNCHANGED <<store, late, overlap>>

\* kv_put succeeds.  An earlier node that did not answer in time may apply the
\* same put again.
Put(r, rec) ==
  /\ store' = [store EXCEPT ![rec] = own[r]]
  /\ late' \in {late, late \cup {<<rec, own[r]>>}}
  /\ UNCHANGED <<locals, cache, made, overlap, handed>>

\* write_app_wallet_record
PutKey(r)  == pc[r] = "put_key" /\ Put(r, "key") /\ Goto(r, "put_addr")
PutAddr(r) == pc[r] = "put_addr" /\ Put(r, "address") /\ Goto(r, "get_key")

\* A call to the KMS fails, or the future is dropped while it waits: the
\* attestation handler gives up after 1500 ms, a client hangs up.
Abandon(r) ==
  /\ pc[r] # "idle"
  /\ late' \in {late} \cup
       (IF pc[r] = "put_key" THEN {late \cup {<<"key", own[r]>>}}
        ELSE IF pc[r] = "put_addr" THEN {late \cup {<<"address", own[r]>>}}
        ELSE {})
  /\ Return(r)
  /\ UNCHANGED <<store, cache, made, overlap, handed>>

LatePut ==
  \E p \in late :
    /\ store' = [store EXCEPT ![p[1]] = p[2]]
    /\ late' = late \ {p}
    /\ UNCHANGED <<pc, locals, cache, made, overlap, handed>>

\* APP_WALLET_CACHE_TTL_MS later
Expire(i) ==
  /\ cache[i].fresh
  /\ cache' = [cache EXCEPT ![i].fresh = FALSE]
  /\ UNCHANGED <<pc, locals, store, late, made, overlap, handed>>

Request(r) == Lookup(r) \/ ClearCache(r) \/ GetKey(r) \/ GetAddr(r) \/ PutKey(r)
              \/ PutAddr(r) \/ Abandon(r)

Next ==
  \/ \E r \in Requests : Request(r)
  \/ LatePut
  \/ \E i \in Instances : Expire(i)

Spec == Init /\ [][Next]_vars

-----------------------------------------------------------------------------
(* Properties *)

\* All instances hand out one wallet, ever.
OneWallet == \A v, w \in handed : v = w

\* As long as requests do not overlap, and none generates a wallet because the KMS
\* denied a record it has, the application sees one wallet, ever, however many
\* initialisations were abandoned half-way, whatever the KMS applies late and
\* whatever it denies to requests that do not generate: the comparison of the two
\* records in decode_app_wallet_material and the one with the generated wallet
\* make every mixture an error.
OneWalletInTurn == ~overlap /\ ~blind => OneWallet

Writing(r) == pc[r] \in {"put_key", "put_addr"}

\* Once both records exist, only requests that had begun to write before, puts that
\* the KMS still holds and requests it has denied a record change them: a request
\* whose two reads straddle an initialisation by somebody else does not start
\* another one (resolve_app_wallet_material).
NoLateInitialiser ==
  [][(/\ None \notin {store["key"], store["address"]}
      /\ \A r \in Requests : ~Writing(r))
     => \A r \in Requests : Writing(r)' => r \in missed']_vars
=============================================================================
