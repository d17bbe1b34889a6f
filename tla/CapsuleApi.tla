----------------------------- MODULE CapsuleApi -----------------------------
(***************************************************************************)
(* The HTTP services inside the enclave: the Capsule API (capsule_api.rs), *)
(* the auxiliary API that passes three of its routes on (aux_api.rs), the  *)
(* server under both (http_util.rs) and the KMS handlers behind it         *)
(* (nova_kms.rs).  Every connection is a task of its own.                  *)
(*                                                                         *)
(* A request is the list of steps its handler still has to take; a step    *)
(* that needs others puts them in its place.  The KMS client calls the     *)
(* Capsule API itself to sign, to encrypt and to decrypt: those are leaf   *)
(* requests, taken here as steps of the caller.  A step ends either with   *)
(* the next one or with a failure, which ends the request (the status is   *)
(* left out) or, inside attestation's bounded look for the app wallet,     *)
(* only that look.                                                         *)
(* Which KMS node is called is KmsNodes, how a wallet is found AppWallet.  *)
(***************************************************************************)
EXTENDS Naturals, Sequences

CONSTANTS
  Conns,         \* connections open at a time
  ClientDers,    \* public keys of the clients that have data decrypted, as they
                 \* are sent: parse_der_public_key takes several encodings of one
  NodeDer,       \* the public key of the KMS node, as it is sent
  Nonces,        \* 12-byte nonces
  Capacity,      \* NONCE_REPLAY_CACHE_CAPACITY
  AuthzTtl,      \* AUTHZ_CACHE_TTL_MS, in ticks
  KmsConfigured, \* kms_integration is enabled
  UseAppWallet,  \* kms_integration.use_app_wallet
  WeakFallback,  \* CAPSULE_RUNTIME_ALLOW_WEAK_RNG_FALLBACK
  None

ASSUME ApiAssumption ==
  /\ Capacity \in Nat \ {0}
  /\ AuthzTtl \in Nat \ {0}
  /\ KmsConfigured \in BOOLEAN /\ WeakFallback \in BOOLEAN
  /\ UseAppWallet \in BOOLEAN /\ (UseAppWallet => KmsConfigured)

\* NonceReplayCache: the nonces registered, oldest first, and the set of them;
\* the cache of resolve_authz_context by the time it is still valid; the cached
\* app wallet; and whether the registry has the instance as active.
VARIABLES api, conn, order, seen, authz, wallet, active

\* History: the last Capacity nonces that were registered.
VARIABLE recent

nonces == <<order, seen, recent>>
caches == <<nonces, authz, wallet>>
vars == <<api, conn, caches, active>>

Ders == ClientDers \cup {NodeDer}
Fingerprints == Ders \X Nonces

\* A nonce as it is sent: 12 bytes, or the 32 bytes of older clients
Raw == {[nonce |-> n, legacy |-> l] : n \in Nonces, l \in BOOLEAN}

KmsKinds == {"derive", "kv_get", "kv_put", "kv_delete"}
WalletKinds == {"wallet_address", "wallet_sign", "wallet_sign_tx"}
Kinds == KmsKinds \cup WalletKinds
         \cup {"attestation", "eth_sign_attested", "eth_sign_tx_attested", "aux_attestation",
               "aux_address", "aux_public_key", "eth_address", "eth_sign", "eth_sign_tx",
               "public_key", "random", "encrypt", "decrypt"}

\* What a connection does: the steps to take, the nonce to register.
Idle == [todo |-> <<>>, fp |-> None]

Init ==
  /\ api = "off"
  /\ conn = [c \in Conns |-> Idle]
  /\ order = <<>> /\ seen = {} /\ recent = <<>>
  /\ authz = 0
  /\ wallet = FALSE
  /\ active = TRUE

-----------------------------------------------------------------------------
(* The server *)

\* CapsuleApiService::start with CapsuleApiHandler::with_integrations: both keys
\* are seeded from the NSM's random numbers; where it has none to give
\* (collect_random_bytes: an error, or nothing MAX_EMPTY_RANDOM_CHUNKS times on
\* end) the runtime does not start unless the fallback is allowed.
Start ==
  /\ api = "off"
  /\ \E ok \in BOOLEAN : api' = IF ok \/ WeakFallback THEN "serving" ELSE "failed"
  /\ UNCHANGED <<conn, caches, active>>

\* The steps of the handlers.  A message or a transaction is signed with the
\* enclave's own key, at once, and attested on request.
Attestation == <<"lookup", "attest">>
EthAddress == <<>>
EthSign(attested) == IF attested THEN Attestation ELSE <<>>
EthSignTx(attested) == IF attested THEN Attestation ELSE <<>>
Random == <<"rng">>
EncryptionPublicKey == <<>>
EncryptionDecrypt == <<"register">>
EncryptionEncrypt == <<"rng", "seal">>

\* ensure_app_wallet_authorized, then the key or the address
AppWallet == <<"resolve", "self", "resolve">>
Kms == <<"authz", "op">>

\* AuxApiHandler: the request is passed on, an attestation's without its public key.
Aux(steps) == <<"proxy">> \o steps

\* handle_request; where the integration is not configured the answer is an error.
Program(kind) ==
  CASE kind = "attestation" -> Attestation
    [] kind \in {"eth_sign", "eth_sign_attested"} -> EthSign(kind = "eth_sign_attested")
    [] kind \in {"eth_sign_tx", "eth_sign_tx_attested"} -> EthSignTx(kind = "eth_sign_tx_attested")
    [] kind = "eth_address" -> EthAddress
    [] kind = "random" -> Random
    [] kind = "public_key" -> EncryptionPublicKey
    [] kind = "decrypt" -> EncryptionDecrypt
    [] kind = "encrypt" -> EncryptionEncrypt
    [] kind \in KmsKinds -> IF KmsConfigured THEN Kms ELSE <<>>
    [] kind \in WalletKinds -> IF KmsConfigured THEN AppWallet ELSE <<>>
    [] kind = "aux_attestation" -> Aux(Attestation)
    [] kind = "aux_address" -> Aux(EthAddress)
    [] kind = "aux_public_key" -> Aux(EncryptionPublicKey)

Set(c, todo) == conn' = [conn EXCEPT ![c] = IF todo = <<>> THEN Idle ELSE [@ EXCEPT !.todo = todo]]

\* normalize_decrypt_nonce: of 32 bytes the first 12 count.
NormalizeNonce(raw) == raw.nonce

\* The handler is entered, with the fingerprint of its nonce where it has one
\* (nonce_fingerprint: of the nonce and the bytes of the public key as they came,
\* which are parsed only later), and answers at once if it has no steps to take.  What is
\* refused before that (a body too long or not to be parsed, an unknown path, a
\* wrong method, a malformed field) changes nothing.
Request(c) ==
  /\ api = "serving"
  /\ conn[c].todo = <<>>
  /\ \E kind \in Kinds :
       IF kind = "decrypt"
       THEN \E k \in ClientDers, raw \in Raw :
              conn' = [conn EXCEPT ![c] = [todo |-> Program(kind), fp |-> <<k, NormalizeNonce(raw)>>]]
       ELSE Set(c, Program(kind))
  /\ UNCHANGED <<api, caches, active>>

-----------------------------------------------------------------------------
(* Steps *)

\* What is in a queue
Elements(s) == {s[i] : i \in DOMAIN s}

At(c, step) == conn[c].todo # <<>> /\ Head(conn[c].todo) = step

\* The steps that replace the first one; with none left the request is answered.
Expand(c, steps) == Set(c, steps \o Tail(conn[c].todo))
Done(c) == Expand(c, <<>>)

\* Attestation is looking for the app wallet.
InLookup(c) == "found" \in Elements(conn[c].todo)

AfterLookup(c) ==
  LET i == CHOOSE j \in DOMAIN conn[c].todo :
             conn[c].todo[j] = "found" /\ \A k \in 1..(j - 1) : conn[c].todo[k] # "found"
  IN  SubSeq(conn[c].todo, i + 1, Len(conn[c].todo))

\* An error: attestation_app_wallet logs it and goes on without the wallet, every
\* other handler answers with a status or has its connection closed.
Fail(c) == Set(c, IF InLookup(c) THEN AfterLookup(c) ELSE <<>>)

\* A step that changes only the request
Plain(c, step) ==
  /\ At(c, step)
  /\ Done(c) \/ Fail(c)
  /\ UNCHANGED <<api, caches, active>>

\* proxy_request: the Capsule API is there, or 503
ProxyRequest(c) == Plain(c, "proxy")

\* collect_random_bytes, for /v1/random and for encrypt's nonce: chunk by chunk,
\* until there is an error or nothing MAX_EMPTY_RANDOM_CHUNKS times on end
CollectRandomBytes(c) == Plain(c, "rng")

\* EncryptionKey::encrypt, for a public key that must parse
Seal(c) == Plain(c, "seal")

\* into_params, then the attestation document of the NSM
Attest(c) == Plain(c, "attest")

\* Fault: one nonce too many is forgotten.
EvictEarly(fp) ==
  LET all == Append(order, fp)
      kept == IF Len(all) >= Capacity THEN Tail(all) ELSE all
  IN  order' = kept /\ seen' = Elements(kept)

\* insert_if_new, of a new one
Insert(fp) ==
  LET all == Append(order, fp)
      full == Len(all) > Capacity
  IN  /\ order' = IF full THEN Tail(all) ELSE all
      /\ seen' = (seen \cup {fp}) \ (IF full THEN {Head(all)} ELSE {})

\* EncryptionKey::decrypt
Opens(c) == Done(c) \/ Fail(c)

\* register_client_nonce, then the decryption: what is registered stays so when
\* the data do not decrypt.
Decrypt(c, fp) ==
  \/ /\ fp \in seen
     /\ Fail(c)
     /\ UNCHANGED <<order, seen, recent>>
  \/ /\ fp \notin seen
     /\ Insert(fp)
     /\ recent' = IF Len(recent) = Capacity THEN Append(Tail(recent), fp) ELSE Append(recent, fp)
     /\ Opens(c)

\* handle_encryption_decrypt, for a client
Register(c) ==
  /\ At(c, "register")
  /\ Decrypt(c, conn[c].fp)
  /\ UNCHANGED <<api, authz, wallet, active>>

-----------------------------------------------------------------------------
(* The app wallet and attestation *)

\* attestation_app_wallet
Lookup(c) ==
  /\ At(c, "lookup")
  /\ Expand(c, IF UseAppWallet THEN <<"resolve", "found">> ELSE <<>>)
  /\ UNCHANGED <<api, caches, active>>

\* Fault: attestation waits for the app wallet.
WaitForWallet(c) ==
  /\ At(c, "found")
  /\ Done(c)
  /\ UNCHANGED <<api, caches, active>>

\* The lookup has come to its end, or APP_WALLET_ATTESTATION_TIMEOUT_MS has.
LookupEnds(c) ==
  /\ InLookup(c)
  /\ Set(c, AfterLookup(c))
  /\ UNCHANGED <<api, caches, active>>

\* resolve_app_wallet_material: from the cache, or by calls to the KMS
Resolve(c) ==
  /\ At(c, "resolve")
  /\ IF UseAppWallet
     THEN Expand(c, IF wallet THEN <<>> ELSE <<"prepare", "send", "open", "keep">>)
     ELSE Fail(c)
  /\ UNCHANGED <<api, caches, active>>

CacheWallet(c) ==
  /\ At(c, "keep")
  /\ wallet' = TRUE
  /\ Done(c)
  /\ UNCHANGED <<api, nonces, authz, active>>

\* local_eth_address in ensure_app_wallet_authorized, whose failure is overlooked
Self(c) == At(c, "self") /\ Done(c) /\ UNCHANGED <<api, caches, active>>

-----------------------------------------------------------------------------
(* The KMS handlers *)

ReadAuthz == <<"clear", "instance", "app", "store">>

\* Fault: every use of an entry makes it last longer.
AuthzRenewed(c) ==
  /\ At(c, "authz")
  /\ authz' = IF authz > 0 THEN AuthzTtl ELSE 0
  /\ Expand(c, IF authz > 0 THEN <<>> ELSE ReadAuthz)
  /\ UNCHANGED <<api, nonces, wallet, active>>

\* cached_authz_context, and the steps of resolve_authz_context when it has nothing
Authz(c) ==
  /\ At(c, "authz")
  /\ Expand(c, IF authz > 0 THEN <<>> ELSE ReadAuthz)
  /\ UNCHANGED <<api, caches, active>>

\* On a miss the cache is emptied, under a lock taken anew, whatever it holds now.
ClearAuthz(c) ==
  /\ At(c, "clear")
  /\ authz' = 0
  /\ Done(c)
  /\ UNCHANGED <<api, nonces, wallet, active>>

\* registry_get_instance_by_wallet, of an instance that must be verified and
\* active, and registry_get_app; either may not be readable.
ReadRegistry(c) ==
  /\ \/ At(c, "instance") /\ active /\ Done(c)
     \/ At(c, "app") /\ Done(c)
     \/ (At(c, "instance") \/ At(c, "app")) /\ Fail(c)
  /\ UNCHANGED <<api, caches, active>>

StoreAuthz(c) ==
  /\ At(c, "store")
  /\ authz' = AuthzTtl
  /\ Done(c)
  /\ UNCHANGED <<api, nonces, wallet, active>>

\* derive_key, of a path that is not reserved, kv_get, kv_put, kv_delete: a call to
\* the KMS, unless an argument is refused
Operate(c) ==
  /\ At(c, "op")
  /\ Expand(c, <<"prepare", "send", "open">>) \/ Fail(c)
  /\ UNCHANGED <<api, caches, active>>

\* call_kms_on_node, first half: the node's nonce (fetch_nonce), and from the Capsule
\* API itself a signature, the wallet's address and the payload encrypted for the
\* node (local_sign_message, encrypt_payload_for_node)
Prepare(c) == Plain(c, "prepare")

\* Second half: the request to the node and its answer
CallNode(c) == Plain(c, "send")

\* decrypt_envelope: the node's nonce goes through the same cache as the clients'.
OpenEnvelope(c) ==
  /\ At(c, "open")
  /\ \E n \in Nonces : Decrypt(c, <<NodeDer, n>>)
  /\ UNCHANGED <<api, authz, wallet, active>>

-----------------------------------------------------------------------------
(* The environment *)

\* The registry suspends the instance and reinstates it.
RegistryChanges ==
  /\ active' = ~active
  /\ UNCHANGED <<api, conn, caches>>

Tick ==
  /\ authz > 0
  /\ authz' = authz - 1
  /\ UNCHANGED <<api, conn, nonces, wallet, active>>

WalletExpires ==
  /\ wallet
  /\ wallet' = FALSE
  /\ UNCHANGED <<api, conn, nonces, authz, active>>

-----------------------------------------------------------------------------

\* Steps that depend on nothing outside the enclave
Local(c) ==
  \/ ProxyRequest(c) \/ CollectRandomBytes(c) \/ Seal(c) \/ Attest(c) \/ Register(c) \/ Lookup(c) \/ Resolve(c) \/ CacheWallet(c) \/ Self(c)
  \/ Authz(c) \/ ClearAuthz(c) \/ StoreAuthz(c) \/ Operate(c) \/ OpenEnvelope(c)

Remote(c) == ReadRegistry(c) \/ Prepare(c) \/ CallNode(c)

Next ==
  \/ Start
  \/ \E c \in Conns : Request(c) \/ Local(c) \/ LookupEnds(c) \/ Remote(c)
  \/ RegistryChanges
  \/ Tick
  \/ WalletExpires

Spec == Init /\ [][Next]_vars

\* The runtime schedules every task and runs every timer, and time passes; that
\* the registry or the KMS ever answers is not assumed.
FairSpec ==
  /\ Spec
  /\ WF_vars(Tick)
  /\ \A c \in Conns : WF_vars(Local(c)) /\ WF_vars(LookupEnds(c))

-----------------------------------------------------------------------------
(* Properties *)

TypeOK ==
  /\ api \in {"off", "serving", "failed"}
  /\ seen \subseteq Fingerprints
  /\ Elements(order) = seen /\ Len(order) <= Capacity
  /\ authz \in 0..AuthzTtl
  /\ wallet \in BOOLEAN
  /\ active \in BOOLEAN
  /\ \A c \in Conns : conn[c].fp \in Fingerprints \cup {None}

\* The nonce taken last
Newest == recent[Len(recent)]

\* A nonce is taken only if it was not among the last Capacity taken with the same
\* bytes for a public key, whoever sends it (a client, in either length, or a KMS
\* node in its answer) and however the requests interleave (insert_if_new).  Of a
\* nonce that comes with another encoding of the same key it says nothing.
NonceUsedOnce ==
  [][recent' # recent => \A i \in 1..Len(recent) : recent[i] # Newest']_vars

\* Once an instance stays suspended in the registry the KMS handlers stop, although
\* they answer from a cache, requests that saw it active are still about, and one
\* request's miss empties what another has just stored (resolve_authz_context).
RevocationBinds ==
  <>[](~active) => <>[][\A c \in Conns : ~Operate(c)]_vars

\* Attestation is answered even if nothing outside the enclave ever answers
\* (attestation_app_wallet's timeout).
AttestationAnswered ==
  \A c \in Conns : ("attest" \in Elements(conn[c].todo)) ~> (conn[c].todo = <<>>)
=============================================================================
