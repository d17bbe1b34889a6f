------------------------------ MODULE S3Objects ------------------------------
(***************************************************************************)
(* The Capsule API's S3 endpoints (integrations/s3.rs) at work over the    *)
(* egress proxy: requests of the application, the KMS that derives the     *)
(* objects' keys, the tunnel, and the bucket at its far end.  An object is *)
(* written under the encryption settings of the manifest of that time and  *)
(* read, after a restart, under others.  One object is enough: a request   *)
(* names one, and keys and additional data are made from its name.         *)
(*                                                                         *)
(* The connection belongs either to the S3 client or to a program that     *)
(* uses the tunnel as it likes (user): closing one half and reading on.    *)
(***************************************************************************)
EXTENDS Egress

CONSTANTS
  Requests,    \* S3 requests at a time
  Values,      \* what the application stores
  Configs,     \* storage.s3.encryption: [kms, version, aad, accept_plaintext]
  S3Host,      \* the bucket's endpoint
  MaxAttempts, \* of load_config_from_imds
  MaxChunks,   \* bound: chunks that a program and its server send
  MaxCalls     \* bound: calls over a connection

ASSUME S3Assumption ==
  /\ S3Host \in Hosts /\ MaxAttempts \in Nat \ {0}
  /\ None \notin Requests \cup {"kms-v1", "put"}
  /\ \A f \in Configs : f.kms \in BOOLEAN /\ f.accept_plaintext \in BOOLEAN

VARIABLES
  user,      \* who uses the connections
  config,    \* the settings of this start
  attempts,  \* the start's attempts to reach IMDS; None once it has the region
  req,       \* the requests
  owner,     \* the request a connection carries
  wire,      \* what is asked over it, then the bucket's answer
  store      \* the object in the bucket

s3 == <<config, attempts, req, owner, wire, store>>
vars == <<cx, user, s3>>

NoRequest == [op |-> None, obj |-> None, pc |-> "idle"]
NoWire == [op |-> None, obj |-> None]

Init ==
  /\ EgressInit
  /\ user \in {"program", "s3"}
  /\ config \in Configs
  /\ attempts = 0
  /\ req = [r \in Requests |-> NoRequest]
  /\ owner = [c \in Conns |-> None]
  /\ wire = [c \in Conns |-> NoWire]
  /\ store = None

-----------------------------------------------------------------------------
(* Objects *)

\* An object as it is stored: its bytes and the metadata that put_object_internal
\* gives it.  Bytes are a value, or a value under a key and additional data.
Plaintext(v) == [scheme |-> None, version |-> None, aad |-> None, key |-> None, bound |-> None, value |-> v]

\* build_aad: what the mode binds the ciphertext to, besides the name
Bound(version, aad) == IF aad = "key+version" THEN version ELSE aad

\* encrypt_for_s3
Encrypted(v) ==
  [scheme |-> "kms-v1", version |-> config.version, aad |-> config.aad,
   key |-> config.version, bound |-> Bound(config.version, config.aad), value |-> v]

\* Fault: the key is derived for the version that is configured now.
VersionConfigured(obj) == config.version

\* The version of the key, from the metadata
Version(obj) == obj.version

\* decrypt_if_needed: a value, "ciphertext" if the bytes are handed on as they are
\* but are not plain, or "error".  A KMS client is there only in mode kms.
DecryptIfNeeded(obj) ==
  IF obj.scheme # "kms-v1"
  THEN IF config.kms /\ ~config.accept_plaintext THEN "error"
       ELSE IF obj.key = None THEN obj.value ELSE "ciphertext"
  ELSE IF config.kms /\ Version(obj) = obj.key /\ Bound(Version(obj), obj.aad) = obj.bound
       THEN obj.value ELSE "error"

-----------------------------------------------------------------------------
(* The S3 proxy *)

\* load_config_from_imds, through the egress proxy; after the last attempt the
\* service does not start.
LoadConfig ==
  /\ user = "s3"
  /\ attempts # None /\ attempts < MaxAttempts
  /\ attempts' \in {attempts + 1, None}
  /\ UNCHANGED <<cx, user, config, req, owner, wire, store>>

\* The enclave is started anew, perhaps from another manifest.
Restart ==
  /\ user = "s3"
  /\ config' \in Configs
  /\ attempts' = 0
  /\ cx' = [c \in Conns |-> NoConn]
  /\ req' = [r \in Requests |-> NoRequest]
  /\ owner' = [c \in Conns |-> None]
  /\ wire' = [c \in Conns |-> NoWire]
  /\ UNCHANGED <<user, store>>

Go(r, q) == req' = [req EXCEPT ![r] = q]

\* A request with a key that build_key accepts
Begin(r, q) ==
  /\ user = "s3"
  /\ attempts = None
  /\ req[r].pc = "idle"
  /\ Go(r, q)
  /\ UNCHANGED <<cx, user, config, attempts, owner, wire, store>>

HandlePut(r) ==
  \E v \in Values :
    Begin(r, [op |-> "put", obj |-> Plaintext(v), pc |-> IF config.kms THEN "encrypt" ELSE "call"])

HandleGet(r) == Begin(r, [NoRequest EXCEPT !.op = "get", !.pc = "call"])
HandleDelete(r) == Begin(r, [NoRequest EXCEPT !.op = "delete", !.pc = "call"])
HandleList(r) == Begin(r, [NoRequest EXCEPT !.op = "list", !.pc = "call"])

\* encrypt_for_s3: the KMS derives a key, or the put is refused.
Encrypt(r) ==
  /\ req[r].pc = "encrypt"
  /\ \/ Go(r, [req[r] EXCEPT !.obj = Encrypted(@.value), !.pc = "call"])
     \/ Go(r, NoRequest)
  /\ UNCHANGED <<cx, user, config, attempts, owner, wire, store>>

\* send: over a connection that the client has kept and that it has not seen end, or
\* over a new one
Call(r, c) ==
  /\ req[r].pc = "call"
  /\ owner[c] = None
  /\ \/ Ask(c, S3Host)
     \/ /\ Ready(c) /\ 4 \notin cx[c].down.fin
        /\ cx[c].up.n[1] < MaxCalls /\ Send(c, "up")
  /\ owner' = [owner EXCEPT ![c] = r]
  /\ wire' = [wire EXCEPT ![c] = [op |-> req[r].op, obj |-> req[r].obj]]
  /\ Go(r, [req[r] EXCEPT !.pc = "sent"])
  /\ UNCHANGED <<user, config, attempts, store>>

\* The first request of a connection, once it is there
SendRequest(c) ==
  /\ owner[c] # None /\ Ready(c)
  /\ cx[c].up.n[1] = 0
  /\ Send(c, "up")
  /\ UNCHANGED <<user, s3>>

\* The bucket has received the request.  It does what it says and answers (a get with
\* the object, if there is one), or answers with an error, done or not; the answer
\* goes out while there is a connection.
Serve(c) ==
  LET done == CASE wire[c].op = "put" -> wire[c].obj
                [] wire[c].op = "delete" -> None
                [] OTHER -> store
      found == IF wire[c].op = "get" THEN store ELSE None
  IN  /\ wire[c].op \in {"put", "get", "delete", "list"}
      /\ cx[c].up.n[4] > 0 /\ cx[c].up.n[4] = cx[c].up.n[1]
      /\ \/ store' = done /\ wire' = [wire EXCEPT ![c] = [op |-> "ok", obj |-> found]]
         \/ store' \in {done, store} /\ wire' = [wire EXCEPT ![c] = [op |-> "error", obj |-> None]]
      /\ Send(c, "down") \/ (~Sends(c, "down") /\ UNCHANGED cx)
      /\ UNCHANGED <<user, config, attempts, req, owner>>

\* The connection is free again and the request has come to q.
Settle(c, q) ==
  /\ Go(owner[c], q)
  /\ owner' = [owner EXCEPT ![c] = None]
  /\ wire' = [wire EXCEPT ![c] = IF @.op \in {"ok", "error"} THEN NoWire ELSE @]
  /\ UNCHANGED <<cx, user, config, attempts, store>>

\* The handler gives up ("S3 error"), or the SDK tries the call again.
Failed(c) == Settle(c, NoRequest) \/ Settle(c, [req[owner[c]] EXCEPT !.pc = "call"])

\* The answer has come, whole: the object of a get has yet to be decrypted.
Answered(c) ==
  /\ owner[c] # None
  /\ cx[c].up.n[1] > 0 /\ cx[c].down.n[4] = cx[c].up.n[1]
  /\ \/ wire[c].op = "error" /\ Failed(c)
     \/ wire[c].op = "ok" /\ wire[c].obj = None /\ Settle(c, NoRequest)
     \/ /\ wire[c].op = "ok" /\ wire[c].obj # None
        /\ Settle(c, [req[owner[c]] EXCEPT !.obj = wire[c].obj, !.pc = "decrypt"])

\* The destination was blocked or could not be reached, or the connection has ended
\* without an answer, whether or not the bucket has done its part.
CallFails(c) ==
  /\ owner[c] # None
  /\ \/ cx[c].pc = "idle"
     \/ /\ 4 \in cx[c].down.fin \/ 1 \in cx[c].broken
        /\ cx[c].up.n[1] = 0 \/ cx[c].down.n[4] < cx[c].up.n[1]
  /\ Failed(c)

\* decrypt_if_needed, with a key from the KMS, which may fail
Decrypt(r) ==
  /\ req[r].pc = "decrypt"
  /\ Go(r, NoRequest)
  /\ UNCHANGED <<cx, user, config, attempts, owner, wire, store>>

-----------------------------------------------------------------------------
(* The ends of the tunnel *)

\* A program in the enclave and its server
Program(c) ==
  /\ user = "program"
  /\ \/ \E h \in Hosts : Ask(c, h)
     \/ \E d \in {"up", "down"} :
          /\ IF d = "up" THEN cx[c].pc \in {"open", "done"} ELSE cx[c].host \in {"open", "done"}
          /\ (cx[c][d].n[1] < MaxChunks /\ Send(c, d)) \/ Shutdown(c, d)
  /\ UNCHANGED <<user, s3>>

\* The S3 client closes a connection that it has kept for long enough, or that it has
\* given up; the bucket closes one that is idle after a call, or that the client has closed.
Close(c) ==
  /\ user = "s3"
  /\ \/ cx[c].pc \in {"open", "done"} /\ owner[c] = None /\ Shutdown(c, "up")
     \/ /\ cx[c].host \in {"open", "done"}
        /\ (cx[c].up.n[4] > 0 /\ cx[c].up.n[4] = cx[c].down.n[1]) \/ 4 \in cx[c].up.fin
        /\ Shutdown(c, "down")
  /\ UNCHANGED <<user, s3>>

Ends(c) == (Receive(c, "up") \/ Receive(c, "down")) /\ UNCHANGED <<user, s3>>

\* The proxies; with the connection what was asked over it is gone.
Relay(c) ==
  /\ Proxies(c)
  /\ wire' = [wire EXCEPT ![c] = IF cx'[c].pc = "idle" THEN NoWire ELSE @]
  /\ UNCHANGED <<user, config, attempts, req, owner, store>>

\* Bound: a tunnel of the S3 client breaks in one place.
BreakBound(c) == user = "s3" => cx[c].broken = {}

LetGo(c) ==
  /\ owner[c] = None
  /\ Release(c)
  /\ wire' = [wire EXCEPT ![c] = NoWire]
  /\ UNCHANGED <<user, config, attempts, req, owner, store>>

-----------------------------------------------------------------------------

Next ==
  \/ LoadConfig
  \/ Restart
  \/ \E r \in Requests : HandlePut(r) \/ HandleGet(r) \/ HandleDelete(r) \/ HandleList(r)
                         \/ Encrypt(r) \/ Decrypt(r) \/ \E c \in Conns : Call(r, c)
  \/ \E c \in Conns : SendRequest(c) \/ Serve(c) \/ Answered(c) \/ CallFails(c)
                      \/ Program(c) \/ Close(c) \/ Ends(c) \/ Relay(c) \/ LetGo(c)
  \/ \E c \in Conns : /\ (BreakBound(c) /\ Break(c)) \/ \E proxy \in Sides : PeerResets(c, proxy)
                      /\ UNCHANGED <<user, s3>>

Spec == Init /\ [][Next]_vars

\* The proxies' tasks run, a connection attempt ends one way or the other, the ends
\* read what reaches them and the S3 client acts on it; nobody has to send or to close.
FairSpec ==
  /\ Spec
  /\ \A c \in Conns :
       WF_vars(Relay(c)) /\ WF_vars(Ends(c)) /\ WF_vars(Answered(c) \/ CallFails(c))

-----------------------------------------------------------------------------
(* Properties *)

TypeOK ==
  /\ user \in {"program", "s3"}
  /\ config \in Configs
  /\ attempts \in 0..MaxAttempts \cup {None}
  /\ owner \in [Conns -> Requests \cup {None}]
  /\ \A r \in Requests : req[r].pc \in {"idle", "encrypt", "call", "sent", "decrypt"}

\* Whatever settings an object was written under, a get of it under those of now is
\* answered with what was put: in mode kms always, save for a plaintext object that
\* is not accepted, and otherwise unless it is refused; never with ciphertext
\* (decrypt_if_needed goes by the metadata).
StoredStaysReadable ==
  store # None =>
    LET refused == IF config.kms THEN store.scheme = None /\ ~config.accept_plaintext
                   ELSE store.scheme # None
    IN  DecryptIfNeeded(store) = IF refused THEN "error" ELSE store.value

\* A request whose tunnel breaks, wherever it breaks and whatever the bucket does,
\* does not hang: the proxy next to the break closes its other connection too, and
\* the end of the stream that this makes comes through to the client (send().await
\* has no timeout of its own).
RequestsSettle ==
  \A c \in Conns : (owner[c] # None /\ cx[c].broken # {}) ~> (owner[c] = None)
=============================================================================
