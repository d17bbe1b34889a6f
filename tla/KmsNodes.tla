------------------------------ MODULE KmsNodes ------------------------------
(***************************************************************************)
(* How NovaKmsProxy (nova_kms.rs) chooses the KMS node that serves a call. *)
(*                                                                         *)
(* Three caches are shared by the requests and a background task: the list *)
(* of nodes found in the registry, with what was last observed of each     *)
(* (discovery_cache), and the identity that each node reported on /status  *)
(* (node_identity_cache).  A request takes its candidates from the list,   *)
(* asks the registry itself when the list has expired (one request at a    *)
(* time, under discovery_refresh_lock), and goes through the candidates    *)
(* max_retries times.  The background task, which does not take that lock, *)
(* builds a new list off-lock, probes every node and swaps it in.          *)
(*                                                                         *)
(* An identity stands for a node's wallet and TEE public key.  Times are   *)
(* relative: "left" is what is left of a TTL and "age" the time since an   *)
(* observation; an expired observation is as good as none.  The registry,  *)
(* which lists at most one active, verified instance per base URL, and the *)
(* nodes are external.                                                     *)
(***************************************************************************)
EXTENDS Naturals, Sequences

CONSTANTS
  UrlOrder,     \* the base URLs, in the order in which nodes are sorted
  Calls,        \* requests that may be under way at the same time
  MaxRetries,   \* DEFAULT_KMS_MAX_ATTEMPTS
  DiscoveryTtl, \* DEFAULT_KMS_DISCOVERY_TTL_MS
  UpTtl,        \* DEFAULT_KMS_NODE_REACHABLE_CACHE_TTL_MS
  DownTtl,      \* DEFAULT_KMS_NODE_UNREACHABLE_CACHE_TTL_MS
  IdentityTtl,  \* DEFAULT_KMS_NODE_IDENTITY_CACHE_TTL_MS
  MaxFaults,    \* bound: faults of the environment
  Absent

Urls == {UrlOrder[i] : i \in DOMAIN UrlOrder}

ASSUME KmsAssumption ==
  /\ {MaxRetries, DiscoveryTtl, UpTtl, DownTtl, IdentityTtl} \subseteq Nat \ {0}
  /\ MaxFaults \in Nat
  /\ \A i, j \in DOMAIN UrlOrder : UrlOrder[i] = UrlOrder[j] => i = j
  /\ Absent \notin Nat \cup Calls

\* Every replacement of a node has a new wallet and a new key.
Ids == 1 .. MaxFaults + 1

MaxAge == 1 + (IF UpTtl > DownTtl THEN UpTtl ELSE DownTtl)

VARIABLES
  registry,  \* registry[u]: the identity registered for u, or Absent
  serves,    \* serves[u]: the identity that really answers at u
  up,        \* up[u]: u answers at all
  rpc,       \* the registry's RPC endpoint answers
  faults,    \* faults so far
  discovery, \* discovery_cache: nodes and what is left of its TTL
  identity,  \* node_identity_cache
  lock,      \* holder of discovery_refresh_lock
  call,      \* the requests
  task       \* the background refresh

env == <<registry, serves, up, rpc, faults>>
kmsVars == <<env, discovery, identity, lock, call, task>>

Observation == [up : {Absent, TRUE, FALSE}, left : 0 .. MaxAge, age : 0 .. MaxAge]

Unseen == [up |-> Absent, left |-> 0, age |-> MaxAge]

\* KmsNodeCacheEntry::mark_reachability
Seen(isUp) == [up |-> isUp, left |-> IF isUp THEN UpTtl ELSE DownTtl, age |-> 0]

\* A node list maps the URLs of its nodes to identity and observation.
NodeLists == UNION {[S -> [id : Ids, seen : Observation]] : S \in SUBSET Urls}

NoNodes == <<>>
Idle == [pc |-> "idle", waited |-> 0, all |-> <<>>, rest |-> <<>>, attempt |-> 0,
         missing |-> FALSE]
Asleep == [pc |-> "sleep", nodes |-> NoNodes, todo |-> {}]

KmsTypeOK ==
  /\ registry \in [Urls -> Ids \cup {Absent}]
  /\ serves \in [Urls -> Ids]
  /\ up \in [Urls -> BOOLEAN]
  /\ rpc \in BOOLEAN
  /\ faults \in 0 .. MaxFaults
  /\ discovery.nodes \in NodeLists /\ discovery.left \in 0 .. DiscoveryTtl
  /\ identity \in [Urls -> [id : Ids \cup {Absent}, left : 0 .. IdentityTtl]]
  /\ lock \in Calls \cup {Absent}
  /\ \A r \in Calls :
       /\ call[r].pc \in {"idle", "lock", "discover", "identity", "send", "exhausted"}
       /\ call[r].waited \in 0 .. DiscoveryTtl
       /\ call[r].attempt \in 0 .. MaxRetries
       /\ lock = r <=> call[r].pc = "discover"
  /\ task.pc \in {"sleep", "discover", "probe"}
  /\ task.nodes \in NodeLists
  /\ task.todo \subseteq DOMAIN task.nodes

\* The proxy starts with empty caches, in an environment that is in order; the last
\* of the nodes may be one that the registry has yet to list.
KmsInit ==
  /\ serves = [u \in Urls |-> 1]
  /\ \E absent \in {Absent, UrlOrder[Len(UrlOrder)]} :
       registry = [u \in Urls |-> IF u = absent THEN Absent ELSE 1]
  /\ up = [u \in Urls |-> TRUE]
  /\ rpc = TRUE
  /\ faults = 0
  /\ discovery = [nodes |-> NoNodes, left |-> 0]
  /\ identity = [u \in Urls |-> [id |-> Absent, left |-> 0]]
  /\ lock = Absent
  /\ call = [r \in Calls |-> Idle]
  /\ task = Asleep

-----------------------------------------------------------------------------
(* Node lists *)

\* registry_eth_call: what comes of it after its retries, which only take time
RegistryAnswers == rpc

\* registry_get_active_instances and registry_get_instance_by_wallet for each:
\* the URLs with an instance that is active and verified
Listed == {u \in Urls : registry[u] # Absent}

\* discover_kms_nodes_from_registry
Discovered == [u \in Listed |-> [id |-> registry[u], seen |-> Unseen]]

\* Fault: nodes that the registry no longer lists stay.
AddToPrevious(found, previous) ==
  [u \in DOMAIN found \cup DOMAIN previous |->
     IF u \in DOMAIN previous THEN previous[u] ELSE found[u]]

\* merge_discovered_nodes_with_previous
MergeWithPrevious(found, previous) ==
  [u \in DOMAIN found |->
     IF u \in DOMAIN previous /\ previous[u].seen.left > 0
     THEN [found[u] EXCEPT !.seen = previous[u].seen]
     ELSE found[u]]

\* Fault: what the probes saw overwrites what requests have seen since.
KeepRefreshed(refreshed, live) == refreshed

\* merge_refresh_with_live_cache
MergeWithLive(refreshed, live) ==
  [u \in DOMAIN refreshed |->
     IF /\ u \in DOMAIN live /\ live[u].seen.left > 0
        /\ live[u].seen.age < refreshed[u].seen.age
     THEN [refreshed[u] EXCEPT !.seen = live[u].seen]
     ELSE refreshed[u]]

\* resolve_connectable_nodes and the fallback of resolve_node_candidates: first
\* the nodes known to be reachable, then the unknown ones; all of them when
\* every node is known to be unreachable.
Candidates(nodes) ==
  LET sorted == SelectSeq(UrlOrder, LAMBDA u : u \in DOMAIN nodes)
      those(v) == SelectSeq(sorted, LAMBDA u : nodes[u].seen.up = v)
      eligible == those(TRUE) \o those(Absent)
      chosen == IF eligible = <<>> THEN sorted ELSE eligible
  IN  [i \in DOMAIN chosen |-> [url |-> chosen[i], id |-> nodes[chosen[i]].id]]

\* update_node_reachability_cache
Mark(u, isUp) ==
  discovery' = IF u \in DOMAIN discovery.nodes
           THEN [discovery EXCEPT !.nodes[u].seen = Seen(isUp)]
           ELSE discovery

-----------------------------------------------------------------------------
(* A request: call_kms_json_internal *)

Set(r, changed) == call' = [call EXCEPT ![r] = changed]

\* With the nodes to try, the calls begin.
Begin(r, nodes) ==
  Set(r, [pc |-> "identity", waited |-> 0, all |-> Candidates(nodes),
          rest |-> Candidates(nodes), attempt |-> 1, missing |-> FALSE])

Hit == discovery.left > 0 /\ DOMAIN discovery.nodes # {}

\* resolve_discovered_nodes: the cached list, or one's turn to discover
Start(r) ==
  /\ call[r].pc = "idle"
  /\ \/ Hit /\ Begin(r, discovery.nodes)
     \/ ~Hit /\ Set(r, [Idle EXCEPT !.pc = "lock"])
  /\ UNCHANGED <<env, discovery, identity, lock, task>>

\* Under the lock the cache is read once more.
Lock(r) ==
  /\ call[r].pc = "lock" /\ lock = Absent
  /\ \/ Hit /\ Begin(r, discovery.nodes) /\ UNCHANGED lock
     \/ ~Hit /\ Set(r, [Idle EXCEPT !.pc = "discover"]) /\ lock' = r
  /\ UNCHANGED <<env, discovery, identity, task>>

\* The new list expires a TTL after the registry was asked, not answered.
DiscoverNodes(r) ==
  /\ call[r].pc = "discover"
  /\ RegistryAnswers /\ Listed # {}
  /\ discovery' = [nodes |-> MergeWithPrevious(Discovered, discovery.nodes),
               left |-> DiscoveryTtl - call[r].waited]
  /\ Begin(r, discovery'.nodes)
  /\ lock' = Absent
  /\ UNCHANGED <<env, identity, task>>

\* No answer, or no node: the request fails.
DiscoverNothing(r) ==
  /\ call[r].pc = "discover"
  /\ ~RegistryAnswers \/ Listed = {}
  /\ Set(r, Idle)
  /\ lock' = Absent
  /\ UNCHANGED <<env, discovery, identity, task>>

Node(r) == Head(call[r].rest)

\* The call to this node is over without a result: the next candidate, all of
\* them again, or none is left.
Following(q) ==
  IF Len(q.rest) > 1 THEN [q EXCEPT !.pc = "identity", !.rest = Tail(@)]
  ELSE IF q.attempt < MaxRetries
       THEN [q EXCEPT !.pc = "identity", !.rest = q.all, !.attempt = @ + 1]
       ELSE [q EXCEPT !.pc = "exhausted", !.rest = <<>>]

Failed(r) == Set(r, Following(call[r]))

\* cached_node_identity, cache_node_identity, invalidate_node_identity
NoIdentity == [id |-> Absent, left |-> 0]
IdentityCached(u) == identity[u].left > 0
CacheIdentity(u, id) == identity' = [identity EXCEPT ![u] = [id |-> id, left |-> IdentityTtl]]

\* fetch_node_identity: what /status says of the node
FetchIdentity(u) == serves[u]

\* verify_node_identity_binding
BoundTo(node, id) == id = node.id

\* resolve_node_identity: the identity that is cached, or asked for now, must be
\* the one that the registry lists.
ResolveIdentity(r) ==
  LET u == Node(r).url
      cached == IdentityCached(u)
      id == IF cached THEN identity[u].id ELSE FetchIdentity(u)
  IN  /\ call[r].pc = "identity"
      /\ cached \/ up[u]
      /\ IF cached THEN UNCHANGED identity ELSE CacheIdentity(u, id)
      /\ \/ BoundTo(Node(r), id) /\ Set(r, [call[r] EXCEPT !.pc = "send"])
         \/ ~BoundTo(Node(r), id) /\ Failed(r)
      /\ UNCHANGED <<env, discovery, lock, task>>

\* A connectivity error: /status, /nonce or the call itself is not answered.
Unreachable(r) ==
  /\ \/ call[r].pc = "identity" /\ ~IdentityCached(Node(r).url)
     \/ call[r].pc = "send"
  /\ ~up[Node(r).url]
  /\ Failed(r)
  /\ Mark(Node(r).url, FALSE)
  /\ UNCHANGED <<env, identity, lock, task>>

\* The node the request meant has answered, signed and encrypted.
Answered(r) ==
  /\ call[r].pc = "send"
  /\ up[Node(r).url] /\ serves[Node(r).url] = Node(r).id
  /\ Set(r, Idle)
  /\ Mark(Node(r).url, TRUE)
  /\ UNCHANGED <<env, identity, lock, task>>

\* It has answered that there is no such key: the others are asked as well.
NotFound(r) ==
  /\ call[r].pc = "send"
  /\ up[Node(r).url] /\ serves[Node(r).url] = Node(r).id
  /\ Set(r, Following([call[r] EXCEPT !.missing = TRUE]))
  /\ UNCHANGED <<env, discovery, identity, lock, task>>

\* Another node answers at the URL.  It refuses the call, or its answer does not
\* carry the expected signature, and then its cached identity is dropped.
Refused(r) ==
  LET u == Node(r).url
  IN  /\ call[r].pc = "send"
      /\ up[u] /\ serves[u] # Node(r).id
      /\ Failed(r)
      /\ identity' \in {identity, [identity EXCEPT ![u] = NoIdentity]}
      /\ UNCHANGED <<env, discovery, lock, task>>

\* One node without the key makes the answer "not found".
ReportMissing(r) ==
  /\ call[r].pc = "exhausted" /\ call[r].missing
  /\ Set(r, Idle)
  /\ UNCHANGED <<env, discovery, identity, lock, task>>

ReportFailure(r) ==
  /\ call[r].pc = "exhausted" /\ ~call[r].missing
  /\ Set(r, Idle)
  /\ UNCHANGED <<env, discovery, identity, lock, task>>

Step(r) == Lock(r) \/ DiscoverNodes(r) \/ DiscoverNothing(r) \/ ResolveIdentity(r)
           \/ Unreachable(r) \/ Answered(r) \/ NotFound(r) \/ Refused(r)
           \/ ReportMissing(r) \/ ReportFailure(r)

-----------------------------------------------------------------------------
(* The background task: refresh_registry_and_node_status_once *)

\* The list as it is before the registry is asked
Wake ==
  /\ task.pc = "sleep"
  /\ task' = [task EXCEPT !.pc = "discover", !.nodes = discovery.nodes]
  /\ UNCHANGED <<env, discovery, identity, lock, call>>

\* An empty answer leaves the previous nodes in place.
Rediscover ==
  /\ task.pc = "discover"
  /\ \/ /\ RegistryAnswers
        /\ LET found == IF Listed = {} THEN task.nodes
                        ELSE MergeWithPrevious(Discovered, task.nodes)
           IN  task' = [pc |-> "probe", nodes |-> found, todo |-> DOMAIN found]
     \/ ~RegistryAnswers /\ task' = Asleep
  /\ UNCHANGED <<env, discovery, identity, lock, call>>

\* probe_node_status_once
Probe ==
  /\ task.pc = "probe" /\ task.todo # {}
  /\ LET u == SelectSeq(UrlOrder, LAMBDA v : v \in task.todo)[1]
     IN  task' = [task EXCEPT !.nodes[u].seen = Seen(up[u]), !.todo = @ \ {u}]
  /\ UNCHANGED <<env, discovery, identity, lock, call>>

Swap ==
  /\ task.pc = "probe" /\ task.todo = {}
  /\ discovery' = [nodes |-> MergeWithLive(task.nodes, discovery.nodes), left |-> DiscoveryTtl]
  /\ task' = Asleep
  /\ UNCHANGED <<env, identity, lock, call>>

Refresh == Wake \/ Rediscover \/ Probe \/ Swap

-----------------------------------------------------------------------------
(* Time and the environment *)

Decrement(n) == IF n > 0 THEN n - 1 ELSE 0
OlderSeen(o) == IF o.left <= 1 THEN Unseen
                ELSE [o EXCEPT !.left = @ - 1, !.age = @ + 1]
OlderNodes(nodes) == [u \in DOMAIN nodes |-> [nodes[u] EXCEPT !.seen = OlderSeen(@)]]

\* Fault: a node's identity is kept until a signature does not match.
IdentityForever(e) == e

\* cached_node_identity: expired, the entry is removed.
OlderIdentity(e) == IF e.left <= 1 THEN NoIdentity
                    ELSE [e EXCEPT !.left = @ - 1]

Tick ==
  /\ discovery' = [nodes |-> OlderNodes(discovery.nodes), left |-> Decrement(discovery.left)]
  /\ identity' = [u \in Urls |-> OlderIdentity(identity[u])]
  /\ call' = [r \in Calls |->
               IF call[r].pc = "discover" /\ call[r].waited < DiscoveryTtl
               THEN [call[r] EXCEPT !.waited = @ + 1] ELSE call[r]]
  /\ task' = [task EXCEPT !.nodes = OlderNodes(@)]
  /\ UNCHANGED <<env, lock>>

\* A node is replaced or goes down, the registry drops a node, or its RPC
\* endpoint goes down.
Fault ==
  /\ faults < MaxFaults
  /\ faults' = faults + 1
  /\ \/ \E u \in Urls :
          /\ serves' = [serves EXCEPT ![u] = @ + 1]
          /\ UNCHANGED <<registry, up, rpc>>
     \/ \E u \in Urls :
          /\ up' = [up EXCEPT ![u] = FALSE]
          /\ UNCHANGED <<registry, serves, rpc>>
     \/ \E u \in Urls :
          /\ registry' = [registry EXCEPT ![u] = Absent]
          /\ UNCHANGED <<serves, up, rpc>>
     \/ rpc' = FALSE /\ UNCHANGED <<registry, serves, up>>
  /\ UNCHANGED <<discovery, identity, lock, call, task>>

\* A node comes up, the registry lists the node that is there, the endpoint is
\* back.
Repair ==
  /\ \/ \E u \in Urls :
          /\ up' = [up EXCEPT ![u] = TRUE]
          /\ UNCHANGED <<registry, serves, rpc>>
     \/ \E u \in Urls :
          /\ registry' = [registry EXCEPT ![u] = serves[u]]
          /\ UNCHANGED <<serves, up, rpc>>
     \/ rpc' = TRUE /\ UNCHANGED <<registry, serves, up>>
  /\ UNCHANGED <<faults, discovery, identity, lock, call, task>>

KmsNext ==
  \/ \E r \in Calls : Start(r) \/ Step(r)
  \/ Refresh
  \/ Tick
  \/ Fault
  \/ Repair

KmsSpec == KmsInit /\ [][KmsNext]_kmsVars

\* Calls have timeouts, so requests and the background task go on, and so does
\* time.  Nothing makes the application send requests.
KmsFairSpec ==
  /\ KmsSpec
  /\ \A r \in Calls : WF_kmsVars(Step(r))
  /\ WF_kmsVars(Refresh)
  /\ WF_kmsVars(Tick)

-----------------------------------------------------------------------------
(* Properties *)

\* Whatever list is stored, a node in it that was observed before is not left
\* with an older observation: the background task, whose probes may be overtaken
\* by requests, never undoes what a request has found out about a node.
NewestObservationKept ==
  [][(Swap \/ \E r \in Calls : DiscoverNodes(r))
     => \A u \in DOMAIN discovery.nodes \cap DOMAIN discovery'.nodes :
          discovery.nodes[u].seen.left > 0
            => discovery'.nodes[u].seen.age <= discovery.nodes[u].seen.age]_kmsVars

\* Every registered node is up and is the one that is registered.
Healthy ==
  /\ rpc
  /\ Listed # {}
  /\ \A u \in Listed : up[u] /\ serves[u] = registry[u]

FailedCall(r) ==
  \/ ResolveIdentity(r) /\ call'[r].pc # "send"
  \/ Unreachable(r) \/ Refused(r) \/ DiscoverNothing(r)

\* However stale the node list, the observations and the identities are when
\* nodes and registry settle, they do not fail calls for ever: from some time on
\* every node that is called is the one that the registry lists, and no request
\* fails.  A request has no remedy of its own for a cached identity that does not
\* match the list: only the TTL removes it.
Recovers == <>[]Healthy => <>[][\A r \in Calls : ~FailedCall(r)]_kmsVars

\* A node that stays out of the registry, while others are in it, is some day no
\* longer a candidate, although the background task works on an older list.
RetiredNodesAgeOut ==
  \A u \in Urls :
    <>[](rpc /\ Listed # {} /\ u \notin Listed) => <>[](u \notin DOMAIN discovery.nodes)
=============================================================================
