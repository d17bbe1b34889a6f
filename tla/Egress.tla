------------------------------- MODULE Egress -------------------------------
(***************************************************************************)
(* The way out of the enclave (egress_http.rs, policy/): the HTTP proxy in *)
(* the enclave checks the destination against the manifest's policy, opens *)
(* a vsock connection to the proxy on the host and names the destination;  *)
(* the host's proxy connects to it and says so; from then on both copy     *)
(* bytes, in both directions, until both directions have ended or one of   *)
(* them has failed.                                                        *)
(*                                                                         *)
(* A direction is the number of chunks that each of its four parties       *)
(* (sender, first relay, second relay, receiver) has put through, and      *)
(* which of them have closed it: 1 when the sender has, 4 when the         *)
(* receiver has seen the end.  The four hold three connections: 1 client   *)
(* and enclave, 2 enclave and host (vsock), 3 host and server.             *)
(* Domain names are sequences of labels, addresses are taken whole.        *)
(***************************************************************************)
EXTENDS Naturals, Sequences

CONSTANTS
  Conns,      \* connections to the proxy
  Hosts,      \* destinations asked for: [ip |-> address] or [name |-> labels]
  Allow,      \* the manifest's patterns: [net |-> set of addresses] or
  Deny,       \*   [name |-> labels, "*" and "**" among them]
  Lower,      \* to_ascii_lowercase of a label
  Dns,        \* the addresses that the host's resolver has for a name: external
  Loopback,   \* 127.0.0.1
  None

ASSUME EgressAssumption ==
  /\ \A h \in Hosts : "ip" \in DOMAIN h \/ h.name \in Seq(DOMAIN Lower)
  /\ \A p \in Allow \cup Deny :
       /\ "net" \in DOMAIN p <=> "name" \notin DOMAIN p
       /\ "name" \in DOMAIN p => p.name \in Seq(DOMAIN Lower)

VARIABLE cx

-----------------------------------------------------------------------------
(* The policy *)

IsIp(h) == "ip" \in DOMAIN h

\* load_filters: what is an address or a network goes to the one filter, all else
\* to the other.
Networks(patterns) == {p \in patterns : "net" \in DOMAIN p}
Domains(patterns) == patterns \ Networks(patterns)

\* IpFilter::matches
IpMatches(patterns, addr) == \E p \in Networks(patterns) : addr \in p.net

\* domain_filter's Pattern::matches, on the labels from the right
PatternMatches(pattern, name) ==
  LET pat(i) == pattern[Len(pattern) + 1 - i]
      query(i) == name[Len(name) + 1 - i]
      from[i \in 1..(Len(pattern) + 1)] ==
        IF i > Len(pattern) THEN Len(name) < i
        ELSE /\ i <= Len(name)
             /\ \/ pat(i) = "**"
                \/ /\ pat(i) = "*" \/ Lower[pat(i)] = Lower[query(i)]
                   /\ from[i + 1]
  IN  from[1]

\* DomainFilter::matches
DomainMatches(patterns, name) == \E p \in Domains(patterns) : PatternMatches(p.name, name)

\* Fault: the patterns that deny are looked at for addresses only.
AllowedByName(h) ==
  IF IsIp(h) THEN IpMatches(Allow, h.ip) /\ ~IpMatches(Deny, h.ip)
  ELSE DomainMatches(Allow, h.name)

\* EgressPolicy::is_host_allowed
IsHostAllowed(h) ==
  IF IsIp(h) THEN IpMatches(Allow, h.ip) /\ ~IpMatches(Deny, h.ip)
  ELSE DomainMatches(Allow, h.name) /\ ~DomainMatches(Deny, h.name)

-----------------------------------------------------------------------------
(* The tunnel *)

\* One direction, before anything is sent
Still == [n |-> <<0, 0, 0, 0>>, fin |-> {}]

\* The enclave's side of a connection, the host's, the destination and the address it
\* was found at, what goes out and what comes back, and what has broken.
NoConn == [pc |-> "idle", host |-> "none", dest |-> None, addr |-> None,
           up |-> Still, down |-> Still, broken |-> {}]

EgressInit == cx = [c \in Conns |-> NoConn]

Set(c, r) == cx' = [cx EXCEPT ![c] = r]

\* The program asks for a destination with CONNECT.  Without an authority or a port
\* (400) nothing follows.  A request with an absolute URI (handle_request) takes the
\* same steps up to the open connection, which then belongs to an HTTP client.
Ask(c, h) ==
  /\ cx[c].pc = "idle"
  /\ Set(c, [NoConn EXCEPT !.pc = "check", !.dest = h])

\* handle_connect, handle_request: what the policy blocks is answered with 401.
Check(c) ==
  /\ cx[c].pc = "check"
  /\ Set(c, IF IsHostAllowed(cx[c].dest) THEN [cx[c] EXCEPT !.pc = "dial"] ELSE NoConn)

\* remote_connect: to the host over vsock; the request to connect
Dial(c) ==
  /\ cx[c].pc = "dial"
  /\ \/ Set(c, [cx[c] EXCEPT !.pc = "wait", !.host = "dial"])
     \/ Set(c, NoConn)

\* Where a destination is to be found: the name "host" is the host's own loopback
\* address, any other is left to the resolver (which reads numbers of all forms as
\* addresses).
Addresses(h) ==
  IF IsIp(h) THEN {h.ip}
  ELSE IF Len(h.name) = 1 /\ Lower[h.name[1]] = "host" THEN {Loopback}
  ELSE Dns[h.name]

\* HostHttpProxy::service_conn: the destination is connected to, or is not and the
\* answer says so, if it gets through.
HostDial(c) ==
  /\ cx[c].host = "dial"
  /\ \/ \E a \in Addresses(cx[c].dest) : Set(c, [cx[c] EXCEPT !.host = "open", !.addr = a])
     \/ Set(c, [cx[c] EXCEPT !.host = "refused"])

\* The answer: 200, or 503 for whatever went wrong
Answer(c) ==
  /\ cx[c].pc = "wait"
  /\ \/ cx[c].host = "open" /\ Set(c, [cx[c] EXCEPT !.pc = "open"])
     \/ cx[c].host = "refused" /\ Set(c, NoConn)

Ready(c) == cx[c].pc = "open"

\* The connections of the two ends of a direction, and of the two proxies
SenderLink(d) == IF d = "up" THEN 1 ELSE 3
ReceiverLink(d) == IF d = "up" THEN 3 ELSE 1
Links(proxy) == IF proxy = "enclave" THEN {1, 2} ELSE {2, 3}

\* The two ends.  Client: up is what it sends and down what it receives.
Sends(c, d) == 1 \notin cx[c][d].fin /\ SenderLink(d) \notin cx[c].broken

Send(c, d) ==
  /\ Sends(c, d)
  /\ Set(c, [cx[c] EXCEPT ![d].n[1] = @ + 1])

Shutdown(c, d) ==
  /\ Sends(c, d)
  /\ Set(c, [cx[c] EXCEPT ![d].fin = @ \cup {1}])

\* The receiver takes a chunk, or sees the end of the stream.
Receive(c, d) ==
  LET s == cx[c][d]
  IN  /\ ReceiverLink(d) \notin cx[c].broken
      /\ \/ s.n[4] < s.n[3] /\ Set(c, [cx[c] EXCEPT ![d].n[4] = @ + 1])
         \/ /\ s.n[4] = s.n[3] /\ 3 \in s.fin /\ 4 \notin s.fin
            /\ Set(c, [cx[c] EXCEPT ![d].fin = @ \cup {4}])

\* Which relay of a direction a proxy is, whether it is copying, and whether the
\* other one has stopped.
Sides == {"enclave", "host"}
Stage(proxy, d) == IF (proxy = "enclave") = (d = "up") THEN 2 ELSE 3
Running(c, proxy) == IF proxy = "enclave" THEN cx[c].pc = "open" ELSE cx[c].host = "open"
PeerGone(c, proxy) == IF proxy = "enclave" THEN cx[c].host = "done" ELSE cx[c].pc = "done"
Stop(r, proxy) == IF proxy = "enclave" THEN [r EXCEPT !.pc = "done"] ELSE [r EXCEPT !.host = "done"]

\* Fault: the copying ends with the first of the two directions.
EndedOnce(r, proxy) == \E d \in {"up", "down"} : Stage(proxy, d) \in r[d].fin

\* A relay ends when it has passed on the end of both directions.
Ended(r, proxy) == \A d \in {"up", "down"} : Stage(proxy, d) \in r[d].fin

\* A chunk for the next party
Pending(c, k, d) == cx[c][d].n[k] < cx[c][d].n[k - 1]

\* A chunk for the other proxy, which has closed
Stranded(c, proxy) ==
  /\ PeerGone(c, proxy)
  /\ \E d \in {"up", "down"} : Stage(proxy, d) = 2 /\ Pending(c, 2, d)

\* Fault: an error in reading is taken for nothing to read.
LostToWrite(c, proxy) == Stranded(c, proxy)

\* What a relay reads from or writes to has gone.
Lost(c, proxy) == Links(proxy) \cap cx[c].broken # {} \/ Stranded(c, proxy)

\* copy_bidirectional passes on a chunk, or the end of a direction once all its
\* chunks have gone, and returns when both have ended.
Copy(c, proxy, d) ==
  LET k == Stage(proxy, d)
      r == IF Pending(c, k, d) THEN [cx[c] EXCEPT ![d].n[k] = @ + 1]
           ELSE [cx[c] EXCEPT ![d].fin = @ \cup {k}]
  IN  /\ Running(c, proxy) /\ Links(proxy) \cap cx[c].broken = {}
      /\ ~(Pending(c, k, d) /\ k = 2 /\ PeerGone(c, proxy))
      /\ Pending(c, k, d) \/ (k - 1 \in cx[c][d].fin /\ k \notin cx[c][d].fin)
      /\ Set(c, IF Ended(r, proxy) THEN Stop(r, proxy) ELSE r)

\* Fault: the connection that did not fail stays open.
HalfClosed(c, proxy) ==
  LET closed(d) == [cx[c][d] EXCEPT !.fin = @ \cup {Stage(proxy, d)}]
  IN  Set(c, Stop([cx[c] EXCEPT !.up = closed("up")], proxy))

\* The copying returns with an error and both its connections are closed, so that
\* what follows it in either direction sees the end of the stream.
CloseBoth(c, proxy) ==
  LET closed(d) == [cx[c][d] EXCEPT !.fin = @ \cup {Stage(proxy, d)}]
  IN  Set(c, Stop([cx[c] EXCEPT !.up = closed("up"), !.down = closed("down")], proxy))

\* A read or a write fails.  The other proxy only learns of it by the end of the
\* stream, or when it writes: it may go on reading from its own end.
CopyFails(c, proxy) == Running(c, proxy) /\ Lost(c, proxy) /\ CloseBoth(c, proxy)

\* It may also fail at once: what closes with bytes unread resets the connection.
PeerResets(c, proxy) ==
  /\ Running(c, proxy) /\ PeerGone(c, proxy) /\ cx[c].broken # {}
  /\ CloseBoth(c, proxy)

\* A connection of a running proxy is reset.
Break(c) ==
  /\ cx[c].pc \in {"open", "done"}
  /\ \E proxy \in Sides : \E l \in Links(proxy) \ cx[c].broken :
       Running(c, proxy) /\ Set(c, [cx[c] EXCEPT !.broken = @ \cup {l}])

\* Both proxies have let go of the connection, and both ends have seen it end.
Release(c) ==
  /\ cx[c].pc = "done"
  /\ cx[c].host = "done"
  /\ \A d \in {"up", "down"} : 4 \in cx[c][d].fin \/ ReceiverLink(d) \in cx[c].broken
  /\ Set(c, NoConn)

Proxies(c) ==
  \/ Check(c) \/ Dial(c) \/ HostDial(c) \/ Answer(c)
  \/ \E proxy \in Sides : CopyFails(c, proxy) \/ \E d \in {"up", "down"} : Copy(c, proxy, d)

-----------------------------------------------------------------------------
(* Properties *)

\* A name matches a pattern, read off from the left: label by label if it has no
\* "**", else in the labels right of the last one, with at least one left over.
NameFits(pattern, name) ==
  LET fits(p, l) == p = "*" \/ Lower[p] = Lower[l]
      deep == {i \in DOMAIN pattern : pattern[i] = "**"}
      k == CHOOSE i \in deep \cup {0} : \A j \in deep : j <= i
      tail == Len(pattern) - k
      over == Len(name) - tail
  IN  /\ tail <= Len(name)
      /\ IF k = 0 THEN over = 0 ELSE over > 0
      /\ \A i \in 1..tail : fits(pattern[k + i], name[over + i])

Admitted(patterns, h) ==
  \E p \in patterns : IF IsIp(h) THEN "net" \in DOMAIN p /\ h.ip \in p.net
                      ELSE "name" \in DOMAIN p /\ NameFits(p.name, h.name)

\* The host's proxy, which knows no policy, is only asked for destinations that some
\* pattern of the manifest admits and none denies (is_host_allowed), and an address
\* that the manifest's networks do not admit, or deny, is connected to only under a
\* name: such a name is judged as it is written, whatever address it stands for.
AllowedOnly ==
  LET Good(h) == Admitted(Allow, h) /\ ~Admitted(Deny, h)
  IN  \A c \in Conns :
        /\ cx[c].host # "none" => Good(cx[c].dest)
        /\ cx[c].addr # None => Good([ip |-> cx[c].addr]) \/ ~IsIp(cx[c].dest)

\* What a sender had sent when it closed its half of an unbroken tunnel reaches the
\* receiver, whole and with its end, whatever the other direction does
\* (copy_bidirectional, twice).
Delivered ==
  \A c \in Conns, d \in {"up", "down"} :
    (1 \in cx[c][d].fin) ~>
      (cx[c].broken # {} \/ cx[c].pc = "idle" \/ (4 \in cx[c][d].fin /\ cx[c][d].n[4] = cx[c][d].n[1]))

\* The sender of a direction has closed it, or its connection has broken.
Left(c, d) == 1 \in cx[c][d].fin \/ SenderLink(d) \in cx[c].broken

\* A proxy lets go of a tunnel when one of its own connections has broken, and when
\* both ends have left, each in its way (copy_bidirectional's return drops both
\* connections).  With one end gone and the other silent the far proxy stays.
Released ==
  \A c \in Conns, proxy \in Sides :
    (Links(proxy) \cap cx[c].broken # {} \/ (Left(c, "up") /\ Left(c, "down")))
      ~> ~Running(c, proxy)
=============================================================================
