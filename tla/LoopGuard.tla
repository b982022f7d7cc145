------------------------------ MODULE LoopGuard ------------------------------
(***************************************************************************)
(* Protection against loops (internal/loopguard.go, ServeHTTP and Rewrite  *)
(* in server.go, vhost/remote.go): proxies that forward requests to each   *)
(* other and to themselves, the guard's caches of names and of local       *)
(* addresses, and Max-Forwards.  Names are pointed elsewhere and proxies   *)
(* change their addresses meanwhile; a balancer's address is nobody's own  *)
(* and reaches any of the proxies behind it.  A request leaves a proxy by  *)
(* Rewrite and the pooled connections of the main transport, by a virtual  *)
(* host served from another server, or as a websocket.                     *)
(*                                                                         *)
(* A behaviour follows one way of each request: where a fallback host asks *)
(* a second server, either way may be the one.  Time is in ticks; what a   *)
(* handler does besides waiting for a name server or a slot takes none.    *)
(***************************************************************************)
EXTENDS Integers, FiniteSets

CONSTANTS
  Requests,
  Proxies,
  Names,     \* host names that are looked up
  Addrs,     \* IP addresses
  Loopback,  \* 127.0.0.1, also what "localhost" stands for
  Behind,    \* each address to the proxies a balancer there passes requests to
  Remote,    \* each proxy's virtual hosts of type remote: a host to None or to the host
             \* and port they are served from, whether they pass_meta, their priority
  Listen,    \* each proxy's listening address (None for all) and port
  Targets,   \* what clients ask for: at a proxy, a host (a name or an address) and a port
  Kinds,     \* "http", and "ws" for websocket upgrades
  Headers,   \* Max-Forwards as clients send it: numbers, and what is no number or absent
  FirstIPs,  \* the address of each proxy's interface at first
  Answers,   \* sets of addresses names are pointed to
  Limit,     \* maxForwardsLimit
  DnsTTL, AddrTTL, Timeout,   \* loopDNSTTL, loopAddrTTL, loopDNSTimeout
  SlotWait,  \* semMaxWait
  CacheMax,  \* loopDNSCacheMax
  MaxTime,   \* bound on ticks
  MaxMoves,  \* bound on changes of names and addresses and failed lookups of them
  None

ASSUME LimitAssumption == Limit \in Nat \ {0}
ASSUME TTLAssumption == {DnsTTL, AddrTTL} \subseteq Nat \ {0} /\ {Timeout, SlotWait} \subseteq Nat
ASSUME AddrsAssumption == Loopback \in Addrs /\ Names \cap Addrs = {} /\ None \notin Addrs
ASSUME ListenAssumption ==
  /\ FirstIPs \in [Proxies -> Addrs]
  /\ \A p \in Proxies : Listen[p].addr \in {None, FirstIPs[p]}
ASSUME TargetsAssumption == \A t \in Targets : t.at \in Proxies /\ t.host \in Names \cup Addrs
ASSUME RemoteAssumption ==
  \A p \in Proxies, host \in Names \cup Addrs :
    Remote[p][host] # None => Remote[p][host].host \in Names \cup Addrs
ASSUME NoneAssumption == \A a \in Addrs : None # {a}

VARIABLES
  now,    \* the clock
  moves,  \* changes and failed lookups of names and addresses so far
  dns,    \* what each name points to
  ip,     \* the address of each proxy's interface
  cache,  \* dnsCache of each proxy's guard: names to None or addresses and their time
  local,  \* localAddrs and localAt of each guard, or None
  conns,  \* connections opened so far by Rewrite's transport; each may be closed again
  req,    \* the requests
  last    \* history: when names were pointed, when each proxy's interfaces were
          \* renumbered or could not be listed, when lookups failed

vars == <<now, moves, dns, ip, cache, local, conns, req, last>>
world == <<now, dns, ip>>

-----------------------------------------------------------------------------
(* The guard.                                                              *)

\* Mutant: the client's value is taken as it is.
Decremented(header) == IF header \in Int THEN header - 1 ELSE Limit - 1

\* nextMaxForwards: negative means that no hop is left.
NextMaxForwards(header) ==
  IF header \in Int /\ header < Limit THEN header - 1 ELSE Limit - 1

\* A cached value and its age.
FreshFor(entry, ttl) == entry # None /\ now - entry.at < ttl

\* Mutant: entries do not age.
ResolvedOnce(p, host) ==
  CASE host \in Addrs -> {host}
    [] host \notin Addrs /\ cache[p][host] # None -> cache[p][host].addrs
    [] OTHER -> None

\* isLocalName up to the name server: literal addresses and cached names.
Resolved(p, host) ==
  CASE host \in Addrs -> {host}
    [] host \notin Addrs /\ FreshFor(cache[p][host], DnsTTL) -> cache[p][host].addrs
    [] OTHER -> None

\* localAddrSet: the addresses of the interfaces as cached, or now, when they can be
\* listed: a failure is cached like an interface without addresses.
Listed(p) == IF FreshFor(local[p], AddrTTL) THEN {local[p].addrs} ELSE {{ip[p]}, {}}

\* isLocalIP.
IsLocal(p, a, own) ==
  \/ a = Loopback
  \/ IF Listen[p].addr # None THEN a = Listen[p].addr ELSE a \in own

\* localAddrSet is only asked about other than loopback addresses, by a proxy that
\* listens on all, and lists the interfaces anew when the cached ones are too old.
Lists(p, addrs) ==
  Listen[p].addr = None /\ addrs \ {Loopback} # {} /\ ~FreshFor(local[p], AddrTTL)

Refreshed(p, own) == [local EXCEPT ![p] = [addrs |-> own, at |-> now]]

\* lookup: the entry is stored when the answer is there, a failure like an answer; a
\* full cache is emptied first.
Remember(p, host, addrs) ==
  LET kept == IF Cardinality({n \in Names : cache[p][n] # None}) >= CacheMax
                THEN [n \in Names |-> None] ELSE cache[p]
  IN cache' = [cache EXCEPT ![p] = [kept EXCEPT ![host] = [addrs |-> addrs, at |-> now]]]

-----------------------------------------------------------------------------
(* A request on its way.                                                   *)

\* Where a name server or the address itself leads.
Hosted(host) == IF host \in Names THEN dns[host] ELSE {host}

\* Who takes a connection of p to an address and port.
Reached(p, a, port) ==
  {q \in Proxies :
     /\ Listen[q].port = port
     /\ \/ a = Loopback /\ q = p
        \/ a = ip[q] /\ Listen[q].addr \in {None, a}
        \/ q \in Behind[a]}

\* Registry.Lookup: by the target's host, then by the Host header.
Lookup(q) ==
  LET vh == Remote[q.at][q.host]
  IN IF vh = None /\ q.front # None THEN Remote[q.at][q.front] ELSE vh

\* Websocket upgrades are handled before virtual hosts are looked up.
Has(q, priority) ==
  q.kind = "http" /\ Lookup(q) # None /\ Lookup(q).priority = priority

Idle == [pc |-> "new", at |-> None, host |-> None, port |-> None, front |-> None,
         kind |-> None, header |-> None, hops |-> 0, by |-> None, via |-> None,
         addrs |-> {}, since |-> 0]

\* An answer goes back, and the request is forgotten.
Refuse(r) == req' = [req EXCEPT ![r] = [Idle EXCEPT !.pc = "done"]]

\* The guard lets the request pass; no more hop may be left to it.
Cleared(r) ==
  IF NextMaxForwards(req[r].header) < 0
    THEN Refuse(r)
    ELSE req' = [req EXCEPT ![r].pc = "cleared", ![r].addrs = {}, ![r].since = now,
                            ![r].via = None, ![r].by = None]

\* IsSelf said yes or no, after so many moves and with such a history.
Decide(r, addrs, count, seen) ==
  LET p == req[r].at
  IN \E own \in Listed(p) :
       LET fails == Lists(p, addrs) /\ own = {}
       IN /\ IF \E a \in addrs : IsLocal(p, a, own) THEN Refuse(r) ELSE Cleared(r)
          /\ local' = IF Lists(p, addrs) THEN Refreshed(p, own) ELSE local
          /\ last' = IF fails THEN [seen EXCEPT !.moved[p] = now] ELSE seen
          /\ moves' = IF fails THEN count + 1 ELSE count
          /\ fails => count < MaxMoves

Send(r) ==
  /\ req[r].pc = "new"
  /\ \E target \in Targets, kind \in Kinds, header \in Headers :
       req' = [req EXCEPT ![r] = [pc |-> "arrived", at |-> target.at, host |-> target.host,
                                  port |-> target.port, front |-> None, kind |-> kind,
                                  header |-> header, hops |-> 0, by |-> None, via |-> None,
                                  addrs |-> {}, since |-> 0]]
  /\ UNCHANGED <<world, moves, cache, local, conns, last>>

\* IsSelf: another port is another service; a known host is decided at once, for any
\* other the name server is asked.
Check(r) ==
  /\ req[r].pc = "arrived"
  /\ LET p == req[r].at
         known == Resolved(p, req[r].host)
     IN IF req[r].port # Listen[p].port
          THEN Cleared(r) /\ UNCHANGED <<moves, local, last>>
          ELSE IF known # None
            THEN Decide(r, known, moves, last)
            ELSE /\ req' = [req EXCEPT ![r].pc = "asking", ![r].since = now,
                                       ![r].via = None, ![r].by = None,
                                       ![r].addrs = dns[req[r].host]]
                 /\ UNCHANGED <<moves, local, last>>
  /\ UNCHANGED <<world, cache, conns>>

\* The answer arrives, or the lookup fails: no such name, the timeout, a client that
\* went away.
Answer(r) ==
  /\ req[r].pc = "asking"
  /\ LET p == req[r].at
         host == req[r].host
     IN \/ /\ Remember(p, host, req[r].addrs)
           /\ Decide(r, req[r].addrs, moves, last)
        \/ /\ moves < MaxMoves
           /\ Remember(p, host, {})
           /\ Decide(r, {}, moves + 1, [last EXCEPT !.failed[p][host] = now])
  /\ UNCHANGED <<world, conns>>

\* Mutant: the header is passed on as it came.
HeaderKept(r) == req[r].header

\* Rewrite writes what is left; gws.NewClient is given headers of its own.
HeaderOut(r) == IF req[r].kind = "ws" THEN None ELSE NextMaxForwards(req[r].header)

\* The connections to a host and port: one of the pool, opened when the name may have
\* pointed elsewhere, or a new one, for which the dialer resolves the host again.
Pooled(p, host, port) == {c \in conns : c.from = p /\ c.host = host /\ c.port = port}

Dialled(p, host, port) ==
  {c \in [from : {p}, host : {host}, port : {port}, to : Proxies, via : Hosted(host)] :
     c.to \in Reached(p, c.via, port)}

\* A request arrives at another proxy, or at the same.
Arrive(r, q, via, by, host, port, front, header, hops) ==
  req' = [req EXCEPT ![r].pc = "arrived", ![r].at = q, ![r].via = via, ![r].by = by,
                     ![r].host = host, ![r].port = port, ![r].front = front,
                     ![r].header = header, ![r].hops = hops, ![r].since = 0]

\* Beyond the limit hops are not told apart.
OneMore(hops) == IF hops > Limit THEN hops ELSE hops + 1

\* After the wait for a slot Rewrite sends the request on, or a websocket is dialled,
\* which has no pool; the Host header tells the next proxy the target.
Forward(r) ==
  /\ req[r].pc = "cleared" /\ ~Has(req[r], "override")
  /\ LET q == req[r]
         pooled == IF q.kind = "ws" THEN {} ELSE Pooled(q.at, q.host, q.port)
     IN \E c \in Dialled(q.at, q.host, q.port) \cup pooled :
          /\ Arrive(r, c.to, c.via, "forward", q.host, q.port, q.host, HeaderOut(r),
                    OneMore(q.hops))
          /\ conns' = IF q.kind = "ws" THEN conns ELSE conns \cup {c}
  /\ UNCHANGED <<world, moves, cache, local, last>>

\* serveOverride, serveRemote: the request goes on with the client's own headers, and
\* with its target if pass_meta keeps the parameters.  Nobody asks the guard about the
\* server: it may be any proxy on that port.
Serve(r) ==
  /\ req[r].pc = "cleared" /\ Has(req[r], "override")
  /\ LET q == req[r]
         vh == Lookup(q)
         target == IF vh.meta THEN q ELSE vh
     IN \E x \in Proxies :
          /\ Listen[x].port = vh.port
          /\ Arrive(r, x, None, "override", target.host, target.port, vh.host, q.header, q.hops)
  /\ UNCHANGED <<world, moves, cache, local, conns, last>>

\* ModifyResponse: what Rewrite has made of the request is sent to the fallback's server,
\* without parameters.
FallBack(r) ==
  /\ req[r].pc = "cleared" /\ Has(req[r], "fallback")
  /\ LET q == req[r]
         vh == Lookup(q)
     IN \E x \in Proxies :
          /\ Listen[x].port = vh.port
          /\ Arrive(r, x, None, "fallback", vh.host, vh.port, vh.host, HeaderOut(r),
                    OneMore(q.hops))
  /\ UNCHANGED <<world, moves, cache, local, conns, last>>

\* The request ends here: an origin's answer, a connection that fails, no slot in time,
\* a client that went away, a cached answer, a block rule.
End(r) ==
  /\ req[r].pc = "cleared"
  /\ Refuse(r)
  /\ UNCHANGED <<world, moves, cache, local, conns, last>>

-----------------------------------------------------------------------------
(* The world around.                                                       *)

\* A lookup and the wait for a slot end in time; what else a handler does takes no tick.
Tick ==
  /\ now < MaxTime
  /\ \A r \in Requests :
       /\ req[r].pc # "arrived"
       /\ req[r].pc = "asking" => now < req[r].since + Timeout
       /\ req[r].pc = "cleared" => now < req[r].since + SlotWait
  /\ now' = now + 1
  /\ UNCHANGED <<moves, dns, ip, cache, local, conns, req, last>>

Point(n) ==
  /\ moves < MaxMoves
  /\ \E addrs \in Answers \ {dns[n]} : dns' = [dns EXCEPT ![n] = addrs]
  /\ moves' = moves + 1
  /\ last' = [last EXCEPT !.pointed[n] = now]
  /\ UNCHANGED <<now, ip, cache, local, conns, req>>

\* A proxy that listens on one address keeps it.
Renumber(p) ==
  /\ moves < MaxMoves
  /\ Listen[p].addr = None
  /\ \E a \in Addrs \ {ip[q] : q \in Proxies} :
       /\ a # Loopback /\ Behind[a] = {}
       /\ ip' = [ip EXCEPT ![p] = a]
  /\ moves' = moves + 1
  /\ last' = [last EXCEPT !.moved[p] = now]
  /\ UNCHANGED <<now, dns, cache, local, conns, req>>

-----------------------------------------------------------------------------
LongAgo == -1 - DnsTTL - AddrTTL - Timeout - SlotWait

Init ==
  /\ now = 0 /\ moves = 0
  /\ dns \in [Names -> Answers]
  /\ ip = FirstIPs
  /\ cache = [p \in Proxies |-> [n \in Names |-> None]]
  /\ local = [p \in Proxies |-> None]
  /\ conns = {}
  /\ req = [r \in Requests |-> Idle]
  /\ last = [pointed |-> [n \in Names |-> LongAgo], moved |-> [p \in Proxies |-> LongAgo],
             failed |-> [p \in Proxies |-> [n \in Names |-> LongAgo]]]

Step(r) == Check(r) \/ Answer(r) \/ Forward(r) \/ Serve(r) \/ FallBack(r) \/ End(r)

Next ==
  \/ \E r \in Requests : Send(r) \/ Step(r)
  \/ Tick
  \/ \E n \in Names : Point(n)
  \/ \E p \in Proxies : Renumber(p)

Spec == Init /\ [][Next]_vars /\ \A r \in Requests : WF_vars(Step(r))

-----------------------------------------------------------------------------
\* Whatever Max-Forwards the client sent, however the proxies are chained and whatever
\* the guards believe, a request is sent on by Rewrite at most Limit times
\* (loopguard.go:17, server.go:463), also when remote virtual hosts are on its way.
\* What these hand on as they got it is not counted: nothing bounds that.
HopsBounded == \A r \in Requests : req[r].hops <= Limit

Since(time) == now - time

\* A proxy sends a request to itself, by Rewrite or as a websocket and not through a
\* balancer; the servers of virtual hosts are never checked.
SelfHop(r) ==
  /\ req[r].pc = "cleared" /\ req'[r].pc = "arrived" /\ req'[r].by = "forward"
  /\ req'[r].at = req[r].at
  /\ Behind[req'[r].via] = {}

\* The connection it takes was open before.
Reuses(r) ==
  \E c \in Pooled(req[r].at, req[r].host, req[r].port) :
    c.to = req[r].at /\ c.via = req'[r].via

\* A proxy connects to itself only while its knowledge is out of date: within the
\* lifetimes of its caches and the wait for a slot after the name was pointed to it, its
\* address changed, or addresses or a name could not be looked up.  The connection
\* opened then stays in the pool and may be taken later, as long as it is used.
LoopsOnlyWhileStale ==
  [][\A r \in Requests :
       SelfHop(r) /\ ~Reuses(r) =>
         LET p == req[r].at
             n == req[r].host
         IN \/ Since(last.moved[p]) < AddrTTL + SlotWait
            \/ /\ n \in Names
               /\ \/ Since(last.pointed[n]) < DnsTTL + Timeout + SlotWait
                  \/ Since(last.failed[p][n]) < DnsTTL + SlotWait]_vars

\* Every request comes to an end, at an origin or at a proxy that refuses it, unless it
\* comes again and again through virtual hosts that override their host from a remote
\* server: these pass Max-Forwards on as they got it, or not at all.
ChainsEnd ==
  \A r \in Requests :
    req[r].pc # "new" ~> \/ req[r].pc = "done"
                         \/ req[r].pc = "arrived" /\ req[r].by = "override"
=============================================================================
