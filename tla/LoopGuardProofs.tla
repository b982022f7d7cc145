-------------------------- MODULE LoopGuardProofs ---------------------------
(***************************************************************************)
(* Max-Forwards bounds the way of every request, for any number of proxies,*)
(* any addresses, any behaviour of name servers and any header, as long as *)
(* requests are forwarded by Rewrite, which writes the header, or pass     *)
(* virtual hosts, which keep it; websocket upgrades lose it                *)
(* (MCLoopGuard_ws).  And a guard lets its own proxy be reached only while *)
(* what it knows is out of date.                                           *)
(***************************************************************************)
EXTENDS LoopGuard, TLAPS

Fields == {"pc", "at", "host", "port", "front", "kind", "header", "hops", "by", "via",
           "addrs", "since"}

\* What is needed of a request's type.
Shaped == DOMAIN req = Requests /\ \A r \in Requests : DOMAIN req[r] = Fields

UnderWay == {"arrived", "asking", "cleared"}

\* The hops still allowed and those made never exceed the limit together.
Budget(q) ==
  /\ q.hops \in Nat /\ q.hops <= Limit
  /\ q.pc \in UnderWay =>
       q.kind = "http" /\ q.hops + NextMaxForwards(q.header) + 1 <= Limit
  /\ q.pc = "cleared" => NextMaxForwards(q.header) >= 0

HopsInv == Shaped /\ \A r \in Requests : Budget(req[r])

-----------------------------------------------------------------------------
\* nextMaxForwards never exceeds the limit's last hop, and decreases a header that is
\* a number.
LEMMA HeaderFalls ==
  /\ \A header : NextMaxForwards(header) \in Int /\ NextMaxForwards(header) + 1 <= Limit
  /\ \A k \in 0 .. Limit - 1 : NextMaxForwards(k) = k - 1
BY LimitAssumption DEF NextMaxForwards

LEMMA InitHops == Init => HopsInv
BY LimitAssumption DEF Init, HopsInv, Shaped, Fields, Budget, Idle, UnderWay

\* A step that changes one request only, and neither its header, kind nor hops while it
\* is under way.
LEMMA SameBudget ==
  ASSUME HopsInv, NEW r \in Requests, NEW q, req' = [req EXCEPT ![r] = q],
         DOMAIN q = Fields, Budget(q)
  PROVE  HopsInv'
BY DEF HopsInv, Shaped, Budget, UnderWay

LEMMA RefuseKeeps ==
  ASSUME HopsInv, NEW r \in Requests, Refuse(r)
  PROVE  HopsInv'
<1> DEFINE q == [Idle EXCEPT !.pc = "done"]
<1>1. DOMAIN q = Fields /\ Budget(q)
  BY LimitAssumption DEF Idle, Fields, Budget, UnderWay
<1> QED BY <1>1, SameBudget DEF Refuse

LEMMA ClearedKeeps ==
  ASSUME HopsInv, NEW r \in Requests, req[r].pc \in UnderWay, Cleared(r)
  PROVE  HopsInv'
<1>1. CASE NextMaxForwards(req[r].header) < 0
  BY <1>1, RefuseKeeps DEF Cleared
<1>2. CASE ~(NextMaxForwards(req[r].header) < 0)
  <2> DEFINE q == [req[r] EXCEPT !.pc = "cleared", !.addrs = {}, !.since = now,
                                 !.via = None, !.by = None]
  <2>1. DOMAIN q = Fields /\ Budget(q)
    BY <1>2, HeaderFalls DEF HopsInv, Shaped, Fields, Budget, UnderWay
  <2>2. req' = [req EXCEPT ![r] = q]
    BY <1>2 DEF Cleared, HopsInv, Shaped
  <2> QED BY <2>1, <2>2, SameBudget
<1> QED BY <1>1, <1>2

\* A request that is handed on, with its header and hops.
LEMMA ArriveKeeps ==
  ASSUME HopsInv, NEW r \in Requests, req[r].pc \in UnderWay,
         NEW x, NEW via, NEW by, NEW host, NEW port, NEW front, NEW header, NEW hops,
         Arrive(r, x, via, by, host, port, front, header, hops),
         hops \in Nat, hops <= Limit, hops + NextMaxForwards(header) + 1 <= Limit
  PROVE  HopsInv'
<1> PICK q : q = [req[r] EXCEPT !.pc = "arrived", !.at = x, !.via = via, !.by = by,
                                !.host = host, !.port = port, !.front = front,
                                !.header = header, !.hops = hops, !.since = 0]
  OBVIOUS
<1>1. DOMAIN req[r] = Fields /\ Budget(req[r]) /\ DOMAIN req = Requests
  BY DEF HopsInv, Shaped
<1>2. /\ DOMAIN q = Fields /\ q.pc = "arrived" /\ q.header = header /\ q.hops = hops
      /\ q.kind = req[r].kind
  BY <1>1 DEF Fields
<1>3. Budget(q)
  BY <1>1, <1>2 DEF Budget, UnderWay
<1>4. req' = [req EXCEPT ![r] = q]
  BY <1>1 DEF Arrive
<1> QED BY <1>2, <1>3, <1>4, SameBudget

\* A proxy that is about to forward a request spends one hop of its budget; a virtual
\* host that overrides spends none and leaves the header as it is.
LEMMA ForwardKeeps ==
  ASSUME HopsInv, NEW r \in Requests, Forward(r) \/ Serve(r) \/ FallBack(r)
  PROVE  HopsInv'
<1> PICK hops, header : hops = req[r].hops /\ header = req[r].header
  OBVIOUS
<1>1. /\ hops \in Nat /\ hops <= Limit /\ NextMaxForwards(header) \in Nat
      /\ hops + NextMaxForwards(header) + 1 <= Limit
      /\ req[r].kind = "http" /\ req[r].pc \in UnderWay
  BY HeaderFalls DEF Forward, Serve, FallBack, HopsInv, Budget, UnderWay
<1>2. CASE Serve(r)
  <2>1. PICK x, via, by, host, port, front :
          Arrive(r, x, via, by, host, port, front, header, hops)
    BY <1>2 DEF Serve
  <2> QED BY <1>1, <2>1, ArriveKeeps
<1>3. CASE Forward(r) \/ FallBack(r)
  <2>1. HeaderOut(r) = NextMaxForwards(header) /\ OneMore(hops) = hops + 1
    BY <1>1, LimitAssumption DEF HeaderOut, OneMore
  <2>2. PICK x, via, by, host, port, front :
          Arrive(r, x, via, by, host, port, front, HeaderOut(r), OneMore(hops))
    BY <1>3 DEF Forward, FallBack
  <2> PICK left : left = NextMaxForwards(header)
    OBVIOUS
  <2>3. left \in 0 .. Limit - 1 /\ NextMaxForwards(left) = left - 1
    BY <1>1, HeaderFalls, LimitAssumption
  <2>4. Arrive(r, x, via, by, host, port, front, left, hops + 1)
    BY <2>1, <2>2
  <2>5. /\ hops + 1 \in Nat /\ hops + 1 <= Limit
        /\ hops + 1 + NextMaxForwards(left) + 1 <= Limit
    BY <1>1, <2>3, LimitAssumption
  <2> QED BY <1>1, <2>4, <2>5, ArriveKeeps
<1> QED BY <1>2, <1>3

LEMMA DecideKeeps ==
  ASSUME HopsInv, NEW r \in Requests, req[r].pc \in UnderWay,
         NEW addrs, NEW count, NEW seen, Decide(r, addrs, count, seen)
  PROVE  HopsInv'
BY RefuseKeeps, ClearedKeeps DEF Decide

\* Asking a name server changes nothing of the budget.
LEMMA CheckKeeps ==
  ASSUME HopsInv, NEW r \in Requests, Check(r)
  PROVE  HopsInv'
<1>1. req[r].pc \in UnderWay
  BY DEF Check, UnderWay
<1>2. CASE Cleared(r)
  BY <1>1, <1>2, ClearedKeeps
<1>3. CASE \E addrs, count, seen : Decide(r, addrs, count, seen)
  BY <1>1, <1>3, DecideKeeps
<1>4. CASE req' = [req EXCEPT ![r].pc = "asking", ![r].since = now,
                              ![r].via = None, ![r].by = None, ![r].addrs = dns[req[r].host]]
  <2> DEFINE q == [req[r] EXCEPT !.pc = "asking", !.since = now, !.via = None, !.by = None,
                                 !.addrs = dns[req[r].host]]
  <2>1. DOMAIN q = Fields /\ Budget(q)
    BY <1>1 DEF HopsInv, Shaped, Fields, Budget, UnderWay
  <2>2. req' = [req EXCEPT ![r] = q]
    BY <1>4 DEF HopsInv, Shaped
  <2> QED BY <2>1, <2>2, SameBudget
<1> QED BY <1>2, <1>3, <1>4 DEF Check

\* A client chooses the header freely; only the way of forwarding is fixed.
LEMMA SendKeeps ==
  ASSUME HopsInv, NEW r \in Requests, Kinds \subseteq {"http"}, Send(r)
  PROVE  HopsInv'
<1>1. PICK target \in Targets, kind \in Kinds, header \in Headers :
        req' = [req EXCEPT ![r] = [pc |-> "arrived", at |-> target.at, host |-> target.host,
                                   port |-> target.port, front |-> None, kind |-> kind,
                                   header |-> header, hops |-> 0, by |-> None, via |-> None,
                                   addrs |-> {}, since |-> 0]]
  BY DEF Send
<1> DEFINE q == [pc |-> "arrived", at |-> target.at, host |-> target.host,
                 port |-> target.port, front |-> None, kind |-> kind, header |-> header,
                 hops |-> 0, by |-> None, via |-> None, addrs |-> {}, since |-> 0]
<1>2. DOMAIN q = Fields /\ Budget(q)
  BY HeaderFalls, LimitAssumption DEF Fields, Budget
<1> QED BY <1>1, <1>2, SameBudget

LEMMA NextHops ==
  ASSUME HopsInv, Kinds \subseteq {"http"}, [Next]_vars
  PROVE  HopsInv'
<1>1. CASE \E r \in Requests : Send(r)
  BY <1>1, SendKeeps
<1>2. CASE \E r \in Requests : Check(r)
  BY <1>2, CheckKeeps
<1>3. CASE \E r \in Requests : Answer(r)
  BY <1>3, DecideKeeps DEF Answer, UnderWay
<1>4. CASE \E r \in Requests : Forward(r) \/ Serve(r) \/ FallBack(r)
  BY <1>4, ForwardKeeps
<1>5. CASE \E r \in Requests : End(r)
  BY <1>5, RefuseKeeps DEF End
<1>6. CASE UNCHANGED req
  BY <1>6 DEF HopsInv, Shaped, Budget
<1> QED
  BY <1>1, <1>2, <1>3, <1>4, <1>5, <1>6 DEF Next, Step, Tick, Point, Renumber, vars

\* However proxies are chained, by whatever names, addresses and virtual hosts, and
\* whatever their guards believe: Rewrite sends a request on at most Limit times
\* (loopguard.go:213, server.go:463); websocket upgrades, which lose the header, are
\* excluded by the assumption, and hops through overriding virtual hosts are not counted.
THEOREM HopsCorrect ==
  ASSUME Kinds \subseteq {"http"}
  PROVE  Spec => []HopsBounded
<1>1. HopsInv => HopsBounded
  BY DEF HopsInv, Budget, HopsBounded
<1>2. HopsInv /\ [Next]_vars => HopsInv'
  BY NextHops
<1> QED BY InitHops, <1>1, <1>2, PTL DEF Spec

-----------------------------------------------------------------------------
(* What a guard knows, and how long it may be out of date.                 *)

\* The types of what a guard's knowledge is about.
WorldTyped ==
  /\ now \in Nat
  /\ DOMAIN dns = Names
  /\ ip \in [Proxies -> Addrs]
  /\ DOMAIN last = {"pointed", "moved", "failed"}
  /\ last.pointed \in [Names -> Int]
  /\ last.moved \in [Proxies -> Int]
  /\ last.failed \in [Proxies -> [Names -> Int]]

\* The connections of the pools lead to proxies.
ConnsTyped == \A c \in conns : c.to \in Proxies

\* A proxy that listens on one address has that address.
ListensThere == \A p \in Proxies : Listen[p].addr # None => ip[p] = Listen[p].addr

\* A cached name says where the name points, or the name was pointed elsewhere since
\* the name server was asked, or the lookup failed when the entry was stored.
NameKnown(p, n) ==
  cache[p][n] # None =>
    /\ cache[p][n].at \in Nat /\ cache[p][n].at <= now
    /\ \/ cache[p][n].addrs = dns[n]
       \/ last.pointed[n] >= cache[p][n].at - Timeout
       \/ last.failed[p][n] >= cache[p][n].at

NamesKnown ==
  /\ DOMAIN cache = Proxies
  /\ \A p \in Proxies : DOMAIN cache[p] = Names /\ \A n \in Names : NameKnown(p, n)

\* The cached addresses of the interfaces are right, or have changed since, or could not
\* be listed.
AddrsKnown ==
  /\ DOMAIN local = Proxies
  /\ \A p \in Proxies : local[p] # None =>
       /\ local[p].at \in Nat /\ local[p].at <= now
       /\ local[p].addrs = {ip[p]} \/ last.moved[p] >= local[p].at

\* Knowledge of proxy p that may be out of date when its guard decides on a host at time t.
Stale(p, host, t) ==
  \/ t - last.moved[p] < AddrTTL
  \/ /\ host \in Names
     /\ \/ t - last.pointed[host] < DnsTTL + Timeout
        \/ t - last.failed[p][host] < DnsTTL

Elsewhere(p, addrs) == \A a \in addrs : a # Loopback /\ a # ip[p]

\* A name server that is being asked gave its answer when it was asked; a request that
\* has passed the guard and waits does not lead back to the proxy, unless the guard was
\* out of date when it decided or the name has been pointed elsewhere since.
Guarded(q) ==
  /\ q.pc \in {"new", "done"} \cup UnderWay
  /\ q.hops \in Nat
  /\ q.pc \in UnderWay =>
       q.at \in Proxies /\ q.host \in Names \cup Addrs
       /\ q.front \in Names \cup Addrs \cup {None}
  /\ q.pc = "asking" =>
       /\ q.host \in Names
       /\ q.since \in Nat
       /\ q.since <= now /\ now <= q.since + Timeout
       /\ q.addrs = dns[q.host] \/ last.pointed[q.host] >= q.since
  /\ q.pc = "cleared" =>
       /\ q.since \in Nat
       /\ q.since <= now /\ now <= q.since + SlotWait
       /\ q.port = Listen[q.at].port =>
            Stale(q.at, q.host, q.since) \/ Elsewhere(q.at, Hosted(q.host))

AllGuarded == Shaped /\ \A r \in Requests : Guarded(req[r])

StaleInv ==
  WorldTyped /\ ConnsTyped /\ ListensThere /\ NamesKnown /\ AddrsKnown /\ AllGuarded

\* A step in which the world stands still and lookups at most fail.
StandsStill ==
  /\ UNCHANGED world
  /\ last'.pointed = last.pointed
  /\ \A p \in Proxies :
       /\ last'.moved[p] \in {last.moved[p], now}
       /\ \A n \in Names : last'.failed[p][n] \in {last.failed[p][n], now}

LEMMA InitStale == Init => StaleInv
<1> SUFFICES ASSUME Init PROVE StaleInv
  OBVIOUS
<1>1. WorldTyped
  BY ListenAssumption, TTLAssumption DEF Init, WorldTyped, LongAgo
<1>2. ListensThere
  BY ListenAssumption DEF Init, ListensThere
<1>3. NamesKnown
  BY DEF Init, NamesKnown, NameKnown
<1>4. AddrsKnown
  BY DEF Init, AddrsKnown
<1>5. AllGuarded
  BY DEF Init, AllGuarded, Shaped, Fields, Idle, Guarded, UnderWay
<1>6. ConnsTyped
  BY DEF Init, ConnsTyped
<1> QED BY <1>1, <1>2, <1>3, <1>4, <1>5, <1>6 DEF StaleInv

-----------------------------------------------------------------------------
\* What was out of date at a time past was so, whatever fails now.
LEMMA StaleStays ==
  ASSUME StaleInv, StandsStill, NEW p \in Proxies, NEW host,
         NEW t \in Nat, t <= now, Stale(p, host, t)
  PROVE  Stale(p, host, t)'
<1>1. now \in Nat /\ t - now <= 0
  BY DEF StaleInv, WorldTyped
<1>2. /\ last'.moved[p] \in {last.moved[p], now} /\ last'.pointed = last.pointed
      /\ host \in Names => last'.failed[p][host] \in {last.failed[p][host], now}
  BY DEF StandsStill
<1>3. t - now < AddrTTL /\ t - now < DnsTTL
  BY <1>1, TTLAssumption
<1>4. CASE t - last.moved[p] < AddrTTL
  BY <1>2, <1>3, <1>4 DEF Stale
<1>5. CASE host \in Names /\ t - last.pointed[host] < DnsTTL + Timeout
  BY <1>2, <1>5 DEF Stale
<1>6. CASE host \in Names /\ t - last.failed[p][host] < DnsTTL
  BY <1>2, <1>3, <1>6 DEF Stale
<1> QED BY <1>4, <1>5, <1>6 DEF Stale

LEMMA GuardedStays ==
  ASSUME StaleInv, StandsStill, NEW q, Guarded(q)
  PROVE  Guarded(q)'
<1>1. UNCHANGED <<now, dns, ip>> /\ last'.pointed = last.pointed
  BY DEF StandsStill, world
<1>2. q.at \in Proxies /\ q.since \in Nat /\ q.since <= now /\ Stale(q.at, q.host, q.since)
        => Stale(q.at, q.host, q.since)'
  BY StaleStays
<1> QED BY <1>1, <1>2 DEF Guarded, Elsewhere, Hosted, UnderWay

\* A step that changes one request.
LEMMA OneGuarded ==
  ASSUME StaleInv, StandsStill, NEW r \in Requests,
         NEW q, req' = [req EXCEPT ![r] = q], DOMAIN q = Fields, Guarded(q)'
  PROVE  AllGuarded'
<1>1. /\ DOMAIN req' = Requests
      /\ \A s \in Requests : req'[s] = IF s = r THEN q ELSE req[s]
  BY DEF StaleInv, AllGuarded, Shaped
<1>2. Shaped'
  BY <1>1 DEF StaleInv, AllGuarded, Shaped
<1>3. ASSUME NEW s \in Requests PROVE Guarded(req[s])'
  <2>1. Guarded(req[s])
    BY DEF StaleInv, AllGuarded
  <2>2. PICK k : k = req[s]
    OBVIOUS
  <2>3. Guarded(k)'
    BY <2>1, <2>2, GuardedStays
  <2>4. CASE s = r
    BY <1>1, <2>4 DEF Guarded
  <2>5. CASE s # r
    <3>1. req'[s] = k
      BY <1>1, <2>2, <2>5
    <3> QED BY <2>3, <3>1 DEF Guarded
  <2> QED BY <2>4, <2>5
<1> QED BY <1>2, <1>3 DEF AllGuarded

LEMMA RefuseGuarded ==
  ASSUME StaleInv, StandsStill, NEW r \in Requests, Refuse(r)
  PROVE  AllGuarded'
<1> DEFINE q == [Idle EXCEPT !.pc = "done"]
<1>1. DOMAIN q = Fields /\ Guarded(q)'
  BY DEF Idle, Fields, Guarded, UnderWay
<1> QED BY <1>1, OneGuarded DEF Refuse

\* A request passes the guard when the port is another's or the guard finds no address
\* of its own.
LEMMA ClearedGuarded ==
  ASSUME StaleInv, StandsStill, NEW r \in Requests, req[r].pc \in UnderWay, Cleared(r),
         NEW p, p = req[r].at, NEW host, host = req[r].host,
         req[r].port = Listen[p].port => Stale(p, host, now)' \/ Elsewhere(p, Hosted(host))
  PROVE  AllGuarded'
<1>1. CASE NextMaxForwards(req[r].header) < 0
  BY <1>1, RefuseGuarded DEF Cleared
<1>2. CASE ~(NextMaxForwards(req[r].header) < 0)
  <2> PICK q : q = [req[r] EXCEPT !.pc = "cleared", !.addrs = {}, !.since = now,
                                  !.via = None, !.by = None]
    OBVIOUS
  <2>1. Guarded(req[r]) /\ DOMAIN req[r] = Fields
    BY DEF StaleInv, AllGuarded, Shaped
  <2>2. /\ DOMAIN q = Fields /\ q.pc = "cleared" /\ q.at = p /\ q.host = host
        /\ q.port = req[r].port /\ q.hops = req[r].hops /\ q.front = req[r].front
        /\ q.since = now
    BY <2>1 DEF Fields
  <2>3. req' = [req EXCEPT ![r] = q]
    BY <1>2 DEF Cleared, StaleInv, AllGuarded, Shaped
  <2>4. /\ q.at \in Proxies /\ q.host \in Names \cup Addrs /\ q.hops \in Nat
        /\ q.front \in Names \cup Addrs \cup {None}
    BY <2>1, <2>2 DEF Guarded
  <2>5. now \in Nat /\ now' = now
    BY DEF StandsStill, world, StaleInv, WorldTyped
  <2>6. q.port = Listen[q.at].port =>
          Stale(q.at, q.host, q.since)' \/ Elsewhere(q.at, Hosted(q.host))'
    <3>1. Elsewhere(p, Hosted(host)) => Elsewhere(p, Hosted(host))'
      BY DEF StandsStill, world, Elsewhere, Hosted
    <3>2. q.port = Listen[p].port => Stale(p, host, now)' \/ Elsewhere(p, Hosted(host))'
      BY <2>2, <3>1
    <3> QED BY <2>2, <2>5, <3>2 DEF Stale, Elsewhere, Hosted
  <2>7. Guarded(q)'
    BY <2>2, <2>4, <2>5, <2>6, TTLAssumption DEF Guarded, UnderWay
  <2> QED BY <2>2, <2>3, <2>7, OneGuarded
<1> QED BY <1>1, <1>2

\* isLocalIP finds the proxy's own address and loopback, unless its interface changed
\* its address within the lifetime of the cached ones or cannot be listed.
LEMMA OwnIsLocal ==
  ASSUME StaleInv, NEW p \in Proxies, NEW host, NEW addrs, NEW own \in Listed(p),
         ~ \E a \in addrs : IsLocal(p, a, own), ~Stale(p, host, now)
  PROVE  Elsewhere(p, addrs) \/ (Lists(p, addrs) /\ own = {})
<1> SUFFICES ASSUME NEW a \in addrs, a = ip[p], a # Loopback
             PROVE  Lists(p, addrs) /\ own = {}
  BY DEF Elsewhere, IsLocal
<1>1. Listen[p].addr = None /\ a \notin own
  BY DEF IsLocal, StaleInv, ListensThere
<1>2. CASE FreshFor(local[p], AddrTTL)
  <2>1. local[p] # None /\ local[p].addrs # {ip[p]} /\ now - local[p].at < AddrTTL
    BY <1>1, <1>2 DEF Listed, FreshFor
  <2>2. local[p].at \in Nat /\ last.moved[p] >= local[p].at
    BY <2>1 DEF StaleInv, AddrsKnown
  <2> QED BY <2>1, <2>2, TTLAssumption DEF Stale, StaleInv, WorldTyped
<1>3. CASE ~FreshFor(local[p], AddrTTL)
  BY <1>1, <1>3 DEF Listed, Lists
<1> QED BY <1>2, <1>3

LEMMA DecideGuarded ==
  ASSUME StaleInv, NEW r \in Requests, req[r].pc \in UnderWay,
         NEW p, p = req[r].at, NEW host, host = req[r].host, UNCHANGED <<world, conns>>,
         NEW addrs, NEW count, NEW seen, Decide(r, addrs, count, seen),
         DOMAIN seen = {"pointed", "moved", "failed"},
         seen.pointed = last.pointed, seen.moved = last.moved,
         seen.failed \in [Proxies -> [Names -> Int]],
         \A x \in Proxies, n \in Names : seen.failed[x][n] \in {last.failed[x][n], now},
         Hosted(host) \subseteq addrs
           \/ (host \in Names
               /\ (\/ now - last.pointed[host] < DnsTTL + Timeout
                   \/ now - seen.failed[p][host] < DnsTTL))
           \/ now - last.moved[p] < AddrTTL
  PROVE  /\ AllGuarded' /\ AddrsKnown' /\ StandsStill /\ WorldTyped' /\ ListensThere'
         /\ ConnsTyped' /\ last'.failed = seen.failed
<1>1. p \in Proxies /\ now \in Nat /\ now' = now
  BY DEF StaleInv, AllGuarded, Guarded, WorldTyped, world
<1>2. PICK own \in Listed(p) :
        /\ IF \E a \in addrs : IsLocal(p, a, own) THEN Refuse(r) ELSE Cleared(r)
        /\ local' = IF Lists(p, addrs) THEN Refreshed(p, own) ELSE local
        /\ last' = IF Lists(p, addrs) /\ own = {} THEN [seen EXCEPT !.moved[p] = now] ELSE seen
  BY DEF Decide
<1>3. /\ DOMAIN last' = {"pointed", "moved", "failed"}
      /\ last'.pointed = last.pointed /\ last'.failed = seen.failed
      /\ last'.moved \in [Proxies -> Int]
      /\ \A x \in Proxies : last'.moved[x] \in {last.moved[x], now}
      /\ Lists(p, addrs) /\ own = {} => last'.moved[p] = now
  BY <1>1, <1>2 DEF StaleInv, WorldTyped
<1>4. StandsStill
  BY <1>3 DEF StandsStill
<1>5. WorldTyped' /\ ListensThere' /\ ConnsTyped'
  BY <1>1, <1>3 DEF StaleInv, WorldTyped, ListensThere, ConnsTyped, world
<1>6. Stale(p, host, now)' \/ Hosted(host) \subseteq addrs
  BY <1>1, <1>3, TTLAssumption DEF Stale, StaleInv, WorldTyped
<1>7. AllGuarded'
  <2>1. CASE \E a \in addrs : IsLocal(p, a, own)
    BY <1>2, <1>4, <2>1, RefuseGuarded
  <2>2. CASE ~ \E a \in addrs : IsLocal(p, a, own)
    <3>1. Stale(p, host, now) \/ Elsewhere(p, addrs) \/ last'.moved[p] = now
      BY <1>1, <1>3, <2>2, OwnIsLocal
    <3>2. CASE Stale(p, host, now)
      <4>1. PICK t \in Nat : t = now /\ t <= now
        BY <1>1
      <4>2. Stale(p, host, t)'
        BY <1>1, <1>4, <3>2, <4>1, StaleStays
      <4>3. Stale(p, host, now)'
        BY <1>1, <4>1, <4>2 DEF Stale
      <4> QED BY <1>2, <1>4, <2>2, <4>3, ClearedGuarded
    <3>3. CASE last'.moved[p] = now
      <4>1. Stale(p, host, now)'
        BY <1>1, <3>3, TTLAssumption DEF Stale
      <4> QED BY <1>2, <1>4, <2>2, <4>1, ClearedGuarded
    <3>4. CASE Elsewhere(p, addrs)
      <4>1. Stale(p, host, now)' \/ Elsewhere(p, Hosted(host))
        BY <1>6, <3>4 DEF Elsewhere
      <4> QED BY <1>2, <1>4, <2>2, <4>1, ClearedGuarded
    <3> QED BY <3>1, <3>2, <3>3, <3>4
  <2> QED BY <2>1, <2>2
<1>8. AddrsKnown'
  <2>1. CASE Lists(p, addrs)
    <3>1. own = {ip[p]} \/ own = {}
      BY <1>2, <2>1 DEF Lists, Listed
    <3>2. local' = [local EXCEPT ![p] = [addrs |-> own, at |-> now]]
      BY <1>2, <2>1 DEF Refreshed
    <3>3. DOMAIN local = Proxies /\ ip' = ip
      BY DEF StaleInv, AddrsKnown, world
    <3>4. /\ DOMAIN local' = Proxies
          /\ local'[p].addrs = own /\ local'[p].at = now
          /\ \A x \in Proxies : x # p => local'[x] = local[x]
      BY <1>1, <3>2, <3>3
    <3>5. own = {ip'[p]} \/ last'.moved[p] >= now
      BY <1>1, <1>3, <2>1, <3>1, <3>3
    <3>6. ASSUME NEW x \in Proxies, x # p, local[x] # None
          PROVE  /\ local[x].at \in Nat /\ local[x].at <= now
                 /\ local[x].addrs = {ip'[x]} \/ last'.moved[x] >= local[x].at
      BY <1>1, <1>3, <3>3, <3>6 DEF StaleInv, AddrsKnown, WorldTyped
    <3> QED BY <1>1, <3>4, <3>5, <3>6 DEF AddrsKnown
  <2>2. CASE ~Lists(p, addrs)
    BY <1>1, <1>2, <1>3, <2>2 DEF StaleInv, AddrsKnown, WorldTyped, world
  <2> QED BY <2>1, <2>2
<1> QED BY <1>3, <1>4, <1>5, <1>7, <1>8

-----------------------------------------------------------------------------
(* The steps of requests.                                                  *)

\* What does not concern requests is kept by every step in which the world stands
\* still and nothing fails.
LEMMA QuietKeeps ==
  ASSUME StaleInv, UNCHANGED <<world, last>>
  PROVE  /\ StandsStill /\ WorldTyped' /\ ListensThere'
         /\ UNCHANGED cache => NamesKnown'
         /\ UNCHANGED local => AddrsKnown'
         /\ UNCHANGED conns => ConnsTyped'
<1>1. StandsStill
  BY DEF StandsStill
<1>2. WorldTyped' /\ ListensThere'
  BY DEF StaleInv, WorldTyped, ListensThere, world
<1>3. UNCHANGED cache => NamesKnown'
  BY DEF StaleInv, NamesKnown, NameKnown, world
<1>4. UNCHANGED local => AddrsKnown'
  BY DEF StaleInv, AddrsKnown, world
<1>5. UNCHANGED conns => ConnsTyped'
  BY DEF StaleInv, ConnsTyped
<1> QED BY <1>1, <1>2, <1>3, <1>4, <1>5

LEMMA SendStale ==
  ASSUME StaleInv, NEW r \in Requests, Send(r)
  PROVE  StaleInv'
<1>1. PICK target \in Targets, kind \in Kinds, header \in Headers :
        req' = [req EXCEPT ![r] = [pc |-> "arrived", at |-> target.at, host |-> target.host,
                                   port |-> target.port, front |-> None, kind |-> kind,
                                   header |-> header, hops |-> 0, by |-> None, via |-> None,
                                   addrs |-> {}, since |-> 0]]
  BY DEF Send
<1> DEFINE q == [pc |-> "arrived", at |-> target.at, host |-> target.host,
                 port |-> target.port, front |-> None, kind |-> kind, header |-> header,
                 hops |-> 0, by |-> None, via |-> None, addrs |-> {}, since |-> 0]
<1>2. DOMAIN q = Fields /\ Guarded(q)'
  BY TargetsAssumption DEF Fields, Guarded, UnderWay
<1>3. UNCHANGED <<world, cache, local, conns, last>>
  BY DEF Send
<1>4. StandsStill
  BY <1>3, QuietKeeps
<1>5. AllGuarded'
  BY <1>1, <1>2, <1>4, OneGuarded
<1> QED BY <1>3, <1>5, QuietKeeps DEF StaleInv

\* A host that is known without asking is where the guard believes, or the guard is out
\* of date.
LEMMA KnownHosts ==
  ASSUME StaleInv, NEW p \in Proxies, NEW host \in Names \cup Addrs,
         Resolved(p, host) # None
  PROVE  Stale(p, host, now) \/ Hosted(host) \subseteq Resolved(p, host)
<1>1. CASE host \in Addrs
  BY <1>1, AddrsAssumption DEF Resolved, Hosted
<1>2. CASE host \notin Addrs /\ FreshFor(cache[p][host], DnsTTL)
  <2>1. host \in Names /\ Resolved(p, host) = cache[p][host].addrs
    BY <1>2 DEF Resolved
  <2>2. NameKnown(p, host) /\ cache[p][host] # None /\ now - cache[p][host].at < DnsTTL
    BY <1>2, <2>1 DEF FreshFor, StaleInv, NamesKnown
  <2>3. CASE cache[p][host].addrs = dns[host]
    BY <2>1, <2>3 DEF Hosted
  <2>4. CASE \/ last.pointed[host] >= cache[p][host].at - Timeout
             \/ last.failed[p][host] >= cache[p][host].at
    <3>1. /\ last.pointed[host] \in Int /\ last.failed[p][host] \in Int
          /\ now \in Nat /\ cache[p][host].at \in Nat
      BY <2>1, <2>2 DEF StaleInv, WorldTyped, NameKnown
    <3> QED BY <2>1, <2>2, <2>4, <3>1, TTLAssumption DEF Stale
  <2> QED BY <2>2, <2>3, <2>4 DEF NameKnown
<1>3. CASE host \notin Addrs /\ ~FreshFor(cache[p][host], DnsTTL)
  BY <1>3 DEF Resolved
<1> QED BY <1>1, <1>2, <1>3

LEMMA CheckStale ==
  ASSUME StaleInv, NEW r \in Requests, Check(r)
  PROVE  StaleInv'
<1> PICK p, host : p = req[r].at /\ host = req[r].host
  OBVIOUS
<1>1. /\ UNCHANGED <<world, cache, conns>> /\ req[r].pc = "arrived"
      /\ Guarded(req[r]) /\ DOMAIN req[r] = Fields
  BY DEF Check, StaleInv, AllGuarded, Shaped
<1>2. /\ p \in Proxies /\ host \in Names \cup Addrs /\ req[r].hops \in Nat
      /\ req[r].front \in Names \cup Addrs \cup {None} /\ req[r].pc \in UnderWay
  BY <1>1 DEF Guarded, UnderWay
<1>3. UNCHANGED last => StandsStill
  BY <1>1, QuietKeeps
<1>4. CASE req[r].port # Listen[p].port
  <2>1. Cleared(r) /\ UNCHANGED <<local, last>>
    BY <1>4 DEF Check
  <2>2. AllGuarded'
    BY <1>2, <1>3, <1>4, <2>1, ClearedGuarded
  <2> QED BY <1>1, <2>1, <2>2, QuietKeeps DEF StaleInv
<1>5. CASE req[r].port = Listen[p].port /\ Resolved(p, host) # None
  <2>1. PICK known : known = Resolved(p, host)
    OBVIOUS
  <2>2. Decide(r, known, moves, last)
    BY <1>5, <2>1 DEF Check
  <2>3. Stale(p, host, now) \/ Hosted(host) \subseteq known
    BY <1>2, <1>5, <2>1, KnownHosts
  <2>4. \/ Hosted(host) \subseteq known
        \/ (host \in Names
            /\ (\/ now - last.pointed[host] < DnsTTL + Timeout
                \/ now - last.failed[p][host] < DnsTTL))
        \/ now - last.moved[p] < AddrTTL
    BY <2>3 DEF Stale
  <2>5. /\ DOMAIN last = {"pointed", "moved", "failed"}
        /\ last.failed \in [Proxies -> [Names -> Int]]
        /\ \A x \in Proxies, n \in Names : last.failed[x][n] \in {last.failed[x][n], now}
    BY DEF StaleInv, WorldTyped
  <2>6. /\ AllGuarded' /\ AddrsKnown' /\ StandsStill /\ WorldTyped' /\ ListensThere'
        /\ ConnsTyped' /\ last'.failed = last.failed
    BY <1>1, <1>2, <2>2, <2>4, <2>5, DecideGuarded
  <2>7. NamesKnown'
    BY <1>1, <2>6 DEF StaleInv, NamesKnown, NameKnown, StandsStill, world
  <2> QED BY <2>6, <2>7 DEF StaleInv
<1>6. CASE req[r].port = Listen[p].port /\ Resolved(p, host) = None
  <2>1. host \in Names
    BY <1>2, <1>6, NoneAssumption DEF Resolved
  <2>2. /\ UNCHANGED <<local, last>>
        /\ req' = [req EXCEPT ![r].pc = "asking", ![r].since = now,
                              ![r].via = None, ![r].by = None, ![r].addrs = dns[req[r].host]]
    BY <1>6 DEF Check
  <2> PICK q : q = [req[r] EXCEPT !.pc = "asking", !.since = now, !.via = None,
                                  !.by = None, !.addrs = dns[host]]
    OBVIOUS
  <2>3. req' = [req EXCEPT ![r] = q]
    BY <2>2 DEF StaleInv, AllGuarded, Shaped
  <2>4. /\ DOMAIN q = Fields /\ q.pc = "asking" /\ q.since = now /\ q.addrs = dns[host]
        /\ q.at = p /\ q.host = host /\ q.hops = req[r].hops /\ q.front = req[r].front
    BY <1>1 DEF Fields
  <2>5. Guarded(q)'
    <3>1. now \in Nat /\ now' = now /\ dns' = dns
      BY <1>1 DEF StaleInv, WorldTyped, world
    <3> QED BY <1>2, <2>1, <2>4, <3>1, TTLAssumption DEF Guarded, UnderWay
  <2>6. AllGuarded'
    BY <1>3, <2>2, <2>3, <2>4, <2>5, OneGuarded
  <2> QED BY <1>1, <2>2, <2>6, QuietKeeps DEF StaleInv
<1> QED BY <1>4, <1>5, <1>6

\* What lookup stores is what the name server said when it was asked, or a failure.
LEMMA RememberKeeps ==
  ASSUME StaleInv, StandsStill, WorldTyped', NEW p \in Proxies, NEW n \in Names, NEW addrs,
         Remember(p, n, addrs),
         \/ addrs = dns[n]
         \/ last.pointed[n] >= now - Timeout
         \/ last'.failed[p][n] = now
  PROVE  NamesKnown'
<1> PICK e : e = [addrs |-> addrs, at |-> now]
  OBVIOUS
<1>1. /\ DOMAIN cache = Proxies
      /\ \A x \in Proxies : DOMAIN cache[x] = Names
  BY DEF StaleInv, NamesKnown
<1>2. /\ DOMAIN cache' = Proxies
      /\ \A x \in Proxies : DOMAIN cache'[x] = Names
      /\ \A x \in Proxies, m \in Names : cache'[x][m] \in {None, e, cache[x][m]}
      /\ \A x \in Proxies, m \in Names : x # p \/ m # n => cache'[x][m] \in {None, cache[x][m]}
  BY <1>1 DEF Remember
<1>3. /\ now' = now /\ dns' = dns /\ last'.pointed = last.pointed /\ now \in Nat
      /\ \A x \in Proxies, m \in Names : last'.failed[x][m] \in {last.failed[x][m], now}
  BY DEF StandsStill, world, StaleInv, WorldTyped
<1>4. ASSUME NEW x \in Proxies, NEW m \in Names PROVE NameKnown(x, m)'
  <2>1. CASE cache'[x][m] = None
    BY <2>1 DEF NameKnown
  <2>2. CASE cache'[x][m] = cache[x][m] /\ cache[x][m] # None
    <3>1. /\ cache[x][m].at \in Nat /\ cache[x][m].at <= now
          /\ \/ cache[x][m].addrs = dns[m]
             \/ last.pointed[m] >= cache[x][m].at - Timeout
             \/ last.failed[x][m] >= cache[x][m].at
      BY <2>2 DEF StaleInv, NamesKnown, NameKnown
    <3>2. last.failed[x][m] >= cache[x][m].at => last'.failed[x][m] >= cache[x][m].at
      BY <1>3, <3>1
    <3> QED BY <1>3, <2>2, <3>1, <3>2 DEF NameKnown
  <2>3. CASE cache'[x][m] = e /\ x = p /\ m = n
    <3>1. e.at = now /\ e.addrs = addrs
      OBVIOUS
    <3> QED BY <1>3, <2>3, <3>1 DEF NameKnown
  <2> QED BY <1>2, <2>1, <2>2, <2>3
<1> QED BY <1>2, <1>4 DEF NamesKnown

LEMMA AnswerStale ==
  ASSUME StaleInv, NEW r \in Requests, Answer(r)
  PROVE  StaleInv'
<1> PICK p, host : p = req[r].at /\ host = req[r].host
  OBVIOUS
<1>1. /\ UNCHANGED <<world, conns>> /\ req[r].pc = "asking" /\ Guarded(req[r])
      /\ req[r].pc \in UnderWay
  BY DEF Answer, StaleInv, AllGuarded, UnderWay
<1>2. /\ p \in Proxies /\ host \in Names
      /\ req[r].since \in Nat /\ now <= req[r].since + Timeout
      /\ req[r].addrs = dns[host] \/ last.pointed[host] >= req[r].since
  BY <1>1 DEF Guarded
<1>3. /\ now \in Nat /\ last.pointed[host] \in Int
      /\ DOMAIN last = {"pointed", "moved", "failed"}
      /\ last.failed \in [Proxies -> [Names -> Int]]
  BY <1>2 DEF StaleInv, WorldTyped
<1>4. PICK addrs, count, seen :
        /\ Remember(p, host, addrs)
        /\ Decide(r, addrs, count, seen)
        /\ \/ addrs = req[r].addrs /\ seen = last
           \/ seen = [last EXCEPT !.failed[p][host] = now]
  BY DEF Answer
<1>5. /\ DOMAIN seen = {"pointed", "moved", "failed"}
      /\ seen.pointed = last.pointed /\ seen.moved = last.moved
      /\ seen.failed \in [Proxies -> [Names -> Int]]
      /\ \A x \in Proxies, n \in Names : seen.failed[x][n] \in {last.failed[x][n], now}
      /\ addrs = req[r].addrs \/ seen.failed[p][host] = now
  BY <1>2, <1>3, <1>4
<1>6. \/ addrs = dns[host]
      \/ last.pointed[host] >= now - Timeout
      \/ seen.failed[p][host] = now
  BY <1>2, <1>3, <1>5, TTLAssumption
<1>7. \/ Hosted(host) \subseteq addrs
      \/ (host \in Names
          /\ (\/ now - last.pointed[host] < DnsTTL + Timeout
              \/ now - seen.failed[p][host] < DnsTTL))
      \/ now - last.moved[p] < AddrTTL
  BY <1>2, <1>3, <1>6, TTLAssumption DEF Hosted
<1>8. /\ AllGuarded' /\ AddrsKnown' /\ StandsStill /\ WorldTyped' /\ ListensThere'
      /\ ConnsTyped' /\ last'.failed = seen.failed
  BY <1>1, <1>2, <1>4, <1>5, <1>7, DecideGuarded
<1>9. NamesKnown'
  BY <1>2, <1>4, <1>6, <1>8, RememberKeeps
<1> QED BY <1>8, <1>9 DEF StaleInv

\* Where a request goes, that proxy's guard is asked again.
LEMMA ArriveGuarded ==
  ASSUME StaleInv, StandsStill, NEW r \in Requests, req[r].pc = "cleared",
         NEW x \in Proxies, NEW via, NEW by, NEW host \in Names \cup Addrs, NEW port,
         NEW front \in Names \cup Addrs, NEW header, NEW hops \in Nat,
         Arrive(r, x, via, by, host, port, front, header, hops)
  PROVE  AllGuarded'
<1> PICK q : q = [req[r] EXCEPT !.pc = "arrived", !.at = x, !.via = via, !.by = by,
                                !.host = host, !.port = port, !.front = front,
                                !.header = header, !.hops = hops, !.since = 0]
  OBVIOUS
<1>1. DOMAIN req[r] = Fields /\ DOMAIN req = Requests
  BY DEF StaleInv, AllGuarded, Shaped
<1>2. /\ DOMAIN q = Fields /\ q.pc = "arrived" /\ q.at = x /\ q.host = host /\ q.hops = hops
      /\ q.front = front
  BY <1>1 DEF Fields
<1>3. req' = [req EXCEPT ![r] = q]
  BY <1>1 DEF Arrive
<1>4. Guarded(q)'
  BY <1>2 DEF Guarded, UnderWay
<1> QED BY <1>2, <1>3, <1>4, OneGuarded

\* The host that serves a virtual host is a name or an address.
LEMMA ServedSomewhere ==
  ASSUME StaleInv, NEW r \in Requests, req[r].pc = "cleared", Lookup(req[r]) # None
  PROVE  Lookup(req[r]).host \in Names \cup Addrs
<1>1. /\ req[r].at \in Proxies /\ req[r].host \in Names \cup Addrs
      /\ req[r].front \in Names \cup Addrs \cup {None}
  BY DEF StaleInv, AllGuarded, Guarded, UnderWay
<1> QED BY <1>1, RemoteAssumption DEF Lookup

LEMMA ForwardStale ==
  ASSUME StaleInv, NEW r \in Requests, Forward(r) \/ Serve(r) \/ FallBack(r) \/ End(r)
  PROVE  StaleInv'
<1>1. UNCHANGED <<world, cache, local, last>> /\ req[r].pc = "cleared"
  BY DEF Forward, Serve, FallBack, End
<1>2. StandsStill
  BY <1>1, QuietKeeps
<1>3. req[r].host \in Names \cup Addrs /\ req[r].hops \in Nat /\ OneMore(req[r].hops) \in Nat
  BY <1>1 DEF StaleInv, AllGuarded, Guarded, UnderWay, OneMore
<1>4. CASE Forward(r)
  <2>1. PICK c :
          /\ \/ c \in Dialled(req[r].at, req[r].host, req[r].port)
             \/ c \in Pooled(req[r].at, req[r].host, req[r].port)
          /\ Arrive(r, c.to, c.via, "forward", req[r].host, req[r].port, req[r].host,
                    HeaderOut(r), OneMore(req[r].hops))
          /\ conns' = IF req[r].kind = "ws" THEN conns ELSE conns \cup {c}
    BY <1>4 DEF Forward
  <2>2. c.to \in Proxies
    BY <2>1 DEF Dialled, Pooled, StaleInv, ConnsTyped
  <2>3. AllGuarded'
    BY <1>1, <1>2, <1>3, <2>1, <2>2, ArriveGuarded
  <2>4. ConnsTyped'
    BY <2>1, <2>2 DEF StaleInv, ConnsTyped
  <2> QED BY <1>1, <2>3, <2>4, QuietKeeps DEF StaleInv
<1>5. CASE Serve(r) \/ FallBack(r)
  <2>1. Lookup(req[r]) # None /\ UNCHANGED conns
    BY <1>5 DEF Serve, FallBack, Has
  <2>2. PICK vh : vh = Lookup(req[r]) /\ vh.host \in Names \cup Addrs
    BY <1>1, <2>1, ServedSomewhere
  <2>3. PICK x, by, host, port, header, hops :
          /\ x \in Proxies /\ host \in {req[r].host, vh.host}
          /\ hops \in {req[r].hops, OneMore(req[r].hops)}
          /\ Arrive(r, x, None, by, host, port, vh.host, header, hops)
    <3>1. CASE Serve(r)
      BY <2>2, <3>1 DEF Serve
    <3>2. CASE FallBack(r)
      BY <2>2, <3>2 DEF FallBack
    <3> QED BY <1>5, <3>1, <3>2
  <2>4. host \in Names \cup Addrs /\ hops \in Nat
    BY <1>3, <2>2, <2>3
  <2>5. AllGuarded'
    BY <1>1, <1>2, <2>2, <2>3, <2>4, ArriveGuarded
  <2> QED BY <1>1, <2>1, <2>5, QuietKeeps DEF StaleInv
<1>6. CASE End(r)
  BY <1>1, <1>2, <1>6, RefuseGuarded, QuietKeeps DEF End, StaleInv
<1> QED BY <1>4, <1>5, <1>6

-----------------------------------------------------------------------------
(* The steps of the world.                                                 *)

\* Time passes while requests wait for name servers and slots, and not for long.
LEMMA TickStale == StaleInv /\ Tick => StaleInv'
<1> SUFFICES ASSUME StaleInv, Tick PROVE StaleInv'
  OBVIOUS
<1>1. UNCHANGED <<moves, dns, ip, cache, local, conns, req, last>> /\ now' = now + 1 /\ now \in Nat
  BY DEF Tick, StaleInv, WorldTyped
<1>2. WorldTyped' /\ ListensThere' /\ ConnsTyped'
  BY <1>1 DEF StaleInv, WorldTyped, ListensThere, ConnsTyped
<1>3. NamesKnown'
  BY <1>1 DEF StaleInv, NamesKnown, NameKnown
<1>4. AddrsKnown'
  BY <1>1 DEF StaleInv, AddrsKnown
<1>5. ASSUME NEW r \in Requests PROVE Guarded(req[r])'
  <2>1. /\ Guarded(req[r])
        /\ req[r].pc = "asking" => now < req[r].since + Timeout
        /\ req[r].pc = "cleared" => now < req[r].since + SlotWait
    BY DEF Tick, StaleInv, AllGuarded
  <2> PICK q : q = req[r]
    OBVIOUS
  <2>2. Guarded(q)'
    BY <1>1, <2>1, TTLAssumption DEF Guarded, Stale, Elsewhere, Hosted
  <2> QED BY <1>1, <2>2 DEF Guarded
<1>6. AllGuarded'
  BY <1>1, <1>5 DEF StaleInv, AllGuarded, Shaped
<1> QED BY <1>2, <1>3, <1>4, <1>6 DEF StaleInv

\* Pointing a name elsewhere makes the knowledge about it, and only that, out of date.
LEMMA PointStale ==
  ASSUME StaleInv, NEW m \in Names, Point(m)
  PROVE  StaleInv'
<1>1. /\ UNCHANGED <<now, ip, cache, local, conns, req>> /\ now \in Nat
      /\ DOMAIN dns' = Names
      /\ \A n \in Names : n # m => dns'[n] = dns[n]
      /\ DOMAIN last' = {"pointed", "moved", "failed"}
      /\ last'.moved = last.moved /\ last'.failed = last.failed
      /\ last'.pointed = [last.pointed EXCEPT ![m] = now]
  BY DEF Point, StaleInv, WorldTyped
<1>2. /\ last'.pointed \in [Names -> Int] /\ last'.pointed[m] = now
      /\ \A n \in Names : n # m => last'.pointed[n] = last.pointed[n]
  BY <1>1 DEF StaleInv, WorldTyped
<1>3. WorldTyped' /\ ListensThere' /\ ConnsTyped'
  BY <1>1, <1>2 DEF StaleInv, WorldTyped, ListensThere, ConnsTyped
<1>4. ASSUME NEW p \in Proxies, NEW n \in Names PROVE NameKnown(p, n)'
  <2>1. NameKnown(p, n)
    BY DEF StaleInv, NamesKnown
  <2> QED BY <1>1, <1>2, <2>1, TTLAssumption DEF NameKnown
<1>5. NamesKnown' /\ AddrsKnown'
  BY <1>1, <1>4 DEF StaleInv, NamesKnown, AddrsKnown
<1>6. ASSUME NEW p \in Proxies, NEW host, NEW t \in Nat, t <= now, Stale(p, host, t)
      PROVE  Stale(p, host, t)'
  BY <1>1, <1>2, <1>6, TTLAssumption DEF Stale
<1>7. ASSUME NEW p \in Proxies, NEW t \in Nat, t <= now PROVE Stale(p, m, t)'
  BY <1>1, <1>2, <1>7, TTLAssumption DEF Stale
<1>8. ASSUME NEW q, Guarded(q) PROVE Guarded(q)'
  <2>1. q.pc = "asking" =>
          q.addrs = dns'[q.host] \/ last'.pointed[q.host] >= q.since
    BY <1>1, <1>2, <1>8 DEF Guarded
  <2>2. q.pc = "cleared" /\ q.port = Listen[q.at].port =>
          Stale(q.at, q.host, q.since)' \/ Elsewhere(q.at, Hosted(q.host))'
    <3> SUFFICES ASSUME q.pc = "cleared", q.port = Listen[q.at].port
                 PROVE  Stale(q.at, q.host, q.since)' \/ Elsewhere(q.at, Hosted(q.host))'
      OBVIOUS
    <3>1. /\ q.at \in Proxies /\ q.since \in Nat /\ q.since <= now
          /\ Stale(q.at, q.host, q.since) \/ Elsewhere(q.at, Hosted(q.host))
      BY <1>8 DEF Guarded, UnderWay
    <3>2. CASE q.host = m
      BY <1>7, <3>1, <3>2
    <3>3. CASE q.host # m
      <4> Elsewhere(q.at, Hosted(q.host)) => Elsewhere(q.at, Hosted(q.host))'
        BY <1>1, <3>3 DEF Elsewhere, Hosted
      <4> QED BY <1>6, <3>1
    <3> QED BY <3>2, <3>3
  <2> QED BY <1>1, <1>8, <2>1, <2>2 DEF Guarded
<1>9. ASSUME NEW r \in Requests PROVE Guarded(req[r])'
  <2>1. Guarded(req[r])
    BY DEF StaleInv, AllGuarded
  <2> PICK q : q = req[r]
    OBVIOUS
  <2>2. Guarded(q)' /\ req'[r] = q
    BY <1>1, <1>8, <2>1
  <2> QED BY <2>2 DEF Guarded
<1>10. AllGuarded'
  BY <1>1, <1>9 DEF StaleInv, AllGuarded, Shaped
<1> QED BY <1>3, <1>5, <1>10 DEF StaleInv

\* A new address of a proxy makes what it knows of its addresses out of date; a proxy
\* that listens on one address has no other.
LEMMA RenumberStale ==
  ASSUME StaleInv, NEW x \in Proxies, Renumber(x)
  PROVE  StaleInv'
<1>1. PICK a \in Addrs : ip' = [ip EXCEPT ![x] = a]
  BY DEF Renumber
<1>2. /\ UNCHANGED <<now, dns, cache, local, conns, req>> /\ now \in Nat
      /\ ip' \in [Proxies -> Addrs]
      /\ \A p \in Proxies : p # x => ip'[p] = ip[p]
      /\ Listen[x].addr = None
      /\ DOMAIN last' = {"pointed", "moved", "failed"}
      /\ last'.pointed = last.pointed /\ last'.failed = last.failed
      /\ last'.moved = [last.moved EXCEPT ![x] = now]
  BY <1>1 DEF Renumber, StaleInv, WorldTyped
<1>3. /\ last'.moved \in [Proxies -> Int] /\ last'.moved[x] = now
      /\ \A p \in Proxies : p # x => last'.moved[p] = last.moved[p]
  BY <1>2 DEF StaleInv, WorldTyped
<1>4. WorldTyped' /\ ListensThere' /\ ConnsTyped'
  BY <1>2, <1>3 DEF StaleInv, WorldTyped, ListensThere, ConnsTyped
<1>5. NamesKnown'
  BY <1>2 DEF StaleInv, NamesKnown, NameKnown
<1>6. AddrsKnown'
  BY <1>2, <1>3 DEF StaleInv, AddrsKnown
<1>7. ASSUME NEW p \in Proxies, NEW host, NEW t \in Nat, t <= now, Stale(p, host, t)
      PROVE  Stale(p, host, t)'
  BY <1>2, <1>3, <1>7, TTLAssumption DEF Stale
<1>8. ASSUME NEW host, NEW t \in Nat, t <= now PROVE Stale(x, host, t)'
  BY <1>2, <1>3, <1>8, TTLAssumption DEF Stale
<1>9. ASSUME NEW q, Guarded(q) PROVE Guarded(q)'
  <2>1. q.pc = "cleared" /\ q.port = Listen[q.at].port =>
          Stale(q.at, q.host, q.since)' \/ Elsewhere(q.at, Hosted(q.host))'
    <3> SUFFICES ASSUME q.pc = "cleared", q.port = Listen[q.at].port
                 PROVE  Stale(q.at, q.host, q.since)' \/ Elsewhere(q.at, Hosted(q.host))'
      OBVIOUS
    <3>1. /\ q.at \in Proxies /\ q.since \in Nat /\ q.since <= now
          /\ Stale(q.at, q.host, q.since) \/ Elsewhere(q.at, Hosted(q.host))
      BY <1>9 DEF Guarded, UnderWay
    <3>2. CASE q.at = x
      BY <1>8, <3>1, <3>2
    <3>3. CASE q.at # x
      <4>1. Elsewhere(q.at, Hosted(q.host)) => Elsewhere(q.at, Hosted(q.host))'
        BY <1>2, <3>1, <3>3 DEF Elsewhere, Hosted
      <4>2. Stale(q.at, q.host, q.since) => Stale(q.at, q.host, q.since)'
        BY <1>7, <3>1
      <4> QED BY <3>1, <4>1, <4>2
    <3> QED BY <3>2, <3>3
  <2> QED BY <1>2, <1>9, <2>1 DEF Guarded
<1>10. ASSUME NEW r \in Requests PROVE Guarded(req[r])'
  <2>1. Guarded(req[r])
    BY DEF StaleInv, AllGuarded
  <2> PICK q : q = req[r]
    OBVIOUS
  <2>2. Guarded(q)' /\ req'[r] = q
    BY <1>2, <1>9, <2>1
  <2> QED BY <2>2 DEF Guarded
<1>11. AllGuarded'
  BY <1>2, <1>10 DEF StaleInv, AllGuarded, Shaped
<1> QED BY <1>4, <1>5, <1>6, <1>11 DEF StaleInv

LEMMA NextStale == StaleInv /\ [Next]_vars => StaleInv'
<1> SUFFICES ASSUME StaleInv, [Next]_vars PROVE StaleInv'
  OBVIOUS
<1>1. CASE \E r \in Requests : Send(r) \/ Step(r)
  BY <1>1, SendStale, CheckStale, AnswerStale, ForwardStale DEF Step
<1>2. CASE Tick \/ (\E n \in Names : Point(n)) \/ (\E p \in Proxies : Renumber(p))
  BY <1>2, TickStale, PointStale, RenumberStale
<1>3. CASE UNCHANGED vars
  BY <1>3 DEF vars, StaleInv, WorldTyped, ConnsTyped, ListensThere, NamesKnown, NameKnown,
              AddrsKnown, AllGuarded, Shaped, Guarded, Stale, Elsewhere, Hosted
<1> QED BY <1>1, <1>2, <1>3 DEF Next

-----------------------------------------------------------------------------
\* The step in which a proxy opens a connection to itself is a Forward that the guard let
\* through.
LEMMA SelfHopForwards ==
  ASSUME StaleInv, Next, NEW r \in Requests, SelfHop(r), ~Reuses(r)
  PROVE  /\ req[r].pc = "cleared" /\ req[r].port = Listen[req[r].at].port
         /\ ~Elsewhere(req[r].at, Hosted(req[r].host))
<1>1. DOMAIN req = Requests /\ req[r].hops \in Nat /\ DOMAIN req[r] = Fields
  BY DEF StaleInv, AllGuarded, Shaped, Guarded
<1>2. req[r].pc = "cleared" /\ req'[r].pc = "arrived" /\ req'[r].by = "forward"
  BY <1>1 DEF SelfHop
<1>3. PICK s \in Requests : Send(s) \/ Step(s)
  BY <1>2 DEF Next, Tick, Point, Renumber
<1>4. ~Refuse(s)
  BY <1>1, <1>2 DEF Refuse, Idle
<1>5. ~Cleared(s)
  BY <1>1, <1>2, <1>4 DEF Cleared, Fields
<1>6. ~Send(s)
  BY <1>1, <1>2 DEF Send
<1>7. ~Check(s)
  BY <1>1, <1>2, <1>4, <1>5 DEF Check, Decide, Fields
<1>8. ~Answer(s) /\ ~End(s)
  BY <1>4, <1>5 DEF Answer, Decide, End
<1>9. ASSUME NEW x, NEW via, NEW by, NEW host, NEW port, NEW front, NEW header, NEW hops,
             Arrive(s, x, via, by, host, port, front, header, hops)
      PROVE  s = r /\ req'[r].at = x /\ req'[r].via = via /\ by = "forward"
  <2>1. s = r
    BY <1>1, <1>2, <1>9 DEF Arrive
  <2>2. req'[r] = [req[r] EXCEPT !.pc = "arrived", !.at = x, !.via = via, !.by = by,
                                 !.host = host, !.port = port, !.front = front,
                                 !.header = header, !.hops = hops, !.since = 0]
    BY <1>1, <1>9, <2>1 DEF Arrive
  <2>3. req'[r].at = x /\ req'[r].via = via /\ req'[r].by = by
    BY <1>1, <2>2 DEF Fields
  <2> QED BY <1>2, <2>1, <2>3
<1>10. ~Serve(s)
  BY <1>9 DEF Serve
<1>11. ~FallBack(s)
  BY <1>9 DEF FallBack
<1>12. Forward(s)
  BY <1>3, <1>6, <1>7, <1>8, <1>10, <1>11 DEF Step
<1>13. PICK c :
         /\ c \in Dialled(req[s].at, req[s].host, req[s].port)
              \/ c \in Pooled(req[s].at, req[s].host, req[s].port)
         /\ Arrive(s, c.to, c.via, "forward", req[s].host, req[s].port, req[s].host,
                   HeaderOut(s), OneMore(req[s].hops))
  BY <1>12 DEF Forward
<1>14. s = r /\ req'[r].at = c.to /\ req'[r].via = c.via
  BY <1>9, <1>13
<1>15. c \in Dialled(req[r].at, req[r].host, req[r].port)
  BY <1>13, <1>14 DEF Reuses, SelfHop
<1>16. /\ c.via \in Hosted(req[r].host) /\ req[r].at \in Reached(req[r].at, c.via, req[r].port)
       /\ Behind[c.via] = {}
  BY <1>14, <1>15 DEF Dialled, SelfHop
<1>17. req[r].port = Listen[req[r].at].port /\ (c.via = Loopback \/ c.via = ip[req[r].at])
  BY <1>16 DEF Reached
<1> QED BY <1>12, <1>14, <1>16, <1>17 DEF Forward, Elsewhere

\* For any number of proxies, names, addresses, balancers and virtual hosts, any lifetimes
\* of the caches, any wait for a slot and any moment at which names and addresses change
\* or cannot be looked up: a proxy opens a connection to itself only while what its guard
\* knew is out of date (IsSelf, loopguard.go:84).
THEOREM LoopsCorrect == Spec => LoopsOnlyWhileStale
<1>1. ASSUME StaleInv, Next, NEW r \in Requests, SelfHop(r), ~Reuses(r),
             NEW p, p = req[r].at, NEW n, n = req[r].host
      PROVE  \/ Since(last.moved[p]) < AddrTTL + SlotWait
             \/ /\ n \in Names
                /\ \/ Since(last.pointed[n]) < DnsTTL + Timeout + SlotWait
                   \/ Since(last.failed[p][n]) < DnsTTL + SlotWait
  <2>1. /\ req[r].pc = "cleared" /\ req[r].port = Listen[p].port
        /\ ~Elsewhere(p, Hosted(n))
    BY <1>1, SelfHopForwards
  <2> PICK t : t = req[r].since
    OBVIOUS
  <2>2. /\ p \in Proxies /\ Stale(p, n, t)
        /\ t \in Nat /\ now <= t + SlotWait
    BY <1>1, <2>1 DEF StaleInv, AllGuarded, Guarded, UnderWay
  <2>3. /\ now \in Nat /\ last.moved[p] \in Int
        /\ n \in Names => last.pointed[n] \in Int /\ last.failed[p][n] \in Int
    BY <1>1, <2>2 DEF StaleInv, WorldTyped
  <2> QED BY <2>2, <2>3, TTLAssumption DEF Stale, Since
<1>2. StaleInv /\ [Next]_vars =>
        [\A r \in Requests :
           SelfHop(r) /\ ~Reuses(r) =>
             LET p == req[r].at
                 n == req[r].host
             IN \/ Since(last.moved[p]) < AddrTTL + SlotWait
                \/ /\ n \in Names
                   /\ \/ Since(last.pointed[n]) < DnsTTL + Timeout + SlotWait
                      \/ Since(last.failed[p][n]) < DnsTTL + SlotWait]_vars
  BY <1>1
<1> QED BY InitStale, NextStale, <1>2, PTL DEF Spec, LoopsOnlyWhileStale
=============================================================================
