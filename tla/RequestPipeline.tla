--------------------------- MODULE RequestPipeline ---------------------------
(***************************************************************************)
(* The life of a request in the proxy (internal/server.go): session, the   *)
(* early answers of ServeHTTP in their order, cache, concurrency slot,     *)
(* origin, fallback virtual host, processResponse; with the addon list     *)
(* replaced at any moment by the hot reload, and clients that leave.       *)
(*                                                                         *)
(* All requests of an instance ask for one URL, in one of two forms: with  *)
(* _cifera_ parameters in the query ("param") or without ("plain", the host*)
(* taken from the Referer).  An addon list is a sequence of addons; of the *)
(* rules that match the URL only their presence counts.  The cookie jar is *)
(* the set of cookies written to it; cleanup and reload of jars are left to*)
(* JarManager.  Cookies are enabled, as they are by default.               *)
(***************************************************************************)
EXTENDS Integers, Sequences, FiniteSets

CONSTANTS
  Requests,   \* 1 .. n, numbered in the order of their arrival
  Clients,    \* browsers; each sends the sid it was given last
  Kinds,      \* requests that arrive: [client, to, hops, ws, vhost, get, form, sync]
  Origin,     \* responses the origin may give: [by, ok, html, enc, cacheable, cookies, push]
  Served,     \* responses a virtual host may give
  Lists,      \* addon lists: sequences of [block, replace : BOOLEAN, for : SUBSET Clients]
  Managed,    \* clients of a registered tenant
  Slots,      \* capacity of sem (4096 in the code)
  MaxReloads, \* bound on the reloads, for model checking
  None

ASSUME SlotsAssumption == Slots \in Nat /\ MaxReloads \in Nat
ASSUME RequestsAssumption ==
  /\ IsFiniteSet(Requests) /\ Requests = 1 .. Cardinality(Requests)
  /\ None \notin Requests
ASSUME ListsAssumption ==
  /\ Lists \subseteq Seq([block : BOOLEAN, replace : BOOLEAN, for : SUBSET Clients])
  /\ None \notin Lists

Forms == {"param", "plain"}
Hosts == {"ops", "none", "api", "self", "site"}
VHosts == {"none", "override", "local", "remote"}  \* a directory that overrides; two fallbacks
Kind == [client : Clients, to : Hosts, hops : Int, ws : BOOLEAN, vhost : VHosts,
         get : BOOLEAN, form : Forms, sync : BOOLEAN]
Response == [by : {"origin", "vhost"}, ok : BOOLEAN, html : BOOLEAN,
             enc : {"none", "good", "bad"}, cacheable : BOOLEAN,
             cookies : BOOLEAN,  \* it has Set-Cookie headers
             push : BOOLEAN]     \* it has Cifera-Cookie-Push, which the proxy sets

ASSUME KindsAssumption ==
  /\ Kinds \subseteq Kind /\ None \notin Kinds
  /\ \A k \in Kinds : k.to = "none" => k.vhost = "none"
ASSUME ResponsesAssumption ==
  /\ Origin \cup Served \subseteq Response /\ None \notin Response
  /\ \A a \in Origin : a.by = "origin" /\ ~a.push
  /\ \A a \in Served : a.by = "vhost" /\ ~a.push

VARIABLES
  pc,        \* where each handler is
  kind,      \* what was asked
  sid,       \* the session: the one the browser sent, then the one in use
  isNew,     \* GetOrCreateJar made the jar
  via,       \* "proxy" or "override": who calls processResponse
  orig,      \* what the origin answered
  resp,      \* the response in processResponse
  replaced,  \* isReplaced
  answer,    \* what went to the client
  left,      \* clients' connections that are gone
  sem,       \* slots taken
  told,      \* client -> the sid its browser holds
  jars,      \* session -> cookies written to its jar, or None
  cache,     \* form of the URL -> entry or None
  current,   \* the addon list installed last
  writer,    \* the list ReplaceAddons is installing, or None
  data,      \* the slice header h.addons: its elements ...
  length,    \* ... and its length
  reloads,
  inForce,   \* history: the lists that were installed while a request ran
  rules      \* history: the lists its response was processed with

handler == <<pc, kind, sid, isNew, via, orig, resp, replaced, answer, inForce, rules>>
addons == <<current, writer, data, length, reloads>>
vars == <<handler, left, sem, told, jars, cache, addons>>

Sessions == Requests   \* a session is named after the request that began it
\* Cookies are named after who set them, and the request.
Cookies == {"page", "origin", "vhost"} \X Requests
ASSUME NoneAssumption == \A jar \in SUBSET Cookies : jar # None

Active == {r \in Requests : pc[r] \notin {"idle", "done"}}
Processing == {"tenant", "replace", "inject", "finish"}
Holding == {r \in Requests : pc[r] \in {"sent"} \cup Processing /\ via[r] = "proxy"}

\* The headers of an answer name the session that is told its id, and the requests
\* whose writes are acknowledged and whose origin's cookies are pushed.
NoAnswer == [kind |-> "none", by |-> None, sid |-> None, ack |-> None, push |-> None, raw |-> FALSE]
Plain(k) == [NoAnswer EXCEPT !.kind = k]

-----------------------------------------------------------------------------
(* Answers.  A handler that returns, or panics, gives its slot back.       *)

Release(r) == sem' = IF r \in Holding THEN sem - 1 ELSE sem

\* The handler is done; the browser sees the answer unless its client has left.
Answer(r, a) ==
  /\ pc' = [pc EXCEPT ![r] = "done"]
  /\ answer' = [answer EXCEPT ![r] = IF left[r] THEN Plain("gone") ELSE a]
  /\ told' = IF a.sid = None \/ left[r] THEN told ELSE [told EXCEPT ![kind[r].client] = a.sid]
  /\ Release(r)
  /\ UNCHANGED <<kind, via, left, inForce, addons>>

Goto(r, to) ==
  /\ pc' = [pc EXCEPT ![r] = to]
  /\ UNCHANGED <<kind, answer, left, told, inForce, addons>>

-----------------------------------------------------------------------------
(* ServeHTTP.                                                              *)

\* A request arrives with the sid its browser holds.  The operation endpoints answer
\* at once; otherwise the session is found or begun, and the page's cookie writes go
\* into its jar.
Session(r) ==
  /\ pc[r] = "idle"
  /\ \A q \in Requests : q < r => pc[q] # "idle"
  /\ \E k \in Kinds :
       /\ kind' = [kind EXCEPT ![r] = k]
       /\ \/ /\ k.to = "ops"
             /\ pc' = [pc EXCEPT ![r] = "done"]
             /\ answer' = [answer EXCEPT ![r] = Plain("ops")]
             /\ UNCHANGED <<sid, isNew, jars>>
          \/ /\ k.to = "none"
             /\ pc' = [pc EXCEPT ![r] = "route"]
             /\ UNCHANGED <<sid, isNew, jars, answer>>
          \/ /\ k.to \notin {"ops", "none"}
             /\ LET s == IF told[k.client] = None THEN r ELSE told[k.client]
                    jar == IF jars[s] = None THEN {} ELSE jars[s]
                IN /\ sid' = [sid EXCEPT ![r] = s]
                   /\ isNew' = [isNew EXCEPT ![r] = jars[s] = None]
                   /\ jars' = [jars EXCEPT ![s] = jar \cup IF k.sync THEN {<<"page", r>>} ELSE {}]
             /\ pc' = [pc EXCEPT ![r] = "route"]
             /\ UNCHANGED answer
  /\ inForce' = [inForce EXCEPT ![r] = {current, writer} \ {None}]
  /\ UNCHANGED <<via, orig, resp, replaced, rules, left, sem, told, cache, addons>>

Blocks(list) == \E i \in DOMAIN list : list[i].block

\* nextMaxForwards: what the next hop is given, at most limit - 1.
MaxForwardsLimit == 10
NextMaxForwards(hops) == (IF hops < MaxForwardsLimit THEN hops ELSE MaxForwardsLimit) - 1

\* Mutant: virtual hosts are looked at before the block rules.
BranchVHostFirst(k, list) ==
  IF k.to = "api" THEN "api"
  ELSE IF k.to = "self" \/ NextMaxForwards(k.hops) < 0 THEN "loop"
  ELSE IF k.vhost = "override" THEN "override"
  ELSE IF k.to # "none" /\ Blocks(list) THEN "block"
  ELSE IF k.ws /\ k.to # "none" THEN "ws"
  ELSE IF k.to = "none" THEN "missing"
  ELSE "lookup"

\* The order in which ServeHTTP decides.
Branch(k, list) ==
  IF k.to = "api" THEN "api"
  ELSE IF k.to = "self" \/ NextMaxForwards(k.hops) < 0 THEN "loop"
  ELSE IF k.to # "none" /\ Blocks(list) THEN "block"
  ELSE IF k.ws /\ k.to # "none" THEN "ws"
  ELSE IF k.vhost = "override" THEN "override"
  ELSE IF k.to = "none" THEN "missing"
  ELSE "lookup"

ReadsRules(k) == k.to = "site" /\ NextMaxForwards(k.hops) >= 0

\* Everything up to the cache.  The block rules are read from h.addons without the
\* lock: the elements of one list may meet the length of another.  Reading beyond
\* the elements ends the handler.
Route(r) ==
  /\ pc[r] = "route"
  /\ LET branch == Branch(kind[r], SubSeq(data, 1, length))
         torn == ReadsRules(kind[r]) /\ length > Len(data)  \* beyond the end of the array
     IN \/ /\ torn
           /\ Answer(r, Plain("panic"))
           /\ UNCHANGED <<resp>>
        \/ /\ ~torn
           /\ branch = "override"
           /\ pc' = [pc EXCEPT ![r] = "tenant"]
           /\ via' = [via EXCEPT ![r] = "override"]
           /\ \E a \in Served : resp' = [resp EXCEPT ![r] = a]
           /\ UNCHANGED <<kind, answer, left, told, inForce, addons, sem>>
        \/ /\ ~torn
           /\ branch = "lookup"
           /\ Goto(r, IF kind[r].get THEN "lookup" ELSE "slot")
           /\ UNCHANGED <<resp, sem, via>>
        \/ /\ ~torn
           /\ branch \notin {"override", "lookup"}
           /\ Answer(r, Plain(branch))
           /\ UNCHANGED <<resp>>
  /\ UNCHANGED <<sid, isNew, orig, replaced, rules, jars, cache>>

\* The cache is asked under the URL as it came.  An entry has the headers the response
\* it was made from had: session cookie, acknowledgement and pushed cookies too.
Lookup(r) ==
  /\ pc[r] = "lookup"
  /\ LET e == cache[kind[r].form]
     IN \/ /\ e # None
           /\ Answer(r, [kind |-> "cache", by |-> e.resp.by, sid |-> e.sid, ack |-> e.ack,
                         push |-> e.push, raw |-> e.resp.cookies])
        \/ /\ e = None
           /\ Goto(r, "slot")
           /\ UNCHANGED <<sem, via>>
  /\ UNCHANGED <<sid, isNew, orig, resp, replaced, rules, jars, cache>>

\* The three cases of the select.
TakeSlot(r) ==
  /\ pc[r] = "slot"
  /\ sem < Slots
  /\ sem' = sem + 1
  /\ via' = [via EXCEPT ![r] = "proxy"]
  /\ Goto(r, "sent")
  /\ UNCHANGED <<sid, isNew, orig, resp, replaced, rules, jars, cache>>

GiveUp(r) ==
  /\ pc[r] = "slot"
  /\ left[r]
  /\ Answer(r, Plain("gone"))
  /\ UNCHANGED <<sid, isNew, orig, resp, replaced, rules, jars, cache>>

Busy(r) ==
  /\ pc[r] = "slot"
  /\ Answer(r, Plain("busy"))
  /\ UNCHANGED <<sid, isNew, orig, resp, replaced, rules, jars, cache>>

-----------------------------------------------------------------------------
(* The reverse proxy and processResponse.                                  *)

\* The transport fails or times out, or the client left: ErrorHandler.
OriginFails(r) ==
  /\ pc[r] = "sent"
  /\ Answer(r, Plain("bad gateway"))
  /\ UNCHANGED <<sid, isNew, orig, resp, replaced, rules, jars, cache>>

\* fallback_status as it is by default: 4xx and 5xx.
FallsBack(k, a) == k.vhost \in {"local", "remote"} /\ ~a.ok

FallbackHit(r) == via[r] = "proxy" /\ orig[r] # None /\ FallsBack(kind[r], orig[r])

\* Mutant: the slot of a handler that panics is not given back.
ModifyKeepingSlot(r) ==
  /\ pc[r] = "sent"
  /\ \E a \in Origin :
       /\ orig' = [orig EXCEPT ![r] = a]
       /\ \/ /\ ~FallsBack(kind[r], a)
             /\ resp' = [resp EXCEPT ![r] = a]
             /\ Goto(r, "tenant")
          \/ /\ FallsBack(kind[r], a)
             /\ pc' = [pc EXCEPT ![r] = "done"]
             /\ UNCHANGED <<resp, kind, answer, left, told, inForce, addons>>
  /\ UNCHANGED <<sid, isNew, via, replaced, rules, sem, jars, cache>>

\* The origin answers: ModifyResponse.  A response made by the virtual host itself (a
\* file, an error) belongs to no request, and processResponse panics on it.
Modify(r) ==
  /\ pc[r] = "sent"
  /\ \E a \in Origin :
       /\ orig' = [orig EXCEPT ![r] = a]
       /\ \/ /\ ~FallsBack(kind[r], a)
             /\ resp' = [resp EXCEPT ![r] = a]
             /\ Goto(r, "tenant")
             /\ UNCHANGED <<sem, via>>
          \/ /\ FallsBack(kind[r], a)
             /\ kind[r].vhost = "remote"
             /\ \E b \in Served : resp' = [resp EXCEPT ![r] = b]
             /\ Goto(r, "tenant")
             /\ UNCHANGED <<sem, via>>
          \/ /\ FallsBack(kind[r], a)
             /\ Answer(r, Plain("panic"))
             /\ UNCHANGED resp
  /\ UNCHANGED <<sid, isNew, replaced, rules, jars, cache>>

\* loadAddons: the list, read with the lock.
Load(r) ==
  /\ writer = None
  /\ rules' = [rules EXCEPT ![r] = @ \cup {current}]

\* tenantInjectContext.
TenantContext(r) ==
  /\ pc[r] = "tenant"
  /\ IF kind[r].client \in Managed THEN Load(r) ELSE UNCHANGED rules
  /\ Goto(r, "replace")
  /\ UNCHANGED <<sid, isNew, via, orig, resp, replaced, sem, jars, cache>>

\* MatchReplace finds the first addon with a matching rule; whether the tenant may
\* use that addon is asked afterwards.
Replaces(list, client) ==
  \E i \in DOMAIN list :
    /\ list[i].replace
    /\ \A j \in 1 .. i - 1 : ~list[j].replace
    /\ client \in Managed => client \in list[i].for

\* Mutant: the rules are read without the lock.
ReplaceUnlocked(r) ==
  /\ pc[r] = "replace"
  /\ length <= Len(data)
  /\ LET list == SubSeq(data, 1, length)
     IN /\ rules' = [rules EXCEPT ![r] = @ \cup {list}]
        /\ replaced' = [replaced EXCEPT ![r] = Replaces(list, kind[r].client)]
        /\ Goto(r, IF replaced'[r] THEN "finish" ELSE "inject")
  /\ UNCHANGED <<sid, isNew, via, orig, resp, sem, jars, cache>>

Replace(r) ==
  /\ pc[r] = "replace"
  /\ Load(r)
  /\ replaced' = [replaced EXCEPT ![r] = Replaces(current, kind[r].client)]
  /\ resp' = IF replaced'[r] THEN [resp EXCEPT ![r].enc = "none"] ELSE resp
  /\ Goto(r, IF replaced'[r] THEN "finish" ELSE "inject")
  /\ UNCHANGED <<sid, isNew, via, orig, sem, jars, cache>>

\* Set-Cookie leaves the response, and the page is told by Cifera-Cookie-Push.
Extracted(a) == [a EXCEPT !.cookies = FALSE, !.push = a.cookies]

\* Mutant: the response's cookies replace the jar.
InjectAnew(r) ==
  /\ pc[r] = "inject"
  /\ Load(r)
  /\ jars' = IF resp[r].cookies THEN [jars EXCEPT ![sid[r]] = {<<resp[r].by, r>>}] ELSE jars
  /\ resp' = [resp EXCEPT ![r] = Extracted(@)]
  /\ Goto(r, "finish")
  /\ UNCHANGED <<sid, isNew, via, orig, replaced, sem, cache>>

\* MatchInjectFor, and Set-Cookie goes from the response into the jar.
Inject(r) ==
  /\ pc[r] = "inject"
  /\ Load(r)
  /\ jars' = IF resp[r].cookies THEN [jars EXCEPT ![sid[r]] = @ \cup {<<resp[r].by, r>>}] ELSE jars
  /\ resp' = [resp EXCEPT ![r] = Extracted(@)]
  /\ Goto(r, "finish")
  /\ UNCHANGED <<sid, isNew, via, orig, replaced, sem, cache>>

\* HTML that cannot be decoded or rewritten.
Broken(r) == ~replaced[r] /\ resp[r].html /\ resp[r].enc = "bad"

\* The response as processResponse leaves it, with the headers it added.
Processed(r) ==
  [kind |-> IF replaced[r] THEN "replaced" ELSE via[r],
   by   |-> IF replaced[r] THEN "addon" ELSE IF Broken(r) THEN None ELSE resp[r].by,
   sid  |-> IF isNew[r] /\ ~replaced[r] THEN sid[r] ELSE None,
   ack  |-> IF kind[r].sync /\ ~replaced[r] THEN r ELSE None,
   push |-> IF resp[r].push THEN r ELSE None,
   raw  |-> resp[r].cookies]

\* What is written to the client.  The reverse proxy writes the origin's response
\* even when ModifyResponse processed another one in its place; its body was closed.
Written(r) ==
  IF via[r] = "proxy" /\ Broken(r) THEN Plain("bad gateway")
  ELSE IF FallbackHit(r) THEN [Plain("cut") EXCEPT !.raw = orig[r].cookies]
  ELSE Processed(r)

\* Not HTML, not compressed, IsCacheable.
Stores(r) == /\ kind[r].get
             /\ resp[r].ok /\ resp[r].cacheable
             /\ ~resp[r].html /\ resp[r].enc = "none"

\* The request of a proxied response is the outgoing one, without parameters.
StoreForm(r) == IF via[r] = "proxy" THEN "plain" ELSE kind[r].form

\* What is stored are the headers of the response as they are by then.
Stored(r) == [cache EXCEPT ![StoreForm(r)] =
                [resp |-> resp[r], sid |-> Processed(r).sid, ack |-> Processed(r).ack,
                 push |-> Processed(r).push]]

\* Mutant: replaced responses are stored as well.
FinishStoringAll(r) ==
  /\ pc[r] = "finish"
  /\ cache' \in IF Stores(r) THEN {cache, Stored(r)} ELSE {cache}
  /\ Answer(r, Written(r))
  /\ UNCHANGED <<sid, isNew, orig, resp, replaced, rules, jars>>

\* The rest of processResponse and the answer.  The cache may drop the response
\* at once; when it forgets one later is left to ResponseCache.
Finish(r) ==
  /\ pc[r] = "finish"
  /\ cache' \in IF Stores(r) /\ ~replaced[r] THEN {cache, Stored(r)} ELSE {cache}
  /\ Answer(r, Written(r))
  /\ UNCHANGED <<sid, isNew, orig, resp, replaced, rules, jars>>

-----------------------------------------------------------------------------
(* The rest of the world.                                                  *)

\* A client disconnects and its request's context is cancelled.  Before the slot this
\* is noticed at the slot, and after the origin's answer when the answer is written.
Leave(r) ==
  /\ pc[r] \in {"slot", "sent"}
  /\ left' = [left EXCEPT ![r] = TRUE]
  /\ UNCHANGED <<handler, sem, told, jars, cache, addons>>

\* ReplaceAddons, with the lock held: a slice is more than one word ...
BeginReplace(list) ==
  /\ writer = None
  /\ reloads < MaxReloads
  /\ reloads' = reloads + 1
  /\ writer' = list
  /\ \/ data' = list /\ UNCHANGED length
     \/ length' = Len(list) /\ UNCHANGED data
  /\ inForce' = [r \in Requests |-> IF r \in Active THEN inForce[r] \cup {list} ELSE inForce[r]]
  /\ UNCHANGED <<pc, kind, sid, isNew, via, orig, resp, replaced, answer, rules, left, sem, told,
                 jars, cache, current>>

\* Mutant: the lock is not released.
EndReplaceLocked ==
  /\ writer # None
  /\ data' = writer
  /\ length' = Len(writer)
  /\ current' = writer
  /\ UNCHANGED <<handler, left, sem, told, jars, cache, reloads, writer>>

\* ... and when the last one is written the list is installed.
EndReplace ==
  /\ writer # None
  /\ data' = writer
  /\ length' = Len(writer)
  /\ current' = writer
  /\ writer' = None
  /\ UNCHANGED <<handler, left, sem, told, jars, cache, reloads>>

-----------------------------------------------------------------------------
Init ==
  /\ pc = [r \in Requests |-> "idle"]
  /\ kind = [r \in Requests |-> None]
  /\ sid = [r \in Requests |-> None]
  /\ isNew = [r \in Requests |-> FALSE]
  /\ via = [r \in Requests |-> None]
  /\ orig = [r \in Requests |-> None]
  /\ resp = [r \in Requests |-> None]
  /\ replaced = [r \in Requests |-> FALSE]
  /\ answer = [r \in Requests |-> NoAnswer]
  /\ left = [r \in Requests |-> FALSE]
  /\ sem = 0
  /\ told = [c \in Clients |-> None]
  /\ jars = [s \in Sessions |-> None]
  /\ cache = [f \in Forms |-> None]
  /\ current \in Lists
  /\ writer = None
  /\ data = current
  /\ length = Len(current)
  /\ reloads = 0
  /\ inForce = [r \in Requests |-> {}]
  /\ rules = [r \in Requests |-> {}]

\* What a handler does once it runs.
Handle(r) ==
  \/ Route(r)
  \/ Lookup(r)
  \/ TakeSlot(r)
  \/ GiveUp(r)
  \/ Busy(r)
  \/ OriginFails(r)
  \/ Modify(r)
  \/ TenantContext(r)
  \/ Replace(r)
  \/ Inject(r)
  \/ Finish(r)

Next ==
  \/ \E r \in Requests : Session(r) \/ Handle(r) \/ Leave(r)
  \/ \E list \in Lists : BeginReplace(list)
  \/ EndReplace

Spec == Init /\ [][Next]_vars /\ (\A r \in Requests : WF_vars(Handle(r))) /\ WF_vars(EndReplace)

-----------------------------------------------------------------------------
Entry == [resp : Response, sid : Sessions \cup {None}, ack : Requests \cup {None},
          push : Requests \cup {None}]
Answers == [kind : {"none", "ops", "api", "loop", "block", "ws", "override", "missing", "cache",
                    "busy", "gone", "bad gateway", "panic", "cut", "replaced", "proxy"},
            by   : {"origin", "vhost", "addon", None},
            sid  : Sessions \cup {None},
            ack  : Requests \cup {None},
            push : Requests \cup {None},
            raw  : BOOLEAN]

HandlersTyped ==
  /\ pc \in [Requests -> {"idle", "route", "lookup", "slot", "sent", "done"} \cup Processing]
  /\ kind \in [Requests -> Kinds \cup {None}]
  /\ sid \in [Requests -> Sessions \cup {None}]
  /\ isNew \in [Requests -> BOOLEAN]
  /\ via \in [Requests -> {"proxy", "override", None}]
  /\ orig \in [Requests -> Response \cup {None}]
  /\ resp \in [Requests -> Response \cup {None}]
  /\ replaced \in [Requests -> BOOLEAN]
  /\ answer \in [Requests -> Answers]
  /\ left \in [Requests -> BOOLEAN]
  /\ inForce \in [Requests -> SUBSET Lists]
  /\ rules \in [Requests -> SUBSET Lists]

SharedTyped ==
  /\ told \in [Clients -> Sessions \cup {None}]
  /\ jars \in [Sessions -> {None} \cup SUBSET Cookies]
  /\ cache \in [Forms -> Entry \cup {None}]
  /\ current \in Lists
  /\ writer \in Lists \cup {None}
  /\ data \in Lists
  /\ length \in Nat
  /\ reloads \in 0 .. MaxReloads

\* Every variable has its type.
TypeOK == HandlersTyped /\ SharedTyped /\ sem \in 0 .. Slots

\* Every slot taken belongs to a request between the semaphore and its answer, on
\* the paths through errors, panics and departed clients as well.
SlotsAccounted == sem = Cardinality(Holding)

\* While every list a request could see blocks its URL, and none is being installed,
\* the request reaches no virtual host, cache, websocket or origin.
BlockedStaysInside ==
  \A r \in Requests :
    (\E list \in Lists : inForce[r] = {list} /\ Blocks(list))
      => /\ orig[r] = None /\ resp[r] = None
         /\ answer[r].kind \notin {"cache", "ws", "override", "proxy", "replaced", "cut"}

\* The response is processed with lists that were installed while the request ran,
\* never with a mixture of two.
RulesInForce == \A r \in Requests : rules[r] \subseteq inForce[r]

\* Cookies are not lost between header and jar: what the origin set is in the jar of
\* the session when the request is over, even if the page was undecodable or the
\* client gone, and what is acknowledged to the page is there as well.  Two paths
\* bypass the jar, and there the origin's cookies are in no jar, although
\* docs/cookie.md:42 says that all are stored and removed: a response an addon
\* replaced, and one in whose place a fallback virtual host is asked.
CookiesKept ==
  \A r \in Requests :
    pc[r] = "done" =>
      /\ orig[r] # None /\ orig[r].cookies =>
           IF replaced[r] \/ FallbackHit(r)
           THEN \A s \in Sessions : jars[s] = None \/ <<"origin", r>> \notin jars[s]
           ELSE <<"origin", r>> \in jars[sid[r]]
      /\ answer[r].ack = r => <<"page", r>> \in jars[sid[r]]

\* What concerns one session alone, and how much of it the cache gives to all: its
\* id, an acknowledgement and pushed cookies, of the one request an entry was made
\* for.  Nothing else of a session's gets there: no page, nothing an addon replaced
\* for its tenant, no Set-Cookie of an origin.
CacheSharesHeaders ==
  \A f \in Forms :
    LET e == cache[f]
    IN e # None =>
         /\ e.resp.ok /\ e.resp.cacheable /\ ~e.resp.html /\ e.resp.enc = "none" /\ ~e.resp.cookies
         /\ \E r \in Requests :
              /\ pc[r] = "done" /\ ~replaced[r]
              /\ e.sid \in {None, sid[r]} /\ e.ack \in {None, r} /\ e.push \in {None, r}

\* An answer that is not from the cache speaks of the client's own session and
\* request, and Set-Cookie of an origin reaches the browser on the two paths that
\* bypass the jar only.
OwnAnswer(r) ==
  /\ answer[r].kind # "cache" =>
       answer[r].sid \in {None, sid[r]} /\ answer[r].ack \in {None, r} /\ answer[r].push \in {None, r}
  /\ answer[r].raw => replaced[r] \/ FallbackHit(r)

\* What one session is told reaches another through the cache alone, and there as
\* headers alone; docs/cookie.md:7 promises that not even these do.
SharedByCacheOnly == CacheSharesHeaders /\ \A r \in Requests : OwnAnswer(r)

\* Every request comes to an end.
EveryoneAnswered == \A r \in Requests : pc[r] = "route" ~> pc[r] = "done"

\* A fallback virtual host whose status pattern matches answers in the place of the
\* origin (docs/arch.md:49).
FallbackServed ==
  \A r \in Requests :
    pc[r] = "done" /\ FallbackHit(r) /\ ~left[r] /\ ~replaced[r] => answer[r].by = "vhost"
=============================================================================
