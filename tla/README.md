# Cifera in TLA+

Cifera is a rewriting reverse proxy: pages of other sites are served under the proxy's own
origin, their cookies are kept on the server in one jar per session, and a script injected into
every page replaces `document.cookie`, `fetch`, `XMLHttpRequest` and navigation.  This directory
holds the formal model of the program: TLA+ modules translated from `src/`, TLC configurations
that check them on small instances, and proofs checked by TLAPS that hold for every instance.

## 1. Inventory

State, operations, interaction, what is hard, and what makes each part correct.

| part (source) | state and operations | what is hard | what makes it correct |
|---|---|---|---|
| cookie jar (`internal/cookiejar/jar.go`) | map of maps domain -> name+path -> entry under one mutex; `AddCookie`, `RemoveCookie`, `RemoveExpired`, `IsExpired`, `AllCookies`, `RestoreCookies`, `Cookies` | capacity, the nested map, three kinds of lifetime, restart | capacity kept; cookies leave only for a reason; a restart is invisible to origins; the two levels agree |
| cookie matching (`matcher.go`) | none | boundaries | RFC 6265 |
| jar manager (`manager.go`) | jars by key, channel of 4096 snapshots, worker, ticker-driven cleanup, Badger table, `done`; `GetOrCreateJar`, `PersistJar`, `cleanup`, `Close`, load at start | four kinds of goroutine, lost and reordered snapshots, shutdown, crash | isolation of sessions, nothing lost that need not be, no write after close, no hang |
| cookie protocol (`scripts/src/cookie.ts`, `fetch.ts`, `xhr.ts`, `internal/cookie.go`, parts of `server.go`) | shadow jar, dirty set, Sync/Ack/Push headers, full download in the HTML | overlapping calls, lost or late responses, page loads | nothing the page wrote is forgotten; page and jar agree when quiet |
| request pipeline (`server.go`) | request context, addon list, semaphore | order of a dozen early returns, response rewriting, replaced responses | each request answered by exactly one branch, sessions share nothing, slots returned |
| response cache (`internal/cache`) | LRU list and map, size, asynchronous writer | reordered and dropped writes, resizing, close | size within bounds, a hit is the last write and fresh |
| loop guard (`loopguard.go`, `ServeHTTP` and `Rewrite` in `server.go`, `vhost/remote.go`) | caches of resolved names (60 s) and of local addresses (30 s); `IsSelf`, `Max-Forwards`; the transport's pool of connections | chains of proxies and of remote virtual hosts, knowledge out of date, failures that are cached, up to 5 s of waiting between the check and the dialling, the dialer resolving again | a proxy knowingly never asks itself; requests cannot circulate for ever |
| addon loading (`internal/addon/loader.go`, watcher in `main.go`) | the list in use, directories watched, debounce timer, reloads under way | a directory edited while it is read, events before watches, overlapping reloads | the last state of the directory wins; one broken addon takes no other with it |
| addon content (`matcher.go`, `params.go`, `addon.go`, `inject.go`, `internal/inject`) | parameters in three layers, each rule's renderings by tenant | requests that render with one context and another list; goroutines per addon | a page holds exactly its tenant's addons, in order |
| tenants (`internal/tenant`) | registrations (fixed at start); a ledger of tokens under a mutex: `Auth` adds, `Valid` reads and compares the expiry, `Revoke` deletes, nothing removes expired ones | a tenant's registration is looked up while lists change | nobody gets a page made for another tenant |
| API vhost (`internal/apivhost`) | uses the request's jar and the tenant store | shares the jar with requests under way | answers describe the jar |
| virtual hosts (`internal/vhost`) | registry by name, compiled hosts | precedence, override/fallback | unique names, override before proxying |
| websocket bridge (`internal/wsproxy`) | two connections | messages before connect, close from both sides | messages in order, both sides closed |
| proxy URLs (`internal/utils/url.go`, `server.go`) | none | five places that read or write the same parameters: links, redirects, requests, Referer, cache keys | a link leads where the page meant |
| HTML rewriting (`internal/rewriter`) | none | tags edited by searching their bytes, insertions that search what the insertion before left | links change and nothing else; the runtime comes first |
| compression | pools | formats | round trips, negotiation order |
| client interceptors | none | browser APIs | URLs stay on the proxy |

How they interact: a request handler (one goroutine each) obtains the session's jar from the
manager, reads the `Cookie` header from it, applies the sync header, and after the origin's
answer stores its `Set-Cookie` and calls `PersistJar`; the worker and the cleanup goroutine share
jars, map and database with all handlers.  The page talks to handlers only through headers and
the JSON in the HTML.  The watcher's reloads replace the addon list that handlers read three times
in one request, and every reload makes new rules with new renderings.  The loop guard decides
before a handler takes a slot, the transport dials after it has one or takes a pooled connection,
a remote virtual host is asked by a transport of its own, the websocket bridge takes over its connection and outlives it.
`main` stops the server (10 s at most), then the cache, then the manager.

## 2. Modules

| module | models | checked by |
|---|---|---|
| `CookieMatch` | `matcher.go`; the RFC's rules beside it | `pure_functions` |
| `ProxyUrls` | links, redirects, request parameters, outgoing URLs and cache keys | through `PureFunctions` |
| `HtmlLinks` | which attributes of a tag are rewritten, and the edit of its bytes by search | through `PureFunctions` |
| `PageInjection` | where addon content and the runtime land in a page | through `PureFunctions` |
| `PureFunctions` | probes of these algorithms over bounded inputs | `pure_functions` |
| `JarOps` | every method of `Jar` as an operator on a jar value; `AddCookie` and eviction return the set of possible results, the nil-map panic included | through `CookieJar` |
| `CookieJar` | one jar as a state machine: add, delete, sweep, restart, clock | `cookie_jar` |
| `CookieAndUrlProofs` | theorems about `CookieJar` and `PureFunctions` | TLAPS |
| `JarManager` | requests, worker, cleanup, close, crash and restart of the manager | `jar_manager*` |
| `JarManagerProofs` | theorems about `JarManager` | TLAPS |
| `CookieSync` | the page's shadow jar against the server's jar, with replies of the cache that were made for other calls and sessions | `cookie_sync*` |
| `CookieSyncProofs` | theorems about `CookieSync` | TLAPS |
| `CacheSpec` | what a user of the response cache may rely on: reads return offered, fresh responses and never step back | as a property of `ResponseCache` |
| `ResponseCache` | the cache: list, map and byte count, asynchronous writer, lifetimes, resize in two halves, close; implements `CacheSpec` | `response_cache` |
| `ResponseCacheProofs` | theorems about `ResponseCache`, the refinement of `CacheSpec` among them | TLAPS |
| `RequestPipeline` | one handler per request: session, early answers, cache (its entries with the headers the proxy added), slot, origin, fallback, `processResponse`; addon list replaced meanwhile, clients that leave | `request_pipeline` |
| `RequestPipelineProofs` | theorems about `RequestPipeline` | TLAPS |
| `AddonReload` | the first load, watches, events, debounce timer and overlapping reloads of a tree of directories, of any depth, that is edited | `addon_reload` |
| `TenantAddons` | parameters, matching, rendering and its cache for tenants' pages, with a reload at any moment; reads the same list as `RequestPipeline`, rule by rule | `tenant_addons` |
| `AddonProofs` | theorems about `AddonReload` and `TenantAddons` | TLAPS |
| `LoopGuard` | proxies that reach each other and themselves, the guard's two caches, `Max-Forwards`, pooled connections, remote virtual hosts | `loop_guard` |
| `LoopGuardProofs` | theorems about `LoopGuard` | TLAPS |
| `WsBridge` | the two connections of a websocket and their loops | `ws_bridge` |
| `WsBridgeProofs` | theorem about `WsBridge` | TLAPS |
| `MC...` | instances for TLC | |

Correspondence.  *CookieJar*: a jar is a record of the occupied slots (domain, name+path) and of
the domains that own an inner map; each method holds the mutex throughout, so each is one step.
Time is in seconds, `Duration` wraps as an `int64` of nanoseconds does.  A restart persists and
restores at two times, each with its own filter of expired cookies.  Host names are sequences
of labels and paths sequences of characters, because matching looks inside them; names and values
are opaque.  *JarManager*: a step is what happens between two points where another goroutine may
run: the read-locked lookup, the database read, the write-locked store; the copy of the entries
and the send; the worker's receive and its write; of cleanup's sweep, which holds the manager's
lock and no jar's, `RemoveExpired` and `IsExpired` of each jar and the deletions from the map, so
that requests which have their jar fill it in between; and each of its later database operations
(in any order of keys, as Go ranges over a map).  A jar object is named
after the request that allocated it, so that two jars of one key are visible; its content is
reduced to which request wrote each cookie.  *CookieSync*: one JavaScript task is one step (the
setter, sending, handling a response), on the server each synchronised cookie and the handling of
the origin's response; every write has a number, so that stale values can be told from new ones.
`cached` is what the cache holds for the URL the calls ask for: the Ack and Push of an earlier
reply, or of a reply to another session's page, which any later call may get.
*ResponseCache*: a response is a version (the order of its `SetAsync`), a
size and an end of freshness; a step is one critical section of the mutex, or one operation on
the channel; `recent`, `seen` and `offered` are history the properties read and no step tests.
The refinement maps `items` to the abstract `store` and forgets list, sizes and channel: a write
is a `Change`, a drop for want of room as well, a hit or an expiry a `Read`.

*RequestPipeline*: a step reaches from one point where a handler meets something shared (jars,
cache, slots, the addon list, the network) to the next.  All requests ask for one URL, which is
enough to make them meet, in the two forms that matter to the cache's key.  A response is what the
branches of `processResponse` test: status, HTML, encoding, cacheability, presence of
`Set-Cookie`; `processResponse` turns the last into the Push header, which an entry of the cache
keeps with session id and Ack.  An addon list is a sequence, and the field `h.addons` its elements and its length,
because the block rules are read without the lock and a slice is not written in one piece; the
reads through `loadAddons` wait for the writer.  `inForce` and `rules` are history.

*AddonReload*: a directory holds one version of its files, and whether it loads is part of its
content.  Somebody makes, writes and removes directories at any moment from the start of the
process on; the kernel reports what happens in and to directories it watches, and `watched` is the
program's own record of them, which forgets nothing.  Loading reads one addon after the other, so
a list may mix states of the directory.  `steady`, `late`, `overtaken` and `unseen` are history.
*TenantAddons*: a request reads the list for its context, for `replace` and for `inject`, each time
with the lock; rendering is one step, the rule's lock held.  A rendering is the text of the
resource and the parameters it shows.  The specification is `PageSpec`, because the proofs about it
share a module with those of `AddonReload`.  *LoopGuard*: a step is what a handler does without waiting
for a name server or a slot; a lookup takes up to `Timeout` ticks, a slot up to `SlotWait`,
everything else none.  A balancer's address is nobody's own, which is how proxies form rings the
address check cannot see.  `conns` are the connections the main transport has opened, by host and
port, each to the proxy the host led to then: a request takes one of them or dials anew, and a
websocket always dials.  A virtual host served from a remote server is asked by `Serve` with the
client's own headers when it overrides its host, and by `FallBack` with those `Rewrite` made when it
is a fallback; the guard is asked about neither.  A behaviour follows one way of each request: where
a fallback asks a second server, either way may be the one.
*WsBridge*: a step is one callback of a read loop; a write blocks while the connection has no
room.  The library's behaviour (order of callbacks, answers to close frames) is taken from how the
handlers rely on it.

*PureFunctions* asks one question per behaviour (`ProbeSpec`).  A URL is a record of its parts and of the proxy's
two parameters, a browser resolves references as RFC 3986 says; a query is values and the form they are
written in, because `url.Values.Encode` writes it anew, and a segment or a query may hold a colon,
because `shouldSkipUrl` takes what precedes one for a scheme; a tag is a sequence of attributes,
each with the form its value is written in (as parsed, with entities, with blanks around `=`,
without quotes; single and double quotes are one form, so that the search finds the first of either);
a page is a sequence of tokens, which is what the searches for tags see.

Operators whose comment says *Mutant* are deliberate bugs: replacing the definition that follows
by one of them makes TLC report a violation, which shows that the property depends on that code.

## 3. Checks

| run | shows | bounds |
|---|---|---|
| `pure_functions` | `MatchIsRFC`: `pathMatch` is RFC 6265 path-match except for cookie paths ending in `/`, `domainMatch` is domain-match on names without port, a host with a port matches only itself; `UrlsComeBack`: links, redirects and unrewritten requests reach the URL the page meant; `CacheKeysMeet`: what a lookup finds was stored for the same URL, and which requests find what they stored; `OnlyLinksChange`; `InjectionLandsWell` (runtime first, items whole, once, in order and at the tag their position or selector names). Each names its exceptions, and says what happens in most of them | paths up to 5 characters over `/ a b`, names up to 3 labels: every case of the prefix rules and one label beyond each boundary; pages and references over two sites (one below the proxy's name), the proxy's port and another, queries in canonical form or not, colons in hosts, paths and queries, the five redirecting statuses; tags with up to two attributes in all forms; pages with any structural tag omitted and up to two items |
| `cookie_jar` | `CapacityOK`, `BucketsExact`, `LeavesForAReason`, `RestartKeepsPersistent` | capacity 2, a domain and a host below it, two paths, session/1 s/Expires lifetimes, 3 ticks: eviction, replacement, expiry and deletion all meet in one jar, and a cookie may expire between the two filters of a restart |
| `jar_manager` | `SessionStaysInMemory`, `SessionsIsolated`, `DrainedAtClose`, `ClosedIsQuiet`, `UnmappedOnlyDead` | two sessions, a lasting and a session cookie, channel of 1 (full after one send), one restart at any moment; a request may add its cookies between any two steps of the sweep |
| `jar_manager_live` | `EventuallyDurable`, `CloseReturns` | two requests of one session, channel of 1; the channel fills and snapshots are dropped and reordered |
| `jar_manager_shutdown` | **violated** `ShutdownKeepsData` | channel of 2, nothing is dropped |
| `cookie_sync` | `DirtyFits`, `QuietAgrees`, `ChangesOnlyPushed`, `EventuallyClean` | one key, two calls under way, two writes by page, origin or another session's origin: a value of the page's beside one that a late or cached reply pushes |
| `response_cache` | `Accounted` (list, map and byte count agree and keep the limit), `EvictsLeastRecent`, `CloseReturns`, `Promises` (refinement of `CacheSpec`) | three keys, three responses of size 1 or 3 against limits 2 and 1 (fitting, filling, never fitting; a large one evicts two small ones), a channel of one that fills, lifetimes that end, one resizer |
| `request_pipeline` | `SlotsAccounted`, `BlockedStaysInside`, `RulesInForce`, `CookiesKept`, `SharedByCacheOnly`, `EveryoneAnswered` | two requests (enough for one to find the slot taken, the cache filled, the session begun), one slot, one reload among three lists of 0, 1 and 2 addons (so that elements and length can disagree), eight kinds of request, three responses of the origin |
| `addon_reload` | `EveryDirWatched`, `EventuallyCurrent`, `SteadyStays` | two addons, one with a directory and one more below it, there at the start or not, three changes, two reloads at a time: enough for three levels to be made before any event is handled, for a directory to be removed and made again, and for an older reload to finish last |
| `loop_guard` | `HopsBounded`, `LoopsOnlyWhileStale`, `ChainsEnd` | two proxies behind one balancer, one of them on a single address; one name that leads to two addresses or to another; two requests, a limit of 2 hops, a header far above it (in circles it counts down to every other value); a virtual host that overrides the name with the balancer, so that it may ask itself for ever, and a fallback for the balancer's own address; lifetimes, lookup timeout and slot wait of 1 tick out of 3: an entry is made, ages and expires while a request waits; one change of the name or an address, or one failure of a lookup or a listing, each at any moment. Two of them (2.0 million states, in which a pooled connection is needed to explain a loop) were checked for safety too |
| `ws_bridge` | `Faithful`, `ClosedTogether` | each end sends up to 3 frames against connections that take 2, so writes block in both directions at once |
| `tenant_addons` | `OwnPage`, `PageIsCurrent` | two requests of two tenants and visitors, three lists of two and three addons (sequential and concurrent matching), parameters that resolve, do not, and only do in one list, one reload |

Further configurations, in which TLC reports a violation: `MCCookieJar_panic` (`AddedIsStored`),
`MCJarManager_onejar` (`OneJarPerKey`), `MCCookieSync_ack` (`DirtyUntilApplied`),
`MCRequestPipeline_fallback` (`FallbackServed`) and `MCLoopGuard_ws` (`HopsBounded` with websocket
upgrades); they belong to findings 2 to 6.

Deadlock is not checked where the system may really stop: a process that has closed its database
and may not restart again is finished, and so are proxies whose requests are all answered, a
bridge whose ends are gone, a directory nobody edits any more and a question that was asked.  That
nothing stops before is what the liveness properties say.

Fairness.  `JarManager`: every goroutine that can run eventually does (weak fairness of each
request, the worker, the cleanup and `Close`), and `cleanupLoop` eventually notices `done`
(strong fairness of `CleanerStop`: when both cases of its `select` are ready Go picks one at
random, and the ticker's case is not ready all the time).  Close, crash and expiry are never
forced.  `CookieSync`: the page keeps making calls (the protocol promises retries "with the next
request" only), the server makes progress, and the network neither loses every response nor the
origin fails for ever, nor does the cache answer every call (strong fairness of `Respond`, which is
the origin's answer, and of delivering a reply that confirms what its call sent).
`ResponseCache`: the writer goroutine runs when it can; readers and handlers need not.
`RequestPipeline`: every handler that can take a step takes one (a goroutine; the wait for a slot
and for the origin have timeouts, which are steps) and `ReplaceAddons` completes.  Arrivals,
departures and reloads are never forced.
`AddonReload`: the goroutines of `main`, the watcher, the timer and each reload run; nobody is
forced to edit or to stop the process.  `LoopGuard`: handlers run, and a lookup ends with an answer
or a failure (its timeout is 3 s), and the wait for a slot with a slot or a 503 (5 s); clients, name servers and the clock are free.  `WsBridge`: read
loops run and an end reads what it is sent, which a TCP connection needs to make progress; ends
need not send, leave or break.

Where code and documents disagree, with a run:

1. `manager.go:211`: snapshots can be queued in the wrong order; after an orderly shutdown the
   database holds the older one (`docs/cookie.md:129`, `manager.go:212`).  While the process runs
   the next cleanup repairs it: that is `EventuallyDurable`.

With a further configuration:

2. `jar.go:117`: eviction may delete the inner map `AddCookie` is about to write into; the store
   panics.  Needs a full jar whose oldest cookie is the only one of the new cookie's domain.
3. `manager.go:186`: two first requests of a session get two jars for one key
   (`manager_test.go:78` says they get the same).  Cookies stored in the first are orphaned.
4. `cookie.ts:239`: acknowledgements name keys, not values; a value written while an older one is
   under way is never sent (`cookie.ts:7`, `docs/cookie.md:72`).
5. `server.go:209`: a fallback virtual host's response never reaches the client: `resp = newResp`
   changes only the parameter of `ModifyResponse`, and the origin's response, its body closed, is
   written instead (`docs/arch.md:49`).  A local host's response makes `processResponse` panic.
6. `wsproxy.go:72`: the bridge dials with headers of its own, without `Max-Forwards`, so websocket
   upgrades are not covered by the hop limit `server.go:463` speaks of.  `vhost/remote.go:43` is the
   other gap: a virtual host that overrides its host from a remote server passes the client's
   `Max-Forwards` on as it came, and with `pass_meta` the target too, so that a loop through it is
   bounded by nothing; `HopsBounded` does not count its hops and `ChainsEnd` excepts it.

As exceptions of a property that holds (its comment names them):

7. `UrlsComeBack`: an absolute link keeps only the last of repeated query values (`url.go:120`); a
   redirect to `//host` from https is followed over http; `ParseProxyUrl` never returns an empty
   schema, so the Referer's scheme is never used (`docs/proxy_url.md:41`); a foreign site on the
   proxy's own port is asked on its default port.  `shouldSkipUrl` (`url.go:52`) takes whatever
   precedes the first colon for a scheme, so `//host:81/a`, `/a:b` and `?t=1:2` are not rewritten;
   such a link, like the `Location` of a 303, which `isRedirect` (`server.go:59`) leaves out, leads
   past the proxy when it names a host.
8. `CacheKeysMeet`: only requests without parameters of the proxy and with a query sorted and
   escaped as `url.Values.Encode` does it ever find what they stored, because the key of the lookup
   is made of the query as it came and the key of the store of the one sent on (`server.go:137`,
   `537` and `804`).
9. `OnlyLinksChange`: `data-*` attributes change (`docs/arch.md` says never) when they share the
   value of the attribute whose name they end in or that one is not found as written; links
   written with blanks around `=`, and `srcset` alone on a tag without URL attributes, are missed.
10. `InjectionLandsWell`: the runtime comes after addon content (`rewriter.go:53`) on pages with
    `</head>` but no `<head>`, on pages without `<head>` that have a `<header>`, and for selector
    items placed before or at the beginning of `html` or before `head`; an item whose text contains
    `</body>` or `<header>` is torn apart; one invalid selector moves all selector items to the end.
11. `EveryDirWatched`: a directory removed and made again counts as watched and is not.
    `EventuallyCurrent`: changes between the first load and the watches are not seen; of two
    overlapping reloads the one that ends last wins, whatever it read.
12. `PageIsCurrent`: of two addons with one id both show the parameters of the last (`loader.go` lets
    ids repeat); and a request that had its context before a reload leaves the new rules with the
    old parameters for its tenant, until the next reload.
13. `MatchIsRFC`: see above; a host with a port gets no cookie of a Domain attribute.
14. `CookiesKept`: a response an addon replaces, and one in whose place a fallback host is asked,
    skip the cookie steps (`server.go:660`): the origin's `Set-Cookie` is not stored, and stays in
    the response (`docs/cookie.md:42` to `44` say it is stored and removed).
15. `SharedByCacheOnly`: an entry of the cache keeps the headers as the proxy made them
    (`server.go:806`), so that a hit tells another session the id, the acknowledgement and the
    origin's cookies of the request it was made for (`docs/cookie.md:7` and `8` promise cookies that
    never touch the browser and a jar for each user).  `QuietAgrees`: a page that gets such a reply
    may show another cookie than its jar, or forget one it has yet to send.
16. `UnmappedOnlyDead`: cleanup does not look again before it deletes (`manager.go:265` and `272`),
    so that cookies a request adds in between are lost with the jar.

## 4. Proofs

TLAPS proves for all values of the constants (any capacity, hosts, keys, requests, sessions,
channel size, number of restarts):

- `CookieAndUrlProofs`, of the jar: `TypeCorrect`, `CapacityCorrect`, `BucketsCorrect`, `LossCorrect`,
  `RestartCorrect`.  The
  inductive invariant is the conjunction of type, capacity, exactness of the inner maps and
  finiteness of the set of slots; `BucketsExact` is needed by `CapacityOK` because `AddCookie`
  opens an inner map before it evicts, and finiteness because capacity is a statement about
  `Cardinality`.  One lemma per helper (`RemoveSlotKeeps`, `RetainKeeps`, `StoreKeeps`,
  `RestoredKeeps`) says what it preserves; each action is a use of one of them.  `LossCorrect` is
  an action property derived from the same invariant by cases on the call.  `RestartCorrect`
  needs no invariant: `RestoredShape` says what is left of a jar that is persisted and restored,
  and `Cookies` looks at nothing else.
- `CookieAndUrlProofs`, of the pure algorithms (the steps of `ProbeSpec` say only that a question is
  one of a known set, so the theorems are about the algorithms):
  - `MatchIsRFCCorrect`, for paths of any characters and length and names of any labels.
    `PrefixByPlaces` and `SuffixByPlaces` turn prefixes and suffixes, which the definitions take by
    `SubSeq` and `Reverse`, into equality place by place; `PathsMatch`, `HostsMatch` and
    `PortsApart` are the two algorithms and the port.
  - `UrlsComeBackCorrect` and `CacheKeysMeetCorrect`, for any hosts, ports, path segments, colons and
    queries.  A URL is equal to another if its seven parts are (`SameParts`), and every function is
    first described by the parts of its result (`AddressedParts`, `OutgoingIs`, `KeysAre`,
    `ReachedIs`, `MeantIs`), so that the round trips are comparisons of parts; `AllComeBack` and
    `AllKeysMeet` go through the ways a request comes about.
  - `OnlyLinksChangeCorrect`, for any links and any number of attributes of different names.
    `OneReplacement` says what one edit may change, `OwnReplacement` when it reaches the attribute
    it is for.  `TagRewritten` follows the edits through `ApplyAttrReplacements`: at most one of
    them can reach an attribute, because at most one looks for a name it ends in.
  - `RuntimeFirst`, for pages of any tokens and any length: `InjectRuntime` puts the runtime in
    once, at one place, and moves nothing else; it precedes all that addons put behind an opening
    head.  This is the part of `InjectionLandsWell` that does not depend on the instance.
- `JarManagerProofs`: `TypeCorrect` (with `HoldsJar`: a request past `GetOrCreateJar` holds a
  jar); `SessionCookiesCorrect` (strengthened by the snapshots requests are about to send);
  `IsolationCorrect` from `OwnInv`, which gives every jar, row, task, snapshot and survivor an
  owner and says that every reference stays within it; `DrainCorrect` and `QuietCorrect` from
  `CloseInv`, which follows what is owed through channel and worker and orders the goroutines'
  ends before `db.Close`; `UnmapCorrect`, an action property, from `UnmapInv`: what cleanup has
  found dead is dead still, or was added since (`late`).

- `LoopGuardProofs`: `HopsCorrect`, for any number of proxies, virtual hosts, addresses, lookups and
  headers, and under the assumption `Kinds \subseteq {"http"}` (websocket upgrades lose the header:
  divergence 6).  `HopsInv` adds a budget to each request under way: the times `Rewrite` has sent it
  on and those its header still allows never exceed the limit together.  `ForwardKeeps` is the step
  that spends a hop; a remote host that overrides leaves header and count alone, and whatever the
  guard believes of addresses is not needed.  `LoopsCorrect` is about exactly that, for websocket
  upgrades too.  `StaleInv` dates everything a guard knows: a cached name says where the name points,
  or the name was pointed elsewhere since at most a lookup's timeout before the entry, or the lookup
  failed; cached interfaces are right, or changed since, or could not be listed; and a request that
  has passed the guard and waits for a slot does not lead back to the proxy, or the knowledge was
  within its lifetime when the guard decided (`Stale`), or the name was pointed to it since.
  `OwnIsLocal` is `isLocalIP`'s part of the argument, `KnownHosts` the name cache's, `TickStale` uses
  that the wait ends in time, and `SelfHopForwards` that a connection which is not of the pool leads
  where the host leads now.
- `AddonProofs`, of the reloads: `WatchesCorrect`, for directories of any depth, from `WatchInv` (kernel
  watches are among those made, none is made before the watcher runs, no directory outlives the one
  that holds it); the last part is what makes an event for a removed directory harmless.  `Tree` is
  what is used of the forest: what holds a directory holds, at any depth, what is in it.  `SteadyCorrect` from `LoadInv`: an addon in order
  since the reload began is still to be read or among those read.  `LoadsElsewhere` says that an
  edit spoils only the addon it touches, `RemoveAtKeeps` that a reload which ends leaves the
  others as they are.
- `AddonProofs`, of the pages: `PagesStayRight`, `OwnPageCorrect` and `PageIsCurrentCorrect`, for any
  lists, tenants, requests and reloads.  Neither property is inductive.  `PageInv` says of every
  rendering a rule keeps that it was made with parameters its tenant may have been shown, and with
  those of its list unless a request straddled the reload (`KeptRight`); of a request between
  its reads, that some list since its context did not replace its page (`Unreplaced`); and of one
  that renders, that each addon has been gone through up to some rule, what is left to do being the
  rules behind it (`Progress`), whatever goroutine had its turn.  The page is then the concatenation
  of what each addon gave.  `PickedStep` and `JoinedStep` say what the filter and the concatenation
  of a sequence become with one element more, `FlattenTexts` and `TextsAppended` carry the texts
  through them, `TurnsFirst` says that the next rule of an addon is the first one left.
  `ContextParams` looks an addon up by its id, so `PageIsCurrent` needs the ids of the list to be
  different (`DistinctIds`): the loader does not forbid two directories with one id, and the
  resolver then takes the parameters of the last for both.

- `RequestPipelineProofs`: `TypeCorrect`, `SlotsCorrect`, `RulesCorrect`, `BlockCorrect`,
  `CookiesCorrect`, `CacheCorrect`, for any number of requests, clients, slots and reloads and any
  lists and responses.  Slots need the types and `HoldingFinite` only.  The others share
  `RequestsInv`: `ListsInv` says what an addon list can be while `ReplaceAddons` is half way (the
  elements of one list beside the length of the other, both on the record of every request that
  runs); `BlockInv` says that a request whose only list blocks it is not beyond the routes;
  `CookieInv` follows what page and origin set from the header into the jar, or past it on the two
  paths that bypass it, through every stage of `processResponse`, and says what a stored entry may
  be and whose headers it keeps.  `SameKeepsRequest` handles every step of
  another request at once: jars only grow (`JarsOnlyGrow`).
- `CookieSyncProofs`: `TypeCorrect`, `DirtyCorrect`, `AgreeCorrect` and the action property
  `ChangesCorrect`, for any keys, calls and writes.  `QuietAgrees` is not inductive.  `CalmInv`
  adds that a call under way while nothing overlapped is alone, that what it carries is what the
  page shows, that what it has applied and what was not dirty when it began agree already, and
  that after the answer the push is the difference; a reply of the cache leaves that so if it pushes
  nothing and confirms only what was sent.
- `ResponseCacheProofs`: `TypeCorrect`, `AccountedCorrect`, the action property `EvictsCorrect`,
  and `PromisesKept`, the refinement of `CacheSpec` step by step.  `SizeOf` is a fold over a set;
  `SubsetInduction` proves by finiteness, with a set in place of a predicate, that it is a sum
  (`SizeOfStep`, `SizeOfRemove`, `SizeOfSplit`).  `WithoutList`, `ToFrontList` and `PrefixList` say
  what the list operations do to elements and order.  `CacheInv` adds to the accounts that writes
  wait in the order they were offered and are newer than what is stored or was read
  (`QueueOrdered`, `StoreOrdered`), which is why reads never step back, and that the list is in the
  order of use (`InOrderOfUse`).
- `WsBridgeProofs`: `FaithfulCorrect`, for any number of frames and any room.  `BridgeInv` numbers
  the frames: what an end got, what the bridge has written to it and what the bridge has not read
  yet continue each other (`InOrder`); close frames are last in their queues and say who closed
  (`Closings`); the bridge closes an end that has not left only when the other is finished
  (`ClosedForAReason`); and `Phases` is what is known while the target is dialled and stored.

The inductive invariants were model-checked before they were proved, on the instance of the
component's run or a smaller one.

Assumptions are the named `ASSUME`s of the modules: capacities, limits and bounds are
natural numbers, directories form a forest, requests are finitely many, every request has a key, clients ask a proxy for a name
or an address, `None` is nothing else; addon lists and their rules are sequences and no set of
parameters is the constant `Nothing`, which stands for their absence; a site has a name; a label of
a name is not empty and has no port in it; and the one `HopsCorrect` states.  Fairness is not used:
all theorems are about the specifications, whose fairness conjuncts they ignore.

Two library operators hide a recursion over sequences from the provers where the models filter or
repeat (`SelectSeq`, `FoldLeft`).  `Only` in `TenantAddons` and `ApplyAttrReplacements` in `HtmlLinks`
are therefore recursive functions over the places of a sequence, and `UpTo` is the induction over
these places, with a set in place of a predicate; `Iteration` and `RecursionExists` say that such a
function exists and satisfies its equation.

Only model-checked:

- the liveness properties (`EventuallyDurable`, `CloseReturns`, `EventuallyClean`,
  `EveryoneAnswered`, `EventuallyCurrent`, `ChainsEnd`, `ClosedTogether`): liveness under fairness
  is beyond TLAPS;
- `InjectionLandsWell`: `PageProbes` are the pages with any of the structural tags omitted and up to
  two items, which the run enumerates entirely but for the names selectors may have, so that a
  theorem would add little; and the model is made of `SelectSeq`, `FlattenSeq` and `FoldLeft` over
  pages.  What holds for every page is `RuntimeFirst`.

The violated properties are of course not theorems.

## 5. Not modelled

Badger's own crash behaviour (a committed row is durable), JSON encoding, undecodable rows, the
sort order of cookies, logging.  In `CookieSync`: expiry, Domain cookies (the page has one key
where the jar may have two slots), several tabs, values `btoa` rejects.
In `ResponseCache`: conditional requests, `IsCacheable`, the parsing of lifetimes, the hit
counters, and the panic of a handler that stores after `Close` (it leaves the cache as it was).
In `RequestPipeline`: HEAD, redirects, compression for the client, the mode without cookies,
headers other than the session cookie, Ack, Push and `Set-Cookie`; an overriding host is a directory,
and the API branch ends at its handler.  Cleanup of jars and cache entries is left to the modules
that model it.  In `AddonReload`: an overflow of the kernel's event queue, the removal of the addon
directory itself, an error of `os.ReadDir`, and what makes files load: manifest, rule and host
validation are one bit of a directory's content (a block rule without `status_code` is among what
does not load: `loader.go:258` tests the copy, although `loader.go:254` gives it 404).  In
`TenantAddons`: regular expressions, template syntax other than parameters, the table of parameters
for the browser.  In `LoopGuard`: the forms of addresses and listening addresses, several
interfaces of one host, X-Forwarded-For, local virtual hosts (they end a request), the second way of a
request whose fallback is asked (either may be followed), and the 90 s after which the pool closes an
idle connection (it may be reused for ever).  In `WsBridge`: subprotocols, close codes (every close
arrives as 1000), payload limits, and how TCP resets lose data beyond the choice in `Break`.  In
the pure functions: dot segments, fragments, malformed URLs, the four other schemes that are
rewritten, more than one key in a query, the copy of the builder in `rewriter.ts`, the splitting of `srcset`, CSS and
refresh values, entities other than `&amp;`, the tokenizer itself, the scope of selectors and several
items of one selector.

Not modelled at all, with the reason: the ledger of tokens in `tenant/store.go`, a map under a mutex
of which every operation is one critical section on one random token (an expired one stays in it
until it is revoked; registrations are fixed when the store is made, and `main.go` leaves the store
nil unless tenants are configured); compression
codecs and the sort of quality values; the registration of virtual hosts, which is over before the
server listens (`LoopGuard` and `RequestPipeline` model the lookup and what a host does to a request); browser interceptors other than the cookie protocol; start-up, flags and
logging, which are I/O.

## 6. Plan

In this order:

1. `PageInjection` for pages of any length: positions and selectors as insertions of a sequence at a
   place (`PutPutsIn` is the case of one token), so that `InjectionLandsWell` can be stated and
   proved for any number of items.
2. Deeper into `RequestPipeline`: what the origin sees of the page's cookies, and a handler that
   stores into the cache after `Close`.
3. `CookieSync` with a clock (an expired cookie that is acknowledged, `jar.go:102`) and with values
   that cannot be encoded (`cookie.ts:222`).
4. Conditional requests and lifetimes of the response cache.
