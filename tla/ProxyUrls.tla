------------------------------ MODULE ProxyUrls ------------------------------
(***************************************************************************)
(* From a link on a page to the origin and back: internal/utils/url.go     *)
(* (BuildProxyUrl, ParseProxyUrl), the request's parameters                *)
(* (parseProxyParams, stripProxyPort), the outgoing URL, redirects and the *)
(* cache's key in internal/server.go.                                      *)
(*                                                                         *)
(* A URL or reference is a record: scheme and host may be missing, rooted  *)
(* tells "/p" from "p", q is its ordinary query, h and s are the proxy's   *)
(* parameters _cifera_h and _cifera_s.  A host is a sequence of labels and *)
(* a port, "" for none.  A query is the values of one key and the form it  *)
(* is written in: the canonical one of url.Values.Encode (keys in order,   *)
(* escaped), or another, with a bare colon or without.  Dot segments and   *)
(* fragments are left out.                                                 *)
(***************************************************************************)
EXTENDS Naturals, Sequences, SequencesExt

CONSTANTS
  ProxyHost,   \* the address browsers use for the proxy, with its port
  Segments,    \* path segments
  Colons,      \* those with a colon in them
  SiteNames,   \* host names of sites, as sequences of labels
  Ports,       \* their ports, "" for none
  Queries      \* queries

NoQuery == [vals |-> <<>>, form |-> "canonical"]
NoHost == [name |-> <<>>, port |-> ""]
Schemes == {"http", "https"}
SiteHosts == [name : SiteNames, port : Ports]

ASSUME SiteNamesAssumption == <<>> \notin SiteNames

Url(scheme, host, path, q, h, s) ==
  [scheme |-> scheme, host |-> host, rooted |-> TRUE, path |-> path,
   q |-> q, h |-> h, s |-> s]

\* A URL without the proxy's parameters.
PlainUrl(scheme, host, path, q) == Url(scheme, host, path, q, NoHost, "")

HasMeta(u) == u.h # NoHost \/ u.s # ""

\* RFC 3986 5.2, by browsers and by net/url.
Resolve(base, ref) ==
  LET host == IF ref.host = NoHost THEN base.host ELSE ref.host
      path == IF ref.rooted THEN ref.path ELSE Front(base.path) \o ref.path
  IN Url(IF ref.scheme = "" THEN base.scheme ELSE ref.scheme,
         host, path, ref.q, ref.h, ref.s)

\* url.Values.Encode of the parsed query.
Encode(q) == [vals |-> q.vals, form |-> "canonical"]

\* Writing _cifera_h, and _cifera_s unless the scheme is the default one.
Addressed(u, host, schema) ==
  [u EXCEPT !.q = Encode(@), !.h = host,
            !.s = IF schema \in {"", "http"} THEN @ ELSE schema]

\* The merge of query values sets them one after the other.
LastValue(q) == [vals |-> IF q.vals = <<>> THEN <<>> ELSE <<Last(q.vals)>>, form |-> q.form]

\* shouldSkipUrl takes what precedes the first colon for a scheme, wherever it is, and
\* skips the reference unless it knows the scheme (of the six it knows, two are modelled).
ShouldSkipUrl(ref) ==
  IF ref.scheme # "" THEN ref.scheme \notin Schemes
  ELSE \/ ref.host.port # ""
       \/ \E i \in DOMAIN ref.path : ref.path[i] \in Colons
       \/ ref.q.form = "colon"

\* Mutant: a reference that begins with "//" is taken for a path.
BuildProxyUrlPathsOnly(proxyBase, ref, currentPath, host, schema) ==
  IF ShouldSkipUrl(ref) \/ HasMeta(ref) THEN ref
  ELSE IF ref.scheme # ""
    THEN Addressed(PlainUrl(proxyBase.scheme, proxyBase.host, ref.path, LastValue(ref.q)),
                   ref.host, ref.scheme)
    ELSE Addressed(Resolve([proxyBase EXCEPT !.path = currentPath],
                           [ref EXCEPT !.host = NoHost]), host, schema)

\* BuildProxyUrl: what is skipped and URLs that carry the proxy's parameters stay
\* as they are; absolute URLs name their own site, all others the page's.
BuildProxyUrl(proxyBase, ref, currentPath, host, schema) ==
  IF ShouldSkipUrl(ref) \/ HasMeta(ref) THEN ref
  ELSE IF ref.host # NoHost
    THEN Addressed(PlainUrl(proxyBase.scheme, proxyBase.host, ref.path, LastValue(ref.q)),
                   ref.host, IF ref.scheme = "" THEN schema ELSE ref.scheme)
    ELSE Addressed(Resolve([proxyBase EXCEPT !.path = currentPath], ref),
                   host, schema)

-----------------------------------------------------------------------------
(* A request is the URL the browser asks the proxy for and the Referer it  *)
(* sends (Missing for none).                                               *)

Missing == PlainUrl("", NoHost, <<>>, NoQuery)

\* ParseProxyUrl.
ParseProxyUrl(u) == [schema |-> IF u.s = "" THEN "http" ELSE u.s, host |-> u.h]

\* stripProxyPort: a foreign host with the proxy's port loses it.
StripProxyPort(host, requestHost) ==
  IF \/ host = NoHost
     \/ requestHost.port = ""
     \/ host.port # requestHost.port
     \/ IsSuffix(requestHost.name, host.name)
  THEN host ELSE [host EXCEPT !.port = ""]

\* parseProxyParams: the URL's own parameters, then the Referer's host, then
\* the host asked for.  The schema is never empty, so no Referer supplies it.
ParseProxyParams(request) ==
  LET own == ParseProxyUrl(request.url)
      referer == ParseProxyUrl(request.referer)
      named == IF own.host = NoHost THEN referer.host ELSE own.host
  IN [schema |-> own.schema,
      host |-> StripProxyPort(IF named = NoHost THEN request.url.host ELSE named,
                              request.url.host),
      referer |-> IF referer.host = NoHost THEN Missing
                  ELSE [request.referer EXCEPT !.scheme = referer.schema,
                          !.host = referer.host, !.q = Encode(@), !.h = NoHost, !.s = ""]]

\* StripMetaParams.
StripMetaParams(u) == [u EXCEPT !.h = NoHost, !.s = ""]

\* The URL a request is sent on to, by Rewrite and by buildOriginalURL.
Outgoing(request) ==
  LET params == ParseProxyParams(request)
  IN [StripMetaParams(request.url) EXCEPT !.scheme = params.schema,
                                          !.host = params.host, !.q = Encode(@)]

\* isRedirect; 303 is followed by browsers too.
Statuses == {301, 302, 303, 307, 308}
IsRedirect(status) == status \in {301, 302, 307, 308}

\* rewriteRedirectLocation.
RewriteRedirectLocation(location, host, schema, entryScheme, proxy) ==
  IF location.host = NoHost THEN Addressed(location, host, schema)
  ELSE Addressed([location EXCEPT !.scheme = entryScheme, !.host = proxy],
                 location.host, location.scheme)

\* RequestURI: what of a URL follows the host.
RequestURI(u) == [path |-> u.path, q |-> u.q, h |-> u.h, s |-> u.s]

\* Mutant: the key forgets the scheme.
BuildCacheKeyOfHost(schema, host, uri) == [schema |-> "", host |-> host, uri |-> uri]

\* BuildCacheKey.
BuildCacheKey(schema, host, uri) == [schema |-> schema, host |-> host, uri |-> uri]

\* The key a GET is looked up with, and the one its response is stored under.
LookupKey(request) ==
  LET params == ParseProxyParams(request)
  IN BuildCacheKey(params.schema, params.host, RequestURI(request.url))
StoreKey(request) ==
  LET out == Outgoing(request)
  IN BuildCacheKey(out.scheme, out.host, RequestURI(out))

-----------------------------------------------------------------------------
(* Probes: a page behind the proxy, a reference on it, and how the browser *)
(* comes to follow it.                                                     *)

PagePaths == {<<a, b>> : a, b \in Segments}
Pages == {PlainUrl(s, h, p, q) :
            s \in Schemes, h \in SiteHosts, p \in PagePaths, q \in Queries}

References ==
  [scheme : Schemes \cup {"app"}, host : SiteHosts, rooted : {TRUE},
   path : {<<a>> : a \in Segments}, q : Queries, h : {NoHost}, s : {""}]
    \cup [scheme : {""}, host : SiteHosts \cup {NoHost}, rooted : BOOLEAN,
          path : {<<a>> : a \in Segments}, q : Queries, h : {NoHost}, s : {""}]

\* A path after a host begins with "/", and so does one whose first segment has a
\* colon: without it the reference would name a scheme.
UrlProbes ==
  {p \in [fn : {"url"}, entry : Schemes, page : Pages, ref : References] :
     p.ref.host # NoHost \/ p.ref.path[1] \in Colons => p.ref.rooted}

\* The address of the page in the browser, and the proxy as the rewriter and
\* the redirects know it.
Address(p) ==
  Addressed(PlainUrl(p.entry, ProxyHost, p.page.path, p.page.q),
            p.page.host, p.page.scheme)
ProxyBase(p) == PlainUrl(p.entry, ProxyHost, <<>>, NoQuery)

\* Where a reference leads in a browser without the proxy.
Meant(p) == Resolve(p.page, p.ref)

Follow(p, ref) == [url |-> Resolve(Address(p), ref), referer |-> Address(p)]

Rewritten(p, ref) ==
  BuildProxyUrl(ProxyBase(p), ref, p.page.path, p.page.host, p.page.scheme)
Clicked(p) == Follow(p, Rewritten(p, p.ref))
Redirected(p, status) ==
  Follow(p, IF IsRedirect(status)
              THEN RewriteRedirectLocation(p.ref, p.page.host, p.page.scheme, p.entry, ProxyHost)
              ELSE p.ref)
\* What nothing rewrote: a script's own request, a link that was skipped.
Unrewritten(p) == Follow(p, p.ref)

\* A foreign site on the proxy's own port is asked on its default port, and every
\* query is written anew.
Reached(u) ==
  [u EXCEPT !.q = Encode(@),
            !.host = IF @.port = ProxyHost.port /\ ~IsSuffix(ProxyHost.name, @.name)
                       THEN [@ EXCEPT !.port = ""] ELSE @]

\* A link, a redirect, and a request nothing rewrote reach the URL the page meant, with
\* the page as Referer, and rewriting a link twice is rewriting it once.  The exceptions:
\* an absolute link keeps only the last of repeated query values; a redirect to "//host"
\* from https is followed over http, and so is everything an https page asks for without
\* parameters (docs/proxy_url.md promises the Referer's scheme); and a link without a
\* scheme but with a colon (a port, a path or query with one), like the Location of a
\* 303, is not rewritten: it leads past the proxy if it names a host.
ComesBack(p) ==
  IF p.ref.scheme = "app" THEN Rewritten(p, p.ref) = p.ref
  ELSE
  /\ Rewritten(p, Rewritten(p, p.ref)) = Rewritten(p, p.ref)
  /\ IF ShouldSkipUrl(p.ref) THEN Clicked(p) = Unrewritten(p)
     ELSE /\ Outgoing(Clicked(p)) =
               IF p.ref.host = NoHost THEN Reached(Meant(p))
               ELSE Reached([Meant(p) EXCEPT !.q = LastValue(@)])
          /\ ParseProxyParams(Clicked(p)).referer = [p.page EXCEPT !.q = Encode(@)]
  /\ \A status \in Statuses :
       IF status = 303 THEN Redirected(p, status) = Unrewritten(p)
       ELSE Outgoing(Redirected(p, status)) =
              IF p.ref.scheme = "" /\ p.ref.host # NoHost
                THEN Reached([Meant(p) EXCEPT !.scheme = "http"]) ELSE Reached(Meant(p))
  /\ IF p.ref.host = NoHost
       THEN Outgoing(Unrewritten(p)) = Reached([Meant(p) EXCEPT !.scheme = "http"])
       ELSE Unrewritten(p).url.host = p.ref.host

\* What a request finds in the cache was stored for the URL it asks for; and a request
\* finds what it stored exactly if its URL carries no parameter of the proxy and its
\* query is in the canonical form: the lookup's key is made of the URL as it was asked
\* for, the store's of the one sent on.
KeysMeet(p) ==
  LET all == {Clicked(p), Unrewritten(p)} \cup {Redirected(p, status) : status \in Statuses}
      requests == {r \in all : p.ref.host = NoHost \/ HasMeta(r.url)}
  IN p.ref.scheme # "app" =>
       /\ \A r1, r2 \in requests :
            LookupKey(r1) = StoreKey(r2) => Outgoing(r1) = Outgoing(r2)
       /\ \A r \in requests :
            LookupKey(r) = StoreKey(r) <=> ~HasMeta(r.url) /\ Encode(r.url.q) = r.url.q
=============================================================================
