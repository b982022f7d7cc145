---------------------------- MODULE PureFunctions ----------------------------
(***************************************************************************)
(* The side-effect-free algorithms of the proxy against reference          *)
(* definitions, over bounded inputs: cookie matching, proxy URLs, the      *)
(* links of a page and what is injected into it.  A behaviour asks one     *)
(* question: the algorithm and the arguments it is called with.            *)
(***************************************************************************)
EXTENDS CookieMatch, ProxyUrls, HtmlLinks, PageInjection

CONSTANTS
  PathChars,   \* the characters cookie paths are made of, "/" among them
  MaxPath,     \* the longest path probed
  Labels,      \* labels of host names
  MaxLabels,   \* the longest host name probed
  Port         \* the port glued to the last label of a host: a label to a label

\* A label of a name is not empty, and with a port it is no label of a name.
ASSUME LabelsAssumption == "" \notin Labels /\ \A l \in Labels : Port[l] \notin Labels

VARIABLE probe

\* A request path and a cookie path both start with "/".
PathsUpTo(n) == {<<Slash>> \o p : p \in BoundedSeq(PathChars, n - 1)}

BareHosts == BoundedSeq(Labels, MaxLabels) \ {<<>>}

\* The host as the proxy passes it on when the origin has its own port.
WithPort(host) == ReplaceAt(host, Len(host), Port[Last(host)])

PathProbes == [fn : {"path"}, a : PathsUpTo(MaxPath), b : PathsUpTo(MaxPath - 1)]
HostProbes == [fn : {"host"}, a : BareHosts, b : BareHosts]

NoProbe == [fn |-> "none"]

ProbeInit == probe = NoProbe

Ask(Questions) == probe = NoProbe /\ probe' \in Questions

ProbeNext ==
  \/ Ask(PathProbes)
  \/ Ask(HostProbes)
  \/ Ask(UrlProbes)
  \/ Ask(HtmlProbes)
  \/ Ask(PageProbes)

ProbeSpec == ProbeInit /\ [][ProbeNext]_probe

-----------------------------------------------------------------------------
\* Cookie matching is that of RFC 6265 except for two things.  A cookie path
\* that ends in "/" (other than "/" itself) is sent only for itself and below a
\* second "/", where 5.1.4 sends it everywhere below.  And 5.1.3 holds for host
\* names without a port, with or without the attribute's leading dot; a host
\* that carries a port gets no cookie of a Domain attribute, not even of its
\* own name: only cookies stored under the very string host:port match it.
MatchIsRFC ==
  /\ probe.fn = "path" =>
       IF Len(probe.b) > 1 /\ Last(probe.b) = Slash
         THEN PathMatch(probe.a, probe.b)
                <=> probe.a = probe.b \/ IsPrefix(probe.b \o <<Slash>>, probe.a)
         ELSE PathMatch(probe.a, probe.b) <=> RFCPathMatch(probe.a, probe.b)
  /\ probe.fn = "host" =>
       /\ DomainMatch(probe.a, probe.b) <=> RFCDomainMatch(probe.a, probe.b)
       /\ DomainMatch(probe.a, <<"">> \o probe.b) <=> RFCDomainMatch(probe.a, probe.b)
       /\ ~DomainMatch(WithPort(probe.a), probe.b)
       /\ DomainMatch(WithPort(probe.a), WithPort(probe.a))

\* Links, redirects and requests that nothing rewrote come back to the URL the
\* page meant, with the exceptions ComesBack names; url.go:40, server.go:853.
UrlsComeBack == probe.fn = "url" => ComesBack(probe)

\* The cache's two keys of a request (server.go:537 and 804) never confuse two
\* URLs, and agree exactly for requests without parameters of the proxy whose query
\* is written as Encode writes it.
CacheKeysMeet == probe.fn = "url" => KeysMeet(probe)

\* Editing a tag's bytes by search changes the links and nothing else, with the
\* exceptions LinksRewritten names; html.go:252.
OnlyLinksChange == probe.fn = "html" => LinksRewritten(probe)

\* Addon content and the runtime land once, whole, in order and the runtime
\* first, with the exceptions LandsWell names; rewriter.go:53.
InjectionLandsWell == probe.fn = "page" => LandsWell(probe)
=============================================================================
