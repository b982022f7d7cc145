CONSTANTS
  PathChars <- MCPathChars
  MaxPath = 5
  Labels <- MCLabels
  MaxLabels = 3
  Port <- MCPort
  ProxyHost <- MCProxyHost
  Segments = {"a", "b:c"}
  Colons = {"b:c"}
  SiteNames <- MCNames
  Ports <- MCPorts
  Queries <- MCQueries
  Links = {"link", "link&"}
  AmpLinks = {"link&"}
  Anchors = {"#top"}
  HtmlTags = {"img", "a", "style", "div", "meta"}
  AttrNames = {"src", "data-src", "srcset", "href", "style", "content", "http-equiv", "alt"}
  MaxAttrs = 2
  Selectors = {"html", "head", "header", "bad"}
  Relations = {"before", "prepend", "append", "after"}
SPECIFICATION ProbeSpec
INVARIANTS MatchIsRFC UrlsComeBack CacheKeysMeet OnlyLinksChange InjectionLandsWell
CHECK_DEADLOCK FALSE
