----------------------------- MODULE CookieMatch -----------------------------
(***************************************************************************)
(* The matching rules of internal/cookiejar/matcher.go, beside the rules of*)
(* RFC 6265 that the comments there name.                                  *)
(*                                                                         *)
(* A host name is the sequence of its dot-separated labels, so ".x.com" is *)
(* <<"", "x", "com">>; a port stays glued to the last label, exactly as in *)
(* the string ("x.com:81" is <<"x", "com:81">>).  A path is the sequence   *)
(* of its characters.  The empty string is <<>> in both.  Labels stand for *)
(* their lower-case form.                                                  *)
(***************************************************************************)
EXTENDS Integers, Sequences, SequencesExt

Slash == "/"

\* canonicalDomain: one leading dot is dropped.
CanonicalDomain(domain) ==
  IF domain # <<>> /\ Head(domain) = "" THEN Tail(domain) ELSE domain

\* domainMatch: equality, or the host ends in "." followed by the domain.
DomainMatch(host, domain) ==
  LET d == CanonicalDomain(domain)
  IN \/ host = domain
     \/ domain # <<>> /\ IsSuffix(d, host)

\* Mutant: any prefix matches.
PrefixPathMatch(path, cookiePath) == IsPrefix(cookiePath, path)

\* pathMatch: equality, or the cookie path is a prefix that is "/" itself or
\* is followed by a "/" in the request path.
PathMatch(path, cookiePath) ==
  \/ path = cookiePath
  \/ /\ IsPrefix(cookiePath, path)
     /\ \/ cookiePath = <<Slash>>
        \/ /\ Len(path) > Len(cookiePath)
           /\ path[Len(cookiePath) + 1] = Slash

-----------------------------------------------------------------------------
(* The rules of the standard.                                              *)

\* RFC 6265 5.1.3, for host names (the code never asks whether a host is an
\* address).
RFCDomainMatch(host, domain) ==
  \E n \in 0 .. Len(host) - Len(domain) : SubSeq(host, n + 1, Len(host)) = domain

\* RFC 6265 5.1.4.
RFCPathMatch(path, cookiePath) ==
  \/ path = cookiePath
  \/ /\ IsPrefix(cookiePath, path)
     /\ \/ Last(cookiePath) = Slash
        \/ path[Len(cookiePath) + 1] = Slash
=============================================================================
