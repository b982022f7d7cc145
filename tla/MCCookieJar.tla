---------------------------- MODULE MCCookieJar ------------------------------
(* Small instance of CookieJar: a parent domain and a host below it, two    *)
(* paths of one name, cookies that live for the session, for one or two     *)
(* seconds, or are deletions.                                               *)
EXTENDS CookieJar

MCHosts == {<<"x", "com">>, <<"w", "x", "com">>}
MCDomainAttrs == {<<>>, <<"", "x", "com">>}
MCNames == {"n"}
MCPathAttrs == {<<>>, <<"/", "p">>}
MCValues == {"v"}
MCMaxAges == {-1, 0, 1}
MCExpiries == {0, 1, 3}

MCKeyRank(k) == Len(k.path)
=============================================================================
