--------------------------- MODULE MCPureFunctions ---------------------------
(* Paths of up to five characters over "/", "a" and "b"; host names of up to *)
(* three labels; a proxy with a port, a site below it, a foreign one on the  *)
(* proxy's port.                                                             *)
EXTENDS PureFunctions

MCPathChars == {"/", "a", "b"}
MCLabels == {"x", "com"}
MCPort == [l \in MCLabels |-> IF l = "com" THEN "com:81" ELSE "x:81"]

MCProxyHost == [name |-> <<"proxy">>, port |-> "8080"]
MCNames == {<<"x", "com">>, <<"in", "proxy">>}
MCPorts == {"", "81", "8080"}
MCQueries ==
  {[vals |-> v, form |-> w] :
     v \in {<<"1">>, <<"1", "2">>}, w \in {"canonical", "colon", "other"}}
    \cup {[vals |-> <<>>, form |-> "canonical"]}
=============================================================================
