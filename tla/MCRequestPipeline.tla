-------------------------- MODULE MCRequestPipeline --------------------------
(* Two requests of two clients.                                              *)
EXTENDS RequestPipeline

CONSTANTS alice, bob

Get(c, vhost, form, sync) ==
  [client |-> c, to |-> "site", hops |-> 10, ws |-> FALSE, vhost |-> vhost, get |-> TRUE,
   form |-> form, sync |-> sync]

\* What a page asks for, and requests that are answered early.
MCKinds ==
  {Get(alice, "none", "plain", TRUE),
   Get(bob, "local", "param", FALSE),
   [Get(bob, "remote", "plain", TRUE) EXCEPT !.get = FALSE],
   Get(bob, "override", "plain", FALSE),
   [Get(alice, "override", "plain", FALSE) EXCEPT !.hops = 0],
   [Get(bob, "none", "plain", FALSE) EXCEPT !.ws = TRUE],
   [Get(alice, "none", "plain", FALSE) EXCEPT !.to = "ops"],
   [Get(alice, "none", "plain", FALSE) EXCEPT !.to = "none"]}

MCFewKinds == {Get(alice, "none", "plain", FALSE), Get(bob, "none", "plain", FALSE),
               Get(alice, "remote", "plain", FALSE)}

File == [by |-> "origin", ok |-> TRUE, html |-> FALSE, enc |-> "none", cacheable |-> TRUE,
         cookies |-> TRUE, push |-> FALSE]
MCOrigin == {File, [File EXCEPT !.ok = FALSE, !.html = TRUE, !.enc = "bad"], [File EXCEPT !.enc = "good"]}
MCServed == {[File EXCEPT !.by = "vhost", !.cookies = FALSE]}

Blocker == [block |-> TRUE, replace |-> FALSE, for |-> Clients]
Replacer == [block |-> FALSE, replace |-> TRUE, for |-> {alice}]
Other == [block |-> FALSE, replace |-> FALSE, for |-> Clients]
MCLists == {<<>>, <<Blocker>>, <<Replacer, Other>>}
=============================================================================
