----------------------------- MODULE MCLoopGuard ------------------------------
(* Two proxies on port 80 behind one balancer.  Clients ask the first for a *)
(* name and the second for another port.  The second proxy serves the name   *)
(* from the balancer, so that it may ask itself for ever; both have a        *)
(* fallback for the balancer's own address.                                  *)
EXTENDS LoopGuard

CONSTANTS one, two, name, home, away, spare, balancer

MCAddrs == {Loopback, home, away, spare, balancer}
MCBehind == [a \in MCAddrs |-> IF a = balancer THEN {one, two} ELSE {}]
MCListen == [x \in {one, two} |-> [addr |-> IF x = one THEN None ELSE away, port |-> 80]]
MCFirstIPs == [x \in {one, two} |-> IF x = one THEN home ELSE away]
MCTargets == {[at |-> one, host |-> name, port |-> 80], [at |-> two, host |-> balancer, port |-> 81]}
MCRemote ==
  [x \in {one, two} |->
     [host \in MCAddrs \cup {name} |->
        CASE x = two /\ host = name ->
               [host |-> balancer, port |-> 80, meta |-> TRUE, priority |-> "override"]
          [] host = balancer ->
               [host |-> name, port |-> 80, meta |-> FALSE, priority |-> "fallback"]
          [] OTHER -> None]]
MCAnswers == {{home, spare}, {away}}
MCHeaders == {9}
=============================================================================
