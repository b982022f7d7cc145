------------------------------ MODULE CacheSpec ------------------------------
(***************************************************************************)
(* What the response cache promises its users, without saying how it stores*)
(* or evicts: it may forget anything at any time and take up an offered    *)
(* response at any time, but what a read returns was offered under that    *)
(* key, is not older than its lifetime, and is never a response older than *)
(* one returned before.                                                    *)
(***************************************************************************)
EXTENDS Integers

CONSTANTS
  Keys,      \* cache keys: schema, host and request URI
  Versions,  \* numbers of the responses
  Responses, \* what can be stored: [ver, size, until]
  None

VARIABLES
  store,    \* key -> response or None
  offered,  \* key -> responses handed to the cache so far
  seen,     \* key -> the latest version a read returned
  answer,   \* what the last read returned
  now       \* the clock

vars == <<store, offered, seen, answer, now>>

Init ==
  /\ store = [k \in Keys |-> None]
  /\ offered = [k \in Keys |-> {}]
  /\ seen = [k \in Keys |-> 0]
  /\ answer = None
  /\ now = 0

\* A response is offered under a key.
Offer(k, v) ==
  /\ offered' = [offered EXCEPT ![k] = @ \cup {v}]
  /\ UNCHANGED <<store, seen, answer, now>>

\* Some keys are forgotten, and at most one takes up something it was offered.
Change ==
  /\ \A k \in Keys :
       store'[k] \in {None, store[k]} \cup {v \in Responses : v.ver \in offered[k]}
  /\ \A k, l \in Keys :
       k # l /\ store'[k] \notin {None, store[k]} => store'[l] \in {None, store[l]}
  /\ UNCHANGED <<offered, seen, answer, now>>

\* A read misses, or returns what is stored if it is fresh and not a step back.
Read(k) ==
  /\ \/ /\ answer' = None
        /\ store' \in {store, [store EXCEPT ![k] = None]}
        /\ UNCHANGED seen
     \/ /\ store[k] # None
        /\ now <= store[k].until
        /\ store[k].ver >= seen[k]
        /\ answer' = store[k]
        /\ seen' = [seen EXCEPT ![k] = store[k].ver]
        /\ UNCHANGED store
  /\ UNCHANGED <<offered, now>>

Tick ==
  /\ now' = now + 1
  /\ UNCHANGED <<store, offered, seen, answer>>

Next ==
  \/ \E k \in Keys, v \in Versions : Offer(k, v)
  \/ Change
  \/ \E k \in Keys : Read(k)
  \/ Tick

Spec == Init /\ [][Next]_vars
=============================================================================
