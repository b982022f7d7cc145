----------------------------- MODULE CookieSync ------------------------------
(***************************************************************************)
(* The cookie protocol between a page and its session's jar: the shadow    *)
(* jar of scripts/src/cookie.ts with its set of dirty keys, the sync header*)
(* of fetch and XMLHttpRequest, what the proxy does with it before and     *)
(* after it asks the origin (internal/server.go), the Ack and Push headers *)
(* of the response, and the full download when a document loads.           *)
(*                                                                         *)
(* Every write of a cookie, by the page or by the origin, has a number; a  *)
(* write may be a deletion.  One host and one path: a key is name|path.    *)
(* Cookies are host-only and do not expire here (CookieJar models expiry). *)
(* A reply that may be cached is stored with its Ack and Push headers, and *)
(* the cache is one for all sessions: a call for the same URL gets them.   *)
(***************************************************************************)
EXTENDS Naturals, FiniteSets

CONSTANTS
  Keys,       \* name|path
  Calls,      \* fetch and XMLHttpRequest calls that can be under way together
  MaxWrites,  \* bound on the writes of a behaviour, for model checking
  None

ASSUME MaxWritesAssumption == MaxWrites \in Nat
ASSUME NoneAssumption ==
  None \notin Nat /\ None \notin [id : Nat, del : BOOLEAN] /\ None \notin [Keys -> Nat \cup {None}]

Ids == 1 .. MaxWrites
Entry == [id : Ids, del : BOOLEAN]
Header == UNION {[keys -> Entry] : keys \in SUBSET Keys}
Reply == [ack : SUBSET Keys, push : Header]
ASSUME ReplyAssumption == None \notin Reply

VARIABLES
  shadow,   \* shadowJar: key -> entry or None; del is the tombstone e = -1
  dirty,    \* dirtySet
  call,     \* every call: where it is, the sync header, the push header
  jar,      \* the server's jar: key -> id of the write it holds, or None
  load,     \* the cookies of a document on its way to the browser, or None
  cached,   \* headers of the reply the cache holds for the URL asked for, or None
  writes,   \* number of writes so far
  pending,  \* history: ids of the page's writes no call has brought to the jar yet
  calm      \* history: nothing overlapped, got lost or came from another call since
            \* the last full download

vars == <<shadow, dirty, call, jar, load, cached, writes, pending, calm>>

NoSync == [k \in {} |-> None]
Idle == [at |-> "idle", sync |-> NoSync, todo |-> {}, ack |-> {}, push |-> NoSync, orphan |-> FALSE]

Under(c) == call[c].at # "idle"
Busy == load # None \/ \E c \in Calls : Under(c)

-----------------------------------------------------------------------------
(* The page.                                                               *)

\* The document.cookie setter: a deletion leaves a tombstone.
PageWrite(k, del) ==
  /\ writes < MaxWrites
  /\ writes' = writes + 1
  /\ shadow' = [shadow EXCEPT ![k] = [id |-> writes', del |-> del]]
  /\ dirty' = dirty \cup {k}
  /\ pending' = pending \cup {writes'}
  /\ calm' = (calm /\ ~Busy)
  /\ UNCHANGED <<call, jar, load, cached>>

\* getCookieSyncHeaderSync: the dirty keys that have an entry.
SyncKeys == {k \in dirty : shadow[k] # None}

\* fetch, or open of an XMLHttpRequest.  The keys stay dirty.
Send(c) ==
  /\ ~Under(c)
  /\ call' = [call EXCEPT ![c] = [Idle EXCEPT !.at = "sent",
                                              !.sync = [k \in SyncKeys |-> shadow[k]],
                                              !.todo = SyncKeys]]
  /\ dirty' = IF SyncKeys = {} THEN {} ELSE dirty
  /\ calm' = (calm /\ ~Busy)
  /\ UNCHANGED <<shadow, jar, load, cached, writes, pending>>

\* Mutant: confirmed tombstones stay in the shadow jar.
AckedKeepingTombstones(jarS, keys) == jarS

\* Mutant: every confirmed entry goes.
AckedDroppingAll(jarS, keys) == [k \in Keys |-> IF k \in keys THEN None ELSE jarS[k]]

\* processCookieAck on the shadow jar: confirmed tombstones go.
Acked(jarS, keys) ==
  [k \in Keys |-> IF k \in keys /\ jarS[k] # None /\ jarS[k].del THEN None ELSE jarS[k]]

\* processCookiePush on the shadow jar.
Pushed(jarS, push) ==
  [k \in Keys |-> IF k \notin DOMAIN push THEN jarS[k]
                  ELSE IF push[k].del THEN None ELSE push[k]]

\* Mutant: a response without a push is not looked at.
DeliverPushOnly(c) ==
  /\ call[c].at = "reply"
  /\ IF call[c].orphan \/ DOMAIN call[c].push = {}
       THEN UNCHANGED <<shadow, dirty>>
       ELSE /\ shadow' = Pushed(Acked(shadow, call[c].ack), call[c].push)
            /\ dirty' = dirty \ (call[c].ack \cup DOMAIN call[c].push)
  /\ call' = [call EXCEPT ![c] = Idle]
  /\ UNCHANGED <<jar, load, cached, writes, pending, calm>>

\* The response arrives: the ack is processed, then the push.
Deliver(c) ==
  /\ call[c].at = "reply"
  /\ IF call[c].orphan
       THEN UNCHANGED <<shadow, dirty>>
       ELSE /\ shadow' = Pushed(Acked(shadow, call[c].ack), call[c].push)
            /\ dirty' = dirty \ (call[c].ack \cup DOMAIN call[c].push)
  /\ call' = [call EXCEPT ![c] = Idle]
  /\ UNCHANGED <<jar, load, cached, writes, pending, calm>>

\* The call fails, before the request reaches the proxy or after.
Lose(c) ==
  /\ call[c].at \in {"sent", "reply"}
  /\ call' = [call EXCEPT ![c] = Idle]
  /\ calm' = FALSE
  /\ UNCHANGED <<shadow, dirty, jar, load, cached, writes, pending>>

-----------------------------------------------------------------------------
(* The proxy.                                                              *)

\* Mutant: a tombstone is not turned into a deletion.
ApplySyncWrites(c) ==
  /\ call[c].at = "sent"
  /\ \E k \in call[c].todo :
       /\ jar' = [jar EXCEPT ![k] = call[c].sync[k].id]
       /\ pending' = pending \ {call[c].sync[k].id}
       /\ call' = [call EXCEPT ![c].todo = @ \ {k}]
  /\ UNCHANGED <<shadow, dirty, load, cached, writes, calm>>

\* ServeHTTP adds the synchronised cookies one by one; a tombstone has Max-Age -1.
ApplySync(c) ==
  /\ call[c].at = "sent"
  /\ \E k \in call[c].todo :
       LET e == call[c].sync[k]
       IN /\ jar' = [jar EXCEPT ![k] = IF e.del THEN None ELSE e.id]
          /\ pending' = pending \ {e.id}
          /\ call' = [call EXCEPT ![c].todo = @ \ {k}]
  /\ UNCHANGED <<shadow, dirty, load, cached, writes, calm>>

\* The origin answers; processResponse puts its Set-Cookie, if any, into the jar,
\* writes the push header and acknowledges the keys of the sync header.  The cache may
\* keep the response, these headers with it.
Respond(c) ==
  /\ call[c].at = "sent"
  /\ call[c].todo = {}
  /\ \/ /\ UNCHANGED <<jar, writes>>
        /\ call' = [call EXCEPT ![c].at = "reply", ![c].ack = DOMAIN call[c].sync]
     \/ /\ writes < MaxWrites
        /\ writes' = writes + 1
        /\ \E k \in Keys, del \in BOOLEAN :
             /\ jar' = [jar EXCEPT ![k] = IF del THEN None ELSE writes']
             /\ call' = [call EXCEPT ![c].at = "reply", ![c].ack = DOMAIN call[c].sync,
                                     ![c].push = [q \in {k} |-> [id |-> writes', del |-> del]]]
  /\ cached' \in {cached, [ack |-> call'[c].ack, push |-> call'[c].push]}
  /\ UNCHANGED <<shadow, dirty, load, pending, calm>>

\* The cache answers, after the synchronised cookies are in the jar: the call gets the
\* headers of another one.  They do no harm if they confirm only what was sent.
RespondCached(c) ==
  /\ call[c].at = "sent"
  /\ call[c].todo = {}
  /\ cached # None
  /\ call' = [call EXCEPT ![c].at = "reply", ![c].ack = cached.ack, ![c].push = cached.push]
  /\ calm' = (calm /\ cached.ack \subseteq DOMAIN call[c].sync /\ DOMAIN cached.push = {})
  /\ UNCHANGED <<shadow, dirty, jar, load, cached, writes, pending>>

\* The response to a page of another session is stored; its origin may have set a
\* cookie, in the other session's jar.
OtherSessionStored ==
  /\ \E ack \in SUBSET Keys :
       \/ /\ cached' = [ack |-> ack, push |-> NoSync]
          /\ UNCHANGED writes
       \/ /\ writes < MaxWrites
          /\ writes' = writes + 1
          /\ \E k \in Keys, del \in BOOLEAN :
               cached' = [ack |-> ack, push |-> [q \in {k} |-> [id |-> writes', del |-> del]]]
  /\ UNCHANGED <<shadow, dirty, call, jar, load, pending, calm>>

\* A block or replace rule, or an upstream error: a response without Ack and Push.
RespondBare(c) ==
  /\ call[c].at = "sent"
  /\ call[c].todo = {}
  /\ call' = [call EXCEPT ![c].at = "reply"]
  /\ UNCHANGED <<shadow, dirty, jar, load, cached, writes, pending, calm>>

-----------------------------------------------------------------------------
(* Loading a document.  Navigation requests carry no sync header.          *)

\* The origin may set a cookie; then the jar's cookies are written into the HTML.
Navigate ==
  /\ load = None
  /\ \/ UNCHANGED <<jar, writes>>
     \/ /\ writes < MaxWrites
        /\ writes' = writes + 1
        /\ \E k \in Keys, del \in BOOLEAN : jar' = [jar EXCEPT ![k] = IF del THEN None ELSE writes']
  /\ load' = jar'
  /\ calm' = (calm /\ ~Busy)
  /\ UNCHANGED <<shadow, dirty, call, cached, pending>>

\* The new document starts: initServerCookies; calls of the old one get no answer.
Commit ==
  /\ load # None
  /\ shadow' = [k \in Keys |-> IF load[k] = None THEN None ELSE [id |-> load[k], del |-> FALSE]]
  /\ dirty' = {}
  /\ call' = [c \in Calls |-> IF Under(c) THEN [call[c] EXCEPT !.orphan = TRUE] ELSE call[c]]
  /\ load' = None
  /\ calm' = (jar = load /\ \A c \in Calls : ~Under(c))
  /\ UNCHANGED <<jar, cached, writes, pending>>

-----------------------------------------------------------------------------
Init ==
  /\ shadow = [k \in Keys |-> None]
  /\ dirty = {}
  /\ call = [c \in Calls |-> Idle]
  /\ jar = [k \in Keys |-> None]
  /\ load = None
  /\ cached = None
  /\ writes = 0
  /\ pending = {}
  /\ calm = TRUE

Server(c) == ApplySync(c) \/ Respond(c) \/ RespondBare(c) \/ RespondCached(c)

Next ==
  \/ \E k \in Keys, del \in BOOLEAN : PageWrite(k, del)
  \/ \E c \in Calls : Send(c) \/ Deliver(c) \/ Lose(c) \/ Server(c)
  \/ OtherSessionStored
  \/ Navigate
  \/ Commit

\* A reply to a call that had something to confirm, and confirms all of it.
Confirms(c) == call[c].ack # {} /\ DOMAIN call[c].sync \subseteq call[c].ack

\* The page keeps calling, the proxy keeps answering, answers are not for ever errors
\* or the cache's, and the network is not for ever losing those that confirm.
Fairness ==
  \A c \in Calls : /\ WF_vars(Send(c))
                   /\ SF_vars(ApplySync(c))
                   /\ SF_vars(Respond(c))
                   /\ SF_vars(Deliver(c) /\ Confirms(c))
                   /\ WF_vars(Deliver(c))

Spec == Init /\ [][Next]_vars

FairSpec == Spec /\ Fairness

-----------------------------------------------------------------------------
Call == [at : {"idle", "sent", "reply"}, sync : Header, todo : SUBSET Keys, ack : SUBSET Keys,
         push : Header, orphan : BOOLEAN]

\* Every variable has its type; what is to be applied was synchronised.
TypeOK ==
  /\ shadow \in [Keys -> Entry \cup {None}]
  /\ dirty \subseteq Keys
  /\ call \in [Calls -> Call]
  /\ \A c \in Calls : call[c].todo \subseteq DOMAIN call[c].sync
  /\ jar \in [Keys -> Ids \cup {None}]
  /\ load \in [Keys -> Ids \cup {None}] \cup {None}
  /\ cached \in Reply \cup {None}
  /\ writes \in 0 .. MaxWrites
  /\ pending \subseteq Ids
  /\ calm \in BOOLEAN

\* What document.cookie shows of a key, as the id of the write.
Shown(k) == IF shadow[k] = None \/ shadow[k].del THEN None ELSE shadow[k].id

\* The shadow jar and the dirty set fit together under every interleaving of acks,
\* pushes, writes and loads, those of other calls and sessions that the cache replays
\* included: a key waiting to be synchronised has something to send, and a tombstone
\* is never forgotten in the jar.
DirtyFits ==
  \A k \in Keys :
    /\ k \in dirty => shadow[k] # None
    /\ shadow[k] # None /\ shadow[k].del => k \in dirty

\* cookie.md: a load makes the shadow jar "agree with the server"; the protocol keeps
\* it so: unless calls overlapped, a response got lost, or the cache answered with
\* what another call was told, since the last load, a quiet page shows the server's
\* cookies, except for those it has yet to send.
QuietAgrees ==
  calm /\ ~Busy => \A k \in Keys \ dirty : Shown(k) = jar[k]

\* A response changes what the page shows only for the keys it pushes, however late
\* it arrives and whoever it was made for: an acknowledgement, even of what the page
\* never sent, shows nothing.
ChangesOnlyPushed ==
  [][\A c \in Calls : Under(c) /\ call'[c] = Idle =>
       \A k \in Keys \ DOMAIN call[c].push : Shown(k)' = Shown(k)]_vars

\* Once the page stops writing, its dirty set becomes and stays empty: retries end.
EventuallyClean == <>[](dirty = {})

\* cookie.ts:6: "unacknowledged dirty cookies are retried with the next request": what
\* the page wrote stays dirty at least until the server has applied it.
DirtyUntilApplied ==
  \A k \in Keys : shadow[k] # None /\ shadow[k].id \in pending => k \in dirty
=============================================================================
