--------------------------- MODULE CookieSyncProofs ---------------------------
(***************************************************************************)
(* What CookieSync keeps for any keys, any number of overlapping calls and *)
(* any number of writes.                                                   *)
(***************************************************************************)
EXTENDS CookieSync, TLAPS

\* A synchronised write as the jar holds it.
InJar(e) == IF e.del THEN None ELSE e.id

\* A call on its way has nothing yet to tell the page.
CallsFit == \A c \in Calls : call[c].at = "sent" => call[c].ack = {} /\ DOMAIN call[c].push = {}

\* While nothing overlaps, one exchange at most is under way; what it has applied, and
\* all that was not dirty when it began, agrees already.
Alone(c) == load = None /\ ~call[c].orphan /\ \A d \in Calls : Under(d) => d = c

SentAgrees(c) ==
  /\ \A k \in DOMAIN call[c].sync : call[c].sync[k] = shadow[k] /\ shadow[k] # None
  /\ \A k \in Keys \ call[c].todo : Shown(k) = jar[k]

ReplyAgrees(c) ==
  \A k \in Keys : jar[k] = IF k \in DOMAIN call[c].push THEN InJar(call[c].push[k]) ELSE Shown(k)

CalmInv ==
  calm => /\ \A c \in Calls : Under(c) => Alone(c)
          /\ \A c \in Calls : call[c].at = "sent" => SentAgrees(c)
          /\ \A c \in Calls : call[c].at = "reply" => ReplyAgrees(c)
          /\ ~Busy => \A k \in Keys \ dirty : Shown(k) = jar[k]

PageInv == TypeOK /\ CallsFit /\ DirtyFits /\ CalmInv

-----------------------------------------------------------------------------
(* Types.                                                                  *)

LEMMA Headers ==
  /\ NoSync \in Header /\ DOMAIN NoSync = {}
  /\ Idle \in Call
  /\ \A h \in Header : DOMAIN h \subseteq Keys /\ \A k \in DOMAIN h : h[k] \in Entry
  /\ \A keys \in SUBSET Keys, f \in [Keys -> Entry \cup {None}] :
       (\A k \in keys : f[k] # None) => [k \in keys |-> f[k]] \in Header
  /\ \A k \in Keys, e \in Entry : [q \in {k} |-> e] \in Header
<1>1. \A keys \in SUBSET Keys : [keys -> Entry] \subseteq Header
  BY DEF Header
<1>2. NoSync \in [{} -> Entry]
  BY DEF NoSync
<1>3. NoSync \in Header /\ DOMAIN NoSync = {}
  BY <1>1, <1>2 DEF NoSync
<1>4. Idle \in Call
  BY <1>3 DEF Idle, Call
<1>5. \A h \in Header : DOMAIN h \subseteq Keys /\ \A k \in DOMAIN h : h[k] \in Entry
  BY DEF Header
<1>6. ASSUME NEW keys \in SUBSET Keys, NEW f \in [Keys -> Entry \cup {None}], \A k \in keys : f[k] # None
      PROVE  [k \in keys |-> f[k]] \in Header
  BY <1>1, <1>6
<1>7. ASSUME NEW k \in Keys, NEW e \in Entry PROVE [q \in {k} |-> e] \in Header
  <2>1. [q \in {k} |-> e] \in [{k} -> Entry]
    OBVIOUS
  <2> QED
    BY <1>1, <2>1
<1> QED
  BY <1>3, <1>4, <1>5, <1>6, <1>7

\* The headers of a call are a reply.
LEMMA Replies ==
  /\ \A c \in Call : [ack |-> c.ack, push |-> c.push] \in Reply
  /\ \A r \in Reply : r.ack \subseteq Keys /\ r.push \in Header
BY DEF Call, Reply

LEMMA IdsAreNat == Ids \subseteq Nat /\ None \notin Ids /\ None \notin Entry /\ None \notin [Keys -> Ids \cup {None}]
<1>1. Ids \subseteq Nat
  BY DEF Ids
<1>2. Entry \subseteq [id : Nat, del : BOOLEAN]
  BY <1>1 DEF Entry
<1>3. [Keys -> Ids \cup {None}] \subseteq [Keys -> Nat \cup {None}]
  BY <1>1
<1> QED
  BY <1>1, <1>2, <1>3, NoneAssumption

LEMMA InitPage == Init => PageInv
<1> SUFFICES ASSUME Init PROVE PageInv
  OBVIOUS
<1>1. TypeOK
  BY Headers, MaxWritesAssumption DEF Init, TypeOK, Idle
<1>2. CallsFit /\ DirtyFits
  BY DEF Init, CallsFit, DirtyFits, Idle
<1>3. CalmInv
  BY DEF Init, CalmInv, Idle, Under, Shown
<1> QED
  BY <1>1, <1>2, <1>3 DEF PageInv

\* The response's effect on the shadow jar.
LEMMA ShadowAfter ==
  ASSUME TypeOK, NEW c \in Calls, NEW s, s = Pushed(Acked(shadow, call[c].ack), call[c].push)
  PROVE  /\ s \in [Keys -> Entry \cup {None}]
         /\ \A k \in Keys :
              /\ k \in DOMAIN call[c].push =>
                   s[k] = IF call[c].push[k].del THEN None ELSE call[c].push[k]
              /\ k \notin DOMAIN call[c].push =>
                   s[k] = IF k \in call[c].ack /\ shadow[k] # None /\ shadow[k].del THEN None ELSE shadow[k]
<1>1. call[c].push \in Header
  BY DEF TypeOK, Call
<1>2. \A k \in DOMAIN call[c].push : call[c].push[k] \in Entry
  BY <1>1, Headers
<1> QED
  BY <1>2 DEF Pushed, Acked, TypeOK

-----------------------------------------------------------------------------
(* The page's steps.                                                       *)

LEMMA PageWriteKeeps == ASSUME PageInv, NEW k \in Keys, NEW del \in BOOLEAN, PageWrite(k, del) PROVE PageInv'
<1> USE DEF PageInv, PageWrite
<1>1. writes' \in Ids /\ writes' \in 0 .. MaxWrites
  BY MaxWritesAssumption DEF TypeOK, Ids
<1>2. [id |-> writes', del |-> del] \in Entry
  BY <1>1 DEF Entry
<1>3. TypeOK'
  BY <1>1, <1>2 DEF TypeOK
<1>4. shadow'[k] \in Entry /\ shadow'[k] # None
  BY <1>2, IdsAreNat DEF TypeOK
<1>5. CallsFit' /\ DirtyFits'
  BY <1>4 DEF CallsFit, DirtyFits, TypeOK
<1>6. CalmInv'
  <2> SUFFICES ASSUME calm, ~Busy PROVE CalmInv'
    BY DEF CalmInv, TypeOK
  <2>1. \A c \in Calls : ~Under(c)
    BY DEF Busy
  <2>2. \A q \in Keys \ dirty' : Shown(q)' = Shown(q) /\ q \notin dirty
    BY DEF Shown, TypeOK
  <2>3. \A q \in Keys \ dirty : Shown(q) = jar[q]
    BY DEF CalmInv
  <2> QED
    BY <2>1, <2>2, <2>3 DEF CalmInv, Under
<1> QED
  BY <1>3, <1>5, <1>6

LEMMA SendKeeps == ASSUME PageInv, NEW c \in Calls, Send(c) PROVE PageInv'
<1> DEFINE sent == [Idle EXCEPT !.at = "sent", !.sync = [k \in SyncKeys |-> shadow[k]], !.todo = SyncKeys]
<1> USE DEF PageInv
<1>1. SyncKeys = dirty /\ SyncKeys \subseteq Keys
  BY DEF SyncKeys, DirtyFits, TypeOK
<1>2. [k \in SyncKeys |-> shadow[k]] \in Header
  BY <1>1, Headers DEF SyncKeys, TypeOK
<1>3. /\ sent.at = "sent" /\ sent.sync = [k \in SyncKeys |-> shadow[k]] /\ sent.todo = SyncKeys
      /\ sent.ack = {} /\ sent.push = NoSync /\ sent.orphan = FALSE
      /\ sent \in Call
  BY <1>1, <1>2, Headers DEF Idle, Call
<1> HIDE DEF sent
<1>4. call' = [call EXCEPT ![c] = sent]
  BY DEF Send, sent
<1>5. TypeOK'
  BY <1>3, <1>4 DEF Send, TypeOK
<1>6. dirty' = dirty
  BY <1>1 DEF Send
<1>7. CallsFit' /\ DirtyFits'
  BY <1>3, <1>4, <1>6, Headers DEF Send, CallsFit, DirtyFits, TypeOK
<1>8. CalmInv'
  <2> SUFFICES ASSUME calm, ~Busy PROVE CalmInv'
    BY DEF CalmInv, Send, TypeOK
  <2>1. load' = None /\ \A d \in Calls : ~Under(d)
    BY DEF Busy, Send
  <2>2. \A d \in Calls : (Under(d)' => d = c) /\ (d # c => call'[d] = call[d])
    BY <1>4, <2>1 DEF Under, TypeOK
  <2>3. Alone(c)' /\ call'[c] = sent /\ Under(c)'
    BY <1>3, <1>4, <2>1, <2>2 DEF Alone, TypeOK, Under
  <2>4. \A k \in Keys \ SyncKeys : Shown(k)' = jar'[k]
    BY <1>1 DEF CalmInv, Send, Shown
  <2>5. SentAgrees(c)'
    BY <1>1, <1>3, <2>3, <2>4 DEF SentAgrees, SyncKeys, Send
  <2> QED
    BY <1>3, <2>2, <2>3, <2>5 DEF CalmInv, Busy, Under
<1> QED
  BY <1>5, <1>7, <1>8

LEMMA DeliverKeeps == ASSUME PageInv, NEW c \in Calls, Deliver(c) PROVE PageInv'
<1> USE DEF PageInv
<1>0. /\ call' = [call EXCEPT ![c] = Idle] /\ call[c].at = "reply"
      /\ UNCHANGED <<jar, load, cached, writes, pending, calm>>
  BY DEF Deliver
<1>1. \A d \in Calls : call'[d] = IF d = c THEN Idle ELSE call[d]
  BY <1>0 DEF TypeOK
<1>2. Idle.at = "idle" /\ Idle.todo = {}
  BY DEF Idle
<1>3. CASE call[c].orphan
  <2>1. UNCHANGED <<shadow, dirty>>
    BY <1>3 DEF Deliver
  <2>2. TypeOK'
    BY <1>0, <1>1, <1>2, <2>1, Headers DEF TypeOK
  <2>3. CallsFit' /\ DirtyFits'
    BY <1>0, <1>1, <1>2, <2>1 DEF CallsFit, DirtyFits
  <2>4. ~calm
    BY <1>0, <1>3 DEF CalmInv, Alone, Under
  <2> QED
    BY <1>0, <2>2, <2>3, <2>4 DEF CalmInv
<1>4. CASE ~call[c].orphan
  <2> DEFINE ack == call[c].ack
             push == call[c].push
  <2>1. /\ shadow' = Pushed(Acked(shadow, ack), push)
        /\ dirty' = dirty \ (ack \cup DOMAIN push)
    BY <1>4 DEF Deliver
  <2>2. /\ DOMAIN push \subseteq Keys /\ \A k \in DOMAIN push : push[k] \in Entry /\ push[k] # None
        /\ ack \subseteq Keys
    BY Headers, IdsAreNat DEF TypeOK, Call
  <2>3. /\ shadow' \in [Keys -> Entry \cup {None}]
        /\ \A k \in Keys :
             /\ k \in DOMAIN push => shadow'[k] = IF push[k].del THEN None ELSE push[k]
             /\ k \notin DOMAIN push =>
                  shadow'[k] = IF k \in ack /\ shadow[k] # None /\ shadow[k].del THEN None ELSE shadow[k]
    BY <2>1, ShadowAfter
  <2> HIDE DEF ack, push
  <2>4. TypeOK'
    BY <1>0, <1>1, <1>2, <2>1, <2>3, Headers DEF TypeOK
  <2>5. CallsFit'
    BY <1>1, <1>2 DEF CallsFit
  <2>6. DirtyFits'
    BY <2>1, <2>2, <2>3 DEF DirtyFits
  <2>7. CalmInv'
    <3> SUFFICES ASSUME calm PROVE CalmInv'
      BY <1>0 DEF CalmInv
    <3>1. Alone(c) /\ ReplyAgrees(c)
      BY <1>0 DEF CalmInv, Under
    <3>2. \A d \in Calls : call'[d].at = "idle"
      BY <1>1, <1>2, <3>1 DEF Alone, Under
    <3>3. \A k \in Keys : Shown(k)' = jar[k]
      BY <2>2, <2>3, <3>1 DEF ReplyAgrees, InJar, Shown, push
    <3> QED
      BY <1>0, <3>2, <3>3 DEF CalmInv, Under
  <2> QED
    BY <2>4, <2>5, <2>6, <2>7
<1> QED
  BY <1>3, <1>4

LEMMA LoseKeeps == ASSUME PageInv, NEW c \in Calls, Lose(c) PROVE PageInv'
<1>1. \A d \in Calls : call'[d] = IF d = c THEN Idle ELSE call[d]
  BY DEF PageInv, TypeOK, Lose
<1>2. Idle.at = "idle" /\ Idle.todo = {}
  BY DEF Idle
<1>3. TypeOK'
  BY <1>1, <1>2, Headers DEF PageInv, TypeOK, Lose
<1> QED
  BY <1>1, <1>2, <1>3 DEF PageInv, CallsFit, DirtyFits, CalmInv, Lose

-----------------------------------------------------------------------------
(* The proxy's steps.                                                      *)

LEMMA ApplySyncKeeps == ASSUME PageInv, NEW c \in Calls, ApplySync(c) PROVE PageInv'
<1> USE DEF PageInv
<1>1. PICK k \in call[c].todo :
        /\ jar' = [jar EXCEPT ![k] = InJar(call[c].sync[k])]
        /\ pending' = pending \ {call[c].sync[k].id}
        /\ call' = [call EXCEPT ![c].todo = @ \ {k}]
  BY DEF ApplySync, InJar
<1>2. call[c].at = "sent" /\ UNCHANGED <<shadow, dirty, load, cached, writes, calm>>
  BY DEF ApplySync
<1>3. k \in Keys /\ k \in DOMAIN call[c].sync /\ call[c].sync[k] \in Entry /\ call[c] \in Call
  BY Headers DEF TypeOK, Call
<1>4. /\ \A d \in Calls : d # c => call'[d] = call[d]
      /\ call'[c] = [call[c] EXCEPT !.todo = @ \ {k}]
      /\ call'[c].todo = call[c].todo \ {k} /\ call'[c].at = "sent"
      /\ call'[c].sync = call[c].sync /\ call'[c].ack = call[c].ack /\ call'[c].push = call[c].push
      /\ call'[c].orphan = call[c].orphan
  BY <1>1, <1>2, <1>3 DEF TypeOK, Call
<1>5. call'[c] \in Call
  BY <1>3, <1>4 DEF Call
<1>6. call' \in [Calls -> Call] /\ jar' \in [Keys -> Ids \cup {None}]
  BY <1>1, <1>3, <1>5 DEF TypeOK, InJar, Entry
<1>7. TypeOK'
  BY <1>1, <1>2, <1>4, <1>6 DEF TypeOK
<1>8. CallsFit' /\ DirtyFits'
  BY <1>2, <1>4 DEF CallsFit, DirtyFits
<1>9. CalmInv'
  <2> SUFFICES ASSUME calm PROVE CalmInv'
    BY <1>2 DEF CalmInv
  <2>1. Alone(c) /\ SentAgrees(c)
    BY <1>2 DEF CalmInv, Under
  <2>2. \A d \in Calls : Under(d)' <=> d = c
    BY <1>2, <1>4, <2>1 DEF Alone, Under
  <2>3. Alone(c)'
    BY <1>2, <1>4, <2>1, <2>2 DEF Alone
  <2>4. jar'[k] = Shown(k)' /\ \A q \in Keys : q # k => jar'[q] = jar[q] /\ Shown(q)' = Shown(q)
    BY <1>1, <1>2, <1>3, <2>1 DEF TypeOK, SentAgrees, Shown, InJar
  <2>5. SentAgrees(c)'
    BY <1>2, <1>4, <2>1, <2>4 DEF SentAgrees
  <2> QED
    BY <1>4, <2>2, <2>3, <2>5 DEF CalmInv, Under, Busy
<1> QED
  BY <1>7, <1>8, <1>9

\* A response, with or without Ack and Push, when everything synchronised is in the jar.
LEMMA ReplyKeeps ==
  ASSUME PageInv, NEW c \in Calls, call[c].at = "sent", call[c].todo = {},
         NEW ack \in SUBSET Keys, NEW push \in Header,
         call' = [call EXCEPT ![c] = [call[c] EXCEPT !.at = "reply", !.ack = ack, !.push = push]],
         UNCHANGED <<shadow, dirty, load, pending>>,
         writes' \in 0 .. MaxWrites, cached' \in Reply \cup {None},
         jar' \in [Keys -> Ids \cup {None}], calm' \in BOOLEAN,
         calm' => /\ calm
                  /\ jar' = [k \in Keys |-> IF k \in DOMAIN push THEN InJar(push[k]) ELSE jar[k]]
  PROVE  PageInv'
<1> USE DEF PageInv
<1>1. call[c] \in Call /\ DOMAIN call[c].sync \subseteq Keys
  BY Headers DEF TypeOK, Call
<1>2. /\ \A d \in Calls : d # c => call'[d] = call[d]
      /\ call'[c].at = "reply" /\ call'[c].ack = ack /\ call'[c].push = push
      /\ call'[c].sync = call[c].sync /\ call'[c].todo = {} /\ call'[c].orphan = call[c].orphan
      /\ call'[c] \in Call
  BY <1>1 DEF TypeOK, Call
<1>4. TypeOK'
  BY <1>2 DEF TypeOK
<1>5. CallsFit' /\ DirtyFits'
  BY <1>2 DEF CallsFit, DirtyFits
<1>6. CalmInv'
  <2> SUFFICES ASSUME calm' PROVE CalmInv'
    BY DEF CalmInv
  <2>1. Alone(c) /\ SentAgrees(c)
    BY DEF CalmInv, Under
  <2>2. \A d \in Calls : Under(d)' <=> d = c
    BY <1>2, <2>1 DEF Alone, Under
  <2>3. Alone(c)'
    BY <1>2, <2>1, <2>2 DEF Alone
  <2>4. ReplyAgrees(c)'
    BY <1>2, <2>1 DEF ReplyAgrees, SentAgrees, Shown
  <2> QED
    BY <1>2, <2>2, <2>3, <2>4 DEF CalmInv, Under, Busy
<1> QED
  BY <1>4, <1>5, <1>6

LEMMA RespondKeeps ==
  ASSUME PageInv, NEW c \in Calls, Respond(c) \/ RespondBare(c) \/ RespondCached(c)
  PROVE  PageInv'
<1>1. /\ call[c].at = "sent" /\ call[c].todo = {} /\ call[c].ack = {} /\ DOMAIN call[c].push = {}
      /\ call[c].push \in Header /\ call[c] \in Call /\ jar \in [Keys -> Ids \cup {None}]
      /\ writes \in 0 .. MaxWrites /\ calm \in BOOLEAN /\ DOMAIN call[c].sync \in SUBSET Keys
      /\ UNCHANGED <<shadow, dirty, load, pending>>
  BY Headers DEF Respond, RespondBare, RespondCached, PageInv, CallsFit, TypeOK, Call
<1>2. jar = [k \in Keys |-> IF k \in DOMAIN call[c].push THEN InJar(call[c].push[k]) ELSE jar[k]]
  BY <1>1
<1>6. CASE RespondCached(c)
  <2>1. cached \in Reply /\ cached.ack \in SUBSET Keys /\ cached.push \in Header
    BY <1>6, Replies DEF RespondCached, PageInv, TypeOK
  <2>2. call' = [call EXCEPT ![c] = [call[c] EXCEPT !.at = "reply", !.ack = cached.ack, !.push = cached.push]]
    BY <1>1, <1>6 DEF RespondCached, PageInv, TypeOK, Call
  <2>3. /\ cached' \in Reply \cup {None} /\ UNCHANGED <<jar, writes>>
        /\ calm' = (calm /\ cached.ack \subseteq DOMAIN call[c].sync /\ DOMAIN cached.push = {})
    BY <1>6, <2>1 DEF RespondCached
  <2>4. calm' \in BOOLEAN /\ (calm' => calm /\ DOMAIN cached.push = {})
    BY <1>1, <2>3
  <2>5. DOMAIN cached.push = {} =>
          jar' = [k \in Keys |-> IF k \in DOMAIN cached.push THEN InJar(cached.push[k]) ELSE jar[k]]
    BY <1>1, <2>3
  <2> QED
    BY <1>1, <2>1, <2>2, <2>3, <2>4, <2>5, ReplyKeeps
<1>3. CASE RespondBare(c)
  <2>1. [call[c] EXCEPT !.at = "reply"] = [call[c] EXCEPT !.at = "reply", !.ack = {}, !.push = call[c].push]
    BY <1>1 DEF Call
  <2>2. /\ call' = [call EXCEPT ![c] = [call[c] EXCEPT !.at = "reply"]] /\ UNCHANGED <<jar, writes, calm>>
        /\ cached' \in Reply \cup {None}
    BY <1>3 DEF RespondBare, PageInv, TypeOK
  <2>3. /\ call' = [call EXCEPT ![c] = [call[c] EXCEPT !.at = "reply", !.ack = {}, !.push = call[c].push]]
        /\ jar' = [k \in Keys |-> IF k \in DOMAIN call[c].push THEN InJar(call[c].push[k]) ELSE jar[k]]
        /\ writes' \in 0 .. MaxWrites
    BY <1>1, <1>2, <2>1, <2>2
  <2> QED
    <3>1. {} \in SUBSET Keys /\ calm' \in BOOLEAN /\ jar' \in [Keys -> Ids \cup {None}] /\ (calm' => calm)
      BY <1>1, <2>2
    <3>2. cached' \in Reply \cup {None}
      BY <2>2
    <3> QED
      BY <1>1, <2>3, <3>1, <3>2, ReplyKeeps
<1>7. Respond(c) => UNCHANGED calm /\ cached' \in Reply \cup {None}
  <2>1. Respond(c) => call'[c] \in Call
    <3> SUFFICES ASSUME Respond(c) PROVE call'[c] \in Call
      OBVIOUS
    <3>1. ASSUME NEW w \in Ids, NEW k \in Keys, NEW del \in BOOLEAN,
                 call' = [call EXCEPT ![c].at = "reply", ![c].ack = DOMAIN call[c].sync,
                                      ![c].push = [q \in {k} |-> [id |-> w, del |-> del]]]
          PROVE  call'[c] \in Call
      <4> DEFINE p == [q \in {k} |-> [id |-> w, del |-> del]]
      <4>2. [id |-> w, del |-> del] \in Entry
        BY DEF Entry
      <4>3. p \in Header
        BY <4>2, Headers
      <4>4. call' = [call EXCEPT ![c].at = "reply", ![c].ack = DOMAIN call[c].sync, ![c].push = p]
        BY <3>1
      <4> HIDE DEF p
      <4> QED
        BY <1>1, <4>3, <4>4 DEF PageInv, TypeOK, Call
    <3>2. CASE call' = [call EXCEPT ![c].at = "reply", ![c].ack = DOMAIN call[c].sync]
      BY <1>1, <3>2 DEF PageInv, TypeOK, Call
    <3>3. writes < MaxWrites /\ writes' = writes + 1 => writes' \in Ids
      BY <1>1, MaxWritesAssumption DEF Ids
    <3>4. CASE writes < MaxWrites /\ writes' = writes + 1 /\ ~UNCHANGED writes
      <4>1. PICK k \in Keys, del \in BOOLEAN :
              /\ jar' = [jar EXCEPT ![k] = IF del THEN None ELSE writes']
              /\ call' = [call EXCEPT ![c].at = "reply", ![c].ack = DOMAIN call[c].sync,
                                      ![c].push = [q \in {k} |-> [id |-> writes', del |-> del]]]
        BY <3>4 DEF Respond
      <4>2. writes' \in Ids
        BY <3>3, <3>4
      <4> QED
        BY <4>1, <4>2, <3>1
    <3>5. CASE UNCHANGED writes
      BY <1>1, <3>2, <3>5 DEF Respond
    <3> QED
      BY <3>4, <3>5 DEF Respond
  <2>2. Respond(c) => /\ UNCHANGED calm
                      /\ cached' \in {cached, [ack |-> call'[c].ack, push |-> call'[c].push]}
    BY DEF Respond
  <2>3. cached \in Reply \cup {None}
    BY DEF PageInv, TypeOK
  <2> QED
    BY <2>1, <2>2, <2>3, Replies
<1>4. CASE /\ Respond(c)
           /\ UNCHANGED <<jar, writes>>
           /\ call' = [call EXCEPT ![c].at = "reply", ![c].ack = DOMAIN call[c].sync]
  <2>1. [call[c] EXCEPT !.at = "reply", !.ack = DOMAIN call[c].sync] =
          [call[c] EXCEPT !.at = "reply", !.ack = DOMAIN call[c].sync, !.push = call[c].push]
    BY <1>1 DEF Call
  <2>2. call' = [call EXCEPT ![c] = [call[c] EXCEPT !.at = "reply", !.ack = DOMAIN call[c].sync]]
    BY <1>1, <1>4 DEF PageInv, TypeOK, Call
  <2>3. /\ call' = [call EXCEPT ![c] = [call[c] EXCEPT !.at = "reply", !.ack = DOMAIN call[c].sync,
                                                       !.push = call[c].push]]
        /\ jar' = [k \in Keys |-> IF k \in DOMAIN call[c].push THEN InJar(call[c].push[k]) ELSE jar[k]]
        /\ writes' \in 0 .. MaxWrites
    BY <1>1, <1>2, <1>4, <2>1, <2>2
  <2> QED
    <3>1. calm' \in BOOLEAN /\ jar' \in [Keys -> Ids \cup {None}] /\ (calm' => calm)
      BY <1>1, <1>4, <1>7
    <3>2. cached' \in Reply \cup {None}
      BY <1>4, <1>7
    <3> QED
      BY <1>1, <2>3, <3>1, <3>2, ReplyKeeps
<1>5. CASE /\ Respond(c)
           /\ writes < MaxWrites
           /\ writes' = writes + 1
           /\ \E k \in Keys, del \in BOOLEAN :
                /\ jar' = [jar EXCEPT ![k] = IF del THEN None ELSE writes']
                /\ call' = [call EXCEPT ![c].at = "reply", ![c].ack = DOMAIN call[c].sync,
                                        ![c].push = [q \in {k} |-> [id |-> writes', del |-> del]]]
  <2>1. PICK k \in Keys, del \in BOOLEAN :
          /\ jar' = [jar EXCEPT ![k] = IF del THEN None ELSE writes']
          /\ call' = [call EXCEPT ![c].at = "reply", ![c].ack = DOMAIN call[c].sync,
                                  ![c].push = [q \in {k} |-> [id |-> writes', del |-> del]]]
    BY <1>5
  <2> DEFINE e == [id |-> writes', del |-> del]
             push == [q \in {k} |-> e]
  <2>2. writes' \in Ids /\ writes' \in 0 .. MaxWrites
    BY <1>1, <1>5, MaxWritesAssumption DEF Ids
  <2>3. e \in Entry
    BY <2>2 DEF Entry
  <2>4. push \in Header /\ DOMAIN push = {k} /\ push[k] = e
    BY <2>3, Headers
  <2>5. /\ jar' = [q \in Keys |-> IF q \in DOMAIN push THEN InJar(push[q]) ELSE jar[q]]
        /\ jar' \in [Keys -> Ids \cup {None}]
    BY <1>1, <2>1, <2>2, <2>4 DEF InJar
  <2> HIDE DEF e
  <2>6. call' = [call EXCEPT ![c] = [call[c] EXCEPT !.at = "reply", !.ack = DOMAIN call[c].sync, !.push = push]]
    BY <1>1, <2>1 DEF PageInv, TypeOK, Call, e
  <2> HIDE DEF push
  <2> QED
    <3>1. calm' \in BOOLEAN /\ (calm' => calm)
      BY <1>1, <1>5, <1>7
    <3>2. cached' \in Reply \cup {None}
      BY <1>5, <1>7
    <3> QED
      BY <1>1, <2>2, <2>4, <2>5, <2>6, <3>1, <3>2, ReplyKeeps
<1> QED
  BY <1>3, <1>4, <1>5, <1>6 DEF Respond

\* Another session's response: the page and the jar are not concerned.
LEMMA OtherSessionKeeps == ASSUME PageInv, OtherSessionStored PROVE PageInv'
<1>1. cached' \in Reply /\ writes' \in 0 .. MaxWrites
  <2>1. PICK ack \in SUBSET Keys :
          \/ /\ cached' = [ack |-> ack, push |-> NoSync]
             /\ UNCHANGED writes
          \/ /\ writes < MaxWrites
             /\ writes' = writes + 1
             /\ \E k \in Keys, del \in BOOLEAN :
                  cached' = [ack |-> ack, push |-> [q \in {k} |-> [id |-> writes', del |-> del]]]
    BY DEF OtherSessionStored
  <2>2. CASE cached' = [ack |-> ack, push |-> NoSync] /\ UNCHANGED writes
    BY <2>2, Headers DEF Reply, PageInv, TypeOK
  <2>3. CASE /\ writes < MaxWrites /\ writes' = writes + 1
             /\ \E k \in Keys, del \in BOOLEAN :
                  cached' = [ack |-> ack, push |-> [q \in {k} |-> [id |-> writes', del |-> del]]]
    <3>1. writes' \in Ids /\ writes' \in 0 .. MaxWrites
      BY <2>3, MaxWritesAssumption DEF Ids, PageInv, TypeOK
    <3>2. PICK k \in Keys, del \in BOOLEAN :
            cached' = [ack |-> ack, push |-> [q \in {k} |-> [id |-> writes', del |-> del]]]
      BY <2>3
    <3>3. [id |-> writes', del |-> del] \in Entry
      BY <3>1 DEF Entry
    <3>4. [q \in {k} |-> [id |-> writes', del |-> del]] \in Header
      BY <3>3, Headers
    <3> QED
      BY <3>1, <3>2, <3>4 DEF Reply
  <2> QED
    BY <2>1, <2>2, <2>3
<1> QED
  BY <1>1 DEF OtherSessionStored, PageInv, TypeOK, CallsFit, DirtyFits, CalmInv, Alone, SentAgrees, ReplyAgrees,
              Under, Busy, Shown

-----------------------------------------------------------------------------
(* Documents.                                                              *)

LEMMA NavigateKeeps == ASSUME PageInv, Navigate PROVE PageInv'
<1> USE DEF PageInv
<1>1. jar' \in [Keys -> Ids \cup {None}] /\ writes' \in 0 .. MaxWrites
  BY MaxWritesAssumption DEF Navigate, TypeOK, Ids
<1>2. load' # None
  BY <1>1, IdsAreNat DEF Navigate
<1>3. TypeOK'
  BY <1>1 DEF Navigate, TypeOK
<1>4. CallsFit' /\ DirtyFits'
  BY DEF Navigate, CallsFit, DirtyFits
<1>5. CalmInv'
  BY <1>2 DEF Navigate, CalmInv, Busy, Under, TypeOK
<1> QED
  BY <1>3, <1>4, <1>5

LEMMA CommitKeeps == ASSUME PageInv, Commit PROVE PageInv'
<1> USE DEF PageInv
<1>1. load \in [Keys -> Ids \cup {None}]
  BY DEF Commit, TypeOK
<1>2. \A k \in Keys : load[k] # None => [id |-> load[k], del |-> FALSE] \in Entry
  BY <1>1 DEF Entry
<1>3. /\ shadow' \in [Keys -> Entry \cup {None}]
      /\ \A k \in Keys : shadow'[k] # None => ~shadow'[k].del /\ shadow'[k].id = load[k]
      /\ \A k \in Keys : shadow'[k] = None <=> load[k] = None
  BY <1>2, IdsAreNat DEF Commit
<1>4. ASSUME NEW c \in Calls
      PROVE  /\ call'[c] \in Call /\ call'[c].at = call[c].at /\ call'[c].sync = call[c].sync
             /\ call'[c].todo = call[c].todo /\ call'[c].ack = call[c].ack /\ call'[c].push = call[c].push
  <2>1. call[c] \in Call
    BY DEF TypeOK
  <2>2. call'[c] \in {call[c], [call[c] EXCEPT !.orphan = TRUE]}
    BY DEF Commit
  <2> QED
    BY <2>1, <2>2 DEF Call
<1>5. call' \in [Calls -> Call]
  BY <1>4 DEF Commit
<1>6. TypeOK'
  BY <1>3, <1>4, <1>5, Zenon DEF Commit, TypeOK
<1>7. CallsFit' /\ DirtyFits'
  BY <1>3, <1>4 DEF Commit, CallsFit, DirtyFits
<1>8. CalmInv'
  <2> SUFFICES ASSUME jar = load, \A c \in Calls : ~Under(c) PROVE CalmInv'
    BY DEF Commit, CalmInv
  <2>1. \A c \in Calls : call'[c].at = "idle"
    BY <1>4 DEF Under
  <2>2. \A k \in Keys : Shown(k)' = jar'[k]
    BY <1>3 DEF Commit, Shown
  <2> QED
    BY <2>1, <2>2 DEF CalmInv, Under
<1> QED
  BY <1>6, <1>7, <1>8

-----------------------------------------------------------------------------
(* The theorems.                                                           *)

LEMMA PageStep == PageInv /\ [Next]_vars => PageInv'
<1> SUFFICES ASSUME PageInv, [Next]_vars PROVE PageInv'
  OBVIOUS
<1>1. CASE UNCHANGED vars
  BY <1>1 DEF vars, PageInv, TypeOK, CallsFit, DirtyFits, CalmInv, Alone, SentAgrees, ReplyAgrees, Under, Busy, Shown
<1> QED
  BY <1>1, PageWriteKeeps, SendKeeps, DeliverKeeps, LoseKeeps, ApplySyncKeeps, RespondKeeps, OtherSessionKeeps,
     NavigateKeeps, CommitKeeps DEF Next, Server

LEMMA PageInvariant == Spec => []PageInv
BY InitPage, PageStep, PTL DEF Spec

\* Every variable has its type, and a call applies and acknowledges only what it carries.
THEOREM TypeCorrect == Spec => []TypeOK
<1>1. PageInv => TypeOK
  BY DEF PageInv
<1> QED
  BY <1>1, PageInvariant, PTL

\* Shadow jar and dirty set fit together under every interleaving of acks, pushes,
\* writes and loads.
THEOREM DirtyCorrect == Spec => []DirtyFits
<1>1. PageInv => DirtyFits
  BY DEF PageInv
<1> QED
  BY <1>1, PageInvariant, PTL

\* Without overlaps, losses and what other calls were told, from the cache, a quiet page
\* shows the server's cookies, except for those it has yet to send.
THEOREM AgreeCorrect == Spec => []QuietAgrees
<1>1. PageInv => QuietAgrees
  BY DEF PageInv, CalmInv, QuietAgrees, TypeOK
<1> QED
  BY <1>1, PageInvariant, PTL

\* A response changes what the page shows for the keys it pushes and no other, however
\* late it arrives: an acknowledgement shows nothing.
THEOREM ChangesCorrect == Spec => ChangesOnlyPushed
<1>1. ASSUME PageInv, [Next]_vars, NEW c \in Calls, Under(c), call'[c] = Idle,
             NEW k \in Keys \ DOMAIN call[c].push
      PROVE  Shown(k)' = Shown(k)
  <2> USE <1>1 DEF PageInv
  <2>0. Idle.at = "idle"
    BY DEF Idle
  <2>1. CASE UNCHANGED shadow
    BY <2>1 DEF Shown
  <2>2. CASE \E d \in Calls : Deliver(d)
    <3>1. PICK d \in Calls : Deliver(d)
      BY <2>2
    <3>2. d = c
      BY <2>0, <3>1 DEF Deliver, TypeOK, Under
    <3>3. CASE UNCHANGED shadow
      BY <3>3 DEF Shown
    <3>4. CASE shadow' = Pushed(Acked(shadow, call[c].ack), call[c].push)
      BY <3>4, ShadowAfter DEF Shown
    <3> QED
      BY <3>1, <3>2, <3>3, <3>4 DEF Deliver
  <2>3. CASE Commit
    <3>1. call'[c] \in {call[c], [call[c] EXCEPT !.orphan = TRUE]} /\ call[c] \in Call
      BY <2>3 DEF Commit, TypeOK
    <3>2. call'[c].at = call[c].at
      BY <3>1 DEF Call
    <3> QED
      BY <2>0, <3>2 DEF Under
  <2>4. CASE \E q \in Keys, del \in BOOLEAN : PageWrite(q, del)
    BY <2>0, <2>4 DEF PageWrite, Under
  <2> QED
    BY <2>1, <2>2, <2>3, <2>4
    DEF Next, Server, Send, Lose, ApplySync, Respond, RespondBare, RespondCached, OtherSessionStored, Navigate, vars
<1>2. PageInv /\ [Next]_vars =>
        [\A c \in Calls : Under(c) /\ call'[c] = Idle =>
           \A k \in Keys \ DOMAIN call[c].push : Shown(k)' = Shown(k)]_vars
  BY <1>1
<1> QED
  BY <1>2, PageInvariant, PTL DEF Spec, ChangesOnlyPushed
=============================================================================
