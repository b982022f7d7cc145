----------------------- MODULE RequestPipelineProofs ------------------------
(***************************************************************************)
(* What RequestPipeline keeps for any number of requests, clients and      *)
(* slots, any addon lists, any responses and any number of reloads.        *)
(***************************************************************************)
EXTENDS RequestPipeline, FiniteSetTheorems, TLAPS

Reached == {"lookup", "slot", "sent"} \cup Processing

\* h.addons is the list installed last, or has parts of the one being installed; a
\* request that runs has both on record, and what it read is on its record.
ListsInv ==
  /\ data \in {current, writer}
  /\ length = Len(current) \/ (writer # None /\ length = Len(writer))
  /\ \A r \in Active : {current, writer} \ {None} \subseteq inForce[r]
  /\ \A r \in Requests : rules[r] \subseteq inForce[r] /\ (pc[r] = "idle" => rules[r] = {})

\* A request whose only list blocks it gets no further than ServeHTTP's answers.
Stopped(r) ==
  /\ pc[r] \notin Reached
  /\ orig[r] = None /\ resp[r] = None
  /\ answer[r].kind \notin {"cache", "ws", "override", "proxy", "replaced", "cut"}

BlockInv == \A r \in Requests, list \in Lists : inForce[r] = {list} /\ Blocks(list) => Stopped(r)

\* The session of a request that gets beyond the routes exists, and has what the page
\* sent with it.
SessionKept(r) ==
  /\ pc[r] = "idle" => sid[r] = None
  /\ pc[r] = "route" => kind[r].to # "ops" /\ (sid[r] # None \/ kind[r].to = "none")
  /\ pc[r] \in Reached => sid[r] # None
  /\ sid[r] # None /\ kind[r].sync => <<"page", r>> \in jars[sid[r]]

\* Which variables are set where.
OnItsWay(r) ==
  /\ pc[r] # "done" => answer[r] = NoAnswer
  /\ pc[r] \notin Processing \cup {"done"} => orig[r] = None /\ resp[r] = None
  /\ pc[r] \in Processing => (orig[r] # None <=> via[r] = "proxy")
  /\ pc[r] \notin {"finish", "done"} => ~replaced[r]
  /\ orig[r] # None => via[r] = "proxy" /\ sid[r] # None

\* Cookies of the origin are in a jar only if they were on their way there.
OriginsOwn(r) ==
  \A s \in Sessions :
    <<"origin", r>> \in jars[s] =>
      jars[s] = None \/ (pc[r] \in {"finish", "done"} /\ ~replaced[r] /\ ~FallbackHit(r))

\* The cookies an origin sets are in the response until they are in the jar.
CookiesCarried(r) ==
  /\ pc[r] \in {"tenant", "replace", "inject"} /\ orig[r] # None /\ ~FallbackHit(r)
       => resp[r].cookies = orig[r].cookies
  /\ pc[r] = "finish" /\ ~replaced[r] => ~resp[r].cookies
  /\ pc[r] \in {"tenant", "replace", "inject"} =>
       (resp[r].by = "origin" <=> orig[r] # None /\ ~FallbackHit(r))
  /\ pc[r] \in {"finish", "done"} /\ orig[r] # None /\ orig[r].cookies /\ ~replaced[r] /\ ~FallbackHit(r)
       => <<"origin", r>> \in jars[sid[r]]

Answered(r) ==
  /\ answer[r].ack = r => sid[r] # None /\ <<"page", r>> \in jars[sid[r]]
  /\ OwnAnswer(r)

\* An entry is of one request, which is over.
EntryPlain(e) ==
  /\ e.resp.ok /\ e.resp.cacheable /\ ~e.resp.html /\ e.resp.enc = "none" /\ ~e.resp.cookies
  /\ \E r \in Requests :
       /\ pc[r] = "done" /\ ~replaced[r]
       /\ e.sid \in {None, sid[r]} /\ e.ack \in {None, r} /\ e.push \in {None, r}

RequestInv(r) == SessionKept(r) /\ OnItsWay(r) /\ CookiesCarried(r) /\ Answered(r)

CookieInv ==
  /\ \A r \in Requests : RequestInv(r) /\ OriginsOwn(r)
  /\ \A f \in Forms : cache[f] # None => EntryPlain(cache[f])

-----------------------------------------------------------------------------
(* Types.                                                                  *)

\* What a handler relies on once it runs: it knows what was asked, its session has a
\* jar, and what it processes is there.
Begun(r) ==
  /\ pc[r] # "idle" => kind[r] # None
  /\ pc[r] = "sent" => via[r] = "proxy"
  /\ pc[r] \in Processing => resp[r] # None /\ via[r] \in {"proxy", "override"}
  /\ sid[r] # None => jars[sid[r]] # None

Typed == HandlersTyped /\ SharedTyped /\ \A r \in Requests : Begun(r)

LEMMA PlainAnswers ==
  /\ NoAnswer \in Answers
  /\ \A k \in {"ops", "api", "loop", "block", "ws", "override", "missing", "busy", "gone",
               "bad gateway", "panic", "cut"} : Plain(k) \in Answers
BY DEF NoAnswer, Plain, Answers

LEMMA InitTyped == Init => Typed
<1> SUFFICES ASSUME Init PROVE Typed
  OBVIOUS
<1>1. Len(current) \in Nat
  BY ListsAssumption DEF Init
<1>2. HandlersTyped
  BY PlainAnswers DEF Init, HandlersTyped
<1>3. SharedTyped
  BY <1>1, SlotsAssumption DEF Init, SharedTyped, Sessions
<1>4. \A r \in Requests : Begun(r)
  BY DEF Init, Begun, Processing
<1> QED
  BY <1>2, <1>3, <1>4 DEF Typed

\* The end of a handler keeps every type.
LEMMA AnswerTyped ==
  ASSUME Typed, NEW r \in Requests, NEW a \in Answers, pc[r] # "idle", Answer(r, a),
         UNCHANGED <<sid, isNew, resp, replaced, rules, jars>>,
         orig' \in [Requests -> Response \cup {None}],
         cache' \in [Forms -> Entry \cup {None}]
  PROVE  Typed'
<1>1. answer' \in [Requests -> Answers]
  BY PlainAnswers DEF Answer, Typed, HandlersTyped
<1>2. told' \in [Clients -> Sessions \cup {None}]
  BY KindsAssumption DEF Answer, Typed, HandlersTyped, SharedTyped, Answers, Kind, Begun
<1>3. pc' \in [Requests -> {"idle", "route", "lookup", "slot", "sent", "done"} \cup Processing]
  BY DEF Answer, Typed, HandlersTyped
<1>4. ASSUME NEW q \in Requests PROVE Begun(q)'
  BY DEF Answer, Typed, HandlersTyped, Begun, Processing
<1> QED
  BY <1>1, <1>2, <1>3, <1>4 DEF Answer, addons, Typed, HandlersTyped, SharedTyped

\* So does a step to the next stage.
LEMMA GotoTyped ==
  ASSUME Typed, NEW r \in Requests, NEW to \in {"lookup", "slot", "sent"} \cup Processing,
         pc[r] # "idle", Goto(r, to), to = "sent" => via'[r] = "proxy",
         to \in Processing => resp'[r] # None /\ via'[r] \in {"proxy", "override"},
         UNCHANGED <<sid, isNew, cache>>,
         \A q \in Requests : q # r => resp'[q] = resp[q] /\ via'[q] = via[q],
         \A s \in Sessions : jars[s] # None => jars'[s] # None,
         via' \in [Requests -> {"proxy", "override", None}],
         orig' \in [Requests -> Response \cup {None}],
         resp' \in [Requests -> Response \cup {None}],
         replaced' \in [Requests -> BOOLEAN],
         rules' \in [Requests -> SUBSET Lists],
         jars' \in [Sessions -> {None} \cup SUBSET Cookies]
  PROVE  Typed'
<1>1. pc' \in [Requests -> {"idle", "route", "lookup", "slot", "sent", "done"} \cup Processing]
  BY DEF Goto, Typed, HandlersTyped
<1>2. ASSUME NEW q \in Requests PROVE Begun(q)'
  <2>1. sid[q] \in Sessions \cup {None}
    BY DEF Typed, HandlersTyped
  <2>2. CASE q = r
    BY <2>1, <2>2 DEF Goto, Typed, HandlersTyped, Begun
  <2>3. CASE q # r
    BY <2>1, <2>3 DEF Goto, Typed, HandlersTyped, Begun
  <2> QED
    BY <2>2, <2>3
<1> QED
  BY <1>1, <1>2 DEF Goto, addons, Typed, HandlersTyped, SharedTyped

LEMMA SessionTyped == ASSUME Typed, NEW r \in Requests, Session(r) PROVE Typed'
<1>1. PICK k \in Kinds : Session(r)!3!(k)
  BY DEF Session
<1>2. pc' = [pc EXCEPT ![r] = pc'[r]] /\ pc'[r] \in {"route", "done"}
  BY <1>1 DEF Typed, HandlersTyped
<1>3. kind' \in [Requests -> Kinds \cup {None}] /\ kind'[r] # None
  BY <1>1, KindsAssumption DEF Typed, HandlersTyped
<1>4. answer' \in [Requests -> Answers]
  BY <1>1, PlainAnswers DEF Typed, HandlersTyped
<1>5. inForce' \in [Requests -> SUBSET Lists]
  BY DEF Session, Typed, HandlersTyped, SharedTyped
<1>6. CASE k.to \in {"ops", "none"}
  <2>1. UNCHANGED <<sid, isNew, jars>>
    BY <1>1, <1>6
  <2>2. ASSUME NEW q \in Requests PROVE Begun(q)'
    BY <1>1, <1>2, <1>3, <2>1 DEF Session, Typed, HandlersTyped, Begun, Processing
  <2> QED
    BY <1>2, <1>3, <1>4, <1>5, <2>1, <2>2 DEF Session, Typed, HandlersTyped, SharedTyped, addons
<1>7. CASE k.to \notin {"ops", "none"}
  <2> DEFINE s == IF told[k.client] = None THEN r ELSE told[k.client]
             jar == IF jars[s] = None THEN {} ELSE jars[s]
             new == jar \cup IF k.sync THEN {<<"page", r>>} ELSE {}
  <2>1. s \in Sessions
    BY KindsAssumption DEF Typed, SharedTyped, Sessions, Kind
  <2>2. /\ sid' = [sid EXCEPT ![r] = s]
        /\ isNew' = [isNew EXCEPT ![r] = jars[s] = None]
        /\ jars' = [jars EXCEPT ![s] = new]
    BY <1>1, <1>7
  <2>3. new \in SUBSET Cookies
    BY <2>1 DEF Typed, SharedTyped, Cookies
  <2> HIDE DEF s, jar, new
  <2>4. \A t \in Sessions : jars[t] # None \/ t = s => jars'[t] # None
    BY <2>1, <2>2, <2>3, NoneAssumption DEF Typed, SharedTyped
  <2>5. ASSUME NEW q \in Requests PROVE Begun(q)'
    <3>1. sid[q] \in Sessions \cup {None}
      BY DEF Typed, HandlersTyped
    <3> QED
      BY <1>1, <1>2, <1>3, <2>1, <2>2, <2>4, <3>1
      DEF Session, Typed, HandlersTyped, Begun, Processing
  <2>6. /\ sid' \in [Requests -> Sessions \cup {None}]
        /\ isNew' \in [Requests -> BOOLEAN]
        /\ jars' \in [Sessions -> {None} \cup SUBSET Cookies]
    BY <2>1, <2>2, <2>3 DEF Typed, HandlersTyped, SharedTyped
  <2> QED
    BY <1>2, <1>3, <1>4, <1>5, <2>5, <2>6 DEF Session, Typed, HandlersTyped, SharedTyped, addons
<1> QED
  BY <1>6, <1>7

LEMMA RouteTyped == ASSUME Typed, NEW r \in Requests, Route(r) PROVE Typed'
<1> DEFINE list == SubSeq(data, 1, length)
<1>0. /\ pc[r] = "route" /\ UNCHANGED <<sid, isNew, orig, replaced, rules, jars, cache>>
      /\ kind[r] # None
  BY DEF Route, Typed, Begun
<1>1. CASE \E k : Plain(k) \in Answers /\ Answer(r, Plain(k)) /\ UNCHANGED resp
  BY <1>0, <1>1, AnswerTyped DEF Typed, HandlersTyped, SharedTyped
<1>2. CASE \E a \in Served : /\ pc' = [pc EXCEPT ![r] = "tenant"]
                             /\ via' = [via EXCEPT ![r] = "override"]
                             /\ resp' = [resp EXCEPT ![r] = a]
                             /\ UNCHANGED <<kind, answer, left, told, inForce, addons, sem>>
  <2>1. PICK a \in Response : resp' = [resp EXCEPT ![r] = a]
    BY <1>2, ResponsesAssumption
  <2>2. /\ resp' \in [Requests -> Response \cup {None}] /\ resp'[r] # None
        /\ \A q \in Requests : q # r => resp'[q] = resp[q]
    BY <2>1, ResponsesAssumption DEF Typed, HandlersTyped
  <2>3. /\ Goto(r, "tenant")
        /\ via' \in [Requests -> {"proxy", "override", None}] /\ via'[r] = "override"
        /\ \A q \in Requests : q # r => via'[q] = via[q]
    BY <1>2 DEF Goto, Typed, HandlersTyped
  <2>4. "tenant" \in Processing
    BY DEF Processing
  <2> QED
    BY <1>0, <2>2, <2>3, <2>4, GotoTyped DEF Typed, HandlersTyped, SharedTyped
<1>3. CASE \E to \in {"lookup", "slot"} : Goto(r, to) /\ UNCHANGED <<resp, sem, via>>
  BY <1>0, <1>3, GotoTyped DEF Typed, HandlersTyped, SharedTyped, Processing
<1>4. Plain("panic") \in Answers
  BY PlainAnswers
<1>5. Branch(kind[r], list) \notin {"override", "lookup"} => Plain(Branch(kind[r], list)) \in Answers
  BY PlainAnswers DEF Branch
<1> HIDE DEF list
<1> QED
  BY <1>1, <1>2, <1>3, <1>4, <1>5 DEF Route, list

LEMMA LookupTyped == ASSUME Typed, NEW r \in Requests, Lookup(r) PROVE Typed'
<1>0. /\ pc[r] = "lookup" /\ UNCHANGED <<sid, isNew, orig, resp, replaced, rules, jars, cache>>
      /\ kind[r] \in Kind
  BY KindsAssumption DEF Lookup, Typed, HandlersTyped, Begun
<1> DEFINE e == cache[kind[r].form]
           a == [kind |-> "cache", by |-> e.resp.by, sid |-> e.sid, ack |-> e.ack,
                 push |-> e.push, raw |-> e.resp.cookies]
<1>1. CASE e # None /\ Answer(r, a)
  <2>1. e \in Entry
    BY <1>0, <1>1 DEF Typed, SharedTyped, Kind
  <2>2. a \in Answers
    BY <2>1 DEF Entry, Answers, Response
  <2> QED
    BY <1>0, <1>1, <2>2, AnswerTyped DEF Typed, HandlersTyped, SharedTyped
<1>2. CASE Goto(r, "slot") /\ UNCHANGED <<sem, via>>
  BY <1>0, <1>2, GotoTyped DEF Typed, HandlersTyped, SharedTyped, Processing
<1> QED
  BY <1>1, <1>2 DEF Lookup

LEMMA SlotTyped ==
  ASSUME Typed, NEW r \in Requests, TakeSlot(r) \/ GiveUp(r) \/ Busy(r) \/ OriginFails(r)
  PROVE  Typed'
<1>0. /\ pc[r] \in {"slot", "sent"}
      /\ UNCHANGED <<sid, isNew, orig, resp, replaced, rules, jars, cache>>
  BY DEF TakeSlot, GiveUp, Busy, OriginFails
<1>1. CASE TakeSlot(r)
  BY <1>0, <1>1, GotoTyped DEF TakeSlot, Typed, HandlersTyped, SharedTyped, Processing
<1>2. CASE \E k \in {"gone", "busy", "bad gateway"} : Answer(r, Plain(k))
  BY <1>0, <1>2, AnswerTyped, PlainAnswers DEF Typed, HandlersTyped, SharedTyped
<1> QED
  BY <1>1, <1>2 DEF GiveUp, Busy, OriginFails

LEMMA ModifyTyped == ASSUME Typed, NEW r \in Requests, Modify(r) PROVE Typed'
<1>0. pc[r] = "sent" /\ UNCHANGED <<sid, isNew, replaced, rules, jars, cache>>
  BY DEF Modify
<1>1. PICK a \in Origin : Modify(r)!2!(a)
  BY DEF Modify
<1>2. orig' \in [Requests -> Response \cup {None}]
  BY <1>1, ResponsesAssumption DEF Typed, HandlersTyped
<1>3. CASE Answer(r, Plain("panic")) /\ UNCHANGED resp
  BY <1>0, <1>2, <1>3, AnswerTyped, PlainAnswers DEF Typed, SharedTyped
<1>4. CASE \E b \in Response : resp' = [resp EXCEPT ![r] = b] /\ Goto(r, "tenant") /\ UNCHANGED via
  BY <1>0, <1>2, <1>4, GotoTyped, ResponsesAssumption DEF Typed, HandlersTyped, SharedTyped, Begun, Processing
<1> QED
  BY <1>1, <1>3, <1>4, ResponsesAssumption

LEMMA LoadTyped ==
  ASSUME Typed, NEW r \in Requests, Load(r)
  PROVE  rules' \in [Requests -> SUBSET Lists]
BY DEF Load, Typed, HandlersTyped, SharedTyped

LEMMA TenantTyped == ASSUME Typed, NEW r \in Requests, TenantContext(r) PROVE Typed'
<1>1. rules' \in [Requests -> SUBSET Lists]
  BY LoadTyped DEF TenantContext, Typed, HandlersTyped
<1> QED
  BY <1>1, GotoTyped DEF TenantContext, Typed, HandlersTyped, SharedTyped, Begun, Processing

LEMMA ReplaceTyped == ASSUME Typed, NEW r \in Requests, Replace(r) PROVE Typed'
<1>0. resp[r] \in Response
  BY DEF Replace, Typed, HandlersTyped, Begun, Processing
<1>1. rules' \in [Requests -> SUBSET Lists]
  BY LoadTyped DEF Replace
<1>2. replaced' \in [Requests -> BOOLEAN]
  BY DEF Replace, Replaces, Typed, HandlersTyped
<1>3. /\ resp' \in [Requests -> Response \cup {None}] /\ resp'[r] # None
      /\ \A q \in Requests : q # r => resp'[q] = resp[q]
  <2>1. [resp[r] EXCEPT !.enc = "none"] \in Response
    BY <1>0 DEF Response
  <2>2. resp'[r] \in Response
    BY <1>0, <2>1 DEF Replace, Typed, HandlersTyped
  <2>3. resp' = [resp EXCEPT ![r] = resp'[r]]
    BY <2>2 DEF Replace, Typed, HandlersTyped
  <2> QED
    BY <2>2, <2>3, ResponsesAssumption DEF Typed, HandlersTyped
<1> QED
  BY <1>1, <1>2, <1>3, GotoTyped DEF Replace, Typed, HandlersTyped, SharedTyped, Begun, Processing

LEMMA InjectTyped == ASSUME Typed, NEW r \in Requests, Inject(r) PROVE Typed'
<1>0. resp[r] \in Response /\ sid[r] \in Sessions \cup {None}
  BY DEF Inject, Typed, HandlersTyped, Begun, Processing
<1>1. rules' \in [Requests -> SUBSET Lists]
  BY LoadTyped DEF Inject
<1>2. /\ resp' \in [Requests -> Response \cup {None}] /\ resp'[r] # None
      /\ \A q \in Requests : q # r => resp'[q] = resp[q]
  <2>1. Extracted(resp[r]) \in Response
    BY <1>0 DEF Response, Extracted
  <2> QED
    BY <2>1, ResponsesAssumption DEF Inject, Typed, HandlersTyped
<1>3. /\ jars' \in [Sessions -> {None} \cup SUBSET Cookies]
      /\ \A s \in Sessions : jars[s] # None => jars'[s] # None
  <2>1. CASE ~resp[r].cookies
    BY <2>1 DEF Inject, Typed, SharedTyped
  <2>2. CASE resp[r].cookies /\ sid[r] \notin Sessions
    BY <2>2 DEF Inject, Typed, SharedTyped
  <2>3. CASE resp[r].cookies /\ sid[r] \in Sessions
    <3>1. jars[sid[r]] \in SUBSET Cookies
      BY <2>3, RequestsAssumption DEF Typed, SharedTyped, Begun, Sessions
    <3>2. jars[sid[r]] \cup {<<resp[r].by, r>>} \in SUBSET Cookies
      BY <1>0, <3>1 DEF Cookies, Response
    <3>3. jars' = [jars EXCEPT ![sid[r]] = jars[sid[r]] \cup {<<resp[r].by, r>>}]
      BY <2>3 DEF Inject
    <3> QED
      BY <2>3, <3>2, <3>3, NoneAssumption DEF Typed, SharedTyped
  <2> QED
    BY <1>0, <2>1, <2>2, <2>3
<1> QED
  BY <1>1, <1>2, <1>3, GotoTyped DEF Inject, Typed, HandlersTyped, SharedTyped, Begun, Processing

LEMMA FinishTyped == ASSUME Typed, NEW r \in Requests, Finish(r) PROVE Typed'
<1>0. /\ pc[r] = "finish" /\ Answer(r, Written(r))
      /\ UNCHANGED <<sid, isNew, orig, resp, replaced, rules, jars>>
  BY DEF Finish
<1>1. /\ resp[r] \in Response /\ kind[r] \in Kind /\ sid[r] \in Sessions \cup {None}
      /\ orig[r] \in Response \cup {None}
  BY <1>0, KindsAssumption DEF Typed, HandlersTyped, Begun, Processing
<1>2. via[r] \in {"proxy", "override"} => Processed(r) \in Answers
  BY <1>1 DEF Processed, Answers, Broken, Response, Kind, Sessions, Typed, HandlersTyped
<1>3. [Plain("cut") EXCEPT !.raw = orig[r].cookies] \in Answers \/ ~FallbackHit(r)
  BY <1>1, PlainAnswers DEF FallbackHit, Answers, Response
<1>4. Written(r) \in Answers
  BY <1>0, <1>2, <1>3, PlainAnswers DEF Written, Typed, Begun, Processing
<1>5. StoreForm(r) \in Forms /\ [resp |-> resp[r], sid |-> Processed(r).sid, ack |-> Processed(r).ack,
                               push |-> Processed(r).push] \in Entry
  BY <1>1 DEF StoreForm, Forms, Kind, Entry, Processed, Sessions
<1>6. cache' \in [Forms -> Entry \cup {None}]
  BY <1>5 DEF Finish, Stored, Typed, SharedTyped
<1> QED
  BY <1>0, <1>4, <1>6, AnswerTyped DEF Typed, HandlersTyped

LEMMA WorldTyped ==
  ASSUME Typed,
         \/ \E r \in Requests : Leave(r)
         \/ \E list \in Lists : BeginReplace(list)
         \/ EndReplace
         \/ UNCHANGED vars
  PROVE  Typed'
<1>1. CASE \E r \in Requests : Leave(r)
  BY <1>1 DEF Leave, Typed, HandlersTyped, SharedTyped, Begun, handler, addons
<1>2. CASE \E list \in Lists : BeginReplace(list)
  <2>1. PICK list \in Lists : BeginReplace(list)
    BY <1>2
  <2>2. Len(list) \in Nat
    BY ListsAssumption
  <2>3. inForce' \in [Requests -> SUBSET Lists] /\ reloads' \in 0 .. MaxReloads
    BY <2>1, SlotsAssumption DEF BeginReplace, Typed, HandlersTyped, SharedTyped
  <2> QED
    BY <2>1, <2>2, <2>3 DEF BeginReplace, Typed, HandlersTyped, SharedTyped, Begun
<1>3. CASE EndReplace
  <2>1. writer \in Lists /\ Len(writer) \in Nat
    BY <1>3, ListsAssumption DEF EndReplace, Typed, SharedTyped
  <2> QED
    BY <1>3, <2>1 DEF EndReplace, Typed, HandlersTyped, SharedTyped, Begun, handler
<1>4. CASE UNCHANGED vars
  BY <1>4 DEF vars, handler, addons, Typed, HandlersTyped, SharedTyped, Begun
<1> QED
  BY <1>1, <1>2, <1>3, <1>4

LEMMA StepTyped == Typed /\ [Next]_vars => Typed'
BY SessionTyped, RouteTyped, LookupTyped, SlotTyped, ModifyTyped, TenantTyped, ReplaceTyped,
   InjectTyped, FinishTyped, WorldTyped DEF Next, Handle

-----------------------------------------------------------------------------
(* The slots.                                                              *)

SlotsInv == Typed /\ sem \in 0 .. Slots /\ SlotsAccounted

LEMMA HoldingFinite == IsFiniteSet(Holding) /\ Cardinality(Holding) \in Nat
BY RequestsAssumption, FS_Subset, FS_CardinalityType DEF Holding

\* A handler that ends holds no slot afterwards, and gives back the one it held.
LEMMA ReleaseAccounts ==
  ASSUME SlotsInv, NEW r \in Requests, NEW a, Answer(r, a)
  PROVE  sem' \in 0 .. Slots /\ SlotsAccounted'
<1>1. Holding' = Holding \ {r}
  BY DEF Holding, Processing, Answer, SlotsInv, Typed, HandlersTyped
<1>2. CASE r \in Holding
  <2>1. IsFiniteSet(Holding \ {r}) /\ Cardinality(Holding \ {r}) = Cardinality(Holding) - 1
    BY <1>2, HoldingFinite, FS_RemoveElement
  <2>2. Cardinality(Holding \ {r}) \in Nat
    BY <2>1, FS_CardinalityType
  <2> QED
    BY <1>1, <1>2, <2>1, <2>2, SlotsAssumption DEF Answer, Release, SlotsInv, SlotsAccounted
<1>3. CASE r \notin Holding
  <2>1. Holding' = Holding
    BY <1>1, <1>3
  <2> QED
    BY <1>3, <2>1 DEF Answer, Release, SlotsInv, SlotsAccounted
<1> QED
  BY <1>2, <1>3

\* The semaphore's send is the one step that takes a slot.
LEMMA TakeAccounts ==
  ASSUME SlotsInv, NEW r \in Requests, TakeSlot(r)
  PROVE  sem' \in 0 .. Slots /\ SlotsAccounted'
<1>1. Holding' = Holding \cup {r}
  BY DEF Holding, Processing, TakeSlot, Goto, SlotsInv, Typed, HandlersTyped
<1>2. r \notin Holding
  BY DEF Holding, Processing, TakeSlot
<1>3. Cardinality(Holding \cup {r}) = Cardinality(Holding) + 1
  BY <1>2, HoldingFinite, FS_AddElement
<1> QED
  BY <1>1, <1>3, SlotsAssumption DEF TakeSlot, SlotsInv, SlotsAccounted

\* Every other step leaves the slots and their holders alone.
LEMMA OthersAccount ==
  ASSUME SlotsInv, UNCHANGED sem, Holding' = Holding
  PROVE  sem' \in 0 .. Slots /\ SlotsAccounted'
BY DEF SlotsInv, SlotsAccounted

LEMMA SlotsStep == SlotsInv /\ [Next]_vars => SlotsInv'
<1> SUFFICES ASSUME SlotsInv, [Next]_vars PROVE sem' \in 0 .. Slots /\ SlotsAccounted'
  BY StepTyped DEF SlotsInv
<1> USE DEF SlotsInv, Typed, HandlersTyped, Holding, Processing
<1>1. CASE \E r \in Requests : Session(r)
  <2>1. PICK r \in Requests : Session(r)
    BY <1>1
  <2>2. pc[r] = "idle" /\ pc' = [pc EXCEPT ![r] = pc'[r]] /\ pc'[r] \in {"route", "done"}
    BY <2>1 DEF Session
  <2> QED
    BY <2>1, <2>2, OthersAccount DEF Session
<1>2. CASE \E r \in Requests : Route(r)
  <2>1. PICK r \in Requests : Route(r)
    BY <1>2
  <2>2. CASE \E k : Answer(r, Plain(k))
    BY <2>2, ReleaseAccounts
  <2>3. CASE /\ pc' = [pc EXCEPT ![r] = "tenant"]
             /\ via' = [via EXCEPT ![r] = "override"]
             /\ UNCHANGED sem
    BY <2>1, <2>3, OthersAccount DEF Route
  <2>4. CASE \E to \in {"lookup", "slot"} : Goto(r, to) /\ UNCHANGED <<sem, via>>
    BY <2>1, <2>4, OthersAccount DEF Route, Goto
  <2> HIDE DEF SlotsInv, Holding
  <2> QED
    BY <2>1, <2>2, <2>3, <2>4 DEF Route
<1>3. CASE \E r \in Requests : Lookup(r)
  <2>1. PICK r \in Requests : Lookup(r)
    BY <1>3
  <2>2. CASE \E a : Answer(r, a)
    BY <2>2, ReleaseAccounts
  <2>3. CASE Goto(r, "slot") /\ UNCHANGED <<sem, via>>
    BY <2>1, <2>3, OthersAccount DEF Lookup, Goto
  <2> HIDE DEF SlotsInv, Holding
  <2> QED
    BY <2>1, <2>2, <2>3 DEF Lookup
<1>4. CASE \E r \in Requests : TakeSlot(r)
  BY <1>4, TakeAccounts
<1>5. CASE \E r \in Requests : GiveUp(r) \/ Busy(r) \/ OriginFails(r) \/ Finish(r)
  BY <1>5, ReleaseAccounts DEF GiveUp, Busy, OriginFails, Finish
<1>6. CASE \E r \in Requests : Modify(r)
  <2>1. PICK r \in Requests : Modify(r)
    BY <1>6
  <2>2. CASE Answer(r, Plain("panic"))
    BY <2>2, ReleaseAccounts
  <2>3. CASE Goto(r, "tenant") /\ UNCHANGED <<sem, via>>
    BY <2>1, <2>3, OthersAccount DEF Modify, Goto
  <2> HIDE DEF SlotsInv, Holding
  <2> QED
    BY <2>1, <2>2, <2>3 DEF Modify
<1>7. CASE \E r \in Requests : TenantContext(r) \/ Replace(r) \/ Inject(r)
  <2>1. PICK r \in Requests, to \in {"replace", "finish", "inject"} :
          pc[r] \in Processing /\ Goto(r, to) /\ UNCHANGED <<sem, via>>
    BY <1>7 DEF TenantContext, Replace, Inject
  <2> QED
    BY <2>1, OthersAccount DEF Goto
<1>8. CASE \E r \in Requests : Leave(r)
  BY <1>8, OthersAccount DEF Leave, handler
<1>9. CASE (\E list \in Lists : BeginReplace(list)) \/ EndReplace \/ UNCHANGED vars
  BY <1>9, OthersAccount DEF BeginReplace, EndReplace, vars, handler, addons
<1> QED
  BY <1>1, <1>2, <1>3, <1>4, <1>5, <1>6, <1>7, <1>8, <1>9 DEF Next, Handle

LEMMA SlotsInvariant == Spec => []SlotsInv
<1>1. Init => SlotsInv
  <2> SUFFICES ASSUME Init PROVE sem \in 0 .. Slots /\ SlotsAccounted
    BY InitTyped DEF SlotsInv
  <2>1. Holding = {}
    BY DEF Init, Holding, Processing
  <2> QED
    BY <2>1, SlotsAssumption, FS_EmptySet DEF Init, SlotsAccounted
<1> QED
  BY <1>1, SlotsStep, PTL DEF Spec

\* Every variable has its type: no slot is given back that was not taken, the semaphore
\* never holds more than its capacity, and no jar is written to that does not exist.
THEOREM TypeCorrect == Spec => []TypeOK
<1>1. SlotsInv => TypeOK
  BY DEF SlotsInv, Typed, TypeOK
<1> QED
  BY <1>1, SlotsInvariant, PTL

\* The slots taken are those of the requests between the semaphore and their answer,
\* whichever way they end.
THEOREM SlotsCorrect == Spec => []SlotsAccounted
<1>1. SlotsInv => SlotsAccounted
  BY DEF SlotsInv
<1> QED
  BY <1>1, SlotsInvariant, PTL

-----------------------------------------------------------------------------
(* A step of one handler, seen from the others.                            *)

Same(q) == UNCHANGED <<pc[q], kind[q], sid[q], via[q], orig[q], resp[q], replaced[q], answer[q],
                       inForce[q], rules[q]>>

LEMMA OthersUntouched ==
  ASSUME Typed, NEW r \in Requests, Session(r) \/ Handle(r) \/ Leave(r),
         NEW q \in Requests, q # r
  PROVE  Same(q)
<1> USE DEF Typed, HandlersTyped, Same
<1>1. CASE Session(r)
  BY <1>1 DEF Session
<1>2. CASE Route(r)
  BY <1>2 DEF Route, Answer, Goto
<1>3. CASE Lookup(r) \/ TakeSlot(r) \/ GiveUp(r) \/ Busy(r) \/ OriginFails(r)
  BY <1>3 DEF Lookup, TakeSlot, GiveUp, Busy, OriginFails, Answer, Goto
<1>4. CASE Modify(r)
  BY <1>4 DEF Modify, Answer, Goto
<1>5. CASE TenantContext(r) \/ Inject(r)
  BY <1>5 DEF TenantContext, Inject, Load, Goto
<1>6. CASE Replace(r)
  BY <1>6 DEF Replace, Load, Goto
<1>7. CASE Finish(r)
  BY <1>7 DEF Finish, Answer
<1>8. CASE Leave(r)
  BY <1>8 DEF Leave, handler
<1> QED
  BY <1>1, <1>2, <1>3, <1>4, <1>5, <1>6, <1>7, <1>8 DEF Handle

\* A jar that exists loses nothing.
JarsGrow == \A s \in Sessions : jars[s] # None => jars'[s] # None /\ jars[s] \subseteq jars'[s]

LEMMA JarsOnlyGrow == ASSUME Typed, [Next]_vars PROVE JarsGrow
<1>1. CASE \E r \in Requests : Session(r)
  <2>1. PICK r \in Requests, k \in Kinds : Session(r)!3!(k)
    BY <1>1 DEF Session
  <2>2. CASE UNCHANGED jars
    BY <2>2 DEF JarsGrow
  <2>3. CASE \E new \in SUBSET Cookies, s \in Sessions :
               jars' = [jars EXCEPT ![s] = (IF jars[s] = None THEN {} ELSE jars[s]) \cup new]
    <3>1. PICK new \in SUBSET Cookies, s \in Sessions :
                 jars' = [jars EXCEPT ![s] = (IF jars[s] = None THEN {} ELSE jars[s]) \cup new]
      BY <2>3
    <3>2. (IF jars[s] = None THEN {} ELSE jars[s]) \cup new \in SUBSET Cookies
      BY DEF Typed, SharedTyped
    <3>3. /\ (IF jars[s] = None THEN {} ELSE jars[s]) \cup new # None
          /\ jars[s] # None => jars[s] \subseteq (IF jars[s] = None THEN {} ELSE jars[s]) \cup new
      BY <3>2, NoneAssumption
    <3> QED
      BY <3>1, <3>3 DEF JarsGrow, Typed, SharedTyped
  <2>4. UNCHANGED jars \/ jars' = [jars EXCEPT
          ![IF told[k.client] = None THEN r ELSE told[k.client]] =
             (IF jars[IF told[k.client] = None THEN r ELSE told[k.client]] = None THEN {}
              ELSE jars[IF told[k.client] = None THEN r ELSE told[k.client]])
             \cup IF k.sync THEN {<<"page", r>>} ELSE {}]
    BY <2>1
  <2>5. /\ (IF told[k.client] = None THEN r ELSE told[k.client]) \in Sessions
        /\ (IF k.sync THEN {<<"page", r>>} ELSE {}) \in SUBSET Cookies
    BY KindsAssumption DEF Typed, SharedTyped, Sessions, Kind, Cookies
  <2> QED
    BY <2>2, <2>3, <2>4, <2>5
<1>2. CASE \E r \in Requests : Inject(r)
  <2>1. PICK r \in Requests : Inject(r)
    BY <1>2
  <2>2. CASE UNCHANGED jars
    BY <2>2 DEF JarsGrow
  <2>3. CASE jars' = [jars EXCEPT ![sid[r]] = jars[sid[r]] \cup {<<resp[r].by, r>>}]
    <3>1. sid[r] \in Sessions \cup {None} /\ (sid[r] # None => jars[sid[r]] \in SUBSET Cookies)
      BY DEF Typed, HandlersTyped, SharedTyped, Begun
    <3>2. sid[r] # None => jars[sid[r]] \cup {<<resp[r].by, r>>} \in SUBSET Cookies
      <4>1. resp[r] \in Response
        BY <2>1 DEF Inject, Typed, HandlersTyped, Begun, Processing
      <4> QED
        BY <3>1, <4>1 DEF Cookies, Response
    <3>3. sid[r] # None => /\ jars[sid[r]] \cup {<<resp[r].by, r>>} # None
                           /\ jars[sid[r]] \subseteq jars[sid[r]] \cup {<<resp[r].by, r>>}
      BY <3>2, NoneAssumption
    <3>4. None \notin Sessions
      BY RequestsAssumption DEF Sessions
    <3> QED
      BY <2>3, <3>1, <3>3, <3>4 DEF JarsGrow, Typed, SharedTyped
  <2> QED
    BY <2>1, <2>2, <2>3 DEF Inject
<1>3. CASE UNCHANGED jars
  BY <1>3 DEF JarsGrow
<1> QED
  BY <1>1, <1>2, <1>3
  DEF Next, Handle, Route, Lookup, TakeSlot, GiveUp, Busy, OriginFails, Modify, TenantContext, Replace,
      Finish, Leave, BeginReplace, EndReplace, vars

-----------------------------------------------------------------------------
(* The lists.                                                              *)

\* A handler touches no list, and what it reads with the lock is installed.
LEMMA HandlerReadsLists ==
  ASSUME Typed, ListsInv, NEW r \in Requests, Handle(r) \/ Leave(r)
  PROVE  /\ UNCHANGED <<inForce, addons>> /\ Active' \subseteq Active
         /\ rules'[r] \subseteq inForce[r] /\ (pc'[r] = "idle" => rules'[r] = {})
<1> USE DEF Typed, HandlersTyped
<1>1. CASE Route(r)
  BY <1>1 DEF Route, Answer, Goto, Active, ListsInv
<1>2. CASE Lookup(r) \/ TakeSlot(r) \/ GiveUp(r) \/ Busy(r) \/ OriginFails(r) \/ Modify(r) \/ Finish(r)
  BY <1>2 DEF Lookup, TakeSlot, GiveUp, Busy, OriginFails, Modify, Finish, Answer, Goto, Active, ListsInv
<1>3. CASE TenantContext(r) \/ Replace(r) \/ Inject(r)
  <2>1. r \in Active
    BY <1>3 DEF Active, TenantContext, Replace, Inject
  <2>2. UNCHANGED rules \/ Load(r)
    BY <1>3 DEF TenantContext, Replace, Inject
  <2>3. current \in inForce[r] /\ rules[r] \subseteq inForce[r]
    BY <2>1, ListsAssumption DEF ListsInv, SharedTyped
  <2>4. UNCHANGED <<inForce, addons>> /\ Active' \subseteq Active /\ pc'[r] # "idle"
    BY <1>3, <2>1 DEF Active, TenantContext, Replace, Inject, Goto
  <2> QED
    BY <2>2, <2>3, <2>4 DEF Load
<1>4. CASE Leave(r)
  BY <1>4 DEF Leave, handler, Active, ListsInv
<1> QED
  BY <1>1, <1>2, <1>3, <1>4 DEF Handle

LEMMA ListsStep == ASSUME Typed, ListsInv, [Next]_vars PROVE ListsInv'
<1>1. CASE \E r \in Requests : Handle(r) \/ Leave(r)
  <2>1. PICK r \in Requests : Handle(r) \/ Leave(r)
    BY <1>1
  <2>2. \A q \in Requests : rules'[q] \subseteq inForce'[q] /\ (pc'[q] = "idle" => rules'[q] = {})
    BY <2>1, HandlerReadsLists, OthersUntouched DEF ListsInv, Same
  <2> QED
    BY <2>1, <2>2, HandlerReadsLists DEF ListsInv, addons
<1>2. CASE \E r \in Requests : Session(r)
  <2>1. PICK r \in Requests : Session(r)
    BY <1>2
  <2>2. Active' \subseteq Active \cup {r} /\ UNCHANGED <<addons, rules>>
    BY <2>1 DEF Session, Active, Typed, HandlersTyped
  <2>3. inForce' = [inForce EXCEPT ![r] = {current, writer} \ {None}]
    BY <2>1 DEF Session
  <2>4. rules[r] = {} /\ \A q \in Requests : pc'[q] = "idle" => pc[q] = "idle"
    BY <2>1 DEF Session, ListsInv, Typed, HandlersTyped
  <2> QED
    BY <2>2, <2>3, <2>4 DEF ListsInv, addons, Typed, HandlersTyped
<1>3. CASE \E list \in Lists : BeginReplace(list)
  BY <1>3, ListsAssumption DEF BeginReplace, ListsInv, Active, Typed, HandlersTyped, SharedTyped
<1>4. CASE EndReplace
  BY <1>4, ListsAssumption DEF EndReplace, ListsInv, Active, handler, Typed, HandlersTyped, SharedTyped
<1>5. CASE UNCHANGED vars
  BY <1>5 DEF vars, handler, addons, ListsInv, Active
<1> QED
  BY <1>1, <1>2, <1>3, <1>4, <1>5 DEF Next

-----------------------------------------------------------------------------
(* Blocked requests and the cookies: one request at a time.                *)

RequestsInv == Typed /\ ListsInv /\ BlockInv /\ CookieInv

\* What another handler does leaves a request as it was.
LEMMA SameKeepsRequest ==
  ASSUME Typed, JarsGrow, NEW q \in Requests, Same(q), RequestInv(q)
  PROVE  RequestInv(q)'
<1>1. sid[q] # None => sid[q] \in Sessions /\ jars[sid[q]] # None
  BY DEF Typed, HandlersTyped, Begun
<1>2. FallbackHit(q)' <=> FallbackHit(q)
  BY DEF Same, FallbackHit, FallsBack
<1>3. SessionKept(q)' /\ OnItsWay(q)'
  BY <1>1 DEF RequestInv, Same, SessionKept, OnItsWay, JarsGrow
<1>4. CookiesCarried(q)'
  BY <1>1, <1>2 DEF RequestInv, Same, CookiesCarried, OnItsWay, JarsGrow
<1>5. Answered(q)'
  BY <1>1, <1>2 DEF RequestInv, Same, Answered, OwnAnswer, JarsGrow
<1> QED
  BY <1>3, <1>4, <1>5 DEF RequestInv

\* An answer without headers of a session, or from the cache.
Mute(a) == a.sid = None /\ a.ack = None /\ a.push = None /\ ~a.raw

LEMMA PlainIsMute == Mute(NoAnswer) /\ \A k : Mute(Plain(k))
BY DEF Mute, NoAnswer, Plain

\* An answer before the origin was asked, or when it failed.
LEMMA EarlyAnswer ==
  ASSUME Typed, NEW r \in Requests, RequestInv(r), pc[r] \notin Processing \cup {"idle", "done"},
         NEW a, Answer(r, a), Mute(a) \/ (a.kind = "cache" /\ a.ack # r /\ ~a.raw),
         UNCHANGED <<sid, orig, resp, replaced, jars>>
  PROVE  RequestInv(r)'
<1> USE DEF Typed, HandlersTyped, Processing
<1>1. Mute(answer'[r]) \/ (answer'[r].kind = "cache" /\ answer'[r].ack # r /\ ~answer'[r].raw)
  BY PlainIsMute DEF Answer
<1>2. answer'[r].ack # r /\ OwnAnswer(r)'
  BY <1>1, RequestsAssumption DEF Mute, OwnAnswer
<1>3. pc'[r] = "done" /\ orig[r] = None
  BY DEF Answer, RequestInv, OnItsWay
<1> QED
  BY <1>2, <1>3 DEF Answer, RequestInv, SessionKept, OnItsWay, CookiesCarried, Answered, Reached

LEMMA SessionKeepsRequest ==
  ASSUME Typed, NEW r \in Requests, RequestInv(r), Session(r)
  PROVE  RequestInv(r)'
<1>1. PICK k \in Kinds : Session(r)!3!(k)
  BY DEF Session
<1>2. /\ pc[r] = "idle" /\ sid[r] = None /\ answer[r] = NoAnswer
      /\ orig[r] = None /\ resp[r] = None /\ ~replaced[r]
      /\ UNCHANGED <<via, orig, resp, replaced>>
  BY DEF Session, RequestInv, SessionKept, OnItsWay, Processing
<1>3. kind'[r] = k /\ k # None /\ r # None
  BY <1>1, KindsAssumption, RequestsAssumption DEF Typed, HandlersTyped
<1>4. answer'[r] \in {NoAnswer, Plain("ops")} => answer'[r].ack # r /\ OwnAnswer(r)'
  BY <1>3, PlainIsMute DEF Mute, OwnAnswer
<1> USE DEF Typed, HandlersTyped, RequestInv, SessionKept, OnItsWay, CookiesCarried, Answered, Reached,
            Processing
<1>5. CASE k.to = "ops"
  <2>1. pc'[r] = "done" /\ answer'[r] = Plain("ops") /\ sid'[r] = None
    BY <1>1, <1>2, <1>5
  <2> QED
    BY <1>2, <1>4, <2>1
<1>6. CASE k.to = "none"
  <2>1. pc'[r] = "route" /\ answer'[r] = NoAnswer /\ sid'[r] = None
    BY <1>1, <1>2, <1>6
  <2> QED
    BY <1>2, <1>3, <1>4, <1>6, <2>1
<1>7. CASE k.to \notin {"ops", "none"}
  <2> DEFINE s == IF told[k.client] = None THEN r ELSE told[k.client]
             jar == IF jars[s] = None THEN {} ELSE jars[s]
             new == IF k.sync THEN {<<"page", r>>} ELSE {}
  <2>1. s \in Sessions /\ s # None
    BY KindsAssumption, RequestsAssumption DEF SharedTyped, Sessions, Kind
  <2>2. pc'[r] = "route" /\ answer'[r] = NoAnswer /\ sid'[r] = s /\ jars'[s] = jar \cup new
    BY <1>1, <1>2, <1>7, <2>1 DEF SharedTyped
  <2>3. k.sync => <<"page", r>> \in jars'[sid'[r]]
    BY <2>2
  <2> HIDE DEF s, jar, new
  <2> QED
    BY <1>2, <1>3, <1>4, <1>7, <2>1, <2>2, <2>3
<1> QED
  BY <1>5, <1>6, <1>7

\* ServeHTTP's branches: an override virtual host answers requests with a host only.
LEMMA RouteKeepsRequest ==
  ASSUME Typed, NEW r \in Requests, RequestInv(r), Route(r)
  PROVE  RequestInv(r)'
<1>1. /\ pc[r] = "route" /\ kind[r] \in Kinds /\ r # None
      /\ UNCHANGED <<sid, isNew, orig, replaced, rules, jars, cache>>
  BY RequestsAssumption DEF Route, Typed, HandlersTyped, Begun
<1>2. CASE \E k : Answer(r, Plain(k)) /\ UNCHANGED resp
  <2>1. PICK k : Answer(r, Plain(k)) /\ UNCHANGED resp
    BY <1>2
  <2> QED
    BY <1>1, <2>1, PlainIsMute, EarlyAnswer DEF Processing
<1>3. Branch(kind[r], SubSeq(data, 1, length)) \in {"override", "lookup"} => kind[r].to # "none"
  BY <1>1, KindsAssumption DEF Branch
<1>4. CASE kind[r].to # "none" /\ pc' = [pc EXCEPT ![r] = pc'[r]] /\ pc'[r] \in {"lookup", "slot", "tenant"}
           /\ (pc'[r] # "tenant" => UNCHANGED resp)
           /\ (pc'[r] = "tenant" => via'[r] = "override" /\ resp'[r].by = "vhost")
           /\ UNCHANGED <<kind, answer>>
  <2>1. /\ sid[r] # None /\ orig[r] = None /\ resp[r] = None /\ answer[r] = NoAnswer /\ ~replaced[r]
        /\ kind[r].sync => <<"page", r>> \in jars[sid[r]]
    BY <1>1, <1>4 DEF RequestInv, SessionKept, OnItsWay, Processing
  <2>2. ~FallbackHit(r)' /\ answer'[r].ack # r /\ OwnAnswer(r)'
    BY <1>1, <1>4, <2>1, PlainIsMute DEF FallbackHit, Mute, OwnAnswer
  <2>3. SessionKept(r)' /\ OnItsWay(r)'
    BY <1>1, <1>4, <2>1 DEF SessionKept, OnItsWay, Reached, Processing
  <2> QED
    BY <1>1, <1>4, <2>1, <2>2, <2>3 DEF RequestInv, CookiesCarried, Answered
<1>5. CASE /\ kind[r].to # "none"
           /\ pc' = [pc EXCEPT ![r] = "tenant"]
           /\ via' = [via EXCEPT ![r] = "override"]
           /\ \E a \in Served : resp' = [resp EXCEPT ![r] = a]
           /\ UNCHANGED <<kind, answer>>
  BY <1>4, <1>5, ResponsesAssumption DEF Typed, HandlersTyped
<1>6. CASE kind[r].to # "none" /\ (\E to \in {"lookup", "slot"} : Goto(r, to)) /\ UNCHANGED resp
  BY <1>4, <1>6 DEF Goto, Typed, HandlersTyped
<1> QED
  BY <1>2, <1>3, <1>5, <1>6 DEF Route

LEMMA SlotKeepsRequest ==
  ASSUME Typed, CookieInv, NEW r \in Requests,
         Lookup(r) \/ TakeSlot(r) \/ GiveUp(r) \/ Busy(r) \/ OriginFails(r)
  PROVE  RequestInv(r)'
<1>1. /\ pc[r] \in {"lookup", "slot", "sent"} /\ kind[r] \in Kind /\ r # None /\ RequestInv(r)
      /\ UNCHANGED <<sid, isNew, orig, resp, replaced, rules, jars, cache>>
  BY RequestsAssumption, KindsAssumption
  DEF Lookup, TakeSlot, GiveUp, Busy, OriginFails, Typed, HandlersTyped, Begun, CookieInv
<1>2. CASE \E a : Answer(r, a) /\ (Mute(a) \/ (a.kind = "cache" /\ a.ack # r /\ ~a.raw))
  BY <1>1, <1>2, EarlyAnswer DEF Processing
<1>3. CASE \E k : Answer(r, Plain(k))
  BY <1>2, <1>3, PlainIsMute
<1>4. CASE Lookup(r) /\ cache[kind[r].form] # None
  <2> DEFINE e == cache[kind[r].form]
             a == [kind |-> "cache", by |-> e.resp.by, sid |-> e.sid, ack |-> e.ack,
                   push |-> e.push, raw |-> e.resp.cookies]
  <2>1. EntryPlain(e)
    BY <1>1, <1>4 DEF CookieInv, Kind
  <2>2. pc[r] = "lookup" /\ Answer(r, a)
    BY <1>4 DEF Lookup
  <2>3. a.kind = "cache" /\ a.ack # r /\ ~a.raw
    BY <1>1, <2>1, <2>2 DEF EntryPlain
  <2> QED
    BY <1>2, <2>2, <2>3
<1> USE DEF Typed, HandlersTyped, RequestInv, SessionKept, OnItsWay, CookiesCarried, Answered, Reached,
            Processing
<1>5. CASE Goto(r, "slot") /\ UNCHANGED via
  BY <1>1, <1>5 DEF Goto, FallbackHit, OwnAnswer
<1>6. CASE TakeSlot(r)
  BY <1>1, <1>6 DEF TakeSlot, Goto, FallbackHit, OwnAnswer
<1> HIDE DEF Typed, HandlersTyped, RequestInv
<1> QED
  BY <1>3, <1>4, <1>5, <1>6 DEF Lookup, GiveUp, Busy, OriginFails

LEMMA ModifyKeepsRequest ==
  ASSUME Typed, NEW r \in Requests, RequestInv(r), Modify(r)
  PROVE  RequestInv(r)'
<1>1. /\ pc[r] = "sent" /\ via[r] = "proxy" /\ kind[r] # None /\ sid[r] # None /\ r # None
      /\ UNCHANGED <<sid, isNew, replaced, rules, jars, cache>>
  BY RequestsAssumption DEF Modify, Typed, Begun, RequestInv, SessionKept, Reached
<1>2. PICK a \in Origin : Modify(r)!2!(a)
  BY DEF Modify
<1>3. orig'[r] = a /\ a # None /\ UNCHANGED via
  BY <1>2, ResponsesAssumption DEF Answer, Goto, Typed, HandlersTyped
<1>4. UNCHANGED kind /\ (FallbackHit(r)' <=> FallsBack(kind[r], a))
  BY <1>1, <1>2, <1>3 DEF Answer, Goto, FallbackHit, FallsBack
<1> USE DEF Typed, HandlersTyped, RequestInv, SessionKept, OnItsWay, CookiesCarried, Answered, Reached,
            Processing
<1>5. CASE /\ Goto(r, "tenant")
           /\ \E b \in IF FallsBack(kind[r], a) THEN Served ELSE {a} : resp' = [resp EXCEPT ![r] = b]
  <2> HIDE DEF Typed, HandlersTyped, RequestInv
  <2>1. /\ pc'[r] = "tenant" /\ ~replaced[r] /\ answer'[r] = NoAnswer
        /\ kind[r].sync => <<"page", r>> \in jars[sid[r]]
        /\ answer'[r].ack # r /\ OwnAnswer(r)'
    BY <1>1, <1>5, PlainIsMute DEF Goto, Typed, HandlersTyped, RequestInv, Mute, OwnAnswer
  <2>2. /\ ~FallbackHit(r)' => resp'[r].cookies = orig'[r].cookies
        /\ resp'[r].by = "origin" <=> ~FallbackHit(r)'
    BY <1>3, <1>4, <1>5, ResponsesAssumption DEF Typed, HandlersTyped
  <2> QED
    BY <1>1, <1>3, <1>4, <2>1, <2>2 DEF RequestInv
<1>6. CASE FallsBack(kind[r], a) /\ Answer(r, Plain("panic"))
  <2>1. answer'[r].ack # r /\ OwnAnswer(r)' /\ pc'[r] = "done"
    BY <1>1, <1>6, PlainIsMute DEF Answer, Mute, OwnAnswer
  <2> QED
    BY <1>1, <1>3, <1>4, <1>6, <2>1
<1> HIDE DEF Typed, HandlersTyped, RequestInv
<1> QED
  BY <1>2, <1>5, <1>6

LEMMA ProcessingKeepsRequest ==
  ASSUME Typed, NEW r \in Requests, RequestInv(r), TenantContext(r) \/ Replace(r)
  PROVE  RequestInv(r)'
<1> USE DEF Typed, HandlersTyped, RequestInv, SessionKept, OnItsWay, CookiesCarried, Answered, Reached,
            Processing, Begun
<1>1. UNCHANGED <<kind, via, orig, sid, jars>> /\ (FallbackHit(r)' <=> FallbackHit(r))
  BY DEF TenantContext, Replace, Goto, FallbackHit, FallsBack
<1>2. CASE TenantContext(r)
  BY <1>1, <1>2 DEF TenantContext, Goto, OwnAnswer
<1>3. CASE Replace(r)
  <2>1. /\ pc[r] = "replace" /\ pc'[r] = IF replaced'[r] THEN "finish" ELSE "inject"
        /\ replaced'[r] \in BOOLEAN /\ (~replaced'[r] => resp'[r] = resp[r]) /\ resp'[r] # None
        /\ UNCHANGED answer /\ answer[r] = NoAnswer
    BY <1>3, StepTyped, ReplaceTyped DEF Replace, Replaces, Goto
  <2>2. OwnAnswer(r)'
    BY <2>1, PlainIsMute DEF OwnAnswer, Mute
  <2> HIDE DEF Begun
  <2> QED
    BY <1>1, <2>1, <2>2
<1> QED
  BY <1>2, <1>3

LEMMA InjectKeepsRequest ==
  ASSUME Typed, NEW r \in Requests, RequestInv(r), JarsGrow, Inject(r)
  PROVE  RequestInv(r)'
<1>1. /\ pc[r] = "inject" /\ resp[r] \in Response /\ sid[r] \in Sessions /\ jars[sid[r]] # None
      /\ ~replaced[r] /\ answer[r] = NoAnswer /\ r # None
      /\ UNCHANGED <<kind, sid, isNew, via, orig, replaced, answer>> /\ pc'[r] = "finish"
  BY RequestsAssumption
  DEF Inject, Goto, Typed, HandlersTyped, Begun, RequestInv, SessionKept, OnItsWay, Reached, Processing
<1>2. resp'[r] = Extracted(resp[r]) /\ ~resp'[r].cookies
  BY <1>1 DEF Inject, Typed, HandlersTyped, Response, Extracted
<1>3. resp[r].cookies => <<resp[r].by, r>> \in jars'[sid[r]]
  BY <1>1 DEF Inject, Typed, SharedTyped
<1>4. FallbackHit(r)' <=> FallbackHit(r)
  BY <1>1 DEF FallbackHit, FallsBack
<1>5. jars[sid[r]] \subseteq jars'[sid[r]]
  BY <1>1 DEF JarsGrow
<1>6. answer'[r] = NoAnswer /\ OwnAnswer(r)'
  BY <1>1, PlainIsMute DEF OwnAnswer, Mute
<1> QED
  BY <1>1, <1>2, <1>3, <1>4, <1>5, <1>6
  DEF RequestInv, SessionKept, OnItsWay, CookiesCarried, Answered, Reached, Processing

LEMMA FinishKeepsRequest ==
  ASSUME Typed, NEW r \in Requests, RequestInv(r), Finish(r)
  PROVE  RequestInv(r)'
<1>1. /\ pc[r] = "finish" /\ sid[r] # None /\ r # None /\ resp[r] \in Response /\ Answer(r, Written(r))
      /\ UNCHANGED <<kind, via, sid, isNew, orig, resp, replaced, rules, jars>> /\ pc'[r] = "done"
  BY RequestsAssumption
  DEF Finish, Answer, Typed, HandlersTyped, Begun, RequestInv, SessionKept, Reached, Processing
<1>2. FallbackHit(r)' <=> FallbackHit(r)
  BY <1>1 DEF FallbackHit, FallsBack
<1> DEFINE Fits(a) == /\ a.ack = r => kind[r].sync
                      /\ a.raw => replaced[r] \/ FallbackHit(r)
                      /\ a.sid \in {None, sid[r]} /\ a.ack \in {None, r} /\ a.push \in {None, r}
<1>4. \A k : Fits(Plain(k))
  BY <1>1, PlainIsMute DEF Mute
<1>5. FallbackHit(r) => \A b : Fits([Plain("cut") EXCEPT !.raw = b])
  BY <1>1 DEF Plain, NoAnswer
<1>6. Fits(Processed(r))
  BY <1>1 DEF Processed, RequestInv, CookiesCarried, Response
<1>7. Fits(Written(r))
  BY <1>4, <1>5, <1>6 DEF Written
<1>8. Fits(answer'[r])
  BY <1>1, <1>4, <1>7 DEF Answer, Typed, HandlersTyped
<1>9. /\ answer'[r].ack = r => kind[r].sync
      /\ OwnAnswer(r)'
  BY <1>1, <1>2, <1>8 DEF OwnAnswer
<1> HIDE DEF Fits
<1> QED
  BY <1>1, <1>2, <1>9 DEF RequestInv, SessionKept, OnItsWay, CookiesCarried, Answered, Reached, Processing

\* A handler that is done stays so.
LEMMA DoneIsStable ==
  ASSUME Typed, [Next]_vars, NEW q \in Requests, pc[q] = "done"
  PROVE  UNCHANGED <<pc[q], sid[q], replaced[q]>>
<1> USE DEF Typed, HandlersTyped, Processing
<1>1. CASE \E r \in Requests : Session(r) \/ Handle(r) \/ Leave(r)
  <2>1. PICK r \in Requests : Session(r) \/ Handle(r) \/ Leave(r)
    BY <1>1
  <2>2. q # r \/ UNCHANGED <<pc, sid, replaced>>
    BY <2>1 DEF Session, Handle, Route, Lookup, TakeSlot, GiveUp, Busy, OriginFails, Modify, TenantContext,
                Replace, Inject, Finish, Leave, handler
  <2> QED
    BY <2>1, <2>2, OthersUntouched DEF Same
<1>2. CASE (\E list \in Lists : BeginReplace(list)) \/ EndReplace \/ UNCHANGED vars
  BY <1>2 DEF BeginReplace, EndReplace, vars, handler
<1> QED
  BY <1>1, <1>2 DEF Next

\* What goes into the cache is plain, and the request it was made for is over.
LEMMA CacheStep ==
  ASSUME Typed, CookieInv, [Next]_vars, NEW f \in Forms, cache'[f] # None
  PROVE  EntryPlain(cache[f])'
<1>1. CASE UNCHANGED cache
  <2>1. EntryPlain(cache[f])
    BY <1>1 DEF CookieInv
  <2>2. cache[f] \in Entry
    BY <1>1 DEF Typed, SharedTyped
  <2> QED
    BY <1>1, <2>1, <2>2, DoneIsStable DEF EntryPlain, Entry
<1>2. CASE \E r \in Requests : Finish(r)
  <2>1. PICK r \in Requests : Finish(r)
    BY <1>2
  <2>2. CASE cache'[f] = cache[f]
    <3>1. EntryPlain(cache[f]) /\ cache[f] \in Entry
      BY <2>2 DEF CookieInv, Typed, SharedTyped
    <3> QED
      BY <2>2, <3>1, DoneIsStable DEF EntryPlain, Entry
  <2>3. CASE Stores(r) /\ ~replaced[r] /\ cache' = Stored(r) /\ cache'[f] # cache[f]
    <3>1. f = StoreForm(r)
      BY <2>3 DEF Stored, Typed, SharedTyped
    <3>2. cache'[f] = [resp |-> resp[r], sid |-> Processed(r).sid, ack |-> Processed(r).ack,
                       push |-> Processed(r).push]
      BY <2>3, <3>1 DEF Stored, Typed, SharedTyped
    <3>3. Processed(r).ack \in {r, None} /\ Processed(r).push \in {r, None}
          /\ Processed(r).sid \in {sid[r], None}
      BY DEF Processed
    <3>4. pc'[r] = "done" /\ pc[r] = "finish" /\ UNCHANGED <<resp, sid, replaced>>
      BY <2>1 DEF Finish, Answer, Typed, HandlersTyped
    <3>5. ~resp[r].cookies
      BY <2>3, <3>4 DEF CookieInv, RequestInv, CookiesCarried
    <3> QED
      BY <2>3, <3>2, <3>3, <3>4, <3>5 DEF EntryPlain, Stores
  <2> QED
    BY <2>1, <2>2, <2>3 DEF Finish
<1> QED
  BY <1>1, <1>2
  DEF Next, Handle, Session, Route, Lookup, TakeSlot, GiveUp, Busy, OriginFails, Modify, TenantContext, Replace,
      Inject, Leave, BeginReplace, EndReplace, vars

\* A jar has the origin's cookies of a request from that request's own processing.
LEMMA OriginsStep ==
  ASSUME Typed, CookieInv, [Next]_vars, NEW q \in Requests
  PROVE  OriginsOwn(q)'
<1> USE DEF Typed, HandlersTyped, SharedTyped, Processing
<1> SUFFICES ASSUME NEW s \in Sessions, <<"origin", q>> \in jars'[s], jars'[s] # None
             PROVE  pc'[q] \in {"finish", "done"} /\ ~replaced'[q] /\ ~FallbackHit(q)'
  BY DEF OriginsOwn
<1> DEFINE Kept == UNCHANGED <<replaced[q], via[q], orig[q], kind[q]>>
<1>1. Kept => (FallbackHit(q)' <=> FallbackHit(q))
  BY DEF FallbackHit, FallsBack
<1>2. CASE /\ jars[s] # None /\ <<"origin", q>> \in jars[s]
  <2>1. pc[q] \in {"finish", "done"} /\ ~replaced[q] /\ ~FallbackHit(q)
    BY <1>2 DEF CookieInv, OriginsOwn
  <2>2. pc'[q] \in {"finish", "done"} /\ Kept
    <3>1. CASE \E r \in Requests : r # q /\ (Session(r) \/ Handle(r) \/ Leave(r))
      BY <2>1, <3>1, OthersUntouched DEF Same
    <3>2. CASE Finish(q) \/ Leave(q) \/ (\E list \in Lists : BeginReplace(list)) \/ EndReplace \/ UNCHANGED vars
      BY <2>1, <3>2 DEF Finish, Answer, Leave, BeginReplace, EndReplace, vars, handler
    <3>3. ~(Session(q) \/ Route(q) \/ Lookup(q) \/ TakeSlot(q) \/ GiveUp(q) \/ Busy(q) \/ OriginFails(q)
            \/ Modify(q) \/ TenantContext(q) \/ Replace(q) \/ Inject(q))
      BY <2>1 DEF Session, Route, Lookup, TakeSlot, GiveUp, Busy, OriginFails, Modify, TenantContext, Replace, Inject
    <3> HIDE DEF Typed
    <3> QED
      BY <3>1, <3>2, <3>3 DEF Next, Handle
  <2> QED
    BY <1>1, <2>1, <2>2
<1>3. CASE \E r \in Requests : Inject(r)
  <2>1. PICK r \in Requests : Inject(r)
    BY <1>3
  <2>2. CASE jars' = [jars EXCEPT ![sid[r]] = jars[sid[r]] \cup {<<resp[r].by, r>>}] /\ ~UNCHANGED jars
    <3>1. /\ pc[r] = "inject" /\ RequestInv(r) /\ sid[r] \in Sessions /\ jars[sid[r]] # None
          /\ UNCHANGED <<replaced, via, orig, kind>> /\ pc'[r] = "finish" /\ ~replaced[r]
      BY <2>1, RequestsAssumption DEF Inject, Goto, CookieInv, RequestInv, SessionKept, Reached, OnItsWay, Begun
    <3>2. CASE s = sid[r] /\ <<"origin", q>> \notin jars[s]
      <4>1. <<"origin", q>> = <<resp[r].by, r>>
        BY <2>2, <3>1, <3>2
      <4>2. q = r /\ resp[r].by = "origin"
        BY <4>1
      <4>3. ~FallbackHit(r)
        BY <3>1, <4>2 DEF RequestInv, CookiesCarried
      <4> QED
        BY <1>1, <3>1, <4>2, <4>3
    <3> QED
      BY <1>2, <2>2, <3>1, <3>2
  <2> QED
    BY <1>2, <2>1, <2>2 DEF Inject
<1>4. CASE \E r \in Requests : Session(r)
  <2>1. PICK r \in Requests, k \in Kinds : Session(r)!3!(k)
    BY <1>4 DEF Session
  <2> DEFINE t == IF told[k.client] = None THEN r ELSE told[k.client]
  <2>2. CASE jars' = [jars EXCEPT ![t] = (IF jars[t] = None THEN {} ELSE jars[t])
                                          \cup IF k.sync THEN {<<"page", r>>} ELSE {}]
    <3>1. t \in Sessions
      BY KindsAssumption DEF Sessions, Kind
    <3> HIDE DEF t
    <3>2. <<"origin", q>> # <<"page", r>>
      OBVIOUS
    <3> QED
      BY <1>2, <2>2, <3>1, <3>2
  <2> QED
    BY <1>2, <2>1, <2>2
<1>5. CASE UNCHANGED jars
  BY <1>2, <1>5
<1> QED
  BY <1>3, <1>4, <1>5
  DEF Next, Handle, Route, Lookup, TakeSlot, GiveUp, Busy, OriginFails, Modify, TenantContext, Replace,
      Finish, Leave, BeginReplace, EndReplace, vars

LEMMA CookieStep == ASSUME Typed, CookieInv, [Next]_vars PROVE CookieInv'
<1>1. JarsGrow
  BY JarsOnlyGrow
<1>2. CASE \E r \in Requests : Session(r) \/ Handle(r) \/ Leave(r)
  <2>1. PICK r \in Requests : Session(r) \/ Handle(r) \/ Leave(r)
    BY <1>2
  <2>2. ASSUME NEW q \in Requests, q # r PROVE RequestInv(q)'
    BY <1>1, <2>1, <2>2, OthersUntouched, SameKeepsRequest DEF CookieInv
  <2>3. RequestInv(r)'
    <3>1. RequestInv(r)
      BY DEF CookieInv
    <3>2. CASE Leave(r)
      BY <3>1, <3>2, <1>1, SameKeepsRequest DEF Leave, handler, Same
    <3> QED
      BY <1>1, <2>1, <3>1, <3>2, SessionKeepsRequest, RouteKeepsRequest, SlotKeepsRequest, ModifyKeepsRequest,
         ProcessingKeepsRequest, InjectKeepsRequest, FinishKeepsRequest DEF Handle
  <2> QED
    BY <2>2, <2>3, CacheStep, OriginsStep DEF CookieInv
<1>3. CASE (\E list \in Lists : BeginReplace(list)) \/ EndReplace \/ UNCHANGED vars
  <2>1. UNCHANGED <<pc, kind, sid, via, orig, resp, replaced, answer, jars, cache>>
    BY <1>3 DEF BeginReplace, EndReplace, vars, handler
  <2>2. ASSUME NEW q \in Requests PROVE RequestInv(q)'
    BY <2>1
    DEF CookieInv, RequestInv, SessionKept, OnItsWay, CookiesCarried, Answered, OwnAnswer, FallbackHit, FallsBack
  <2> QED
    BY <2>2, CacheStep, OriginsStep DEF CookieInv
<1> QED
  BY <1>2, <1>3 DEF Next

-----------------------------------------------------------------------------
(* Blocked requests.                                                       *)

\* While a list alone is in force, what the handler reads of h.addons is that list.
LEMMA ReadsWhole ==
  ASSUME Typed, ListsInv, NEW r \in Active, NEW list \in Lists, inForce[r] = {list}
  PROVE  length = Len(data) /\ SubSeq(data, 1, length) = list
<1>1. current = list /\ writer \in {list, None}
  BY ListsAssumption DEF ListsInv, Typed, SharedTyped
<1>2. data = list /\ length = Len(list)
  BY <1>1, ListsAssumption DEF ListsInv, Typed, SharedTyped
<1>3. list \in Seq([block : BOOLEAN, replace : BOOLEAN, for : SUBSET Clients])
  BY ListsAssumption
<1> QED
  BY <1>2, <1>3

LEMMA BlockStep == ASSUME Typed, ListsInv, BlockInv, CookieInv, [Next]_vars PROVE BlockInv'
<1> SUFFICES ASSUME NEW q \in Requests, NEW list \in Lists, inForce'[q] = {list}, Blocks(list)
             PROVE  Stopped(q)'
  BY DEF BlockInv
<1> USE DEF Reached, Processing
<1>1. CASE inForce[q] = {list} /\ UNCHANGED <<pc[q], orig[q], resp[q], answer[q]>>
  BY <1>1 DEF BlockInv, Stopped
<1>2. CASE Session(q)
  <2>1. pc'[q] \in {"route", "done"} /\ answer'[q] \in {answer[q], Plain("ops")} /\ UNCHANGED <<orig, resp>>
    BY <1>2 DEF Session, Typed, HandlersTyped
  <2>2. answer[q] = NoAnswer /\ orig[q] = None /\ resp[q] = None
    BY <1>2 DEF Session, CookieInv, RequestInv, OnItsWay
  <2> QED
    BY <2>1, <2>2 DEF Stopped, Plain, NoAnswer
<1>3. CASE Route(q)
  <2>1. pc[q] = "route" /\ inForce[q] = {list} /\ kind[q] \in Kinds
    BY <1>3, HandlerReadsLists DEF Route, Handle, Typed, HandlersTyped, Begun
  <2>2. q \in Active
    BY <2>1 DEF Active
  <2>3. length = Len(data) /\ SubSeq(data, 1, length) = list
    BY <2>1, <2>2, ReadsWhole
  <2>4. length <= Len(data)
    BY <2>3 DEF Typed, SharedTyped
  <2>5. Branch(kind[q], list) \in {"api", "loop", "block", "missing"}
    BY <2>1, KindsAssumption DEF Branch
  <2>6. Answer(q, Plain(Branch(kind[q], list))) /\ UNCHANGED <<orig, resp>>
    <3>1. ~(ReadsRules(kind[q]) /\ length > Len(data))
      BY <2>3, <2>4 DEF Typed, SharedTyped
    <3>2. Branch(kind[q], list) \notin {"override", "lookup"}
      BY <2>5
    <3> QED
      BY <1>3, <2>3, <3>1, <3>2, Zenon DEF Route
  <2>7. Stopped(q)
    BY <2>1 DEF BlockInv
  <2> QED
    BY <2>5, <2>6, <2>7 DEF Answer, Plain, NoAnswer, Stopped, Typed, HandlersTyped
<1>4. CASE Handle(q) /\ ~Route(q)
  <2>1. pc[q] \in Reached /\ inForce[q] = {list}
    BY <1>4, HandlerReadsLists
    DEF Handle, Lookup, TakeSlot, GiveUp, Busy, OriginFails, Modify, TenantContext, Replace, Inject, Finish
  <2> QED
    BY <2>1 DEF BlockInv, Stopped
<1>5. CASE Leave(q) \/ EndReplace \/ UNCHANGED vars
  BY <1>1, <1>5 DEF Leave, EndReplace, vars, handler
<1>6. CASE \E r \in Requests : r # q /\ (Session(r) \/ Handle(r) \/ Leave(r))
  BY <1>1, <1>6, OthersUntouched DEF Same
<1>7. CASE \E l \in Lists : BeginReplace(l)
  <2>1. inForce[q] = {list}
    <3>1. CASE q \notin Active
      BY <1>7, <3>1 DEF BeginReplace
    <3>2. CASE q \in Active
      <4>1. current \in inForce[q]
        BY <3>2, ListsAssumption DEF ListsInv, Typed, SharedTyped
      <4>2. \E l \in Lists : inForce'[q] = inForce[q] \cup {l}
        BY <1>7, <3>2 DEF BeginReplace
      <4> QED
        BY <4>1, <4>2
    <3> QED
      BY <3>1, <3>2
  <2> QED
    BY <1>1, <1>7, <2>1 DEF BeginReplace
<1> QED
  BY <1>2, <1>3, <1>4, <1>5, <1>6, <1>7 DEF Next

-----------------------------------------------------------------------------
(* The theorems.                                                           *)

LEMMA InitRequests == Init => RequestsInv
<1> SUFFICES ASSUME Init PROVE RequestsInv
  OBVIOUS
<1>1. Typed
  BY InitTyped
<1>2. ListsInv
  BY DEF Init, ListsInv, Active
<1>3. BlockInv
  BY DEF Init, BlockInv
<1>4. CookieInv
  <2>1. ASSUME NEW r \in Requests PROVE RequestInv(r) /\ OriginsOwn(r)
    <3>1. answer[r] = NoAnswer /\ OwnAnswer(r) /\ NoAnswer.ack # r
      BY PlainIsMute, RequestsAssumption DEF Init, Mute, OwnAnswer
    <3> QED
      BY <3>1 DEF Init, RequestInv, OriginsOwn, SessionKept, OnItsWay, CookiesCarried, Answered, Reached, Processing
  <2> QED
    BY <2>1 DEF Init, CookieInv
<1> QED
  BY <1>1, <1>2, <1>3, <1>4 DEF RequestsInv

LEMMA RequestsInvariant == Spec => []RequestsInv
<1>1. RequestsInv /\ [Next]_vars => RequestsInv'
  BY StepTyped, ListsStep, BlockStep, CookieStep DEF RequestsInv
<1> QED
  BY <1>1, InitRequests, PTL DEF Spec

\* A response is processed with lists that were installed while its request ran,
\* whatever the reload writes in between.
THEOREM RulesCorrect == Spec => []RulesInForce
<1>1. RequestsInv => RulesInForce
  BY DEF RequestsInv, ListsInv, RulesInForce
<1> QED
  BY <1>1, RequestsInvariant, PTL

\* A request whose only list blocks it reaches no virtual host, cache, websocket or
\* origin, although ServeHTTP reads the list without the lock.
THEOREM BlockCorrect == Spec => []BlockedStaysInside
<1>1. RequestsInv => BlockedStaysInside
  BY DEF RequestsInv, BlockInv, Stopped, BlockedStaysInside
<1> QED
  BY <1>1, RequestsInvariant, PTL

\* The cookies an origin set are in the session's jar when the request is over, but for
\* the two paths that bypass the jars, and then in none; those acknowledged to a page
\* are there too.
THEOREM CookiesCorrect == Spec => []CookiesKept
<1>1. RequestsInv => CookiesKept
  BY DEF RequestsInv, CookieInv, RequestInv, OriginsOwn, CookiesCarried, Answered, CookiesKept
<1> QED
  BY <1>1, RequestsInvariant, PTL

\* What one session is told (its id, an acknowledgement, pushed cookies) reaches another
\* through an entry of the cache alone, which is of one request; and an origin's
\* Set-Cookie reaches the browser on the two known paths only.
THEOREM CacheCorrect == Spec => []SharedByCacheOnly
<1>1. RequestsInv => SharedByCacheOnly
  BY DEF RequestsInv, CookieInv, RequestInv, Answered, EntryPlain, CacheSharesHeaders, SharedByCacheOnly
<1> QED
  BY <1>1, RequestsInvariant, PTL
=============================================================================
