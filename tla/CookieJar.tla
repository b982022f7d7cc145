------------------------------ MODULE CookieJar ------------------------------
(***************************************************************************)
(* One session's cookie jar (internal/cookiejar/jar.go) under every sequence*)
(* of calls the proxy makes on it: cookies arrive with origin responses,   *)
(* from the page's sync header and from the cookie API; the API deletes;   *)
(* the periodic cleanup drops expired cookies; a restart persists the jar  *)
(* and restores it; and time passes.                                       *)
(***************************************************************************)
EXTENDS JarOps

CONSTANTS
  Hosts,          \* hosts the page talks to (params.host)
  DomainAttrs,    \* Domain attributes of cookies, <<>> when absent
  Names,          \* cookie names
  PathAttrs,      \* Path attributes of cookies, <<>> when absent
  Values,         \* cookie values
  MaxAges,        \* Max-Age attributes, 0 when absent, negative to delete
  Expiries,       \* Expires attributes, 0 when absent
  MaxTime         \* bound on the clock, for model checking

ASSUME MaxAgesAssumption == MaxAges \subseteq Int
ASSUME ExpiriesAssumption == Expiries \subseteq Nat
ASSUME MaxTimeAssumption == MaxTime \in Nat

VARIABLES
  jar,    \* the jar's two maps
  now,    \* the wall clock, in seconds; 0 is the zero time, so it starts at 1
  call    \* the last call, with what it returned

vars == <<jar, now, call>>

SetCookie == [domain : DomainAttrs, name : Names, path : PathAttrs,
              value : Values, maxAge : MaxAges, expires : Expiries]

Domains == {CanonicalDomain(d) : d \in (DomainAttrs \ {<<>>}) \cup Hosts}
Paths == (PathAttrs \ {<<>>}) \cup {<<Slash>>}
Keys == [name : Names, path : Paths]
Slots == Domains \X Keys

Entry == [value : Values, maxAge : Nat, expires : Nat, created : Nat, hostOnly : BOOLEAN]

JarTypeOK(j) ==
  /\ DOMAIN j = {"entries", "buckets"}
  /\ DOMAIN j.entries \subseteq Slots
  /\ \A s \in DOMAIN j.entries : j.entries[s] \in Entry
  /\ j.buckets \subseteq Domains

\* The observable part of a call: which method, the slots it names, the count
\* RemoveCookie returned, whether it panicked.
Called(op, slots, count, panic) ==
  [op |-> op, slots |-> slots, count |-> count, panic |-> panic]

-----------------------------------------------------------------------------
Init ==
  /\ jar = EmptyJar
  /\ now = 1
  /\ call = Called("new", {}, 0, FALSE)

Add(c, host) ==
  \E r \in AddCookie(jar, c, host, now) :
    /\ jar' = r.jar
    /\ call' = Called(IF c.maxAge < 0 THEN "unset"
                      ELSE IF IsExpired(EntryOf(c, now), now) THEN "ignored"
                      ELSE "add",
                      {SlotOf(c, host)}, 0, r.panic)
    /\ UNCHANGED now

\* handleCookieDelete; an empty domain names the key in every domain.
Delete(name, domain, path) ==
  LET r == RemoveCookie(jar, name, domain, path)
      k == Key(name, IF path # <<>> THEN path ELSE <<Slash>>)
  IN /\ jar' = r.jar
     /\ call' = Called("delete",
                       {s \in Slots : s[2] = k /\ (domain = <<>> \/ s[1] = CanonicalDomain(domain))},
                       r.count, FALSE)
     /\ UNCHANGED now

Sweep ==
  /\ jar' = RemoveExpired(jar, now)
  /\ call' = Called("sweep", {}, 0, FALSE)
  /\ UNCHANGED now

\* The jar is persisted, the process restarts and loads it some time later: AllCookies
\* filters by the one moment, RestoreCookies by the other.
Restart ==
  \E later \in now .. MaxTime :
    /\ now' = later
    /\ jar' = Restored(AllCookies(jar, now), later)
    /\ call' = Called("restart", {}, 0, FALSE)

Tick ==
  /\ now < MaxTime
  /\ now' = now + 1
  /\ call' = Called("tick", {}, 0, FALSE)
  /\ UNCHANGED jar

Next ==
  \/ \E c \in SetCookie, h \in Hosts : Add(c, h)
  \/ \E n \in Names, d \in DomainAttrs, p \in PathAttrs : Delete(n, d, p)
  \/ Sweep
  \/ Restart
  \/ Tick

Spec == Init /\ [][Next]_vars

-----------------------------------------------------------------------------
\* The jar's maps, the clock and the last call have their types.
TypeOK ==
  /\ JarTypeOK(jar)
  /\ now \in Nat \ {0}
  /\ call \in [op : {"new", "add", "ignored", "unset", "delete", "sweep", "restart", "tick"},
               slots : SUBSET Slots, count : Nat, panic : BOOLEAN]

\* jar_capacity: no sequence of calls, a restart included, leaves more cookies in
\* the jar than its capacity (evictIfNeeded makes room before the insertion).
CapacityOK == Cardinality(DOMAIN jar.entries) <= MaxSize

\* The inner maps are exactly those of the domains that hold a cookie: after any
\* call there is no empty inner map left and no cookie outside one.  AddCookie's
\* nil check, RemoveCookie's answer 0 and its count all rely on it.
BucketsExact == jar.buckets = {s[1] : s \in DOMAIN jar.entries}

Lost == DOMAIN jar.entries \ DOMAIN jar'.entries

\* A cookie leaves the jar only for a reason: it has expired, the call names its
\* slot to delete it, it is a session cookie and the process restarted, or the jar
\* was full, the call brings a new cookie, and no cookie that stays is older.  In
\* particular replacing a cookie evicts nothing and one call evicts at most one.
LostForAReason ==
  \A s \in Lost :
    \/ IsExpired(jar.entries[s], now')
    \/ call'.op \in {"unset", "delete"} /\ s \in call'.slots
    \/ call'.op = "restart" /\ IsSessionCookie(jar.entries[s])
    \/ /\ call'.op = "add"
       /\ Lost = {s}
       /\ Cardinality(DOMAIN jar.entries) = MaxSize
       /\ call'.slots \cap DOMAIN jar.entries = {}
       /\ \A t \in DOMAIN jar.entries : jar.entries[s].created <= jar.entries[t].created

LeavesForAReason == [][LostForAReason]_vars

Persistent(S) == {s \in S : ~IsSessionCookie(jar.entries[s])}

\* A restart is invisible to origins except for session cookies, however long it
\* takes: for every host and path the persistent cookies are sent after it that the
\* old jar would be sending by then, with the same values.  Neither of the two
\* filters, before and after it, drops a living cookie or lets a dead one through.
RestartKeepsPersistent ==
  [][call'.op = "restart" =>
       \A h \in Hosts, p \in Paths :
         LET sent == Persistent(Cookies(jar, h, p, now'))
         IN /\ Cookies(jar', h, p, now') = sent
            /\ \A s \in sent : jar'.entries[s] = jar.entries[s]]_vars

\* AddCookie "adds or updates" (jar.go:65): a cookie that is not a deletion and is
\* unexpired on arrival is in the jar when the call returns.
AddedIsStored == call.op = "add" => call.slots \subseteq DOMAIN jar.entries
=============================================================================
