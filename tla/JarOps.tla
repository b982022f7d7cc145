------------------------------- MODULE JarOps --------------------------------
(***************************************************************************)
(* The methods of cookiejar.Jar as operators on a jar value.  The code     *)
(* keeps a map of maps: the first level by domain, the second by           *)
(* name+"\x00"+path.  A jar is a record of                                 *)
(*   entries: a function from the occupied slots <<domain, key>> to entries*)
(*   buckets: the domains that have an inner map (a domain outside it      *)
(*            reads as the nil map)                                        *)
(* Every method holds the jar's mutex for its whole body, so a method is   *)
(* one step of whatever module uses it.                                    *)
(***************************************************************************)
EXTENDS CookieMatch, FiniteSets

CONSTANTS
  MaxSize,      \* Jar.maxSize
  KeyRank(_),   \* the position of a key in the string order of its encoding
  MaxDuration   \* the largest time.Duration, in seconds (2^63 ns in the code)

ASSUME MaxSizeAssumption == MaxSize \in Nat \ {0}
ASSUME MaxDurationAssumption == MaxDuration \in Nat \ {0}

EmptyJar == [entries |-> [s \in {} |-> <<>>], buckets |-> {}]

Key(name, path) == [name |-> name, path |-> path]

\* time.Duration(MaxAge) * time.Second in the width of a Duration.
Duration(maxAge) ==
  LET width == 2 * (MaxDuration + 1)
  IN ((maxAge + MaxDuration + 1) % width) - (MaxDuration + 1)

IsSessionCookie(e) == e.expires = 0 /\ e.maxAge = 0

IsExpired(e, now) ==
  \/ e.maxAge > 0 /\ now - e.created > Duration(e.maxAge)
  \/ e.maxAge <= 0 /\ e.expires # 0 /\ now > e.expires

-----------------------------------------------------------------------------
InBucket(S, d) == {s \in S : s[1] = d}

WithoutSlot(jar, s) == [t \in DOMAIN jar.entries \ {s} |-> jar.entries[t]]

\* Mutant: the inner map stays.
RemoveSlotKeepingMap(jar, s) == [entries |-> WithoutSlot(jar, s), buckets |-> jar.buckets]

\* removeCookie: an inner map left empty goes.
RemoveSlot(jar, s) ==
  [entries |-> WithoutSlot(jar, s),
   buckets |-> IF InBucket(DOMAIN jar.entries \ {s}, s[1]) = {}
                 THEN jar.buckets \ {s[1]}
                 ELSE jar.buckets]

\* The loop of a method that visits every inner map, leaves the slots of S and
\* drops the maps it left empty.
Retain(jar, S) ==
  [entries |-> [s \in S |-> jar.entries[s]],
   buckets |-> {d \in jar.buckets : InBucket(S, d) # {}}]

\* Mutant: the scan keeps the latest creation.
Newest(jar) ==
  {s \in DOMAIN jar.entries :
     \A t \in DOMAIN jar.entries : jar.entries[t].created <= jar.entries[s].created}

\* The slots the scan of evictIfNeeded can end with: the earliest creation, the
\* smaller key among equals.  Two domains may hold the same key with the same
\* creation time; then the order of the map iteration decides.
Oldest(jar) ==
  {s \in DOMAIN jar.entries : \A t \in DOMAIN jar.entries :
     \/ jar.entries[s].created < jar.entries[t].created
     \/ /\ jar.entries[s].created = jar.entries[t].created
        /\ KeyRank(s[2]) <= KeyRank(t[2])}

\* Mutant: room is made one insertion too late.
AfterLateEviction(jar) ==
  IF Cardinality(DOMAIN jar.entries) <= MaxSize
    THEN {jar}
    ELSE {RemoveSlot(jar, s) : s \in Oldest(jar)}

\* evictIfNeeded: the jars it can leave.
AfterEviction(jar) ==
  IF Cardinality(DOMAIN jar.entries) < MaxSize
    THEN {jar}
    ELSE {RemoveSlot(jar, s) : s \in Oldest(jar)}

-----------------------------------------------------------------------------
(* AddCookie.  A cookie c is what net/http parsed: domain and path may be  *)
(* empty, maxAge is negative for a deletion and 0 when absent, expires is 0*)
(* when absent.                                                            *)

SlotOf(c, host) ==
  << CanonicalDomain(IF c.domain # <<>> THEN c.domain ELSE host),
     Key(c.name, IF c.path # <<>> THEN c.path ELSE <<Slash>>) >>

EntryOf(c, now) ==
  [value    |-> c.value,
   maxAge   |-> IF c.maxAge > 0 THEN c.maxAge ELSE 0,
   expires  |-> IF c.maxAge = 0 THEN c.expires ELSE 0,
   created  |-> now,
   hostOnly |-> c.domain = <<>>]

\* The last assignment of AddCookie: writing into the inner map of a domain that
\* has none is a run-time panic.
Store(jar, s, e) ==
  IF s[1] \in jar.buckets
    THEN [jar   |-> [entries |-> [t \in DOMAIN jar.entries \cup {s} |->
                                    IF t = s THEN e ELSE jar.entries[t]],
                     buckets |-> jar.buckets],
          panic |-> FALSE]
    ELSE [jar |-> jar, panic |-> TRUE]

\* The results AddCookie can have.
AddCookie(jar, c, host, now) ==
  LET s == SlotOf(c, host)
      e == EntryOf(c, now)
      opened == [jar EXCEPT !.buckets = @ \cup {s[1]}]
  IN IF c.maxAge < 0 THEN {[jar |-> RemoveSlot(jar, s), panic |-> FALSE]}
     ELSE IF IsExpired(e, now) THEN {[jar |-> jar, panic |-> FALSE]}
     ELSE IF s \in DOMAIN jar.entries THEN {Store(opened, s, e)}
     ELSE {Store(j, s, e) : j \in AfterEviction(opened)}

-----------------------------------------------------------------------------
\* RemoveCookie: the jar it leaves and the count it returns.
RemoveCookie(jar, name, domain, path) ==
  LET k == Key(name, IF path # <<>> THEN path ELSE <<Slash>>)
      d == CanonicalDomain(domain)
  IN IF domain = <<>>
       THEN [jar |-> Retain(jar, {s \in DOMAIN jar.entries : s[2] # k}),
             count |-> Cardinality(jar.buckets)]
     ELSE IF d \in jar.buckets
       THEN [jar |-> RemoveSlot(jar, <<d, k>>), count |-> 1]
     ELSE [jar |-> jar, count |-> 0]

\* RemoveExpired and IsExpired of a jar.
RemoveExpired(jar, now) ==
  Retain(jar, {s \in DOMAIN jar.entries : ~IsExpired(jar.entries[s], now)})

AllExpired(jar, now) ==
  \A s \in DOMAIN jar.entries : IsExpired(jar.entries[s], now)

\* AllCookies: what is handed to persistence, by slot.
AllCookies(jar, now) ==
  LET S == {s \in DOMAIN jar.entries : /\ ~IsExpired(jar.entries[s], now)
                                       /\ ~IsSessionCookie(jar.entries[s])}
  IN [s \in S |-> jar.entries[s]]

\* Mutant: the record does not say that a cookie is for one host only.
RestoredForSubdomains(entries, now) ==
  LET S == {s \in DOMAIN entries : ~IsExpired(entries[s], now)}
  IN [entries |-> [s \in S |-> [entries[s] EXCEPT !.hostOnly = FALSE]],
      buckets |-> {s[1] : s \in S}]

\* RestoreCookies into a new jar (restoreJar): the record may have aged.
Restored(entries, now) ==
  LET S == {s \in DOMAIN entries : ~IsExpired(entries[s], now)}
  IN [entries |-> [s \in S |-> entries[s]], buckets |-> {s[1] : s \in S}]

\* Cookies: the slots sent with a request.
Cookies(jar, host, path, now) ==
  {s \in DOMAIN jar.entries :
     /\ DomainMatch(host, s[1])
     /\ jar.entries[s].hostOnly => host = s[1]
     /\ ~IsExpired(jar.entries[s], now)
     /\ PathMatch(path, s[2].path)}
=============================================================================
