-------------------------- MODULE CookieAndUrlProofs -------------------------
(***************************************************************************)
(* What holds of a cookie jar whatever the hosts, names, paths, lifetimes  *)
(* and capacity: the maps keep their types, no inner map is left empty, and*)
(* the capacity is never exceeded.  And what the pure algorithms compute   *)
(* whatever the hosts, paths, links and tags: cookie matching against the  *)
(* standard, proxy URLs and the cache keys there and back, the edit of a   *)
(* tag, and the runtime of a page.                                         *)
(***************************************************************************)
EXTENDS CookieJar, PureFunctions, FiniteSetTheorems, WellFoundedInduction, TLAPS

DomainsIn(j) == {s[1] : s \in DOMAIN j.entries}

\* The shape every jar value has, inside a method too.
Wellformed(j) ==
  /\ JarTypeOK(j)
  /\ IsFiniteSet(DOMAIN j.entries)
  /\ IsFiniteSet(j.buckets)
  /\ DomainsIn(j) \subseteq j.buckets

\* A jar in which at most the inner map of domain d is empty: what AddCookie works
\* on once it has made sure that d has one.
OpenFor(j, d) ==
  /\ Wellformed(j)
  /\ j.buckets \subseteq DomainsIn(j) \cup {d}

\* What a jar is between two calls.
JarInv(j) ==
  /\ Wellformed(j)
  /\ j.buckets \subseteq DomainsIn(j)
  /\ Cardinality(DOMAIN j.entries) <= MaxSize

-----------------------------------------------------------------------------
(* The operators on jar values.                                            *)

\* The size of a well-formed jar is a number.
LEMMA SizeIsNat ==
  ASSUME NEW j, Wellformed(j)
  PROVE  Cardinality(DOMAIN j.entries) \in Nat /\ Cardinality(j.buckets) \in Nat
BY FS_CardinalityType DEF Wellformed

\* What removeCookie leaves: one slot fewer, if it was occupied, and no inner map
\* that was not there.
LEMMA RemoveSlotShape ==
  ASSUME NEW j, Wellformed(j), NEW s
  PROVE  /\ Wellformed(RemoveSlot(j, s))
         /\ DOMAIN RemoveSlot(j, s).entries = DOMAIN j.entries \ {s}
         /\ RemoveSlot(j, s).buckets \subseteq j.buckets
         /\ Cardinality(DOMAIN RemoveSlot(j, s).entries)
              = Cardinality(DOMAIN j.entries) - (IF s \in DOMAIN j.entries THEN 1 ELSE 0)
         /\ \A d \in RemoveSlot(j, s).buckets :
              d \in DomainsIn(j) => d \in DomainsIn(RemoveSlot(j, s))
<1> DEFINE r == RemoveSlot(j, s)
<1>1. r.entries = [t \in DOMAIN j.entries \ {s} |-> j.entries[t]]
  BY DEF RemoveSlot, WithoutSlot
<1>2. DOMAIN r.entries = DOMAIN j.entries \ {s}
  BY <1>1
<1>3. r.buckets \subseteq j.buckets
  BY DEF RemoveSlot
<1>4. \A d \in DomainsIn(r) : d \in r.buckets
  BY <1>2 DEF RemoveSlot, InBucket, Wellformed, DomainsIn
<1>5. JarTypeOK(r)
  <2>1. DOMAIN r = {"entries", "buckets"}
    BY DEF RemoveSlot
  <2> QED BY <1>1, <1>2, <1>3, <2>1 DEF Wellformed, JarTypeOK
<1>6. IsFiniteSet(DOMAIN r.entries)
  BY <1>2, FS_RemoveElement DEF Wellformed
<1>7. IsFiniteSet(r.buckets)
  <2> r.buckets \in SUBSET j.buckets
    BY <1>3
  <2> QED BY FS_Subset DEF Wellformed
<1>8. Cardinality(DOMAIN r.entries)
        = Cardinality(DOMAIN j.entries) - (IF s \in DOMAIN j.entries THEN 1 ELSE 0)
  <2>1. Cardinality(DOMAIN j.entries \ {s})
          = IF s \in DOMAIN j.entries THEN Cardinality(DOMAIN j.entries) - 1
                                      ELSE Cardinality(DOMAIN j.entries)
    BY FS_RemoveElement DEF Wellformed
  <2> QED BY <1>2, <2>1, SizeIsNat
<1>9. \A d \in r.buckets : d \in DomainsIn(j) => d \in DomainsIn(r)
  BY <1>2 DEF RemoveSlot, InBucket, DomainsIn
<1> HIDE DEF r
<1>10. Wellformed(r)
  BY <1>4, <1>5, <1>6, <1>7 DEF Wellformed
<1> QED
  BY <1>2, <1>3, <1>8, <1>9, <1>10 DEF r

\* removeCookie keeps a jar a jar.
LEMMA RemoveSlotKeeps ==
  ASSUME NEW j, JarInv(j), NEW s
  PROVE  JarInv(RemoveSlot(j, s))
<1>1. Wellformed(j)
  BY DEF JarInv
<1>2. RemoveSlot(j, s).buckets \subseteq DomainsIn(RemoveSlot(j, s))
  BY <1>1, RemoveSlotShape DEF JarInv
<1>3. Cardinality(DOMAIN RemoveSlot(j, s).entries) <= MaxSize
  BY <1>1, RemoveSlotShape, SizeIsNat, MaxSizeAssumption DEF JarInv
<1> QED BY <1>1, <1>2, <1>3, RemoveSlotShape DEF JarInv

\* The methods that visit every inner map leave a jar with the slots they keep.
LEMMA RetainKeeps ==
  ASSUME NEW j, JarInv(j), NEW S \in SUBSET DOMAIN j.entries
  PROVE  JarInv(Retain(j, S))
<1> DEFINE r == Retain(j, S)
<1>1. r.entries = [s \in S |-> j.entries[s]] /\ DOMAIN r.entries = S
  BY DEF Retain
<1>2. r.buckets \in SUBSET j.buckets
  BY DEF Retain
<1>3. JarTypeOK(r)
  <2>1. DOMAIN r = {"entries", "buckets"}
    BY DEF Retain
  <2> QED BY <1>1, <1>2, <2>1 DEF JarInv, Wellformed, JarTypeOK
<1>4. IsFiniteSet(DOMAIN r.entries) /\ Cardinality(DOMAIN r.entries) <= Cardinality(DOMAIN j.entries)
  BY <1>1, FS_Subset DEF JarInv, Wellformed
<1>5. IsFiniteSet(r.buckets)
  BY <1>2, FS_Subset DEF JarInv, Wellformed
<1>6. r.buckets \subseteq DomainsIn(r) /\ DomainsIn(r) \subseteq r.buckets
  BY <1>1 DEF Retain, InBucket, DomainsIn, JarInv, Wellformed
<1> HIDE DEF r
<1>7. Wellformed(r)
  BY <1>3, <1>4, <1>5, <1>6 DEF Wellformed
<1>8. Cardinality(DOMAIN r.entries) <= MaxSize
  BY <1>4, <1>7, SizeIsNat, MaxSizeAssumption DEF JarInv
<1> QED BY <1>6, <1>7, <1>8 DEF JarInv, r

\* Storing into a jar that has room for the slot, with the inner map of its domain
\* open or gone, leaves a jar, whether the assignment succeeds or panics.
LEMMA StoreKeeps ==
  ASSUME NEW k, NEW s \in Slots, NEW e \in Entry,
         OpenFor(k, s[1]),
         Cardinality(DOMAIN k.entries) <= MaxSize,
         s \in DOMAIN k.entries \/ Cardinality(DOMAIN k.entries) < MaxSize
  PROVE  JarInv(Store(k, s, e).jar) /\ Store(k, s, e).panic \in BOOLEAN
<1>1. CASE s[1] \notin k.buckets
  <2>1. Store(k, s, e) = [jar |-> k, panic |-> TRUE]
    BY <1>1 DEF Store
  <2> QED BY <1>1, <2>1 DEF OpenFor, JarInv
<1>2. CASE s[1] \in k.buckets
  <2> DEFINE r == Store(k, s, e).jar
  <2>1. /\ r.entries = [t \in DOMAIN k.entries \cup {s} |-> IF t = s THEN e ELSE k.entries[t]]
        /\ r.buckets = k.buckets
        /\ DOMAIN r = {"entries", "buckets"}
        /\ Store(k, s, e).panic = FALSE
    BY <1>2 DEF Store
  <2>2. DOMAIN r.entries = DOMAIN k.entries \cup {s}
    BY <2>1
  <2> HIDE DEF r
  <2>3. JarTypeOK(r)
    BY <2>1, <2>2 DEF OpenFor, Wellformed, JarTypeOK
  <2>4. r.buckets \subseteq DomainsIn(r) /\ DomainsIn(r) \subseteq r.buckets
    BY <1>2, <2>1, <2>2 DEF OpenFor, Wellformed, DomainsIn
  <2>5. IsFiniteSet(DOMAIN r.entries)
        /\ Cardinality(DOMAIN r.entries)
             = IF s \in DOMAIN k.entries THEN Cardinality(DOMAIN k.entries)
                                         ELSE Cardinality(DOMAIN k.entries) + 1
    <3>1. IsFiniteSet(DOMAIN k.entries)
      BY DEF OpenFor, Wellformed
    <3>2. /\ IsFiniteSet(DOMAIN k.entries \cup {s})
          /\ Cardinality(DOMAIN k.entries \cup {s})
               = IF s \in DOMAIN k.entries THEN Cardinality(DOMAIN k.entries)
                                           ELSE Cardinality(DOMAIN k.entries) + 1
      BY <3>1, FS_AddElement
    <3> QED BY <2>2, <3>2
  <2>6. Cardinality(DOMAIN r.entries) <= MaxSize
    BY <2>5, SizeIsNat, MaxSizeAssumption DEF OpenFor
  <2>7. JarInv(r)
    BY <2>1, <2>3, <2>4, <2>5, <2>6 DEF OpenFor, Wellformed, JarInv
  <2> QED BY <2>1, <2>7 DEF r
<1> QED BY <1>1, <1>2

\* A cookie the proxy receives lands in a slot, as an entry.
LEMMA SlotAndEntry ==
  ASSUME NEW c \in SetCookie, NEW h \in Hosts, NEW t \in Nat
  PROVE  SlotOf(c, h) \in Slots /\ EntryOf(c, t) \in Entry
<1>1. CanonicalDomain(IF c.domain # <<>> THEN c.domain ELSE h) \in Domains
  BY DEF Domains, SetCookie
<1>2. Key(c.name, IF c.path # <<>> THEN c.path ELSE <<Slash>>) \in Keys
  BY DEF Keys, Key, Paths, SetCookie
<1>3. EntryOf(c, t) \in Entry
  <2>1. c.maxAge \in Int /\ c.expires \in Nat /\ c.value \in Values
    BY MaxAgesAssumption, ExpiriesAssumption DEF SetCookie
  <2>2. (c.domain = <<>>) \in BOOLEAN
    OBVIOUS
  <2>3. (IF c.maxAge > 0 THEN c.maxAge ELSE 0) \in Nat
        /\ (IF c.maxAge = 0 THEN c.expires ELSE 0) \in Nat
    BY <2>1
  <2> QED BY <2>1, <2>2, <2>3, Zenon DEF EntryOf, Entry
<1> QED BY <1>1, <1>2, <1>3 DEF SlotOf, Slots

\* Every result of AddCookie is a jar.
LEMMA AddCookieKeeps ==
  ASSUME NEW j, JarInv(j), NEW c \in SetCookie, NEW h \in Hosts, NEW t \in Nat,
         NEW r \in AddCookie(j, c, h, t)
  PROVE  JarInv(r.jar) /\ r.panic \in BOOLEAN
<1> DEFINE s == SlotOf(c, h)
           e == EntryOf(c, t)
           opened == [j EXCEPT !.buckets = @ \cup {s[1]}]
<1>1. s \in Slots /\ e \in Entry /\ s[1] \in Domains
  BY SlotAndEntry DEF Slots
<1>2. opened.entries = j.entries /\ opened.buckets = j.buckets \cup {s[1]}
      /\ DOMAIN opened = {"entries", "buckets"}
  BY DEF JarInv, Wellformed, JarTypeOK
<1>3. \/ r = [jar |-> RemoveSlot(j, s), panic |-> FALSE]
      \/ r = [jar |-> j, panic |-> FALSE]
      \/ s \in DOMAIN j.entries /\ r = Store(opened, s, e)
      \/ s \notin DOMAIN j.entries /\ \E k \in AfterEviction(opened) : r = Store(k, s, e)
  BY DEF AddCookie
<1> HIDE DEF s, e, opened
<1>4. OpenFor(opened, s[1])
  <2>1. IsFiniteSet(opened.buckets)
    BY <1>2, FS_AddElement DEF JarInv, Wellformed
  <2> QED BY <1>1, <1>2, <2>1 DEF OpenFor, JarInv, Wellformed, JarTypeOK, DomainsIn
<1>5. CASE r = [jar |-> RemoveSlot(j, s), panic |-> FALSE]
  BY <1>5, RemoveSlotKeeps
<1>6. CASE r = [jar |-> j, panic |-> FALSE]
  BY <1>6
<1>7. CASE s \in DOMAIN j.entries /\ r = Store(opened, s, e)
  BY <1>1, <1>2, <1>4, <1>7, StoreKeeps DEF JarInv
<1>8. CASE s \notin DOMAIN j.entries /\ \E k \in AfterEviction(opened) : r = Store(k, s, e)
  <2>1. PICK k \in AfterEviction(opened) : r = Store(k, s, e)
    BY <1>8
  <2>2. Cardinality(DOMAIN opened.entries) \in Nat /\ Cardinality(DOMAIN opened.entries) <= MaxSize
    BY <1>2, <1>4, SizeIsNat DEF OpenFor, JarInv
  <2>3. CASE Cardinality(DOMAIN opened.entries) < MaxSize
    <3> k = opened
      BY <2>3 DEF AfterEviction
    <3> QED BY <1>1, <1>4, <2>1, <2>2, <2>3, StoreKeeps
  <2>4. CASE ~(Cardinality(DOMAIN opened.entries) < MaxSize)
    <3>1. PICK v \in DOMAIN opened.entries : k = RemoveSlot(opened, v)
      BY <2>4 DEF AfterEviction, Oldest
    <3>2. Wellformed(opened)
      BY <1>4 DEF OpenFor
    <3>3. OpenFor(k, s[1])
      BY <1>4, <3>1, <3>2, RemoveSlotShape DEF OpenFor
    <3>4. Cardinality(DOMAIN k.entries) = Cardinality(DOMAIN opened.entries) - 1
      BY <3>1, <3>2, RemoveSlotShape
    <3>5. Cardinality(DOMAIN k.entries) < MaxSize /\ Cardinality(DOMAIN k.entries) <= MaxSize
      BY <2>2, <3>4, MaxSizeAssumption
    <3> QED BY <1>1, <2>1, <3>3, <3>5, StoreKeeps
  <2> QED BY <2>3, <2>4
<1> QED BY <1>3, <1>5, <1>6, <1>7, <1>8

\* A restart leaves a jar: what was persisted was in the jar.
LEMMA RestoredKeeps ==
  ASSUME NEW j, JarInv(j), NEW t, NEW u
  PROVE  JarInv(Restored(AllCookies(j, t), u))
<1> DEFINE p == AllCookies(j, t)
           r == Restored(p, u)
<1>1. DOMAIN p \subseteq DOMAIN j.entries /\ \A s \in DOMAIN p : p[s] = j.entries[s]
  BY DEF AllCookies
<1>2. PICK S \in SUBSET DOMAIN p :
        /\ r.entries = [s \in S |-> p[s]]
        /\ r.buckets = {s[1] : s \in S}
        /\ DOMAIN r = {"entries", "buckets"}
  BY DEF Restored
<1>3. DOMAIN r.entries = S /\ S \in SUBSET DOMAIN j.entries
  BY <1>1, <1>2
<1> HIDE DEF p, r
<1>4. r.buckets \in SUBSET j.buckets
  BY <1>2, <1>3 DEF JarInv, Wellformed, DomainsIn
<1>5. JarTypeOK(r)
  BY <1>1, <1>2, <1>3, <1>4 DEF JarInv, Wellformed, JarTypeOK
<1>6. IsFiniteSet(S) /\ Cardinality(S) <= Cardinality(DOMAIN j.entries) /\ IsFiniteSet(r.buckets)
  BY <1>3, <1>4, FS_Subset DEF JarInv, Wellformed
<1>7. Wellformed(r) /\ r.buckets \subseteq DomainsIn(r)
  BY <1>2, <1>3, <1>5, <1>6 DEF Wellformed, DomainsIn
<1>8. Cardinality(S) <= MaxSize
  BY <1>3, <1>6, <1>7, SizeIsNat, MaxSizeAssumption DEF JarInv
<1> QED BY <1>3, <1>7, <1>8 DEF JarInv, p, r

-----------------------------------------------------------------------------
(* The state machine.                                                      *)

IInv == TypeOK /\ JarInv(jar)

\* A new jar satisfies the invariant.
LEMMA InitInv == Init => IInv
<1> SUFFICES ASSUME Init PROVE IInv
  OBVIOUS
<1>1. DOMAIN jar.entries = {} /\ jar.buckets = {} /\ DOMAIN jar = {"entries", "buckets"}
  BY DEF Init, EmptyJar
<1>2. JarInv(jar)
  BY <1>1, FS_EmptySet, MaxSizeAssumption DEF JarInv, Wellformed, JarTypeOK, DomainsIn
<1>3. call = [op |-> "new", slots |-> {}, count |-> 0, panic |-> FALSE] /\ now = 1
  BY DEF Init, Called
<1> QED BY <1>2, <1>3 DEF IInv, TypeOK, JarInv, Wellformed

\* Every call, restart and tick keeps it.
LEMMA NextInv == IInv /\ [Next]_vars => IInv'
<1> SUFFICES ASSUME IInv, [Next]_vars PROVE IInv'
  OBVIOUS
<1>1. JarInv(jar) /\ now \in Nat \ {0}
  BY DEF IInv, TypeOK
<1>2. ASSUME NEW c \in SetCookie, NEW h \in Hosts, Add(c, h)
      PROVE  IInv'
  <2>1. PICK r \in AddCookie(jar, c, h, now) :
          /\ jar' = r.jar
          /\ call' = Called(IF c.maxAge < 0 THEN "unset"
                            ELSE IF IsExpired(EntryOf(c, now), now) THEN "ignored"
                            ELSE "add",
                            {SlotOf(c, h)}, 0, r.panic)
          /\ now' = now
    BY <1>2 DEF Add
  <2>2. JarInv(jar') /\ r.panic \in BOOLEAN
    BY <1>1, <2>1, AddCookieKeeps
  <2>3. {SlotOf(c, h)} \in SUBSET Slots
    BY <1>1, SlotAndEntry
  <2> QED BY <1>1, <2>1, <2>2, <2>3 DEF IInv, TypeOK, JarInv, Wellformed, Called
<1>3. ASSUME NEW n \in Names, NEW d \in DomainAttrs, NEW p \in PathAttrs, Delete(n, d, p)
      PROVE  IInv'
  <2> DEFINE r == RemoveCookie(jar, n, d, p)
  <2>1. JarInv(r.jar) /\ r.count \in Nat
    <3>1. CASE d = <<>>
      BY <1>1, <3>1, RetainKeeps, SizeIsNat DEF RemoveCookie, JarInv
    <3>2. CASE d # <<>> /\ CanonicalDomain(d) \in jar.buckets
      BY <1>1, <3>2, RemoveSlotKeeps DEF RemoveCookie
    <3>3. CASE d # <<>> /\ CanonicalDomain(d) \notin jar.buckets
      BY <1>1, <3>3 DEF RemoveCookie
    <3> QED BY <3>1, <3>2, <3>3
  <2>2. jar' = r.jar /\ now' = now
        /\ \E S \in SUBSET Slots : call' = Called("delete", S, r.count, FALSE)
    BY <1>3 DEF Delete
  <2> HIDE DEF r
  <2> QED BY <1>1, <2>1, <2>2 DEF IInv, TypeOK, JarInv, Wellformed, Called
<1>4. CASE Sweep
  <2>1. JarInv(jar')
    BY <1>1, <1>4, RetainKeeps DEF Sweep, RemoveExpired
  <2> QED BY <1>1, <1>4, <2>1 DEF Sweep, IInv, TypeOK, JarInv, Wellformed, Called
<1>5. CASE Restart
  <2>1. PICK later \in now .. MaxTime :
          /\ now' = later
          /\ jar' = Restored(AllCookies(jar, now), later)
          /\ call' = Called("restart", {}, 0, FALSE)
    BY <1>5 DEF Restart
  <2>2. JarInv(jar')
    BY <1>1, <2>1, RestoredKeeps
  <2>3. now' \in Nat \ {0}
    BY <1>1, <2>1, MaxTimeAssumption DEF IInv, TypeOK
  <2> QED BY <2>1, <2>2, <2>3 DEF IInv, TypeOK, JarInv, Wellformed, Called
<1>6. CASE Tick
  BY <1>1, <1>6 DEF Tick, IInv, TypeOK, JarInv, Wellformed, JarTypeOK, DomainsIn, Called
<1>7. CASE UNCHANGED vars
  BY <1>1, <1>7 DEF vars, IInv, TypeOK, JarInv, Wellformed, JarTypeOK, DomainsIn
<1> QED BY <1>2, <1>3, <1>4, <1>5, <1>6, <1>7 DEF Next

\* The jar's maps keep their types under every sequence of calls.
THEOREM TypeCorrect == Spec => []TypeOK
<1>1. IInv => TypeOK
  BY DEF IInv
<1> QED BY <1>1, InitInv, NextInv, PTL DEF Spec

\* The jar never holds more cookies than its capacity, for any capacity.
THEOREM CapacityCorrect == Spec => []CapacityOK
<1>1. IInv => CapacityOK
  BY DEF IInv, JarInv, CapacityOK
<1> QED BY <1>1, InitInv, NextInv, PTL DEF Spec

\* Between calls the inner maps are exactly those of the domains with a cookie, a
\* call that panicked included.
THEOREM BucketsCorrect == Spec => []BucketsExact
<1>1. IInv => BucketsExact
  BY DEF IInv, JarInv, Wellformed, DomainsIn, BucketsExact
<1> QED BY <1>1, InitInv, NextInv, PTL DEF Spec

-----------------------------------------------------------------------------
(* What a step may take away.                                              *)

\* The slots AddCookie empties: the one a deletion names, none, or the oldest of a
\* full jar that a new cookie enters.
LEMMA AddCookieLoses ==
  ASSUME NEW j, JarInv(j), NEW c \in SetCookie, NEW h \in Hosts, NEW t \in Nat,
         NEW r \in AddCookie(j, c, h, t)
  PROVE  \A s \in DOMAIN j.entries \ DOMAIN r.jar.entries :
           \/ c.maxAge < 0 /\ s = SlotOf(c, h)
           \/ /\ ~(c.maxAge < 0)
              /\ ~IsExpired(EntryOf(c, t), t)
              /\ DOMAIN j.entries \ DOMAIN r.jar.entries = {s}
              /\ Cardinality(DOMAIN j.entries) = MaxSize
              /\ SlotOf(c, h) \notin DOMAIN j.entries
              /\ \A u \in DOMAIN j.entries : j.entries[s].created <= j.entries[u].created
<1> DEFINE s == SlotOf(c, h)
           e == EntryOf(c, t)
           opened == [j EXCEPT !.buckets = @ \cup {s[1]}]
           lost == DOMAIN j.entries \ DOMAIN r.jar.entries
<1>1. opened.entries = j.entries
  BY DEF JarInv, Wellformed, JarTypeOK
<1>2. \/ c.maxAge < 0 /\ r = [jar |-> RemoveSlot(j, s), panic |-> FALSE]
      \/ r = [jar |-> j, panic |-> FALSE]
      \/ s \in DOMAIN j.entries /\ r = Store(opened, s, e)
      \/ /\ ~(c.maxAge < 0) /\ ~IsExpired(e, t)
         /\ s \notin DOMAIN j.entries
         /\ \E k \in AfterEviction(opened) : r = Store(k, s, e)
  BY DEF AddCookie
<1>3. \A k : DOMAIN Store(k, s, e).jar.entries = DOMAIN k.entries
             \/ DOMAIN Store(k, s, e).jar.entries = DOMAIN k.entries \cup {s}
  BY DEF Store
<1> HIDE DEF e, opened
<1>4. CASE c.maxAge < 0 /\ r = [jar |-> RemoveSlot(j, s), panic |-> FALSE]
  BY <1>4, RemoveSlotShape DEF JarInv
<1>5. CASE r = [jar |-> j, panic |-> FALSE]
  BY <1>5
<1>6. CASE s \in DOMAIN j.entries /\ r = Store(opened, s, e)
  BY <1>1, <1>3, <1>6
<1>7. CASE /\ ~(c.maxAge < 0) /\ ~IsExpired(e, t)
           /\ s \notin DOMAIN j.entries
           /\ \E k \in AfterEviction(opened) : r = Store(k, s, e)
  <2>1. PICK k \in AfterEviction(opened) : r = Store(k, s, e)
    BY <1>7
  <2>2. CASE Cardinality(DOMAIN opened.entries) < MaxSize
    <3> k = opened
      BY <2>2 DEF AfterEviction
    <3> QED BY <1>1, <1>3, <2>1
  <2>3. CASE ~(Cardinality(DOMAIN opened.entries) < MaxSize)
    <3>1. PICK v \in Oldest(opened) : k = RemoveSlot(opened, v)
      BY <2>3 DEF AfterEviction
    <3>2. v \in DOMAIN j.entries
      BY <1>1, <3>1 DEF Oldest
    <3>3. DOMAIN k.entries = DOMAIN j.entries \ {v}
      BY <1>1, <3>1 DEF RemoveSlot, WithoutSlot
    <3>4. lost = {v}
      BY <1>3, <1>7, <2>1, <3>2, <3>3
    <3>5. Cardinality(DOMAIN j.entries) = MaxSize
      BY <1>1, <2>3, SizeIsNat, MaxSizeAssumption DEF JarInv
    <3>6. \A u \in DOMAIN j.entries : j.entries[u].created \in Nat
      BY DEF JarInv, Wellformed, JarTypeOK, Entry
    <3>7. \A u \in DOMAIN j.entries : j.entries[v].created <= j.entries[u].created
      BY <1>1, <3>1, <3>2, <3>6 DEF Oldest
    <3> QED BY <1>7, <3>4, <3>5, <3>7 DEF e
  <2> QED BY <2>2, <2>3
<1> QED BY <1>2, <1>4, <1>5, <1>6, <1>7

\* A cookie that has expired stays so.
LEMMA ExpiredStays ==
  ASSUME NEW e \in Entry, NEW t \in Nat, NEW u \in Nat, t <= u, IsExpired(e, t)
  PROVE  IsExpired(e, u)
<1>1. PICK d \in Int : d = Duration(e.maxAge)
  BY MaxDurationAssumption DEF Duration, Entry
<1>2. e.maxAge \in Nat /\ e.expires \in Nat /\ e.created \in Nat
  BY DEF Entry
<1> QED BY <1>1, <1>2 DEF IsExpired

\* What is restored of a persisted jar: the cookies that are neither session cookies
\* nor expired by then, unchanged.
LEMMA RestoredShape ==
  ASSUME NEW j, JarTypeOK(j), NEW t \in Nat, NEW u \in Nat, t <= u
  PROVE  LET r == Restored(AllCookies(j, t), u)
             S == {s \in DOMAIN j.entries : /\ ~IsExpired(j.entries[s], u)
                                            /\ ~IsSessionCookie(j.entries[s])}
         IN DOMAIN r.entries = S /\ \A s \in S : r.entries[s] = j.entries[s]
<1> DEFINE kept == AllCookies(j, t)
           living == {s \in DOMAIN j.entries : /\ ~IsExpired(j.entries[s], t)
                                               /\ ~IsSessionCookie(j.entries[s])}
           S == {s \in DOMAIN j.entries : /\ ~IsExpired(j.entries[s], u)
                                          /\ ~IsSessionCookie(j.entries[s])}
<1>1. DOMAIN kept = living /\ \A s \in living : kept[s] = j.entries[s]
  BY DEF AllCookies
<1>2. \A s \in DOMAIN j.entries : IsExpired(j.entries[s], t) => IsExpired(j.entries[s], u)
  BY ExpiredStays DEF JarTypeOK
<1>3. {s \in DOMAIN kept : ~IsExpired(kept[s], u)} = S
  BY <1>1, <1>2
<1>4. \A s \in S : kept[s] = j.entries[s]
  BY <1>1, <1>2
<1> HIDE DEF kept, S, living
<1>5. /\ DOMAIN Restored(kept, u).entries = S
      /\ \A s \in S : Restored(kept, u).entries[s] = kept[s]
  BY <1>3 DEF Restored
<1> QED BY <1>4, <1>5 DEF kept, S

LEMMA StepLosesForAReason == IInv /\ [Next]_vars => [LostForAReason]_vars
<1> SUFFICES ASSUME IInv, [Next]_vars PROVE LostForAReason \/ UNCHANGED vars
  OBVIOUS
<1>1. JarInv(jar) /\ now \in Nat \ {0} /\ DOMAIN jar.entries \subseteq Slots
  BY DEF IInv, TypeOK, JarTypeOK
<1>2. ASSUME NEW c \in SetCookie, NEW h \in Hosts, Add(c, h)
      PROVE  LostForAReason
  <2>1. PICK r \in AddCookie(jar, c, h, now) :
          /\ jar' = r.jar
          /\ call' = Called(IF c.maxAge < 0 THEN "unset"
                            ELSE IF IsExpired(EntryOf(c, now), now) THEN "ignored"
                            ELSE "add",
                            {SlotOf(c, h)}, 0, r.panic)
    BY <1>2 DEF Add
  <2>2. /\ call'.slots = {SlotOf(c, h)}
        /\ c.maxAge < 0 => call'.op = "unset"
        /\ ~(c.maxAge < 0) /\ ~IsExpired(EntryOf(c, now), now) => call'.op = "add"
    BY <2>1 DEF Called
  <2>3. \A s \in Lost :
          \/ c.maxAge < 0 /\ s = SlotOf(c, h)
          \/ /\ ~(c.maxAge < 0)
             /\ ~IsExpired(EntryOf(c, now), now)
             /\ Lost = {s}
             /\ Cardinality(DOMAIN jar.entries) = MaxSize
             /\ SlotOf(c, h) \notin DOMAIN jar.entries
             /\ \A u \in DOMAIN jar.entries : jar.entries[s].created <= jar.entries[u].created
    BY <1>1, <2>1, AddCookieLoses DEF Lost
  <2> QED BY <2>2, <2>3 DEF LostForAReason
<1>3. ASSUME NEW n \in Names, NEW d \in DomainAttrs, NEW p \in PathAttrs, Delete(n, d, p)
      PROVE  LostForAReason
  <2> DEFINE k == Key(n, IF p # <<>> THEN p ELSE <<Slash>>)
  <2>1. /\ jar' = RemoveCookie(jar, n, d, p).jar
        /\ call'.op = "delete"
        /\ call'.slots = {s \in Slots : s[2] = k /\ (d = <<>> \/ s[1] = CanonicalDomain(d))}
    BY <1>3 DEF Delete, Called
  <2>2. CASE d = <<>>
    <3> \A s \in Lost : s[2] = k
      BY <2>1, <2>2 DEF RemoveCookie, Retain, Lost
    <3> QED BY <1>1, <2>1, <2>2 DEF LostForAReason, Lost
  <2>3. CASE d # <<>> /\ CanonicalDomain(d) \in jar.buckets
    <3> jar' = RemoveSlot(jar, <<CanonicalDomain(d), k>>)
      BY <2>1, <2>3 DEF RemoveCookie
    <3> \A s \in Lost : s = <<CanonicalDomain(d), k>>
      BY <1>1, RemoveSlotShape DEF Lost, JarInv
    <3> QED BY <1>1, <2>1 DEF LostForAReason, Lost
  <2>4. CASE d # <<>> /\ CanonicalDomain(d) \notin jar.buckets
    <3> Lost = {}
      BY <2>1, <2>4 DEF RemoveCookie, Lost
    <3> QED BY DEF LostForAReason
  <2> QED BY <2>2, <2>3, <2>4
<1>4. CASE Sweep
  <2>1. now' = now /\ \A s \in Lost : IsExpired(jar.entries[s], now)
    BY <1>4 DEF Sweep, RemoveExpired, Retain, Lost
  <2> QED BY <2>1 DEF LostForAReason
<1>5. CASE Restart
  <2>1. PICK later \in now .. MaxTime :
          /\ now' = later
          /\ jar' = Restored(AllCookies(jar, now), later)
          /\ call'.op = "restart"
    BY <1>5 DEF Restart, Called
  <2>2. \A s \in Lost : IsExpired(jar.entries[s], later) \/ IsSessionCookie(jar.entries[s])
    BY <1>1, <2>1, MaxTimeAssumption, RestoredShape DEF Lost, IInv, TypeOK, JarInv, Wellformed
  <2> QED BY <2>1, <2>2 DEF LostForAReason
<1>6. CASE Tick
  BY <1>6 DEF Tick, Lost, LostForAReason
<1> QED BY <1>2, <1>3, <1>4, <1>5, <1>6 DEF Next

\* No step takes a cookie away without a reason, whatever the instance: expiry, a
\* deletion that names it, a session cookie at a restart, or eviction of the oldest
\* from a full jar by a new cookie.
THEOREM LossCorrect == Spec => LeavesForAReason
<1>1. IInv /\ [Next]_vars => [LostForAReason]_vars
  BY StepLosesForAReason
<1> QED BY <1>1, InitInv, NextInv, PTL DEF Spec, LeavesForAReason

-----------------------------------------------------------------------------
\* Only a restart is called one, and it takes nothing from an origin but session
\* cookies.
LEMMA StepRestarts ==
  IInv /\ [Next]_vars => [call'.op = "restart" =>
                            \A h \in Hosts, p \in Paths :
                              LET sent == Persistent(Cookies(jar, h, p, now'))
                              IN /\ Cookies(jar', h, p, now') = sent
                                 /\ \A s \in sent : jar'.entries[s] = jar.entries[s]]_vars
<1> SUFFICES ASSUME IInv, Next, call'.op = "restart", NEW h \in Hosts, NEW p \in Paths
             PROVE  LET sent == Persistent(Cookies(jar, h, p, now'))
                    IN /\ Cookies(jar', h, p, now') = sent
                       /\ \A s \in sent : jar'.entries[s] = jar.entries[s]
  OBVIOUS
<1>1. Restart
  BY DEF Next, Add, Delete, Sweep, Tick, Called
<1>2. PICK later \in now .. MaxTime :
        now' = later /\ jar' = Restored(AllCookies(jar, now), later)
  BY <1>1 DEF Restart
<1> DEFINE S == {s \in DOMAIN jar.entries : /\ ~IsExpired(jar.entries[s], later)
                                            /\ ~IsSessionCookie(jar.entries[s])}
<1>3. DOMAIN jar'.entries = S /\ \A s \in S : jar'.entries[s] = jar.entries[s]
  <2>1. JarTypeOK(jar) /\ now \in Nat /\ later \in Nat /\ now <= later
    BY <1>2, MaxTimeAssumption DEF IInv, TypeOK
  <2> QED BY <1>2, <2>1, RestoredShape
<1>4. \A s : s \in Cookies(jar', h, p, later) <=>
               s \in S /\ s \in Cookies(jar, h, p, later)
  BY <1>3 DEF Cookies
<1>5. Persistent(Cookies(jar, h, p, later)) \subseteq S
  BY DEF Persistent, Cookies
<1>6. Cookies(jar', h, p, later) = Persistent(Cookies(jar, h, p, later))
  BY <1>4, <1>5 DEF Persistent
<1> QED BY <1>2, <1>3, <1>5, <1>6

\* A restart is invisible to origins except for session cookies, whatever the hosts,
\* paths, lifetimes and capacity, and whenever the two filters run: what AllCookies hands to persistence and RestoreCookies
\* takes back is what Cookies goes on sending.
THEOREM RestartCorrect == Spec => RestartKeepsPersistent
BY InitInv, NextInv, StepRestarts, PTL DEF Spec, RestartKeepsPersistent

-----------------------------------------------------------------------------
(* The pure algorithms: every probe is one of the sets asked from.         *)

\* The probe is one of those the sets hold.
ProbeInv == probe \in {NoProbe} \cup PathProbes \cup HostProbes \cup UrlProbes
  \cup HtmlProbes \cup PageProbes

LEMMA ProbesStay == ProbeSpec => []ProbeInv
<1>1. ProbeInit => ProbeInv
  BY DEF ProbeInit, ProbeInv
<1>2. ProbeInv /\ [ProbeNext]_probe => ProbeInv'
  BY DEF ProbeInv, ProbeNext, Ask
<1> QED BY <1>1, <1>2, PTL DEF ProbeSpec

LEMMA ProbeKinds ==
  ASSUME ProbeInv
  PROVE  /\ probe.fn = "path" => probe \in PathProbes
         /\ probe.fn = "host" => probe \in HostProbes
         /\ probe.fn = "url" => probe \in UrlProbes
         /\ probe.fn = "html" => probe \in HtmlProbes
         /\ probe.fn = "page" => probe \in PageProbes
<1>1. probe \in {NoProbe} => probe.fn = "none"
  BY DEF NoProbe
<1>2. probe \in PathProbes => probe.fn = "path"
  BY DEF PathProbes
<1>3. probe \in HostProbes => probe.fn = "host"
  BY DEF HostProbes
<1>4. probe \in UrlProbes => probe.fn = "url"
  BY DEF UrlProbes
<1>5. probe \in HtmlProbes => probe.fn = "html"
  BY DEF HtmlProbes
<1>6. probe \in PageProbes => probe.fn = "page"
  BY DEF PageProbes
<1> QED BY <1>1, <1>2, <1>3, <1>4, <1>5, <1>6 DEF ProbeInv

LEMMA BoundedSeqType ==
  ASSUME NEW S, NEW n, NEW s \in BoundedSeq(S, n)
  PROVE  s \in Seq(S)
<1>1. PICK m \in 0 .. n : s \in [1 .. m -> S]
  BY DEF BoundedSeq, SeqOf
<1> QED BY <1>1

\* One sequence is a prefix, or a suffix, of another if it agrees with it place by place.
LEMMA PrefixByPlaces ==
  ASSUME NEW X, NEW s \in Seq(X), NEW t \in Seq(X)
  PROVE  IsPrefix(s, t) <=> Len(s) <= Len(t) /\ \A k \in 1 .. Len(s) : s[k] = t[k]
<1>1. Len(s) \in Nat /\ Len(t) \in Nat
  OBVIOUS
<1>2. SubSeq(s, 1, Len(s)) = [k \in 1 .. Len(s) |-> s[k]]
  BY <1>1
<1>3. SubSeq(t, 1, Len(s)) = [k \in 1 .. Len(s) |-> t[k]]
  BY <1>1
<1> QED BY <1>1, <1>2, <1>3 DEF IsPrefix

LEMMA SuffixByPlaces ==
  ASSUME NEW X, NEW s \in Seq(X), NEW t \in Seq(X)
  PROVE  IsSuffix(s, t) <=>
           Len(s) <= Len(t) /\ \A k \in 1 .. Len(s) : s[k] = t[Len(t) - Len(s) + k]
<1> DEFINE r == Reverse(s)
           u == Reverse(t)
<1>1. Len(s) \in Nat /\ Len(t) \in Nat
  OBVIOUS
<1>2. /\ r \in Seq(X) /\ Len(r) = Len(s) /\ \A k \in 1 .. Len(s) : r[k] = s[(Len(s) - k) + 1]
      /\ u \in Seq(X) /\ Len(u) = Len(t) /\ \A k \in 1 .. Len(t) : u[k] = t[(Len(t) - k) + 1]
  BY DEF Reverse
<1> HIDE DEF r, u
<1>3. IsPrefix(r, u) <=> Len(s) <= Len(t) /\ \A k \in 1 .. Len(s) : r[k] = u[k]
  <2>1. r \in Seq(X) /\ u \in Seq(X) /\ Len(r) = Len(s) /\ Len(u) = Len(t)
    BY <1>2
  <2>2. IsPrefix(r, u) <=> Len(r) <= Len(u) /\ \A k \in 1 .. Len(r) : r[k] = u[k]
    BY <2>1, PrefixByPlaces, SMTT(30)
  <2> QED BY ONLY <2>1, <2>2
<1>4. ASSUME Len(s) <= Len(t), \A k \in 1 .. Len(s) : r[k] = u[k], NEW k \in 1 .. Len(s)
      PROVE  s[k] = t[Len(t) - Len(s) + k]
  <2> DEFINE m == Len(s) - k + 1
  <2>1. m \in 1 .. Len(s) /\ m \in 1 .. Len(t) /\ k = (Len(s) - m) + 1
        /\ (Len(t) - m) + 1 = Len(t) - Len(s) + k
    BY <1>1, <1>4
  <2>2. r[m] = u[m] /\ r[m] = s[(Len(s) - m) + 1] /\ u[m] = t[(Len(t) - m) + 1]
    <3> HIDE DEF m
    <3> QED BY <1>2, <1>4, <2>1
  <2> QED BY <2>1, <2>2
<1>5. ASSUME Len(s) <= Len(t), \A k \in 1 .. Len(s) : s[k] = t[Len(t) - Len(s) + k],
             NEW k \in 1 .. Len(s)
      PROVE  r[k] = u[k]
  <2> DEFINE m == (Len(s) - k) + 1
  <2>1. m \in 1 .. Len(s) /\ k \in 1 .. Len(t) /\ Len(t) - Len(s) + m = (Len(t) - k) + 1
    BY <1>1, <1>5
  <2>2. s[m] = t[Len(t) - Len(s) + m]
    <3> HIDE DEF m
    <3> QED BY <1>5, <2>1
  <2>3. r[k] = s[m] /\ u[k] = t[(Len(t) - k) + 1]
    BY <1>2, <2>1
  <2> QED BY <2>1, <2>2, <2>3
<1> QED BY <1>3, <1>4, <1>5 DEF IsSuffix, r, u

-----------------------------------------------------------------------------
(* Cookie matching.                                                        *)

LEMMA PathsMatch ==
  ASSUME NEW X, NEW a \in Seq(X), NEW b \in Seq(X), b # <<>>, b[1] = Slash
  PROVE  IF Len(b) > 1 /\ Last(b) = Slash
           THEN PathMatch(a, b) <=> a = b \/ IsPrefix(b \o <<Slash>>, a)
           ELSE PathMatch(a, b) <=> RFCPathMatch(a, b)
<1>1. Len(a) \in Nat /\ Len(b) \in Nat \ {0} /\ (Len(b) = 1 => b = <<Slash>>) /\ Len(<<Slash>>) = 1
  OBVIOUS
<1>2. IsPrefix(b, a) <=> Len(b) <= Len(a) /\ \A k \in 1 .. Len(b) : b[k] = a[k]
  BY PrefixByPlaces
<1>3. CASE Len(b) > 1 /\ Last(b) = Slash
  <2> DEFINE c == b \o <<Slash>>
             Y == X \cup {Slash}
  <2>1. /\ c \in Seq(Y) /\ a \in Seq(Y) /\ Len(c) = Len(b) + 1 /\ c[Len(b) + 1] = Slash
        /\ \A k \in 1 .. Len(b) : c[k] = b[k]
    OBVIOUS
  <2> HIDE DEF c, Y
  <2>2. IsPrefix(c, a) <=> Len(c) <= Len(a) /\ \A k \in 1 .. Len(c) : c[k] = a[k]
    BY <2>1, PrefixByPlaces
  <2>3. IsPrefix(c, a) <=> IsPrefix(b, a) /\ Len(a) > Len(b) /\ a[Len(b) + 1] = Slash
    <3>1. \A k : k \in 1 .. Len(b) + 1 <=> k \in 1 .. Len(b) \/ k = Len(b) + 1
      BY <1>1
    <3>2. Len(c) <= Len(a) <=> Len(b) <= Len(a) /\ Len(a) > Len(b)
      BY <1>1, <2>1
    <3> QED BY <1>2, <2>1, <2>2, <3>1, <3>2
  <2>4. ASSUME b = <<Slash>> PROVE FALSE
    <3>1. Len(b) = 1
      BY <2>4
    <3> QED BY <3>1, <1>3
  <2> QED BY <1>3, <2>3, <2>4 DEF PathMatch, c
<1>4. CASE Len(b) = 1
  <2>1. b = <<Slash>> /\ Last(b) = Slash
    BY <1>4 DEF Last
  <2> QED BY <1>4, <2>1 DEF PathMatch, RFCPathMatch
<1>5. CASE Len(b) > 1 /\ Last(b) # Slash
  <2>1. ASSUME b = <<Slash>> PROVE FALSE
    <3>1. Len(b) = 1
      BY <2>1
    <3> QED BY <3>1, <1>5
  <2>2. IsPrefix(b, a) /\ Len(a) = Len(b) => a = b
    BY <1>1, <1>2
  <2>3. IsPrefix(b, a) /\ a # b => Len(a) > Len(b)
    BY <1>1, <1>2, <2>2
  <2> QED BY <1>5, <2>1, <2>3 DEF PathMatch, RFCPathMatch
<1> QED BY <1>1, <1>3, <1>4, <1>5

LEMMA RFCByPlaces ==
  ASSUME NEW X, NEW a \in Seq(X), NEW b \in Seq(X)
  PROVE  RFCDomainMatch(a, b) <=> IsSuffix(b, a)
<1> DEFINE Agree == Len(b) <= Len(a) /\ \A k \in 1 .. Len(b) : b[k] = a[Len(a) - Len(b) + k]
<1>1. Len(a) \in Nat /\ Len(b) \in Nat
  OBVIOUS
<1>2. IsSuffix(b, a) <=> Agree
  BY SuffixByPlaces
<1>3. ASSUME NEW n \in 0 .. Len(a)
      PROVE  /\ SubSeq(a, n + 1, Len(a)) \in Seq(X) /\ Len(SubSeq(a, n + 1, Len(a))) = Len(a) - n
             /\ \A k \in 1 .. Len(a) - n : SubSeq(a, n + 1, Len(a))[k] = a[n + k]
  <2>1. SubSeq(a, n + 1, Len(a)) = [k \in 1 .. Len(a) - n |-> a[n + k]]
    BY <1>1
  <2>2. \A k \in 1 .. Len(a) - n : a[n + k] \in X
    BY <1>1
  <2> QED BY <1>1, <2>1, <2>2
<1>4. ASSUME NEW n \in 0 .. Len(a) - Len(b), SubSeq(a, n + 1, Len(a)) = b PROVE Agree
  <2>1. n \in 0 .. Len(a)
    BY <1>1
  <2>2. Len(b) = Len(a) - n /\ \A k \in 1 .. Len(a) - n : b[k] = a[n + k]
    BY <1>3, <1>4, <2>1
  <2>3. n = Len(a) - Len(b) /\ Len(b) <= Len(a)
    BY <1>1, <2>1, <2>2
  <2> QED BY <2>2, <2>3
<1>5. ASSUME Agree PROVE \E n \in 0 .. Len(a) - Len(b) : SubSeq(a, n + 1, Len(a)) = b
  <2> DEFINE n == Len(a) - Len(b)
             s == SubSeq(a, n + 1, Len(a))
  <2>1. n \in 0 .. Len(a) - Len(b) /\ n \in 0 .. Len(a) /\ Len(a) - n = Len(b)
    BY <1>1, <1>5
  <2>2. s \in Seq(X) /\ Len(s) = Len(b) /\ \A k \in 1 .. Len(b) : s[k] = a[n + k]
    <3> HIDE DEF n
    <3> QED BY <1>3, <2>1
  <2>3. s = b
    <3> HIDE DEF s
    <3> QED BY <1>5, <2>2
  <2> QED BY <2>1, <2>3
<1> QED BY <1>2, <1>4, <1>5 DEF RFCDomainMatch

LEMMA SuffixItself ==
  ASSUME NEW X, NEW a \in Seq(X)
  PROVE  IsSuffix(a, a)
<1>1. IsSuffix(a, a) <=>
        Len(a) <= Len(a) /\ \A k \in 1 .. Len(a) : a[k] = a[Len(a) - Len(a) + k]
  BY SuffixByPlaces
<1>2. Len(a) \in Nat
  OBVIOUS
<1> QED BY <1>1, <1>2

\* e stands for the empty label.
LEMMA Dotted ==
  ASSUME NEW X, NEW a \in Seq(X), NEW b \in Seq(X), b # <<>>, NEW e, e \notin X
  PROVE  /\ Head(b) # e /\ <<e>> \o b # <<>> /\ Head(<<e>> \o b) = e /\ Tail(<<e>> \o b) = b
         /\ a # <<e>> \o b
<1> DEFINE c == <<e>> \o b
           Y == X \cup {e}
<1>1. Head(b) # e
  OBVIOUS
<1>2. c \in Seq(Y) /\ Len(c) = Len(b) + 1 /\ c[1] = e /\ c # <<>> /\ Head(c) = e /\ Tail(c) = b
  OBVIOUS
<1>3. a = c => Len(a) >= 1 /\ a[1] \in X
  <2> HIDE DEF c
  <2> QED BY <1>2
<1> QED BY <1>1, <1>2, <1>3

LEMMA HostsMatch ==
  ASSUME NEW X, NEW a \in Seq(X), NEW b \in Seq(X), b # <<>>, "" \notin X
  PROVE  /\ DomainMatch(a, b) <=> RFCDomainMatch(a, b)
         /\ DomainMatch(a, <<"">> \o b) <=> RFCDomainMatch(a, b)
<1>1. RFCDomainMatch(a, b) <=> IsSuffix(b, a)
  BY RFCByPlaces
<1>2. a = b => IsSuffix(b, a)
  BY SuffixItself
<1>3. PICK e : e = ""
  OBVIOUS
<1>4. e \notin X
  BY <1>3, Zenon
<1>5. /\ Head(b) # e /\ <<e>> \o b # <<>> /\ Head(<<e>> \o b) = e /\ Tail(<<e>> \o b) = b
      /\ a # <<e>> \o b
  BY ONLY <1>4, a \in Seq(X), b \in Seq(X), b # <<>>, Dotted
<1> DEFINE c == <<e>> \o b
<1>6. DomainMatch(a, b) <=> IsSuffix(b, a)
  BY ONLY <1>2, <1>3, <1>5, b # <<>>, Zenon DEF DomainMatch, CanonicalDomain
<1>7. DomainMatch(a, c) <=> IsSuffix(b, a)
  <2>1. c # <<>> /\ Head(c) = "" /\ Tail(c) = b /\ a # c
    BY ONLY <1>3, <1>5, Zenon
  <2> HIDE DEF c
  <2> QED BY ONLY <2>1, Zenon DEF DomainMatch, CanonicalDomain
<1>8. DomainMatch(a, <<"">> \o b) <=> IsSuffix(b, a)
  BY ONLY <1>3, <1>7, Zenon
<1> QED BY ONLY <1>1, <1>6, <1>8, Zenon

\* A name with a port is none without, and matches itself.
LEMMA PortsApart ==
  ASSUME NEW a \in Seq(Labels), a # <<>>, NEW b \in Seq(Labels), b # <<>>
  PROVE  /\ ~DomainMatch(WithPort(a), b)
         /\ DomainMatch(WithPort(a), WithPort(a))
<1> DEFINE w == WithPort(a)
           l == Port[Last(a)]
           X == Labels \cup {l}
<1>1. Len(a) \in Nat \ {0} /\ Last(a) \in Labels
  BY DEF Last
<1>2. l \notin Labels
  BY <1>1, LabelsAssumption
<1>3. w = [a EXCEPT ![Len(a)] = l]
  BY DEF WithPort, ReplaceAt
<1> HIDE DEF l
<1>4. w \in Seq(X) /\ Len(w) = Len(a) /\ w[Len(w)] = l /\ b \in Seq(X)
  BY <1>1, <1>3
<1> HIDE DEF w, X
<1>5. b[Len(b)] \in Labels /\ Len(b) \in 1 .. Len(b) /\ Len(b) \in Nat /\ b # w
  BY <1>1, <1>2, <1>4
<1>6. Head(b) # ""
  BY LabelsAssumption, Dotted
<1>7. ~IsSuffix(b, w)
  <2>1. IsSuffix(b, w) <=>
          Len(b) <= Len(w) /\ \A k \in 1 .. Len(b) : b[k] = w[Len(w) - Len(b) + k]
    BY <1>4, SuffixByPlaces
  <2>2. ASSUME \A k \in 1 .. Len(b) : b[k] = w[Len(w) - Len(b) + k] PROVE FALSE
    <3>1. b[Len(b)] = w[Len(w) - Len(b) + Len(b)]
      BY <1>5, <2>2
    <3>2. Len(w) - Len(b) + Len(b) = Len(w)
      BY <1>1, <1>4, <1>5
    <3> QED BY <1>2, <1>4, <1>5, <3>1, <3>2
  <2> QED BY <2>1, <2>2
<1> QED BY <1>5, <1>6, <1>7 DEF DomainMatch, CanonicalDomain, w

\* Cookies match as the comments of matcher.go say, with the exceptions MatchIsRFC
\* names, whatever the characters and labels and however long the paths and hosts.
THEOREM MatchIsRFCCorrect == ProbeSpec => []MatchIsRFC
<1>1. ProbeInv => MatchIsRFC
  <2> SUFFICES ASSUME ProbeInv PROVE MatchIsRFC
    OBVIOUS
  <2>1. PICK p : p = probe
    OBVIOUS
  <2>2. ASSUME p.fn = "path"
        PROVE  IF Len(p.b) > 1 /\ Last(p.b) = Slash
                 THEN PathMatch(p.a, p.b) <=> p.a = p.b \/ IsPrefix(p.b \o <<Slash>>, p.a)
                 ELSE PathMatch(p.a, p.b) <=> RFCPathMatch(p.a, p.b)
    <3> DEFINE X == PathChars \cup {Slash}
    <3>1. p.a \in PathsUpTo(MaxPath) /\ p.b \in PathsUpTo(MaxPath - 1)
      BY <2>1, <2>2, ProbeKinds DEF PathProbes
    <3>2. ASSUME NEW n, NEW x \in PathsUpTo(n) PROVE x \in Seq(X) /\ x # <<>> /\ x[1] = Slash
      <4>1. PICK y \in BoundedSeq(PathChars, n - 1) : x = <<Slash>> \o y
        BY <3>2 DEF PathsUpTo
      <4>2. y \in Seq(PathChars)
        BY BoundedSeqType
      <4> QED BY <4>1, <4>2
    <3> HIDE DEF X
    <3> QED BY <3>1, <3>2, PathsMatch
  <2>3. ASSUME p.fn = "host"
        PROVE  /\ DomainMatch(p.a, p.b) <=> RFCDomainMatch(p.a, p.b)
               /\ DomainMatch(p.a, <<"">> \o p.b) <=> RFCDomainMatch(p.a, p.b)
               /\ ~DomainMatch(WithPort(p.a), p.b)
               /\ DomainMatch(WithPort(p.a), WithPort(p.a))
    <3>1. p.a \in BareHosts /\ p.b \in BareHosts
      BY <2>1, <2>3, ProbeKinds DEF HostProbes
    <3>2. p.a \in Seq(Labels) /\ p.a # <<>> /\ p.b \in Seq(Labels) /\ p.b # <<>>
      BY <3>1, BoundedSeqType DEF BareHosts
    <3> QED BY <3>2, LabelsAssumption, HostsMatch, PortsApart
  <2> QED BY <2>1, <2>2, <2>3 DEF MatchIsRFC
<1> QED BY <1>1, ProbesStay, PTL

-----------------------------------------------------------------------------
(* URLs as functions of their parts: two that agree in every part are the  *)
(* same.                                                                   *)

Parts == {"scheme", "host", "rooted", "path", "q", "h", "s"}
IsUrl(u) == u = [x \in Parts |-> u[x]]

\* Kept unexpanded: the provers take a Boolean for a formula, and reason badly
\* about the empty string.
Yes == TRUE
Blank == ""

\* Likewise the ways URLs are made and changed, so that lemmas can speak of them.
Records(A, B, C, D, E, F, G) ==
  [scheme : A, host : B, rooted : C, path : D, q : E, h : F, s : G]
WithOrigin(u, a, b) == [u EXCEPT !.scheme = a, !.host = b]
WithScheme(u, a) == [u EXCEPT !.scheme = a]
WithHost(u, a) == [u EXCEPT !.host = a]
WithPath(u, a) == [u EXCEPT !.path = a]
WithQuery(u, a) == [u EXCEPT !.q = a]
WithParams(u, a, b) == [u EXCEPT !.h = a, !.s = b]
WithSent(u, a, b, q) == [u EXCEPT !.scheme = a, !.host = b, !.q = q]
WithMeta(u, q, a, b) == [u EXCEPT !.q = q, !.h = a, !.s = b]
WithAll(u, a, b, q, c, d) == [u EXCEPT !.scheme = a, !.host = b, !.q = q, !.h = c, !.s = d]

LEMMA SameParts ==
  ASSUME NEW u, NEW v, IsUrl(u), IsUrl(v),
         u.scheme = v.scheme, u.host = v.host, u.rooted = v.rooted,
         u.path = v.path, u.q = v.q, u.h = v.h, u.s = v.s
  PROVE  u = v
<1>1. \A x \in Parts : u[x] = v[x]
  BY DEF Parts
<1> QED BY <1>1 DEF IsUrl

LEMMA UrlParts ==
  ASSUME NEW sc, NEW ho, NEW pa, NEW q, NEW h, NEW s, NEW U, U = Url(sc, ho, pa, q, h, s)
  PROVE  /\ IsUrl(U)
         /\ U.scheme = sc /\ U.host = ho /\ U.rooted = Yes /\ U.path = pa
         /\ U.q = q /\ U.h = h /\ U.s = s
<1> DEFINE u == [scheme |-> sc, host |-> ho, rooted |-> Yes, path |-> pa,
                 q |-> q, h |-> h, s |-> s]
<1>1. u = [x \in Parts |-> u[x]]
  BY ONLY SMT DEF Parts
<1>2. /\ u.scheme = sc /\ u.host = ho /\ u.rooted = Yes /\ u.path = pa
      /\ u.q = q /\ u.h = h /\ u.s = s
  BY ONLY SMT
<1>3. U = u
  BY Zenon DEF Url, Yes
<1> QED BY <1>1, <1>2, <1>3, Zenon DEF IsUrl

LEMMA UrlIs ==
  ASSUME NEW u, IsUrl(u), u.rooted = Yes
  PROVE  u = Url(u.scheme, u.host, u.path, u.q, u.h, u.s)
<1> DEFINE v == Url(u.scheme, u.host, u.path, u.q, u.h, u.s)
<1>0. v = Url(u.scheme, u.host, u.path, u.q, u.h, u.s)
  OBVIOUS
<1> HIDE DEF v
<1>1. /\ IsUrl(v)
      /\ v.scheme = u.scheme /\ v.host = u.host /\ v.rooted = Yes /\ v.path = u.path
      /\ v.q = u.q /\ v.h = u.h /\ v.s = u.s
  BY <1>0, UrlParts
<1>2. u = v
  BY <1>1, SameParts
<1> QED BY <1>2 DEF v

LEMMA PartsInSets ==
  ASSUME NEW A, NEW B, NEW C, NEW D, NEW E, NEW F, NEW G,
         NEW u \in Records(A, B, C, D, E, F, G)
  PROVE  /\ IsUrl(u) /\ u.scheme \in A /\ u.host \in B /\ u.rooted \in C
         /\ u.path \in D /\ u.q \in E /\ u.h \in F /\ u.s \in G
<1>1. u = [x \in Parts |-> u[x]]
  BY SMT DEF Parts, Records
<1>2. /\ u.scheme \in A /\ u.host \in B /\ u.rooted \in C
      /\ u.path \in D /\ u.q \in E /\ u.h \in F /\ u.s \in G
  BY DEF Records
<1> QED BY <1>1, <1>2 DEF IsUrl

LEMMA AllParts ==
  ASSUME NEW u, IsUrl(u), NEW a, NEW b, NEW q, NEW c, NEW d,
         NEW v, v = WithAll(u, a, b, q, c, d)
  PROVE  /\ IsUrl(v)
         /\ v.scheme = a /\ v.host = b /\ v.rooted = u.rooted /\ v.path = u.path
         /\ v.q = q /\ v.h = c /\ v.s = d
<1> DEFINE w == [x \in Parts |-> IF x = "scheme" THEN a ELSE IF x = "host" THEN b
                                 ELSE IF x = "q" THEN q
                                 ELSE IF x = "h" THEN c ELSE IF x = "s" THEN d ELSE u[x]]
<1>1. v = w
  BY DEF IsUrl, Parts, WithAll
<1>2. IsUrl(w)
  BY DEF IsUrl
<1>3. /\ w.scheme = a /\ w.host = b /\ w.rooted = u.rooted /\ w.path = u.path
      /\ w.q = q /\ w.h = c /\ w.s = d
  BY DEF Parts
<1> QED BY <1>1, <1>2, <1>3, Zenon

LEMMA SentParts ==
  ASSUME NEW u, IsUrl(u), NEW a, NEW b, NEW q, NEW v, v = WithSent(u, a, b, q)
  PROVE  /\ IsUrl(v)
         /\ v.scheme = a /\ v.host = b /\ v.rooted = u.rooted
         /\ v.path = u.path /\ v.q = q /\ v.h = u.h /\ v.s = u.s
<1> DEFINE w == [x \in Parts |-> IF x = "scheme" THEN a ELSE IF x = "host" THEN b
                                 ELSE IF x = "q" THEN q ELSE u[x]]
<1>1. v = w
  BY DEF IsUrl, Parts, WithSent
<1>2. IsUrl(w)
  BY DEF IsUrl
<1>3. /\ w.scheme = a /\ w.host = b /\ w.rooted = u.rooted
      /\ w.path = u.path /\ w.q = q /\ w.h = u.h /\ w.s = u.s
  BY DEF Parts
<1> QED BY <1>1, <1>2, <1>3, Zenon

LEMMA TwoParts ==
  ASSUME NEW u, IsUrl(u), NEW a, NEW b, NEW v, v = WithParams(u, a, b)
  PROVE  /\ IsUrl(v)
         /\ v.scheme = u.scheme /\ v.host = u.host /\ v.rooted = u.rooted
         /\ v.path = u.path /\ v.q = u.q /\ v.h = a /\ v.s = b
<1> DEFINE w == [x \in Parts |-> IF x = "h" THEN a ELSE IF x = "s" THEN b ELSE u[x]]
<1>1. v = w
  BY DEF IsUrl, Parts, WithParams, WithOrigin
<1>2. IsUrl(w)
  BY DEF IsUrl
<1>3. /\ w.scheme = u.scheme /\ w.host = u.host /\ w.rooted = u.rooted
      /\ w.path = u.path /\ w.q = u.q /\ w.h = a /\ w.s = b
  BY DEF Parts
<1> QED BY <1>1, <1>2, <1>3, Zenon

LEMMA OriginParts ==
  ASSUME NEW u, IsUrl(u), NEW a, NEW b, NEW v, v = WithOrigin(u, a, b)
  PROVE  /\ IsUrl(v)
         /\ v.scheme = a /\ v.host = b /\ v.rooted = u.rooted
         /\ v.path = u.path /\ v.q = u.q /\ v.h = u.h /\ v.s = u.s
<1> DEFINE w == [x \in Parts |-> IF x = "scheme" THEN a ELSE IF x = "host" THEN b ELSE u[x]]
<1>1. v = w
  BY DEF IsUrl, Parts, WithParams, WithOrigin
<1>2. IsUrl(w)
  BY DEF IsUrl
<1>3. /\ w.scheme = a /\ w.host = b /\ w.rooted = u.rooted
      /\ w.path = u.path /\ w.q = u.q /\ w.h = u.h /\ w.s = u.s
  BY DEF Parts
<1> QED BY <1>1, <1>2, <1>3, Zenon

\* Setting one part of a URL.
LEMMA OnePart ==
  ASSUME NEW sc, NEW ho, NEW pa, NEW q, NEW h, NEW s, NEW a,
         NEW u, u = Url(sc, ho, pa, q, h, s)
  PROVE  /\ WithScheme(u, a) = Url(a, ho, pa, q, h, s)
         /\ WithHost(u, a) = Url(sc, a, pa, q, h, s)
         /\ WithPath(u, a) = Url(sc, ho, a, q, h, s)
         /\ WithQuery(u, a) = Url(sc, ho, pa, a, h, s)
<1>1. IsUrl(u)
  BY UrlParts
<1>2. /\ u.scheme = sc /\ u.host = ho /\ u.rooted = Yes /\ u.path = pa
      /\ u.q = q /\ u.h = h /\ u.s = s
  BY UrlParts
<1>3. WithScheme(u, a) = Url(a, ho, pa, q, h, s)
  <2> DEFINE v == [x \in Parts |-> IF x = "scheme" THEN a ELSE u[x]]
  <2>1. WithScheme(u, a) = v
    BY <1>1 DEF IsUrl, Parts, WithScheme
  <2>2. /\ v.scheme = a /\ v.host = ho /\ v.rooted = Yes /\ v.path = pa
        /\ v.q = q /\ v.h = h /\ v.s = s
    BY <1>2 DEF Parts
  <2>3. IsUrl(v)
    BY DEF IsUrl
  <2> QED BY <2>1, <2>2, <2>3, UrlIs
<1>4. WithHost(u, a) = Url(sc, a, pa, q, h, s)
  <2> DEFINE v == [x \in Parts |-> IF x = "host" THEN a ELSE u[x]]
  <2>1. WithHost(u, a) = v
    BY <1>1 DEF IsUrl, Parts, WithHost
  <2>2. /\ v.scheme = sc /\ v.host = a /\ v.rooted = Yes /\ v.path = pa
        /\ v.q = q /\ v.h = h /\ v.s = s
    BY <1>2 DEF Parts
  <2>3. IsUrl(v)
    BY DEF IsUrl
  <2> QED BY <2>1, <2>2, <2>3, UrlIs
<1>5. WithPath(u, a) = Url(sc, ho, a, q, h, s)
  <2> DEFINE v == [x \in Parts |-> IF x = "path" THEN a ELSE u[x]]
  <2>1. WithPath(u, a) = v
    BY <1>1 DEF IsUrl, Parts, WithPath
  <2>2. /\ v.scheme = sc /\ v.host = ho /\ v.rooted = Yes /\ v.path = a
        /\ v.q = q /\ v.h = h /\ v.s = s
    BY <1>2 DEF Parts
  <2>3. IsUrl(v)
    BY DEF IsUrl
  <2> QED BY <2>1, <2>2, <2>3, UrlIs
<1>6. WithQuery(u, a) = Url(sc, ho, pa, a, h, s)
  <2> DEFINE v == [x \in Parts |-> IF x = "q" THEN a ELSE u[x]]
  <2>1. WithQuery(u, a) = v
    BY <1>1 DEF IsUrl, Parts, WithQuery
  <2>2. /\ v.scheme = sc /\ v.host = ho /\ v.rooted = Yes /\ v.path = pa
        /\ v.q = a /\ v.h = h /\ v.s = s
    BY <1>2 DEF Parts
  <2>3. IsUrl(v)
    BY DEF IsUrl
  <2> QED BY <2>1, <2>2, <2>3, UrlIs
<1> QED BY <1>3, <1>4, <1>5, <1>6

LEMMA PlainIs ==
  ASSUME NEW sc, NEW ho, NEW pa, NEW q
  PROVE  PlainUrl(sc, ho, pa, q) = Url(sc, ho, pa, q, NoHost, Blank)
BY Zenon DEF PlainUrl, Blank

-----------------------------------------------------------------------------
(* A page, a reference on it and the page's address behind the proxy.      *)

\* The parameter _cifera_s for a scheme, and the scheme it stands for.
Written(schema) == IF schema \in {Blank, "http"} THEN Blank ELSE schema
Read(s) == IF s = Blank THEN "http" ELSE s

LEMMA ReadWritten == \A schema \in Schemes : Read(Written(schema)) = schema
BY DEF Read, Written, Schemes, Blank

LEMMA EncodedOnce == \A q : Encode(Encode(q)) = Encode(q)
BY DEF Encode

LEMMA AddressedParts ==
  ASSUME NEW u, IsUrl(u), u.s = Blank, NEW host, NEW schema
  PROVE  LET v == Addressed(u, host, schema)
         IN /\ IsUrl(v) /\ v.scheme = u.scheme /\ v.host = u.host /\ v.rooted = u.rooted
            /\ v.path = u.path /\ v.q = Encode(u.q) /\ v.h = host /\ v.s = Written(schema)
<1> PICK q : q = Encode(u.q)
  OBVIOUS
<1> DEFINE v == [x \in Parts |-> IF x = "h" THEN host ELSE IF x = "q" THEN q
                                 ELSE IF x = "s" THEN Written(schema) ELSE u[x]]
<1>1. WithMeta(u, q, host, Written(schema)) = v
  BY DEF IsUrl, Parts, WithMeta
<1>2. Addressed(u, host, schema) = WithMeta(u, q, host, Written(schema))
  <2>1. Written(schema) = IF schema \in {"", "http"} THEN u.s ELSE schema
    BY DEF Written, Blank
  <2> QED BY <2>1, Zenon DEF Addressed, WithMeta
<1>3. IsUrl(v)
  BY DEF IsUrl
<1>4. /\ v.scheme = u.scheme /\ v.host = u.host /\ v.rooted = u.rooted
      /\ v.path = u.path /\ v.q = q /\ v.h = host /\ v.s = Written(schema)
  BY DEF Parts
<1>5. Addressed(u, host, schema) = v
  BY <1>1, <1>2
<1> QED BY <1>3, <1>4, <1>5, Zenon

LEMMA AddressedUrl ==
  ASSUME NEW sc, NEW ho, NEW pa, NEW q, NEW h, NEW host, NEW schema
  PROVE  Addressed(Url(sc, ho, pa, q, h, Blank), host, schema)
           = Url(sc, ho, pa, Encode(q), host, Written(schema))
<1> DEFINE u == Url(sc, ho, pa, q, h, Blank)
<1>0. u = Url(sc, ho, pa, q, h, Blank)
  OBVIOUS
<1> HIDE DEF u
<1>1. IsUrl(u) /\ u.scheme = sc /\ u.host = ho /\ u.rooted = Yes /\ u.path = pa
      /\ u.q = q /\ u.s = Blank
  BY <1>0, UrlParts
<1> DEFINE v == Addressed(u, host, schema)
<1>2. /\ IsUrl(v) /\ v.scheme = sc /\ v.host = ho /\ v.rooted = Yes
      /\ v.path = pa /\ v.q = Encode(q) /\ v.h = host /\ v.s = Written(schema)
  BY <1>1, AddressedParts
<1> HIDE DEF v
<1>3. v = Url(sc, ho, pa, Encode(q), host, Written(schema))
  BY <1>2, UrlIs
<1> QED BY <1>3 DEF u, v

LEMMA PageParts ==
  ASSUME NEW u \in Pages
  PROVE  /\ u = Url(u.scheme, u.host, u.path, u.q, NoHost, Blank)
         /\ u.scheme \in Schemes /\ u.host \in SiteHosts /\ u.host # NoHost
<1>1. PICK s \in Schemes, h \in SiteHosts, pa \in PagePaths, q \in Queries :
        u = Url(s, h, pa, q, NoHost, Blank)
  BY PlainIs DEF Pages
<1>2. h # NoHost
  <2>1. h.name # <<>>
    BY SiteNamesAssumption DEF SiteHosts
  <2>2. NoHost.name = <<>>
    BY DEF NoHost
  <2> QED BY <2>1, <2>2
<1>3. u.scheme = s /\ u.host = h /\ u.path = pa /\ u.q = q
  BY <1>1, UrlParts
<1> QED BY <1>1, <1>2, <1>3

LEMMA RefParts ==
  ASSUME NEW p \in UrlProbes
  PROVE  /\ p.entry \in Schemes /\ p.page \in Pages
         /\ IsUrl(p.ref) /\ p.ref.h = NoHost /\ p.ref.s = Blank /\ p.ref.rooted \in BOOLEAN
         /\ p.ref.scheme \in {Blank, "app"} \cup Schemes
         /\ p.ref.host = NoHost => p.ref.scheme = Blank
         /\ p.ref.host # NoHost => p.ref.rooted = Yes /\ p.ref.host \in SiteHosts
<1>1. p.entry \in Schemes /\ p.page \in Pages /\ p.ref \in References
      /\ (p.ref.host # NoHost => p.ref.rooted)
  BY DEF UrlProbes
<1> PICK u : u = p.ref
  OBVIOUS
<1>2. \A h \in SiteHosts : h # NoHost
  <2>1. \A h \in SiteHosts : h.name # <<>>
    BY SiteNamesAssumption DEF SiteHosts
  <2>2. NoHost.name = <<>>
    BY DEF NoHost
  <2> QED BY <2>1, <2>2
<1> DEFINE Ps == {<<a>> : a \in Segments}
<1>3. CASE u \in Records(Schemes \cup {"app"}, SiteHosts, {Yes}, Ps, Queries, {NoHost}, {Blank})
  <2> HIDE DEF Ps
  <2>1. /\ IsUrl(u) /\ u.scheme \in Schemes \cup {"app"} /\ u.host \in SiteHosts
        /\ u.rooted \in {Yes} /\ u.h \in {NoHost} /\ u.s \in {Blank}
    BY <1>3, PartsInSets
  <2>2. u.rooted \in BOOLEAN
    BY <2>1 DEF Yes
  <2> QED BY <1>1, <1>2, <2>1, <2>2
<1>4. CASE u \in Records({Blank}, SiteHosts \cup {NoHost}, BOOLEAN, Ps, Queries, {NoHost}, {Blank})
  <2> HIDE DEF Ps
  <2>1. /\ IsUrl(u) /\ u.scheme \in {Blank} /\ u.host \in SiteHosts \cup {NoHost}
        /\ u.rooted \in BOOLEAN /\ u.h \in {NoHost} /\ u.s \in {Blank}
    BY <1>4, PartsInSets
  <2>2. u.host # NoHost => u.rooted = Yes
    BY <1>1, <2>1 DEF Yes
  <2> QED BY <1>1, <1>2, <2>1, <2>2
<1>5. u \in References
  BY <1>1
<1>6. \/ u \in Records(Schemes \cup {"app"}, SiteHosts, {Yes}, Ps, Queries, {NoHost}, {Blank})
      \/ u \in Records({Blank}, SiteHosts \cup {NoHost}, BOOLEAN, Ps, Queries, {NoHost}, {Blank})
  BY ONLY <1>5, Zenon DEF References, Records, Blank, Yes
<1> QED BY <1>3, <1>4, <1>6

LEMMA AddressIs ==
  ASSUME NEW p \in UrlProbes
  PROVE  Address(p) = Url(p.entry, ProxyHost, p.page.path, Encode(p.page.q), p.page.host,
                          Written(p.page.scheme))
BY PlainIs, AddressedUrl DEF Address

-----------------------------------------------------------------------------
(* What the proxy makes of a request.                                      *)

Asked(p, pa, q, h, s) == [url |-> Url(p.entry, ProxyHost, pa, q, h, s), referer |-> Address(p)]

LEMMA RefererIsPage ==
  ASSUME NEW p \in UrlProbes, NEW pa, NEW q, NEW h, NEW s
  PROVE  ParseProxyParams(Asked(p, pa, q, h, s)).referer = [p.page EXCEPT !.q = Encode(@)]
<1> DEFINE r == Asked(p, pa, q, h, s)
           a == Address(p)
           g == p.page
           Q == Encode(g.q)
           back == WithAll(a, g.scheme, g.host, Q, NoHost, Blank)
<1>1. a = Url(p.entry, ProxyHost, g.path, Q, g.host, Written(g.scheme))
  BY AddressIs
<1>2. g = Url(g.scheme, g.host, g.path, g.q, NoHost, Blank) /\ g.scheme \in Schemes /\ g.host # NoHost
  BY RefParts, PageParts
<1>3. Read(Written(g.scheme)) = g.scheme
  BY <1>2, ReadWritten
<1>5. r.referer = a
  BY DEF Asked
<1>0. back = WithAll(a, g.scheme, g.host, Q, NoHost, Blank) /\ Encode(Q) = Q
  BY EncodedOnce
<1>12. WithQuery(g, Q) = Url(g.scheme, g.host, g.path, Q, NoHost, Blank)
  BY <1>2, OnePart
<1>13. WithQuery(g, Q) = [p.page EXCEPT !.q = Encode(@)]
  BY DEF WithQuery
<1> HIDE DEF r, a, Q, back
<1>4. IsUrl(a) /\ a.rooted = Yes /\ a.path = g.path /\ a.q = Q
      /\ a.h = g.host /\ a.s = Written(g.scheme)
  BY <1>1, UrlParts
<1>6. ParseProxyUrl(a) = [schema |-> g.scheme, host |-> g.host]
  BY <1>3, <1>4 DEF ParseProxyUrl, Read, Blank
<1>7. /\ IsUrl(back) /\ back.scheme = g.scheme /\ back.host = g.host /\ back.rooted = Yes
      /\ back.path = g.path /\ back.q = Q /\ back.h = NoHost /\ back.s = Blank
  BY <1>0, <1>4, AllParts
<1>8. back = Url(g.scheme, g.host, g.path, Q, NoHost, Blank)
  BY <1>7, UrlIs
<1> DEFINE rp == ParseProxyUrl(r.referer)
<1>9. ParseProxyParams(r).referer =
        IF rp.host = NoHost THEN Missing
        ELSE WithAll(r.referer, rp.schema, rp.host, Encode(r.referer.q), NoHost, Blank)
  BY Zenon DEF ParseProxyParams, WithAll, Blank
<1>10. rp.host = g.host /\ rp.schema = g.scheme
  BY <1>5, <1>6
<1> HIDE DEF rp
<1>11. ParseProxyParams(r).referer = back
  BY <1>0, <1>2, <1>4, <1>5, <1>9, <1>10
<1> QED BY <1>8, <1>11, <1>12, <1>13 DEF r

LEMMA OutgoingIs ==
  ASSUME NEW p \in UrlProbes, NEW pa, NEW q, NEW h, NEW s,
         NEW r, r = Asked(p, pa, q, h, s),
         NEW H, H = StripProxyPort(IF h = NoHost THEN p.page.host ELSE h, ProxyHost)
  PROVE  /\ ParseProxyParams(r).schema = Read(s) /\ ParseProxyParams(r).host = H
         /\ Outgoing(r) = Url(Read(s), H, pa, Encode(q), NoHost, Blank)
<1> DEFINE u == Url(p.entry, ProxyHost, pa, q, h, s)
           a == Address(p)
           g == p.page
           t == StripMetaParams(u)
           v == WithSent(t, Read(s), H, Encode(q))
<1>1. g.host # NoHost
  BY RefParts, PageParts
<1>2. a.h = g.host
  BY AddressIs, UrlParts
<1>3. r.referer = a /\ r.url = u /\ u = Url(p.entry, ProxyHost, pa, q, h, s)
  BY DEF Asked
<1> HIDE DEF u, a
<1>4. IsUrl(u) /\ u.rooted = Yes /\ u.path = pa /\ u.q = q /\ u.s = s /\ u.h = h /\ u.host = ProxyHost
  BY <1>3, UrlParts
<1>0. t = WithParams(u, NoHost, Blank)
  BY DEF StripMetaParams, Blank, WithParams
<1> HIDE DEF t
<1>5. IsUrl(t) /\ t.rooted = Yes /\ t.path = pa /\ t.q = q /\ t.h = NoHost /\ t.s = Blank
  BY <1>0, <1>4, TwoParts
<1>11. v = WithSent(t, Read(s), H, Encode(q))
  OBVIOUS
<1> HIDE DEF v
<1>6. /\ IsUrl(v) /\ v.scheme = Read(s) /\ v.host = H /\ v.rooted = Yes
      /\ v.path = pa /\ v.q = Encode(q) /\ v.h = NoHost /\ v.s = Blank
  BY <1>5, <1>11, SentParts
<1>7. v = Url(Read(s), H, pa, Encode(q), NoHost, Blank)
  BY <1>6, UrlIs
<1>8. ParseProxyParams(r).schema = Read(s)
  BY <1>3, <1>4 DEF ParseProxyParams, ParseProxyUrl, Read, Blank
<1>9. ParseProxyParams(r).host = H
  BY <1>1, <1>2, <1>3, <1>4 DEF ParseProxyParams, ParseProxyUrl
<1>10. Outgoing(r) = v
  <2>1. t.q = q /\ r.url = u
    BY <1>3, <1>5
  <2>2. Outgoing(r) = WithSent(StripMetaParams(u), Read(s), H, Encode(StripMetaParams(u).q))
    BY <1>3, <1>8, <1>9, Zenon DEF Outgoing, WithSent
  <2> QED BY <2>1, <2>2 DEF t, v
<1> QED BY <1>7, <1>8, <1>9, <1>10

\* Only the key of the lookup contains the proxy's parameters.
LEMMA KeysAre ==
  ASSUME NEW p \in UrlProbes, NEW pa, NEW q, NEW h, NEW s
  PROVE  LET r == Asked(p, pa, q, h, s)
             out == Outgoing(r)
         IN /\ LookupKey(r) = [schema |-> out.scheme, host |-> out.host,
                               uri |-> [path |-> pa, q |-> q, h |-> h, s |-> s]]
            /\ StoreKey(r) = [schema |-> out.scheme, host |-> out.host,
                              uri |-> [path |-> pa, q |-> Encode(q), h |-> NoHost, s |-> Blank]]
<1> DEFINE r == Asked(p, pa, q, h, s)
           out == Outgoing(r)
           u == r.url
           params == ParseProxyParams(r)
           H == StripProxyPort(IF h = NoHost THEN p.page.host ELSE h, ProxyHost)
<1>1. u = Url(p.entry, ProxyHost, pa, q, h, s)
  BY DEF Asked
<1>0. r = Asked(p, pa, q, h, s)
      /\ H = StripProxyPort(IF h = NoHost THEN p.page.host ELSE h, ProxyHost)
  OBVIOUS
<1> HIDE DEF H, r
<1>2. out = Url(Read(s), H, pa, Encode(q), NoHost, Blank) /\ params.schema = Read(s) /\ params.host = H
  BY <1>0, OutgoingIs
<1> HIDE DEF out, u, params
<1>3. u.path = pa /\ u.q = q /\ u.h = h /\ u.s = s
  BY <1>1, UrlParts
<1>4. out.path = pa /\ out.q = Encode(q) /\ out.h = NoHost /\ out.s = Blank
      /\ out.scheme = Read(s) /\ out.host = H
  BY <1>2, UrlParts
<1>5. RequestURI(u) = [path |-> pa, q |-> q, h |-> h, s |-> s]
  BY <1>3 DEF RequestURI
<1>6. RequestURI(out) = [path |-> pa, q |-> Encode(q), h |-> NoHost, s |-> Blank]
  BY <1>4 DEF RequestURI
<1>7. LookupKey(r) = [schema |-> out.scheme, host |-> out.host, uri |-> RequestURI(u)]
  BY <1>2, <1>4 DEF LookupKey, BuildCacheKey, u, params
<1>8. StoreKey(r) = [schema |-> out.scheme, host |-> out.host, uri |-> RequestURI(out)]
  BY DEF StoreKey, BuildCacheKey, out
<1> QED BY <1>5, <1>6, <1>7, <1>8 DEF out, r

-----------------------------------------------------------------------------
(* The requests by which a browser follows a reference.                    *)

LEMMA SchemesWritten ==
  /\ "app" # Blank /\ Blank \notin Schemes /\ "app" \notin Schemes
  /\ Written(Blank) = Blank /\ Read(Blank) = "http"
BY DEF Schemes, Blank, Written, Read

\* A whole URL of the proxy is followed as it is.
LEMMA ResolveWhole ==
  ASSUME NEW p \in UrlProbes, NEW pa, NEW q, NEW h, NEW s,
         NEW u, u = Url(p.entry, ProxyHost, pa, q, h, s)
  PROVE  Resolve(Address(p), u) = u
<1> DEFINE a == Address(p)
<1>1. a = Url(p.entry, ProxyHost, p.page.path, Encode(p.page.q), p.page.host,
              Written(p.page.scheme))
  BY AddressIs
<1> HIDE DEF a
<1>2. a.scheme = p.entry /\ a.host = ProxyHost
  BY <1>1, UrlParts
<1>3. u.scheme = p.entry /\ u.host = ProxyHost /\ u.rooted = Yes /\ u.path = pa
      /\ u.q = q /\ u.h = h /\ u.s = s
  BY UrlParts
<1>4. u.rooted
  BY <1>3 DEF Yes
<1>5. p.entry # ""
  BY RefParts DEF Schemes
<1>6. Resolve(a, u) = Url(p.entry, ProxyHost, pa, q, h, s)
  BY <1>2, <1>3, <1>4, <1>5, Zenon DEF Resolve
<1> QED BY <1>6 DEF a

\* The path a relative reference leads to.
Target(p) == IF p.ref.rooted THEN p.ref.path ELSE Front(p.page.path) \o p.ref.path

\* The scheme an absolute reference names or inherits.
Named(p) == IF p.ref.scheme = Blank THEN p.page.scheme ELSE p.ref.scheme

LEMMA MeantIs ==
  ASSUME NEW p \in UrlProbes, p.ref.scheme # "app"
  PROVE  /\ p.ref.host # NoHost =>
              Meant(p) = Url(Named(p), p.ref.host, p.ref.path, p.ref.q, NoHost, Blank)
         /\ p.ref.host = NoHost =>
              Meant(p) = Url(p.page.scheme, p.page.host, Target(p), p.ref.q, NoHost, Blank)
         /\ Named(p) \in Schemes
<1> PICK r, g : r = p.ref /\ g = p.page
  OBVIOUS
<1>1. /\ r.h = NoHost /\ r.s = Blank /\ r.scheme \in {Blank, "app"} \cup Schemes
      /\ r.host = NoHost => r.scheme = Blank
      /\ r.host # NoHost => r.rooted = Yes
  BY RefParts
<1>2. g.scheme \in Schemes
  BY RefParts, PageParts
<1>3. Meant(p) = Url(Named(p), IF r.host = NoHost THEN g.host ELSE r.host, Target(p), r.q, r.h, r.s)
  BY Zenon DEF Meant, Resolve, Named, Target, Blank
<1>4. r.host # NoHost => Target(p) = r.path
  BY <1>1 DEF Target, Yes
<1>5. r.host = NoHost => Named(p) = g.scheme
  BY <1>1 DEF Named
<1>6. Named(p) \in Schemes
  BY <1>1, <1>2 DEF Named
<1> QED BY <1>1, <1>3, <1>4, <1>5, <1>6

LEMMA ReachedIs ==
  ASSUME NEW sc, NEW ho \in SiteHosts, NEW pa, NEW q
  PROVE  Reached(Url(sc, ho, pa, q, NoHost, Blank))
           = Url(sc, StripProxyPort(ho, ProxyHost), pa, Encode(q), NoHost, Blank)
<1> DEFINE u == Url(sc, ho, pa, q, NoHost, Blank)
           bare == [ho EXCEPT !.port = ""]
           H == IF ho.port = ProxyHost.port /\ ~IsSuffix(ProxyHost.name, ho.name)
                  THEN bare ELSE ho
           v == WithSent(u, sc, H, Encode(q))
<1>1. IsUrl(u) /\ u.scheme = sc /\ u.host = ho /\ u.rooted = Yes /\ u.path = pa
      /\ u.q = q /\ u.h = NoHost /\ u.s = Blank
  BY UrlParts
<1>2. ho # NoHost
  <2>1. ho.name # <<>>
    BY SiteNamesAssumption DEF SiteHosts
  <2>2. NoHost.name = <<>>
    BY DEF NoHost
  <2> QED BY <2>1, <2>2
<1>3. ho.port = "" => bare = ho
  BY DEF SiteHosts
<1>4. StripProxyPort(ho, ProxyHost) = H
  BY <1>2, <1>3, Zenon DEF StripProxyPort, H, bare
<1>5. Reached(u) = [u EXCEPT !.q = Encode(q), !.host = H]
  BY <1>1, Zenon DEF Reached
<1> HIDE DEF u, H
<1>6. [u EXCEPT !.q = Encode(q), !.host = H] = v
  <2> DEFINE w == [x \in Parts |-> IF x = "q" THEN Encode(q) ELSE IF x = "host" THEN H ELSE u[x]]
  <2> PICK Q : Q = Encode(q)
    OBVIOUS
  <2>1. [u EXCEPT !.q = Q, !.host = H]
          = [x \in Parts |-> IF x = "q" THEN Q ELSE IF x = "host" THEN H ELSE u[x]]
    BY <1>1 DEF IsUrl, Parts
  <2>2. WithSent(u, sc, H, Q)
          = [x \in Parts |-> IF x = "q" THEN Q ELSE IF x = "host" THEN H ELSE u[x]]
    BY <1>1 DEF IsUrl, Parts, WithSent
  <2> QED BY <2>1, <2>2
<1>7. v = WithSent(u, sc, H, Encode(q))
  OBVIOUS
<1> HIDE DEF v
<1>8. /\ IsUrl(v) /\ v.scheme = sc /\ v.host = H /\ v.rooted = Yes /\ v.path = pa
      /\ v.q = Encode(q) /\ v.h = NoHost /\ v.s = Blank
  BY <1>1, <1>7, SentParts
<1>9. v = Url(sc, H, pa, Encode(q), NoHost, Blank)
  BY <1>8, UrlIs
<1> QED BY <1>4, <1>5, <1>6, <1>9 DEF u

\* A reference that is skipped, and the Location of a 303, are followed as they are.
LEMMA Skipped ==
  ASSUME NEW p \in UrlProbes, ShouldSkipUrl(p.ref)
  PROVE  /\ Rewritten(p, p.ref) = p.ref
         /\ Clicked(p) = Unrewritten(p)
<1>1. Rewritten(p, p.ref) = p.ref
  BY Zenon DEF Rewritten, BuildProxyUrl
<1> QED BY <1>1, Zenon DEF Clicked, Unrewritten

LEMMA NotRedirected ==
  ASSUME NEW p \in UrlProbes, NEW status \in Statuses
  PROVE  /\ IsRedirect(status) <=> status # 303
         /\ ~IsRedirect(status) => Redirected(p, status) = Unrewritten(p)
BY DEF Statuses, IsRedirect, Redirected, Unrewritten

\* One that names a host leaves the proxy, and carries nothing of it.
LEMMA LeavesProxy ==
  ASSUME NEW p \in UrlProbes, p.ref.host # NoHost
  PROVE  Unrewritten(p).url.host = p.ref.host /\ ~HasMeta(Unrewritten(p).url)
<1> PICK r, u, a : r = p.ref /\ u = Unrewritten(p).url /\ a = Address(p)
  OBVIOUS
<1>1. r.h = NoHost /\ r.s = Blank
  BY RefParts
<1>2. u = Resolve(a, r)
  BY DEF Unrewritten, Follow
<1>3. PICK sc, pa : u = Url(sc, r.host, pa, r.q, r.h, r.s)
  BY <1>2, Zenon DEF Resolve
<1>4. u.host = r.host /\ u.h = NoHost /\ u.s = Blank
  BY <1>1, <1>3, UrlParts
<1> QED BY <1>4 DEF HasMeta, Blank

\* A link or redirect that names its own site.
LEMMA AbsoluteIs ==
  ASSUME NEW p \in UrlProbes, p.ref.scheme # "app", p.ref.host # NoHost
  PROVE  /\ ~ShouldSkipUrl(p.ref) =>
              /\ Rewritten(p, Rewritten(p, p.ref)) = Rewritten(p, p.ref)
              /\ Clicked(p) = Asked(p, p.ref.path, Encode(LastValue(p.ref.q)), p.ref.host,
                                    Written(Named(p)))
         /\ \A status : IsRedirect(status) =>
              Redirected(p, status) = Asked(p, p.ref.path, Encode(p.ref.q), p.ref.host,
                                            Written(p.ref.scheme))
<1> PICK r, g : r = p.ref /\ g = p.page
  OBVIOUS
<1> DEFINE a == Address(p)
           b == ProxyBase(p)
           u == Url(p.entry, ProxyHost, r.path, Encode(LastValue(r.q)), r.host, Written(Named(p)))
           v == Url(p.entry, ProxyHost, r.path, Encode(r.q), r.host, Written(r.scheme))
           w == WithOrigin(r, p.entry, ProxyHost)
           x == Addressed(w, r.host, r.scheme)
<1>1. /\ IsUrl(r) /\ r.h = NoHost /\ r.s = Blank /\ r.scheme \in {Blank} \cup Schemes
      /\ r.rooted = Yes /\ r.host # NoHost
  BY RefParts
<1>2. ASSUME ~ShouldSkipUrl(r) PROVE Rewritten(p, r) = u
  <2>1. b = Url(p.entry, ProxyHost, <<>>, NoQuery, NoHost, Blank)
    BY PlainIs DEF ProxyBase
  <2> HIDE DEF b
  <2>2. b.scheme = p.entry /\ b.host = ProxyHost
    BY <2>1, UrlParts
  <2>3. ~HasMeta(r)
    BY <1>1 DEF HasMeta, Blank
  <2>4. Rewritten(p, r) = BuildProxyUrl(b, r, g.path, g.host, g.scheme)
    BY DEF Rewritten, b
  <2>5. Rewritten(p, r) = Addressed(PlainUrl(b.scheme, b.host, r.path, LastValue(r.q)),
                                    r.host, Named(p))
    BY <1>1, <1>2, <2>3, <2>4, Zenon DEF BuildProxyUrl, Named, Blank
  <2> QED BY <2>2, <2>5, PlainIs, AddressedUrl
<1>3. Rewritten(p, u) = u
  <2>1. u.h = r.host
    BY UrlParts
  <2> HIDE DEF u
  <2>2. HasMeta(u)
    BY <1>1, <2>1 DEF HasMeta
  <2> QED BY <2>2 DEF Rewritten, BuildProxyUrl
<1>4. ~ShouldSkipUrl(r) => Clicked(p) = [url |-> u, referer |-> a]
  <2>1. Resolve(a, u) = u
    BY ResolveWhole
  <2> HIDE DEF u, a
  <2> QED BY <1>2, <2>1 DEF Clicked, Follow, a
<1>5. x = v
  <2>1. /\ IsUrl(w) /\ w.scheme = p.entry /\ w.host = ProxyHost /\ w.rooted = Yes
        /\ w.path = r.path /\ w.q = r.q /\ w.h = NoHost /\ w.s = Blank
    BY <1>1, OriginParts
  <2> HIDE DEF w
  <2>2. /\ IsUrl(x) /\ x.scheme = p.entry /\ x.host = ProxyHost /\ x.rooted = Yes
        /\ x.path = r.path /\ x.q = Encode(r.q) /\ x.h = r.host /\ x.s = Written(r.scheme)
    BY <2>1, AddressedParts
  <2> HIDE DEF x
  <2> QED BY <2>2, UrlIs
<1>6. RewriteRedirectLocation(r, g.host, g.scheme, p.entry, ProxyHost) = x
  BY <1>1, Zenon DEF RewriteRedirectLocation, WithOrigin
<1>7. \A status : IsRedirect(status) => Redirected(p, status) = [url |-> v, referer |-> a]
  <2>1. Resolve(a, v) = v
    BY ResolveWhole
  <2> HIDE DEF v, x, a
  <2> QED BY <1>5, <1>6, <2>1 DEF Redirected, Follow, a
<1> QED BY <1>2, <1>3, <1>4, <1>7 DEF Asked

\* One that names none.
LEMMA RelativeIs ==
  ASSUME NEW p \in UrlProbes, p.ref.host = NoHost
  PROVE  LET own == Asked(p, Target(p), Encode(p.ref.q), p.page.host, Written(p.page.scheme))
         IN /\ ~ShouldSkipUrl(p.ref) =>
                 Rewritten(p, Rewritten(p, p.ref)) = Rewritten(p, p.ref) /\ Clicked(p) = own
            /\ \A status : IsRedirect(status) => Redirected(p, status) = own
            /\ Unrewritten(p) = Asked(p, Target(p), p.ref.q, NoHost, Blank)
<1> PICK r, g : r = p.ref /\ g = p.page
  OBVIOUS
<1> DEFINE a == Address(p)
           b == ProxyBase(p)
           c == [b EXCEPT !.path = g.path]
           u == Url(p.entry, ProxyHost, Target(p), Encode(r.q), g.host, Written(g.scheme))
           x == Addressed(r, g.host, g.scheme)
<1>1. /\ IsUrl(r) /\ r.h = NoHost /\ r.s = Blank /\ r.scheme = Blank /\ r.host = NoHost
  BY RefParts
<1>2. g.host # NoHost
  BY RefParts, PageParts
<1>3. a = Url(p.entry, ProxyHost, g.path, Encode(g.q), g.host, Written(g.scheme))
  BY AddressIs
<1>4. Target(p) = IF r.rooted THEN r.path ELSE Front(g.path) \o r.path
  BY DEF Target
<1> HIDE DEF a
<1>5. a.scheme = p.entry /\ a.host = ProxyHost /\ a.path = g.path
  BY <1>3, UrlParts
<1>6. ASSUME NEW base, base.scheme = p.entry, base.host = ProxyHost, base.path = g.path,
             NEW l, l.scheme = Blank, l.host = NoHost, l.rooted = r.rooted, l.path = r.path,
             NEW q, l.q = q
      PROVE  Resolve(base, l) = Url(p.entry, ProxyHost, Target(p), q, l.h, l.s)
  BY <1>4, <1>6, Zenon DEF Resolve, Blank
<1>7. ASSUME ~ShouldSkipUrl(r) PROVE Rewritten(p, r) = u
  <2>1. b = Url(p.entry, ProxyHost, <<>>, NoQuery, NoHost, Blank)
    BY PlainIs DEF ProxyBase
  <2>8. c = WithPath(b, g.path)
    BY DEF WithPath
  <2> HIDE DEF b, c
  <2>2. c = Url(p.entry, ProxyHost, g.path, NoQuery, NoHost, Blank)
    BY <2>1, <2>8, OnePart
  <2>3. c.scheme = p.entry /\ c.host = ProxyHost /\ c.path = g.path
    BY <2>2, UrlParts
  <2>4. ~HasMeta(r)
    BY <1>1 DEF HasMeta, Blank
  <2>5. Rewritten(p, r) = BuildProxyUrl(b, r, g.path, g.host, g.scheme)
    BY DEF Rewritten, b
  <2>6. Rewritten(p, r) = Addressed(Resolve(c, r), g.host, g.scheme)
    BY <1>1, <1>7, <2>4, <2>5, Zenon DEF BuildProxyUrl, c
  <2>7. Resolve(c, r) = Url(p.entry, ProxyHost, Target(p), r.q, NoHost, Blank)
    BY <1>1, <1>6, <2>3
  <2> QED BY <2>6, <2>7, AddressedUrl
<1>8. Rewritten(p, u) = u
  <2>1. u.h = g.host
    BY UrlParts
  <2> HIDE DEF u
  <2>2. HasMeta(u)
    BY <1>2, <2>1 DEF HasMeta
  <2> QED BY <2>2 DEF Rewritten, BuildProxyUrl
<1>9. ~ShouldSkipUrl(r) => Clicked(p) = [url |-> u, referer |-> a]
  <2>1. Resolve(a, u) = u
    BY ResolveWhole DEF a
  <2> HIDE DEF u
  <2> QED BY <1>7, <2>1 DEF Clicked, Follow, a
<1>10. \A status : IsRedirect(status) => Redirected(p, status) = [url |-> u, referer |-> a]
  <2>1. /\ x.scheme = Blank /\ x.host = NoHost /\ x.rooted = r.rooted
        /\ x.path = r.path /\ x.q = Encode(r.q) /\ x.h = g.host /\ x.s = Written(g.scheme)
    BY <1>1, AddressedParts
  <2> HIDE DEF x
  <2>2. Resolve(a, x) = u
    BY <1>5, <1>6, <2>1
  <2> HIDE DEF u
  <2>3. RewriteRedirectLocation(r, g.host, g.scheme, p.entry, ProxyHost) = x
    BY <1>1, Zenon DEF RewriteRedirectLocation, x
  <2> QED BY <2>2, <2>3 DEF Redirected, Follow, a
<1>11. Unrewritten(p) = Asked(p, Target(p), r.q, NoHost, Blank)
  <2>1. Resolve(a, r) = Url(p.entry, ProxyHost, Target(p), r.q, NoHost, Blank)
    BY <1>1, <1>5, <1>6
  <2> QED BY <2>1 DEF Unrewritten, Follow, Asked, a
<1> QED BY <1>7, <1>8, <1>9, <1>10, <1>11 DEF Asked, a

-----------------------------------------------------------------------------
(* Every request reaches the URL the page meant.                           *)

\* What is asked with a site's host and a written scheme reaches that site.
LEMMA AskedReaches ==
  ASSUME NEW p \in UrlProbes, NEW pa, NEW q, NEW h \in SiteHosts \cup {NoHost}, NEW s,
         NEW ho \in SiteHosts, ho = IF h = NoHost THEN p.page.host ELSE h
  PROVE  Outgoing(Asked(p, pa, q, h, s)) = Reached(Url(Read(s), ho, pa, q, NoHost, Blank))
<1> PICK H : H = StripProxyPort(ho, ProxyHost)
  OBVIOUS
<1> DEFINE r == Asked(p, pa, q, h, s)
<1>1. r = Asked(p, pa, q, h, s)
      /\ H = StripProxyPort(IF h = NoHost THEN p.page.host ELSE h, ProxyHost)
  OBVIOUS
<1> HIDE DEF r
<1>2. Outgoing(r) = Url(Read(s), H, pa, Encode(q), NoHost, Blank)
  BY <1>1, OutgoingIs
<1>3. Reached(Url(Read(s), ho, pa, q, NoHost, Blank)) = Url(Read(s), H, pa, Encode(q), NoHost, Blank)
  BY ReachedIs
<1> QED BY <1>1, <1>2, <1>3

LEMMA ReachedEncoded ==
  ASSUME NEW sc, NEW ho \in SiteHosts, NEW pa, NEW q
  PROVE  Reached(Url(sc, ho, pa, Encode(q), NoHost, Blank))
           = Reached(Url(sc, ho, pa, q, NoHost, Blank))
<1>1. Reached(Url(sc, ho, pa, q, NoHost, Blank))
        = Url(sc, StripProxyPort(ho, ProxyHost), pa, Encode(q), NoHost, Blank)
  BY ReachedIs
<1>2. Reached(Url(sc, ho, pa, Encode(q), NoHost, Blank))
        = Url(sc, StripProxyPort(ho, ProxyHost), pa, Encode(Encode(q)), NoHost, Blank)
  BY ReachedIs
<1> QED BY <1>1, <1>2, EncodedOnce

LEMMA AllComeBack ==
  ASSUME NEW p \in UrlProbes
  PROVE  ComesBack(p)
<1> PICK r, g : r = p.ref /\ g = p.page
  OBVIOUS
<1>1. /\ r.scheme \in {Blank, "app"} \cup Schemes
      /\ r.host = NoHost => r.scheme = Blank
      /\ r.host # NoHost => r.host \in SiteHosts
  BY RefParts
<1>2. g.scheme \in Schemes /\ g.host \in SiteHosts /\ g.host # NoHost
  BY RefParts, PageParts
<1>3. CASE r.scheme = "app"
  <2>1. ShouldSkipUrl(r)
    BY <1>3, SchemesWritten DEF ShouldSkipUrl, Blank
  <2>2. Rewritten(p, r) = r
    BY <2>1, Skipped
  <2> QED BY <1>3, <2>2 DEF ComesBack
<1>6. ShouldSkipUrl(r) =>
        Rewritten(p, Rewritten(p, r)) = Rewritten(p, r) /\ Clicked(p) = Unrewritten(p)
  BY Skipped
<1>4. CASE r.scheme # "app" /\ r.host # NoHost
  <2> DEFINE n == Named(p)
             m == Url(n, r.host, r.path, r.q, NoHost, Blank)
             m2 == Url(n, r.host, r.path, LastValue(r.q), NoHost, Blank)
             m3 == Url("http", r.host, r.path, r.q, NoHost, Blank)
             click == Asked(p, r.path, Encode(LastValue(r.q)), r.host, Written(n))
             redirect == Asked(p, r.path, Encode(r.q), r.host, Written(r.scheme))
  <2>1. /\ ~ShouldSkipUrl(r) => Rewritten(p, Rewritten(p, r)) = Rewritten(p, r) /\ Clicked(p) = click
        /\ \A status : IsRedirect(status) => Redirected(p, status) = redirect
    BY <1>4, AbsoluteIs
  <2>2. Meant(p) = m /\ n \in Schemes
    BY <1>4, MeantIs
  <2> HIDE DEF n
  <2>3. Read(Written(n)) = n
    BY <2>2, ReadWritten
  <2>4. Outgoing(click) = Reached(m2)
    <3>1. Outgoing(click) = Reached(Url(n, r.host, r.path, Encode(LastValue(r.q)), NoHost, Blank))
      BY <1>1, <1>4, <2>3, AskedReaches
    <3> QED BY <1>1, <1>4, <3>1, ReachedEncoded
  <2>5. Outgoing(redirect) = Reached(Url(Read(Written(r.scheme)), r.host, r.path, r.q, NoHost, Blank))
    <3>1. Outgoing(redirect)
            = Reached(Url(Read(Written(r.scheme)), r.host, r.path, Encode(r.q), NoHost, Blank))
      BY <1>1, <1>4, AskedReaches
    <3> QED BY <1>1, <1>4, <3>1, ReachedEncoded
  <2>6. Outgoing(redirect) = IF r.scheme = Blank THEN Reached(m3) ELSE Reached(m)
    <3>1. CASE r.scheme = Blank
      BY <3>1, <2>5, SchemesWritten
    <3>2. CASE r.scheme # Blank
      <4>1. r.scheme \in Schemes /\ n = r.scheme
        BY <1>1, <1>4, <3>2 DEF Named, n
      <4> QED BY <2>5, <3>2, <4>1, ReadWritten
    <3> QED BY <3>1, <3>2
  <2>7. WithQuery(m, LastValue(r.q)) = m2 /\ WithScheme(m, "http") = m3
    BY OnePart
  <2>8. m.q = r.q
    BY UrlParts
  <2>9. ParseProxyParams(click).referer = [p.page EXCEPT !.q = Encode(@)]
    BY RefererIsPage
  <2>12. Unrewritten(p).url.host = r.host
    BY <1>4, LeavesProxy
  <2> HIDE DEF m, m2, m3, click, redirect
  <2>10. [m EXCEPT !.q = LastValue(@)] = m2
    BY <2>7, <2>8 DEF WithQuery
  <2>11. [m EXCEPT !.scheme = "http"] = m3
    BY <2>7 DEF WithScheme
  <2>13. \A status \in Statuses :
           IF status = 303 THEN Redirected(p, status) = Unrewritten(p)
           ELSE Outgoing(Redirected(p, status))
                  = IF r.scheme = Blank THEN Reached(m3) ELSE Reached(m)
    BY <2>1, <2>6, NotRedirected
  <2> QED BY <1>4, <1>6, <2>1, <2>2, <2>4, <2>9, <2>10, <2>11, <2>12, <2>13, Zenon DEF ComesBack, Blank
<1>5. CASE r.host = NoHost
  <2> DEFINE own == Asked(p, Target(p), Encode(r.q), g.host, Written(g.scheme))
             plain == Asked(p, Target(p), r.q, NoHost, Blank)
             m == Url(g.scheme, g.host, Target(p), r.q, NoHost, Blank)
             m3 == Url("http", g.host, Target(p), r.q, NoHost, Blank)
  <2>0. r.scheme = Blank /\ r.scheme # "app"
    BY <1>1, <1>5, SchemesWritten
  <2>1. /\ ~ShouldSkipUrl(r) => Rewritten(p, Rewritten(p, r)) = Rewritten(p, r) /\ Clicked(p) = own
        /\ \A status : IsRedirect(status) => Redirected(p, status) = own
        /\ Unrewritten(p) = plain
    BY <1>5, RelativeIs
  <2>2. Meant(p) = m
    BY <1>5, <2>0, MeantIs
  <2>3. Read(Written(g.scheme)) = g.scheme /\ Read(Blank) = "http"
    BY <1>2, ReadWritten, SchemesWritten
  <2>4. Outgoing(own) = Reached(m)
    <3>1. Outgoing(own) = Reached(Url(g.scheme, g.host, Target(p), Encode(r.q), NoHost, Blank))
      BY <1>2, <2>3, AskedReaches
    <3> QED BY <1>2, <3>1, ReachedEncoded
  <2>5. Outgoing(plain) = Reached(m3)
    BY <1>2, <2>3, AskedReaches
  <2>6. WithScheme(m, "http") = m3
    BY OnePart
  <2>7. ParseProxyParams(own).referer = [p.page EXCEPT !.q = Encode(@)]
    BY RefererIsPage
  <2> HIDE DEF m, m3, own, plain
  <2>8. [m EXCEPT !.scheme = "http"] = m3
    BY <2>6 DEF WithScheme
  <2>9. \A status \in Statuses :
          IF status = 303 THEN Redirected(p, status) = Unrewritten(p)
          ELSE Outgoing(Redirected(p, status)) = Reached(m)
    BY <2>1, <2>4, NotRedirected
  <2> QED BY <1>5, <1>6, <2>0, <2>1, <2>2, <2>4, <2>5, <2>7, <2>8, <2>9, Zenon DEF ComesBack
<1> QED BY <1>3, <1>4, <1>5

\* Links, redirects and requests nothing rewrote reach what the page meant,
\* for every proxy address, site, path and query; url.go:40, server.go:853.
THEOREM UrlsComeBackCorrect == ProbeSpec => []UrlsComeBack
<1>1. ProbeInv => UrlsComeBack
  <2> SUFFICES ASSUME ProbeInv, probe.fn = "url" PROVE ComesBack(probe)
    BY DEF UrlsComeBack
  <2>1. probe \in UrlProbes
    BY ProbeKinds
  <2> QED BY <2>1, AllComeBack
<1> QED BY <1>1, ProbesStay, PTL

-----------------------------------------------------------------------------
(* The cache's two keys of a request.                                      *)

LEMMA KeysOfAsked ==
  ASSUME NEW p \in UrlProbes, NEW pa1, NEW q1, NEW h1, NEW s1, NEW pa2, NEW q2, NEW h2, NEW s2,
         NEW r1, r1 = Asked(p, pa1, q1, h1, s1), NEW r2, r2 = Asked(p, pa2, q2, h2, s2)
  PROVE  /\ LookupKey(r1) = StoreKey(r2) => Outgoing(r1) = Outgoing(r2)
         /\ LookupKey(r1) = StoreKey(r1) <=> ~HasMeta(r1.url) /\ Encode(r1.url.q) = r1.url.q
<1> DEFINE o1 == Outgoing(r1)
           o2 == Outgoing(r2)
           H1 == StripProxyPort(IF h1 = NoHost THEN p.page.host ELSE h1, ProxyHost)
           H2 == StripProxyPort(IF h2 = NoHost THEN p.page.host ELSE h2, ProxyHost)
<1>1. o1 = Url(Read(s1), H1, pa1, Encode(q1), NoHost, Blank)
  BY OutgoingIs
<1>2. o2 = Url(Read(s2), H2, pa2, Encode(q2), NoHost, Blank)
  BY OutgoingIs
<1>3. LookupKey(r1) = [schema |-> o1.scheme, host |-> o1.host,
                       uri |-> [path |-> pa1, q |-> q1, h |-> h1, s |-> s1]]
  BY KeysAre
<1>4. StoreKey(r1) = [schema |-> o1.scheme, host |-> o1.host,
                      uri |-> [path |-> pa1, q |-> Encode(q1), h |-> NoHost, s |-> Blank]]
  BY KeysAre
<1>5. StoreKey(r2) = [schema |-> o2.scheme, host |-> o2.host,
                      uri |-> [path |-> pa2, q |-> Encode(q2), h |-> NoHost, s |-> Blank]]
  BY KeysAre
<1>6. r1.url = Url(p.entry, ProxyHost, pa1, q1, h1, s1)
  BY DEF Asked
<1> HIDE DEF o1, o2, H1, H2
<1>7. o1.scheme = Read(s1) /\ o1.host = H1
  BY <1>1, UrlParts
<1>8. o2.scheme = Read(s2) /\ o2.host = H2
  BY <1>2, UrlParts
<1>9. LookupKey(r1) = StoreKey(r2) => Outgoing(r1) = Outgoing(r2)
  <2> PICK k1, k2 : k1 = LookupKey(r1) /\ k2 = StoreKey(r2)
    OBVIOUS
  <2>1. k1.schema = o1.scheme /\ k1.host = o1.host /\ k1.uri.path = pa1 /\ k1.uri.q = q1
    BY <1>3
  <2>2. k2.schema = o2.scheme /\ k2.host = o2.host /\ k2.uri.path = pa2 /\ k2.uri.q = Encode(q2)
    BY <1>5
  <2>3. k1 = k2 => o1 = o2
    BY ONLY <1>1, <1>2, <1>7, <1>8, <2>1, <2>2, EncodedOnce
  <2> QED BY <2>3 DEF o1, o2
<1>10. LookupKey(r1) = StoreKey(r1) <=> (h1 = NoHost /\ s1 = Blank /\ Encode(q1) = q1)
  BY <1>3, <1>4
<1>11. (HasMeta(r1.url) <=> (h1 # NoHost \/ s1 # Blank)) /\ r1.url.q = q1
  <2> PICK u : u = r1.url
    OBVIOUS
  <2>1. u.h = h1 /\ u.s = s1 /\ u.q = q1
    BY <1>6, UrlParts
  <2> QED BY <2>1 DEF HasMeta, Blank
<1> QED BY <1>9, <1>10, <1>11

LEMMA AllKeysMeet ==
  ASSUME NEW p \in UrlProbes
  PROVE  KeysMeet(p)
<1> DEFINE all == {Clicked(p), Unrewritten(p)} \cup {Redirected(p, status) : status \in Statuses}
           requests == {r \in all : p.ref.host = NoHost \/ HasMeta(r.url)}
<1> SUFFICES ASSUME p.ref.scheme # "app"
             PROVE  /\ \A r1, r2 \in requests :
                         LookupKey(r1) = StoreKey(r2) => Outgoing(r1) = Outgoing(r2)
                    /\ \A r \in requests :
                         LookupKey(r) = StoreKey(r) <=> ~HasMeta(r.url) /\ Encode(r.url.q) = r.url.q
  BY Zenon DEF KeysMeet
<1>0. ASSUME NEW r \in all
      PROVE  \/ r = Unrewritten(p)
             \/ r = Clicked(p) /\ ~ShouldSkipUrl(p.ref)
             \/ \E status : IsRedirect(status) /\ r = Redirected(p, status)
  BY <1>0, Skipped, NotRedirected
<1>1. ASSUME NEW r \in requests
      PROVE  \E pa, q, h, s : r = Asked(p, pa, q, h, s)
  <2>3. r \in all /\ (p.ref.host = NoHost \/ HasMeta(r.url))
    BY <1>1
  <2> HIDE DEF all, requests
  <2>1. CASE p.ref.host = NoHost
    BY <1>0, <2>1, <2>3, RelativeIs
  <2>2. CASE p.ref.host # NoHost
    BY <1>0, <2>2, <2>3, AbsoluteIs, LeavesProxy
  <2> QED BY <2>1, <2>2
<1> HIDE DEF all, requests
<1>2. ASSUME NEW r1 \in requests, NEW r2 \in requests
      PROVE  /\ LookupKey(r1) = StoreKey(r2) => Outgoing(r1) = Outgoing(r2)
             /\ LookupKey(r1) = StoreKey(r1) <=> ~HasMeta(r1.url) /\ Encode(r1.url.q) = r1.url.q
  <2>1. PICK pa1, q1, h1, s1 : r1 = Asked(p, pa1, q1, h1, s1)
    BY <1>1
  <2>2. PICK pa2, q2, h2, s2 : r2 = Asked(p, pa2, q2, h2, s2)
    BY <1>1
  <2> QED BY <2>1, <2>2, KeysOfAsked
<1> QED BY <1>2

\* The cache never answers a URL with the response of another, and finds what
\* it stored exactly for requests without parameters of the proxy whose query is in
\* canonical form, for every proxy address, site, path and query; server.go:537 and 804.
THEOREM CacheKeysMeetCorrect == ProbeSpec => []CacheKeysMeet
<1>1. ProbeInv => CacheKeysMeet
  <2> SUFFICES ASSUME ProbeInv, probe.fn = "url" PROVE KeysMeet(probe)
    BY DEF CacheKeysMeet
  <2>1. probe \in UrlProbes
    BY ProbeKinds
  <2> QED BY <2>1, AllKeysMeet
<1> QED BY <1>1, ProbesStay, PTL

-----------------------------------------------------------------------------
(* The edit of a tag, replacement by replacement.                          *)

LEMMA Smallest ==
  ASSUME NEW S \in SUBSET Nat, S # {}
  PROVE  \E n \in S : \A m \in S : n <= m
<1>1. PICK n \in S : \A m \in S : ~(<<m, n>> \in OpToRel(<, Nat))
  BY NatLessThanWellFounded, WFMin
<1>2. \A x, y \in Nat : x < y => <<x, y>> \in OpToRel(<, Nat)
  BY DEF OpToRel
<1>3. ASSUME NEW m \in S PROVE n <= m
  <2>1. ~(m < n)
    BY <1>1, <1>2
  <2> QED BY <2>1
<1> QED BY <1>3

\* Induction up to N; T is the set of those numbers a claim holds for.
LEMMA UpTo ==
  ASSUME NEW N \in Nat, NEW T, 0 \in T,
         \A n \in 1 .. N : n - 1 \in T => n \in T
  PROVE  \A n \in 0 .. N : n \in T
<1> DEFINE Bad == {n \in 0 .. N : n \notin T}
<1> SUFFICES ASSUME Bad # {} PROVE FALSE
  OBVIOUS
<1>1. Bad \in SUBSET Nat
  OBVIOUS
<1> HIDE DEF Bad
<1>2. PICK n \in Bad : \A m \in Bad : n <= m
  BY <1>1, Smallest
<1> USE DEF Bad
<1>3. n \in 1 .. N /\ n - 1 \in 0 .. N /\ n - 1 \notin Bad
  BY <1>2
<1> QED BY <1>3

Forms == {"plain", "entity", "loose", "bare"}
WrittenAttrs ==
  [name : AttrNames, link : Links \cup Anchors \cup {"refresh"}, form : Forms, via : BOOLEAN]

ReadsAs(a, rep, form) ==
  EndsWith(a.name, rep.name) /\ a.form = form /\ a.link = rep.link /\ ~a.via

LEMMA ReplacedIs ==
  ASSUME NEW a \in WrittenAttrs, NEW rep \in WrittenAttrs
  PROVE  LET b == Replaced(a, rep)
         IN b \in WrittenAttrs /\ b.name = a.name /\ b.link = rep.link /\ b.via
<1> PICK yes : yes = TRUE
  OBVIOUS
<1> PICK f : f = IF a.form = "loose" THEN "loose" ELSE "plain"
  OBVIOUS
<1> DEFINE b == [a EXCEPT !.link = rep.link, !.via = yes, !.form = f]
<1>1. Replaced(a, rep) = [a EXCEPT !.link = rep.link, !.via = TRUE, !.form = f]
  BY DEF Replaced, WrittenAttrs, Forms
<1>2. f \in Forms
  BY DEF Forms
<1>3. b \in WrittenAttrs /\ b.name = a.name /\ b.link = rep.link /\ b.via = yes
  BY <1>2 DEF WrittenAttrs
<1> QED BY <1>1, <1>3

LEMMA FirstReads ==
  ASSUME NEW raw \in Seq(WrittenAttrs), NEW rep, NEW form, NEW k, k = FirstReading(raw, rep, form)
  PROVE  \/ k = 0 /\ \A i \in 1 .. Len(raw) : ~ReadsAs(raw[i], rep, form)
         \/ k \in 1 .. Len(raw) /\ ReadsAs(raw[k], rep, form)
<1> DEFINE I == {i \in 1 .. Len(raw) : ReadsAs(raw[i], rep, form)}
<1>1. k = IF I # {} THEN Min(I) ELSE 0
  BY DEF FirstReading, SelectInSeq, ReadsAs
<1>2. CASE I # {}
  <2>1. I \in SUBSET Nat
    OBVIOUS
  <2> HIDE DEF I
  <2>2. \E n \in I : \A m \in I : n <= m
    BY <1>2, <2>1, Smallest
  <2>3. Min(I) \in I
    BY <2>2 DEF Min
  <2> QED BY <1>1, <1>2, <2>3 DEF I
<1> QED BY <1>1, <1>2

\* A change is one to the replacement's link, of a name the search finds.
Changes(a, b, rep) ==
  /\ b \in WrittenAttrs /\ b.name = a.name
  /\ b # a => EndsWith(a.name, rep.name) /\ b.link = rep.link /\ b.via

LEMMA ReplacedAtIs ==
  ASSUME NEW raw \in Seq(WrittenAttrs), NEW rep \in WrittenAttrs, NEW k \in 0 .. Len(raw),
         k # 0 => EndsWith(raw[k].name, rep.name)
  PROVE  LET out == ReplacedAt(raw, k, rep)
         IN /\ out \in Seq(WrittenAttrs) /\ Len(out) = Len(raw)
            /\ \A i \in 1 .. Len(raw) : Changes(raw[i], out[i], rep) /\ (i # k => out[i] = raw[i])
            /\ k # 0 => out[k].via
<1>1. CASE k = 0
  BY <1>1 DEF ReplacedAt, Changes
<1>2. CASE k # 0
  <2> DEFINE b == Replaced(raw[k], rep)
  <2>1. b \in WrittenAttrs /\ b.name = raw[k].name /\ b.link = rep.link /\ b.via
    BY <1>2, ReplacedIs
  <2> HIDE DEF b
  <2>2. ReplacedAt(raw, k, rep) = [raw EXCEPT ![k] = b]
    BY <1>2 DEF ReplacedAt, ReplaceAt, b
  <2> QED BY <1>2, <2>1, <2>2 DEF Changes
<1> QED BY <1>1, <1>2

LEMMA LastResortIs ==
  ASSUME NEW raw \in Seq(WrittenAttrs), NEW rep \in WrittenAttrs
  PROVE  LET out == ReplaceAttrValueInRaw(raw, rep)
         IN /\ out \in Seq(WrittenAttrs) /\ Len(out) = Len(raw)
            /\ \A i \in 1 .. Len(raw) : Changes(raw[i], out[i], rep)
            /\ \A i \in 1 .. Len(raw) :
                 raw[i].form = "bare" \/ (\A j \in 1 .. Len(raw) :
                    EndsWith(raw[j].name, rep.name) => raw[j].form = "loose")
                   => out[i] = raw[i]
<1> DEFINE occurs == \E i \in DOMAIN raw :
                       EndsWith(raw[i].name, rep.name) /\ raw[i].form # "loose"
           Hit(i) == occurs /\ EndsWith(raw[i].name, rep.name) /\ raw[i].form # "bare"
           out == ReplaceAttrValueInRaw(raw, rep)
<1>1. out = [i \in 1 .. Len(raw) |-> IF Hit(i) THEN Replaced(raw[i], rep) ELSE raw[i]]
  BY DEF ReplaceAttrValueInRaw
<1>2. \A i \in 1 .. Len(raw) : Hit(i) => EndsWith(raw[i].name, rep.name) /\ raw[i].form # "bare"
        /\ \E j \in 1 .. Len(raw) : EndsWith(raw[j].name, rep.name) /\ raw[j].form # "loose"
  OBVIOUS
<1> HIDE DEF Hit, out
<1>3. ASSUME NEW i \in 1 .. Len(raw)
      PROVE  out[i] = (IF Hit(i) THEN Replaced(raw[i], rep) ELSE raw[i])
             /\ Changes(raw[i], out[i], rep)
  <2>1. raw[i] \in WrittenAttrs
    OBVIOUS
  <2>2. CASE Hit(i)
    <3> DEFINE b == Replaced(raw[i], rep)
    <3>1. b \in WrittenAttrs /\ b.name = raw[i].name /\ b.link = rep.link /\ b.via
      BY <2>1, ReplacedIs
    <3> HIDE DEF b
    <3>2. out[i] = b
      BY <1>1, <2>2 DEF b
    <3> QED BY <1>2, <2>2, <3>1, <3>2 DEF Changes, b
  <2>3. CASE ~Hit(i)
    BY <1>1, <2>1, <2>3 DEF Changes
  <2> QED BY <2>2, <2>3
<1>4. out \in Seq(WrittenAttrs) /\ Len(out) = Len(raw)
  <2>1. \A i \in 1 .. Len(raw) : out[i] \in WrittenAttrs
    BY <1>3 DEF Changes
  <2>2. Len(raw) \in Nat
    OBVIOUS
  <2>3. out = [i \in 1 .. Len(raw) |-> out[i]]
    BY <1>1
  <2> QED BY <2>1, <2>2, <2>3
<1>5. ASSUME NEW i \in 1 .. Len(raw),
             raw[i].form = "bare" \/ (\A j \in 1 .. Len(raw) :
               EndsWith(raw[j].name, rep.name) => raw[j].form = "loose")
      PROVE  out[i] = raw[i]
  BY <1>2, <1>3, <1>5
<1> QED BY <1>3, <1>4, <1>5 DEF out

\* One replacement changes values of names the search finds, to its own link;
\* if it finds its value written plainly, only such a value.
LEMMA OneReplacement ==
  ASSUME NEW raw \in Seq(WrittenAttrs), NEW rep \in WrittenAttrs
  PROVE  LET out == ApplyAttrReplacement(raw, rep)
         IN /\ out \in Seq(WrittenAttrs) /\ Len(out) = Len(raw)
            /\ \A i \in 1 .. Len(raw) : Changes(raw[i], out[i], rep)
            /\ \A i, k \in 1 .. Len(raw) :
                 ReadsAs(raw[k], rep, "plain") /\ out[i] # raw[i] => raw[i].link = rep.link
<1> DEFINE exact == FirstReading(raw, rep, "plain")
           entity == FirstReading(raw, rep, "entity")
           mid == ReplacedAt(raw, entity, rep)
           last == ReplaceAttrValueInRaw(mid, rep)
           out == ApplyAttrReplacement(raw, rep)
<1>1. \/ exact = 0 /\ \A i \in 1 .. Len(raw) : ~ReadsAs(raw[i], rep, "plain")
      \/ exact \in 1 .. Len(raw) /\ ReadsAs(raw[exact], rep, "plain")
  BY FirstReads
<1>2. \/ entity = 0 /\ \A i \in 1 .. Len(raw) : ~ReadsAs(raw[i], rep, "entity")
      \/ entity \in 1 .. Len(raw) /\ ReadsAs(raw[entity], rep, "entity")
  BY FirstReads
<1>3. out = IF exact # 0 THEN ReplacedAt(raw, exact, rep) ELSE last
  BY DEF ApplyAttrReplacement
<1> HIDE DEF exact, entity, out
<1>4. CASE exact # 0
  <2>1. exact \in 0 .. Len(raw) /\ EndsWith(raw[exact].name, rep.name)
        /\ raw[exact].link = rep.link
    BY <1>1, <1>4 DEF ReadsAs
  <2>2. /\ out \in Seq(WrittenAttrs) /\ Len(out) = Len(raw)
        /\ \A i \in 1 .. Len(raw) : Changes(raw[i], out[i], rep) /\ (i # exact => out[i] = raw[i])
    BY <1>3, <1>4, <2>1, ReplacedAtIs
  <2> QED BY <2>1, <2>2 DEF out
<1>5. CASE exact = 0
  <2>1. entity \in 0 .. Len(raw) /\ (entity # 0 => EndsWith(raw[entity].name, rep.name))
    BY <1>2 DEF ReadsAs
  <2>2. /\ mid \in Seq(WrittenAttrs) /\ Len(mid) = Len(raw)
        /\ \A i \in 1 .. Len(raw) : Changes(raw[i], mid[i], rep)
    BY <2>1, ReplacedAtIs
  <2> HIDE DEF mid
  <2>3. /\ last \in Seq(WrittenAttrs) /\ Len(last) = Len(mid)
        /\ \A i \in 1 .. Len(mid) : Changes(mid[i], last[i], rep)
    BY <2>2, LastResortIs
  <2>4. out = last
    BY <1>3, <1>5
  <2> HIDE DEF last
  <2>5. \A i \in 1 .. Len(raw) : Changes(raw[i], out[i], rep)
    BY <2>2, <2>3, <2>4 DEF Changes
  <2>6. \A k \in 1 .. Len(raw) : ~ReadsAs(raw[k], rep, "plain")
    BY <1>1, <1>5
  <2> QED BY <2>2, <2>3, <2>4, <2>5, <2>6 DEF out
<1> QED BY <1>4, <1>5

\* The replacement of an attribute whose name the search finds nowhere else.
LEMMA OwnReplacement ==
  ASSUME NEW raw \in Seq(WrittenAttrs), NEW k \in 1 .. Len(raw), ~raw[k].via,
         \A i \in 1 .. Len(raw) : EndsWith(raw[i].name, raw[k].name) => i = k
  PROVE  ApplyAttrReplacement(raw, raw[k])[k].via <=> raw[k].form \in {"plain", "entity"}
<1> PICK rep : rep = raw[k]
  OBVIOUS
<1> DEFINE exact == FirstReading(raw, rep, "plain")
           entity == FirstReading(raw, rep, "entity")
           mid == ReplacedAt(raw, entity, rep)
           last == ReplaceAttrValueInRaw(mid, rep)
           out == ApplyAttrReplacement(raw, rep)
<1>0. rep \in WrittenAttrs /\ EndsWith(rep.name, rep.name)
  BY DEF EndsWith
<1>1. \/ exact = 0 /\ \A i \in 1 .. Len(raw) : ~ReadsAs(raw[i], rep, "plain")
      \/ exact \in 1 .. Len(raw) /\ ReadsAs(raw[exact], rep, "plain")
  BY FirstReads
<1>2. \/ entity = 0 /\ \A i \in 1 .. Len(raw) : ~ReadsAs(raw[i], rep, "entity")
      \/ entity \in 1 .. Len(raw) /\ ReadsAs(raw[entity], rep, "entity")
  BY FirstReads
<1>3. out = IF exact # 0 THEN ReplacedAt(raw, exact, rep) ELSE last
  BY DEF ApplyAttrReplacement
<1> HIDE DEF exact, entity, out
<1>4. rep.form = "plain" <=> exact # 0
  BY <1>0, <1>1 DEF ReadsAs
<1>5. rep.form = "entity" <=> entity # 0
  BY <1>0, <1>2 DEF ReadsAs
<1>6. exact # 0 => exact = k
  BY <1>1 DEF ReadsAs
<1>7. entity # 0 => entity = k
  BY <1>2 DEF ReadsAs
<1>8. CASE exact # 0
  <2>1. exact \in 0 .. Len(raw) /\ EndsWith(raw[exact].name, rep.name)
    BY <1>0, <1>6, <1>8
  <2>2. out[exact].via
    BY <1>0, <1>3, <1>8, <2>1, ReplacedAtIs
  <2> QED BY <1>4, <1>6, <1>8, <2>2 DEF out
<1>9. CASE exact = 0 /\ entity # 0
  <2>1. entity \in 0 .. Len(raw) /\ EndsWith(raw[entity].name, rep.name)
    BY <1>0, <1>7, <1>9
  <2>2. mid \in Seq(WrittenAttrs) /\ Len(mid) = Len(raw) /\ mid[entity].via
    BY <1>0, <1>9, <2>1, ReplacedAtIs
  <2> HIDE DEF mid
  <2>3. Changes(mid[k], last[k], rep)
    BY <1>0, <2>2, LastResortIs
  <2>4. last[k].via
    BY <1>7, <1>9, <2>2, <2>3 DEF Changes
  <2> QED BY <1>3, <1>5, <1>9, <2>4 DEF out
<1>10. CASE exact = 0 /\ entity = 0
  <2>1. mid = raw
    BY <1>10 DEF ReplacedAt
  <2>2. rep.form \in {"loose", "bare"}
    BY <1>0, <1>4, <1>5, <1>10 DEF WrittenAttrs, Forms
  <2>3. raw[k].form = "bare" \/ (\A j \in 1 .. Len(raw) :
           EndsWith(raw[j].name, rep.name) => raw[j].form = "loose")
    BY <2>2
  <2>5. ReplaceAttrValueInRaw(raw, rep)[k] = raw[k]
    BY <1>0, <2>3, LastResortIs
  <2>4. last[k] = raw[k]
    BY <2>1, <2>5
  <2> QED BY <1>3, <1>10, <2>2, <2>4 DEF out
<1> QED BY <1>8, <1>9, <1>10

-----------------------------------------------------------------------------
(* One replacement after the other.                                        *)

\* What the recursion computes; it has the values it says.
Recurs(f, N, attrs, reps) ==
  f = [n \in 0 .. N |->
         IF n = 0 THEN attrs
         ELSE IF n \in reps THEN ApplyAttrReplacement(f[n - 1], attrs[n])
         ELSE f[n - 1]]

LEMMA RecursionExists ==
  ASSUME NEW N \in Nat, NEW attrs, NEW reps
  PROVE  \E f : Recurs(f, N, attrs, reps)
<1> DEFINE T == {m \in 0 .. N : \E f : Recurs(f, m, attrs, reps)}
<1>1. 0 \in T
  <2>1. Recurs([n \in 0 .. 0 |-> attrs], 0, attrs, reps)
    BY DEF Recurs
  <2> QED BY <2>1
<1>2. ASSUME NEW m \in 1 .. N, m - 1 \in T PROVE m \in T
  <2>1. PICK f : Recurs(f, m - 1, attrs, reps)
    BY <1>2
  <2> DEFINE y == IF m \in reps THEN ApplyAttrReplacement(f[m - 1], attrs[m]) ELSE f[m - 1]
             g == [n \in 0 .. m |-> IF n = m THEN y ELSE f[n]]
             h == [n \in 0 .. m |->
                     IF n = 0 THEN attrs
                     ELSE IF n \in reps THEN ApplyAttrReplacement(g[n - 1], attrs[n])
                     ELSE g[n - 1]]
  <2>2. ASSUME NEW n \in 0 .. m PROVE g[n] = h[n]
    <3>1. CASE n = m
      <4>1. g[m - 1] = f[m - 1] /\ g[m] = y
        OBVIOUS
      <4>2. h[m] = IF m \in reps THEN ApplyAttrReplacement(g[m - 1], attrs[m]) ELSE g[m - 1]
        OBVIOUS
      <4> QED BY <3>1, <4>1, <4>2
    <3>2. CASE n = 0
      BY <2>1, <3>2 DEF Recurs
    <3>3. CASE n \in 1 .. m - 1
      <4>1. n - 1 \in 0 .. m - 1 /\ n \in 0 .. m - 1
        BY <3>3
      <4>2. f[n] = IF n \in reps THEN ApplyAttrReplacement(f[n - 1], attrs[n]) ELSE f[n - 1]
        BY <2>1, <3>3 DEF Recurs
      <4>3. g[n] = f[n] /\ g[n - 1] = f[n - 1]
        BY <4>1, <3>3
      <4>4. h[n] = IF n \in reps THEN ApplyAttrReplacement(g[n - 1], attrs[n]) ELSE g[n - 1]
        BY <3>3
      <4> QED BY <4>2, <4>3, <4>4
    <3> QED BY <3>1, <3>2, <3>3
  <2>3. g = h
    <3>1. DOMAIN g = 0 .. m /\ DOMAIN h = 0 .. m
      OBVIOUS
    <3> QED BY <2>2
  <2>4. Recurs(g, m, attrs, reps)
    BY <2>3 DEF Recurs
  <2> QED BY <2>4
<1> HIDE DEF T
<1>3. \A m \in 0 .. N : m \in T
  BY <1>1, <1>2, UpTo
<1> QED BY <1>3 DEF T

LEMMA ReplacementsInTurn ==
  ASSUME NEW attrs, Len(attrs) \in Nat, NEW reps
  PROVE  \E f : /\ Recurs(f, Len(attrs), attrs, reps)
                /\ ApplyAttrReplacements(attrs, reps) = f[Len(attrs)]
<1> DEFINE f == CHOOSE f : Recurs(f, Len(attrs), attrs, reps)
<1>1. Recurs(f, Len(attrs), attrs, reps)
  BY RecursionExists
<1>2. ApplyAttrReplacements(attrs, reps) = f[Len(attrs)]
  BY DEF ApplyAttrReplacements, Recurs
<1> QED BY <1>1, <1>2

-----------------------------------------------------------------------------
(* A whole tag.                                                            *)

\* No replacement is for a data-* attribute.
LEMMA NoDataReplaced ==
  ASSUME NEW tag, NEW attrs, NEW name \in DOMAIN DataAttr
  PROVE  ~HoldsLink(tag, attrs, name) /\ DataAttr[name] \notin DOMAIN DataAttr
<1>1. name \in {"data-src", "data-href"} /\ DataAttr[name] \in {"src", "href"}
  BY DEF DataAttr
<1>2. DOMAIN DataAttr = {"data-src", "data-href"}
  BY DEF DataAttr
<1>3. ~IsURLAttr(tag, name)
  BY DEF IsURLAttr
<1> QED BY <1>1, <1>2, <1>3 DEF HoldsLink

\* What has become of the attribute a by the replacements for the attributes in
\* done.
Became(written, done, i, b, data) ==
  /\ b \in WrittenAttrs
  /\ b.name = written[i].name
  /\ b # written[i] =>
       \E j \in done :
         /\ EndsWith(written[i].name, written[j].name) /\ b.via /\ b.link = written[j].link
         /\ written[j].form # "plain" \/ written[j].link = written[i].link
  /\ i \in done /\ ~data => (b.via <=> written[i].form \in {"plain", "entity"})

LEMMA TagRewritten ==
  ASSUME NEW written \in Seq(WrittenAttrs), \A i \in 1 .. Len(written) : ~written[i].via,
         \A i, j \in 1 .. Len(written) : written[i].name = written[j].name => i = j,
         NEW reps \in SUBSET (1 .. Len(written)),
         \A j \in reps : written[j].name \notin DOMAIN DataAttr,
         NEW data \in BOOLEAN,
         data <=> \E i \in 1 .. Len(written) : written[i].name \in DOMAIN DataAttr
  PROVE  LET out == ApplyAttrReplacements(written, reps)
         IN /\ out \in Seq(WrittenAttrs) /\ Len(out) = Len(written)
            /\ \A i \in 1 .. Len(written) : Became(written, reps, i, out[i], data)
<1> DEFINE N == Len(written)
           Done(n) == reps \cap (1 .. n)
<1>1. N \in Nat
  OBVIOUS
<1>2. PICK f : /\ Recurs(f, N, written, reps)
               /\ ApplyAttrReplacements(written, reps) = f[N]
  BY <1>1, ReplacementsInTurn
<1>3. f[0] = written
  BY <1>1, <1>2 DEF Recurs
<1>4. ASSUME NEW n \in 1 .. N
      PROVE  f[n] = IF n \in reps THEN ApplyAttrReplacement(f[n - 1], written[n]) ELSE f[n - 1]
  <2>1. n \in 0 .. N /\ n # 0
    BY <1>1
  <2> HIDE DEF N
  <2> QED BY <1>2, <2>1 DEF Recurs
\* Only one replacement reaches an attribute.
<1>5. ASSUME NEW i \in 1 .. N, NEW j \in reps, NEW k \in reps,
             EndsWith(written[i].name, written[j].name), EndsWith(written[i].name, written[k].name)
      PROVE  j = k
  <2>1. CASE written[i].name \in DOMAIN DataAttr
    <3>1. written[j].name = DataAttr[written[i].name] /\ written[k].name = DataAttr[written[i].name]
      BY <1>5, <2>1 DEF EndsWith
    <3> QED BY <3>1
  <2>2. CASE written[i].name \notin DOMAIN DataAttr
    BY <1>5, <2>2 DEF EndsWith
  <2> QED BY <2>1, <2>2
<1> DEFINE T == {n \in 0 .. N :
                   /\ f[n] \in Seq(WrittenAttrs) /\ Len(f[n]) = N
                   /\ \A i \in 1 .. N : Became(written, Done(n), i, f[n][i], data)}
<1>6. 0 \in T
  BY <1>1, <1>3 DEF Became
<1>7. ASSUME NEW n \in 1 .. N, n - 1 \in T PROVE n \in T
  <2>1. n - 1 \in 0 .. N /\ f[n - 1] \in Seq(WrittenAttrs) /\ Len(f[n - 1]) = N
        /\ \A i \in 1 .. N : Became(written, Done(n - 1), i, f[n - 1][i], data)
    BY <1>7
  <2>2. CASE n \notin reps
    <3>1. Done(n) = Done(n - 1)
      BY <2>2
    <3>2. f[n] = f[n - 1]
      BY <1>4, <2>2
    <3>3. /\ f[n] \in Seq(WrittenAttrs) /\ Len(f[n]) = N
          /\ \A i \in 1 .. N : Became(written, Done(n), i, f[n][i], data)
      <4> HIDE DEF Done, N, T
      <4> QED BY <2>1, <3>1, <3>2
    <3>4. n \in 0 .. N
      BY <1>1
    <3> HIDE DEF Done, N, T
    <3> QED BY <3>3, <3>4 DEF T
  <2>3. CASE n \in reps
    <3> PICK raw, out, rep : raw = f[n - 1] /\ out = f[n] /\ rep = written[n]
      OBVIOUS
    <3>1. out = ApplyAttrReplacement(raw, rep) /\ rep \in WrittenAttrs
      BY <1>4, <2>3
    <3>2. Done(n) = Done(n - 1) \cup {n} /\ n \notin Done(n - 1) /\ Done(n - 1) \subseteq reps
      BY <2>3
    <3>3. /\ raw \in Seq(WrittenAttrs) /\ Len(raw) = N
          /\ \A i \in 1 .. N : Became(written, Done(n - 1), i, raw[i], data)
      BY <2>1
    <3> HIDE DEF Done, T, N
    <3>8. LET o == ApplyAttrReplacement(raw, rep)
          IN /\ o \in Seq(WrittenAttrs) /\ Len(o) = Len(raw)
             /\ \A i \in 1 .. Len(raw) : Changes(raw[i], o[i], rep)
             /\ \A i, k \in 1 .. Len(raw) :
                  ReadsAs(raw[k], rep, "plain") /\ o[i] # raw[i] => raw[i].link = rep.link
      BY <3>1, <3>3, OneReplacement, Zenon
    <3>4. /\ out \in Seq(WrittenAttrs) /\ Len(out) = N
          /\ \A i \in 1 .. N : Changes(raw[i], out[i], rep)
          /\ \A i, k \in 1 .. N :
               ReadsAs(raw[k], rep, "plain") /\ out[i] # raw[i] => raw[i].link = rep.link
      BY <3>1, <3>3, <3>8
    \* What this replacement reaches, none before it did.
    <3>5. ASSUME NEW i \in 1 .. N, EndsWith(written[i].name, rep.name) PROVE raw[i] = written[i]
      <4>1. \A j \in Done(n - 1) : ~EndsWith(written[i].name, written[j].name)
        BY <1>5, <2>3, <3>2, <3>5
      <4> QED BY <3>3, <4>1 DEF Became
    <3>6. raw[n] = rep
      BY <3>5 DEF EndsWith
    <3>7. ASSUME NEW i \in 1 .. N
          PROVE  Became(written, Done(n), i, out[i], data)
      <4>1. Became(written, Done(n - 1), i, raw[i], data) /\ Changes(raw[i], out[i], rep)
        BY <3>3, <3>4
      <4>2. out[i] \in WrittenAttrs /\ out[i].name = written[i].name
        BY <4>1 DEF Became, Changes
      <4>3. CASE EndsWith(written[i].name, rep.name)
        <5>1. raw[i] = written[i]
          BY <3>5, <4>3
        <5>2. out[i] # written[i] => rep.form # "plain" \/ rep.link = written[i].link
          <6> SUFFICES ASSUME out[i] # written[i], rep.form = "plain" PROVE rep.link = written[i].link
            OBVIOUS
          <6>1. ReadsAs(raw[n], rep, "plain")
            BY <2>3, <3>6 DEF ReadsAs, EndsWith, N
          <6> QED BY <3>4, <5>1, <6>1
        <5>3. out[i] # written[i] =>
                \E j \in Done(n) :
                  /\ EndsWith(written[i].name, written[j].name)
                  /\ out[i].via /\ out[i].link = written[j].link
                  /\ written[j].form # "plain" \/ written[j].link = written[i].link
          BY <3>2, <4>1, <4>3, <5>1, <5>2 DEF Changes
        <5>4. i \in Done(n) /\ ~data => (out[i].via <=> written[i].form \in {"plain", "entity"})
          <6> SUFFICES ASSUME i \in Done(n), ~data
                       PROVE  out[i].via <=> written[i].form \in {"plain", "entity"}
            OBVIOUS
          <6>1. \A k \in 1 .. N : EndsWith(written[k].name, rep.name) => k = n
            BY DEF EndsWith, N
          <6>2. i = n
            BY <4>3, <6>1
          <6>3. \A k \in 1 .. N : raw[k].name = written[k].name
            BY <3>3 DEF Became
          <6>4. n \in 1 .. Len(raw) /\ ~raw[n].via
                /\ \A k \in 1 .. Len(raw) : EndsWith(raw[k].name, raw[n].name) => k = n
            BY <3>3, <3>6, <6>1, <6>3 DEF N
          <6>5. ApplyAttrReplacement(raw, raw[n])[n].via <=> raw[n].form \in {"plain", "entity"}
            BY <3>3, <6>4, OwnReplacement
          <6> QED BY <3>1, <3>6, <6>2, <6>5
        <5> QED BY <4>2, <5>3, <5>4 DEF Became
      <4>4. CASE ~EndsWith(written[i].name, rep.name)
        <5>1. out[i] = raw[i]
          BY <4>1, <4>4 DEF Changes, Became
        <5>2. i # n
          BY <4>4 DEF EndsWith
        <5> QED BY <3>2, <4>1, <5>1, <5>2 DEF Became
      <4> QED BY <4>3, <4>4
    <3> QED BY <3>4, <3>7 DEF T, N
  <2> QED BY <2>2, <2>3
<1> HIDE DEF T, N, Done
<1>8. N \in T
  <2>1. \A n \in 1 .. N : n - 1 \in T => n \in T
    BY <1>7
  <2>2. \A n \in 0 .. N : n \in T
    BY ONLY <1>1, <1>6, <2>1, UpTo
  <2> QED BY <1>1, <2>2
<1>9. Done(N) = reps
  BY DEF Done, N
<1> QED BY <1>2, <1>8, <1>9 DEF T, N

LEMMA ProbedElement ==
  ASSUME NEW e \in HtmlProbes
  PROVE  /\ e.attrs \in Seq(WrittenAttrs)
         /\ \A i \in 1 .. Len(e.attrs) : ~e.attrs[i].via
         /\ \A i, j \in 1 .. Len(e.attrs) : e.attrs[i].name = e.attrs[j].name => i = j
         /\ RewrittenElement(e).attrs = RewrittenTag(e.tag, e.attrs)
         /\ RewrittenElement(e).textVia = (e.tag = "style")
<1>1. PICK written : written = e.attrs
  OBVIOUS
<1>2. /\ written \in BoundedSeq(Attrs, MaxAttrs)
      /\ \A i, j \in DOMAIN written : written[i].name = written[j].name => i = j
  BY <1>1 DEF HtmlProbes
<1>3. written \in Seq(Attrs)
  BY <1>2, BoundedSeqType
<1>4. \A a \in Attrs : a \in WrittenAttrs /\ ~a.via
  BY DEF Attrs, WrittenAttrs, Forms
<1>5. written \in Seq(WrittenAttrs) /\ \A i \in 1 .. Len(written) : ~written[i].via
  BY <1>3, <1>4
<1>6. RewrittenElement(e).attrs = RewrittenTag(e.tag, e.attrs)
  BY DEF RewrittenElement, HtmlProbes
<1>7. RewrittenElement(e).textVia = (e.tag = "style")
  BY DEF RewrittenElement, HtmlProbes
<1> QED BY <1>1, <1>2, <1>5, <1>6, <1>7

LEMMA AllLinksRewritten ==
  ASSUME NEW e \in HtmlProbes
  PROVE  LinksRewritten(e)
<1> PICK written, tag : written = e.attrs /\ tag = e.tag
  OBVIOUS
<1> DEFINE out == RewrittenElement(e)
           oa == RewrittenTag(tag, written)
           reps == BuildAttrReplacements(tag, written)
           Due(a) == NeedsRewrite(tag, written) /\ HoldsLink(tag, written, a.name) /\ a.link \in Links
           Data(i) == written[i].name \in DOMAIN DataAttr
           none == \A j \in DOMAIN written : written[j].name \notin DOMAIN DataAttr
<1>1. /\ written \in Seq(WrittenAttrs)
      /\ \A i \in 1 .. Len(written) : ~written[i].via
      /\ \A i, j \in 1 .. Len(written) : written[i].name = written[j].name => i = j
      /\ out.attrs = oa /\ out.textVia = (tag = "style")
  BY ProbedElement
<1>2. DOMAIN written = 1 .. Len(written)
  BY <1>1
<1>3. reps \in SUBSET (1 .. Len(written))
      /\ \A j \in 1 .. Len(written) :
           j \in reps <=> HoldsLink(tag, written, written[j].name) /\ written[j].link \in Links
  BY <1>2 DEF BuildAttrReplacements
<1>4. \A j \in reps : written[j].name \notin DOMAIN DataAttr
  BY <1>3, NoDataReplaced
<1> HIDE DEF reps, oa
\* What is claimed of each attribute.
<1> DEFINE Claim(i) ==
      IF Data(i)
      THEN oa[i] # written[i] =>
             \E j \in DOMAIN written :
               /\ written[j].name = DataAttr[written[i].name]
               /\ Due(written[j])
               /\ written[j].form # "plain" \/ written[j].link = written[i].link
      ELSE /\ oa[i].link = written[i].link
           /\ oa[i].via => Due(written[i])
           /\ none => (oa[i].via <=> Due(written[i]) /\ written[i].form \in {"plain", "entity"})
<1>5. ASSUME ~NeedsRewrite(tag, written)
      PROVE  \A i \in DOMAIN written : Claim(i)
  <2>1. oa = written
    BY <1>5 DEF RewrittenTag, oa
  <2>2. \A i \in DOMAIN written : ~oa[i].via /\ ~Due(written[i])
    BY <1>1, <1>2, <1>5, <2>1
  <2> QED BY <2>1, <2>2
<1>6. ASSUME NeedsRewrite(tag, written)
      PROVE  \A i \in DOMAIN written : Claim(i)
  <2>1. oa = ApplyAttrReplacements(written, reps)
    BY <1>6 DEF RewrittenTag, oa, reps
  <2>0. PICK data \in BOOLEAN :
          data <=> \E i \in 1 .. Len(written) : written[i].name \in DOMAIN DataAttr
    OBVIOUS
  <2>4. none <=> ~data
    BY <1>2, <2>0
  <2>2. \A i \in 1 .. Len(written) : Became(written, reps, i, oa[i], data)
    <3> PICK R : R = reps
      OBVIOUS
    <3>1. /\ R \in SUBSET (1 .. Len(written))
          /\ \A j \in R : written[j].name \notin DOMAIN DataAttr
      BY <1>3, <1>4
    <3>2. \A i \in 1 .. Len(written) :
            Became(written, R, i, ApplyAttrReplacements(written, R)[i], data)
      BY ONLY <1>1, <2>0, <3>1, TagRewritten
    <3> QED BY <2>1, <3>2
  <2>3. ASSUME NEW i \in DOMAIN written PROVE Claim(i)
    <3> PICK b : b = oa[i]
      OBVIOUS
    <3>1. Became(written, reps, i, b, data)
      BY <1>2, <2>2
    <3>2. \A j \in reps : Due(written[j]) /\ j \in DOMAIN written
      BY <1>2, <1>3, <1>6
    <3>3. CASE Data(i)
      <4> SUFFICES ASSUME b # written[i]
                   PROVE  \E j \in DOMAIN written :
                            /\ written[j].name = DataAttr[written[i].name]
                            /\ Due(written[j])
                            /\ written[j].form # "plain" \/ written[j].link = written[i].link
        BY <3>3
      <4>1. PICK j \in reps :
              /\ EndsWith(written[i].name, written[j].name)
              /\ written[j].form # "plain" \/ written[j].link = written[i].link
        BY <3>1 DEF Became
      <4>2. written[j].name = DataAttr[written[i].name]
        BY <1>4, <3>3, <4>1 DEF EndsWith
      <4> QED BY <3>2, <4>1, <4>2
    <3>4. CASE ~Data(i)
      <4>1. \A j \in reps : EndsWith(written[i].name, written[j].name) => j = i
        BY <1>1, <1>2, <3>2, <3>4 DEF EndsWith
      <4>2. b # written[i] => i \in reps /\ b.link = written[i].link
        BY <3>1, <4>1 DEF Became
      <4>3. b.via => i \in reps
        BY <1>1, <1>2, <4>2
      <4>4. i \in reps <=> Due(written[i])
        BY <1>2, <1>3, <1>6
      <4>5. none => (b.via <=> i \in reps /\ written[i].form \in {"plain", "entity"})
        BY <2>4, <3>1, <4>3 DEF Became
      <4> QED BY <3>4, <4>2, <4>3, <4>4, <4>5
    <3> QED BY <3>3, <3>4
  <2> QED BY <2>3
<1>7. \A i \in DOMAIN written : Claim(i)
  BY <1>5, <1>6
<1> QED BY <1>1, <1>7 DEF LinksRewritten

\* Rewriting a tag changes its links and nothing else, with the exceptions
\* LinksRewritten names, for every tag, every set of links and any number of
\* attributes; html.go:252.
THEOREM OnlyLinksChangeCorrect == ProbeSpec => []OnlyLinksChange
<1>1. ProbeInv => OnlyLinksChange
  <2> SUFFICES ASSUME ProbeInv, probe.fn = "html" PROVE LinksRewritten(probe)
    BY DEF OnlyLinksChange
  <2>1. probe \in HtmlProbes
    BY ProbeKinds
  <2> QED BY <2>1, AllLinksRewritten
<1> QED BY <1>1, ProbesStay, PTL
-----------------------------------------------------------------------------
(* The runtime of a page, on pages of any tokens and any length.           *)

\* The first place of one of the tags, 0 if there is none.
LEMMA FirstOfIs ==
  ASSUME NEW X, NEW page \in Seq(X), NEW tags, NEW k, k = FirstOf(page, tags)
  PROVE  \/ k = 0 /\ \A i \in 1 .. Len(page) : page[i].tag \notin tags
         \/ /\ k \in 1 .. Len(page) /\ page[k].tag \in tags
            /\ \A i \in 1 .. k - 1 : page[i].tag \notin tags
<1> DEFINE I == {i \in 1 .. Len(page) : page[i].tag \in tags}
<1>1. k = IF I # {} THEN Min(I) ELSE 0
  BY DEF FirstOf, SelectInSeq
<1>2. CASE I # {}
  <2>1. I \in SUBSET Nat
    OBVIOUS
  <2> HIDE DEF I
  <2>2. \E n \in I : \A m \in I : n <= m
    BY <1>2, <2>1, Smallest
  <2>3. Min(I) \in I /\ \A m \in I : Min(I) <= m
    BY <2>2 DEF Min
  <2>4. k \in I /\ \A m \in I : k <= m
    BY <1>1, <1>2, <2>3
  <2> QED BY <2>4 DEF I
<1> QED BY <1>1, <1>2

\* The page with one token more, behind its first tokens.
PutIn(page, out, at, t) ==
  /\ Len(out) = Len(page) + 1
  /\ \A i \in 1 .. at : out[i] = page[i]
  /\ out[at + 1] = t
  /\ \A i \in at + 1 .. Len(page) : out[i + 1] = page[i]

LEMMA ConcatIs ==
  ASSUME NEW X, NEW s \in Seq(X), NEW t \in Seq(X)
  PROVE  /\ s \o t \in Seq(X) /\ Len(s \o t) = Len(s) + Len(t)
         /\ \A i \in 1 .. Len(s) : (s \o t)[i] = s[i]
         /\ \A i \in 1 .. Len(t) : (s \o t)[Len(s) + i] = t[i]
<1>1. Len(s) \in Nat /\ Len(t) \in Nat
  OBVIOUS
<1>2. s \o t \in Seq(X) /\ Len(s \o t) = Len(s) + Len(t)
  OBVIOUS
<1>3. ASSUME NEW i \in 1 .. Len(s) PROVE (s \o t)[i] = s[i]
  BY <1>1
<1>4. ASSUME NEW i \in 1 .. Len(t) PROVE (s \o t)[Len(s) + i] = t[i]
  BY <1>1
<1> QED BY <1>2, <1>3, <1>4

LEMMA PutPutsIn ==
  ASSUME NEW X, NEW page \in Seq(X), NEW t \in X, NEW at \in 0 .. Len(page)
  PROVE  PutIn(page, Put(page, at, <<t>>), at, t)
<1> DEFINE n == Len(page)
           left == SubSeq(page, 1, at)
           right == SubSeq(page, at + 1, n)
           out == Put(page, at, <<t>>)
<1>1. n \in Nat /\ at \in Nat /\ at <= n
  OBVIOUS
<1>2. left \in Seq(X) /\ Len(left) = at /\ \A i \in 1 .. at : left[i] = page[i]
  BY <1>1
<1>3. right \in Seq(X) /\ Len(right) = n - at /\ \A i \in 1 .. n - at : right[i] = page[at + i]
  BY <1>1
<1>4. PICK mid : mid = <<t>>
  OBVIOUS
<1>5. mid \in Seq(X) /\ Len(mid) = 1 /\ mid[1] = t
  BY <1>4
<1>6. out = (left \o mid) \o right
  BY <1>4 DEF Put
<1> HIDE DEF left, right, out
<1>7. PICK both : both = left \o mid
  OBVIOUS
<1>8. /\ both \in Seq(X) /\ Len(both) = at + 1
      /\ \A i \in 1 .. at : both[i] = left[i]
      /\ \A i \in 1 .. 1 : both[at + i] = mid[i]
  <2> left \in Seq(X) /\ mid \in Seq(X)
    BY <1>2, <1>5
  <2>1. /\ both \in Seq(X) /\ Len(both) = Len(left) + Len(mid)
        /\ \A i \in 1 .. Len(left) : both[i] = left[i]
        /\ \A i \in 1 .. Len(mid) : both[Len(left) + i] = mid[i]
    BY <1>7, ConcatIs
  <2> QED BY <1>2, <1>5, <2>1
<1>9. /\ Len(out) = (at + 1) + (n - at)
      /\ \A i \in 1 .. at + 1 : out[i] = both[i]
      /\ \A i \in 1 .. n - at : out[(at + 1) + i] = right[i]
  <2> both \in Seq(X) /\ right \in Seq(X)
    BY <1>3, <1>8
  <2>1. /\ Len(out) = Len(both) + Len(right)
        /\ \A i \in 1 .. Len(both) : out[i] = both[i]
        /\ \A i \in 1 .. Len(right) : out[Len(both) + i] = right[i]
    BY <1>6, <1>7, ConcatIs
  <2> QED BY <1>3, <1>8, <2>1
<1> HIDE DEF n
<1>10. Len(out) = n + 1
  BY <1>1, <1>9
<1>11. \A i \in 1 .. at : out[i] = page[i]
  BY <1>1, <1>2, <1>8, <1>9
<1>12. out[at + 1] = t
  BY <1>1, <1>5, <1>8, <1>9
<1>13. ASSUME NEW i \in at + 1 .. n PROVE out[i + 1] = page[i]
  <2>1. i - at \in 1 .. n - at /\ at + (i - at) = i /\ (at + 1) + (i - at) = i + 1
    BY <1>1
  <2> QED BY <1>3, <1>9, <2>1
<1> QED BY <1>10, <1>11, <1>12, <1>13 DEF PutIn, out, n

\* InjectRuntime puts the runtime into any page once and leaves everything else as
\* it is, in its order; and where what addons put in stands behind an opening head,
\* the runtime precedes all of it, as rewriter.go promises.
THEOREM RuntimeFirst ==
  ASSUME NEW X, NEW page \in Seq(X), Token("script", Runtime) \in X
  PROVE  \E at \in 0 .. Len(page) :
           /\ PutIn(page, InjectRuntime(page), at, Token("script", Runtime))
           /\ (\A i \in 1 .. Len(page) :
                 page[i].by # 0 => \E k \in 1 .. i - 1 : page[k].tag \in HeadOpen)
                => \A i \in 1 .. at : page[i].by = 0
<1> DEFINE runtime == Token("script", Runtime)
           head == FirstOf(page, HeadOpen)
           Behind == \A i \in 1 .. Len(page) :
                       page[i].by # 0 => \E k \in 1 .. i - 1 : page[k].tag \in HeadOpen
           Landing(at) == /\ PutIn(page, InjectRuntime(page), at, runtime)
                          /\ Behind => \A i \in 1 .. at : page[i].by = 0
<1>1. Len(page) \in Nat
  OBVIOUS
<1>2. ASSUME NEW tags, NEW k, k = FirstOf(page, tags), k # 0
      PROVE  k \in 0 .. Len(page) /\ k - 1 \in 0 .. Len(page)
  <2>1. k \in 1 .. Len(page)
    BY <1>2, FirstOfIs
  <2> QED BY <1>1, <2>1
<1>3. CASE head # 0
  <2>1. head \in 0 .. Len(page) /\ \A i \in 1 .. head - 1 : page[i].tag \notin HeadOpen
    BY <1>1, <1>3, FirstOfIs
  <2>2. InjectRuntime(page) = Put(page, head, <<runtime>>)
    BY <1>3 DEF InjectRuntime
  <2> HIDE DEF head, runtime
  <2>3. PutIn(page, InjectRuntime(page), head, runtime)
    BY <2>1, <2>2, PutPutsIn DEF runtime
  <2>4. ASSUME Behind, NEW i \in 1 .. head PROVE page[i].by = 0
    <3>1. i \in 1 .. Len(page) /\ \A k \in 1 .. i - 1 : k \in 1 .. head - 1
      BY <1>1, <2>1
    <3> QED BY <2>1, <2>4, <3>1
  <2> QED BY <2>1, <2>3, <2>4 DEF runtime
<1>4. CASE head = 0
  <2>1. \A i \in 1 .. Len(page) : page[i].tag \notin HeadOpen
    BY <1>1, <1>4, FirstOfIs
  <2>2. Behind => \A i \in 1 .. Len(page) : page[i].by = 0
    <3> SUFFICES ASSUME Behind, NEW i \in 1 .. Len(page), page[i].by # 0 PROVE FALSE
      OBVIOUS
    <3>1. \A k \in 1 .. i - 1 : k \in 1 .. Len(page)
      BY <1>1
    <3> QED BY <2>1, <3>1
  <2>3. \E at \in 0 .. Len(page) : PutIn(page, InjectRuntime(page), at, runtime)
    <3> DEFINE ending == FirstOf(page, {"/head"})
               html == FirstOf(page, {"html"})
               body == FirstOf(page, {"body"})
    <3>1. InjectRuntime(page) =
            IF ending # 0 THEN Put(page, ending - 1, <<runtime>>)
            ELSE IF html # 0 THEN Put(page, html, <<runtime>>)
            ELSE IF body # 0 THEN Put(page, body - 1, <<runtime>>)
            ELSE <<runtime>> \o page
      BY <1>4 DEF InjectRuntime
    <3>2. /\ ending # 0 => ending - 1 \in 0 .. Len(page)
          /\ html # 0 => html \in 0 .. Len(page)
          /\ body # 0 => body - 1 \in 0 .. Len(page)
      BY <1>2
    <3> HIDE DEF ending, html, body, runtime
    <3>3. \A at \in 0 .. Len(page) : PutIn(page, Put(page, at, <<runtime>>), at, runtime)
      BY PutPutsIn DEF runtime
    <3>4. PutIn(page, <<runtime>> \o page, 0, runtime)
      BY <1>1 DEF PutIn
    <3>5. 0 \in 0 .. Len(page)
      BY <1>1
    <3> QED BY <3>1, <3>2, <3>3, <3>4, <3>5
  <2> HIDE DEF runtime
  <2>4. PICK at \in 0 .. Len(page) : PutIn(page, InjectRuntime(page), at, runtime)
    BY <2>3
  <2>5. \A i \in 1 .. at : i \in 1 .. Len(page)
    BY <1>1
  <2>6. Landing(at)
    BY <2>2, <2>4, <2>5
  <2> QED BY <2>6 DEF runtime
<1> QED BY <1>3, <1>4
=============================================================================
