---------------------------- MODULE ResponseCache ----------------------------
(***************************************************************************)
(* The response cache (internal/cache/cache.go): a list in order of use and*)
(* a map of the same entries under one mutex, a channel of writes with one *)
(* goroutine that applies them, lifetimes, resizing, and Close.            *)
(*                                                                         *)
(* A response is its version (the order in which handlers offered it), its *)
(* size and the time until which it is fresh; headers and body stay        *)
(* abstract.                                                               *)
(***************************************************************************)
EXTENDS Integers, Sequences, SequencesExt, FiniteSetsExt

CONSTANTS
  Keys,       \* schema, host and request URI
  Sizes,      \* sizes of responses
  MaxSize,    \* the configured limit
  Limits,     \* values Resize is called with
  Lifetimes,  \* extractTTLFromHeader, with its default applied; negative: do not store
  Resizers,   \* goroutines that call Resize
  ChanCap,    \* capacity of writeCh (4096 in the code)
  MaxOffers,  \* bound on the responses offered, for model checking
  MaxTime,    \* bound on the clock, for model checking
  None

ASSUME SizesAssumption == Sizes \subseteq Nat \ {0}
ASSUME LimitsAssumption == {MaxSize} \cup Limits \subseteq Nat \ {0}
ASSUME LifetimesAssumption == Lifetimes \subseteq Int
ASSUME ChanCapAssumption == ChanCap \in Nat
ASSUME BoundsAssumption == MaxOffers \in Nat /\ MaxTime \in Nat

Versions == 1 .. MaxOffers
Responses == [ver : Versions, size : Sizes, until : Nat]
Writes == [key : Keys, ver : Versions, size : Sizes, ttl : Lifetimes]

ASSUME NoneAssumption == None \notin Responses /\ None \notin {MaxSize} \cup Limits

VARIABLES
  items,    \* the map, with the entry its list element points to: key -> response or None
  lru,      \* the list, most recent first, as keys
  curSize,
  maxSize,
  writeCh,
  phase,    \* "open", "closing" once writeCh is closed, "closed" once writeLoop is done
  resizing, \* resizer -> the limit it stored and has yet to evict for, or None
  now,
  offers,   \* number of responses offered so far
  answer,   \* what the last Get returned
  offered,  \* history: key -> versions offered
  seen,     \* history: key -> the latest version Get returned
  recent    \* history: the keys in order of their last write or hit

vars == <<items, lru, curSize, maxSize, writeCh, phase, resizing, now, offers, answer,
          offered, seen, recent>>

-----------------------------------------------------------------------------
\* The list without a key; a list holds a key once at most.
Without(s, k) == IF k \in ToSet(s) THEN RemoveAt(s, CHOOSE i \in DOMAIN s : s[i] = k) ELSE s

ToFront(s, k) == <<k>> \o Without(s, k)

\* removeElement, on the three parts of the cache.
Removed(c, k) ==
  [items |-> [c.items EXCEPT ![k] = None],
   lru   |-> Without(c.lru, k),
   size  |-> c.size - c.items[k].size]

Cache == [items |-> items, lru |-> lru, size |-> curSize]

Becomes(c) == items' = c.items /\ lru' = c.lru /\ curSize' = c.size

SizeOf(entries, keys) == MapThenSumSet(LAMBDA k : entries[k].size, keys)

\* Mutant: the most recent elements go.
KeptLast(c, n) ==
  LET gone == ToSet(SubSeq(c.lru, 1, Len(c.lru) - n))
  IN [items |-> [k \in Keys |-> IF k \in gone THEN None ELSE c.items[k]],
      lru   |-> SubSeq(c.lru, Len(c.lru) - n + 1, Len(c.lru)),
      size  |-> c.size - SizeOf(c.items, gone)]

\* The cache when all but the first n elements are removed.
Kept(c, n) ==
  LET gone == ToSet(SubSeq(c.lru, n + 1, Len(c.lru)))
  IN [items |-> [k \in Keys |-> IF k \in gone THEN None ELSE c.items[k]],
      lru   |-> SubSeq(c.lru, 1, n),
      size  |-> c.size - SizeOf(c.items, gone)]

\* The eviction loops: the last element goes while the list is not empty and need
\* more bytes do not fit into the limit.  They stop at the first stage that fits.
Evicted(c, need, limit) ==
  LET Fits(d) == d.lru = <<>> \/ d.size + need <= limit
      Stages == {Kept(c, n) : n \in 0 .. Len(c.lru)}
  IN CHOOSE d \in Stages : /\ Fits(d)
                           /\ \A e \in Stages : Len(e.lru) > Len(d.lru) => ~Fits(e)

\* Mutant: the size of a replaced entry is not given back.
ClearedKeepingSize(c, k) == [c EXCEPT !.lru = Without(@, k), !.items[k] = None]

\* setLocked, after the lifetime is known: the old entry goes, room is made, ...
Cleared(c, k) == IF c.items[k] # None THEN Removed(c, k) ELSE c

\* ... and the new one is pushed to the front, however large it is.
Inserted(c, w) ==
  [items |-> [c.items EXCEPT ![w.key] = [ver |-> w.ver, size |-> w.size, until |-> now + w.ttl]],
   lru   |-> <<w.key>> \o c.lru,
   size  |-> c.size + w.size]

-----------------------------------------------------------------------------
\* SetAsync: a full channel drops the write.  (On a closed channel it panics; then
\* the cache does not change.)
SetAsync(k, size, ttl) ==
  /\ offers < MaxOffers
  /\ phase = "open"
  /\ offers' = offers + 1
  /\ offered' = [offered EXCEPT ![k] = @ \cup {offers'}]
  /\ writeCh' = IF Len(writeCh) < ChanCap
                  THEN Append(writeCh, [key |-> k, ver |-> offers', size |-> size, ttl |-> ttl])
                  ELSE writeCh
  /\ UNCHANGED <<items, lru, curSize, maxSize, phase, resizing, now, answer, seen, recent>>

\* Mutant: a response that must not be stored ends the loop.
WriteUntilNoStore ==
  /\ writeCh # <<>>
  /\ Head(writeCh).ttl >= 0
  /\ \E c \in {Cleared(Cache, Head(writeCh).key)} :
       \E d \in {Evicted(c, Head(writeCh).size, maxSize)} : Becomes(Inserted(d, Head(writeCh)))
  /\ recent' = ToFront(recent, Head(writeCh).key)
  /\ writeCh' = Tail(writeCh)
  /\ UNCHANGED <<maxSize, phase, resizing, now, offers, answer, offered, seen>>

\* writeLoop takes a write and setLocked applies it.
Write ==
  /\ writeCh # <<>>
  /\ LET w == Head(writeCh)
     IN \/ /\ w.ttl < 0
           /\ UNCHANGED <<items, lru, curSize, recent>>
        \/ /\ w.ttl >= 0
           /\ \E c \in {Cleared(Cache, w.key)} :
                \E d \in {Evicted(c, w.size, maxSize)} : Becomes(Inserted(d, w))
           /\ recent' = ToFront(recent, w.key)
  /\ writeCh' = Tail(writeCh)
  /\ UNCHANGED <<maxSize, phase, resizing, now, offers, answer, offered, seen>>

Expired(k) == now > items[k].until

\* Mutant: expiry is looked at by the writer only.
GetAny(k) ==
  /\ IF items[k] = None
       THEN /\ answer' = None
            /\ UNCHANGED <<items, lru, curSize, seen, recent>>
       ELSE /\ answer' = items[k]
            /\ lru' = ToFront(lru, k)
            /\ recent' = ToFront(recent, k)
            /\ seen' = [seen EXCEPT ![k] = items[k].ver]
            /\ UNCHANGED <<items, curSize>>
  /\ UNCHANGED <<maxSize, writeCh, phase, resizing, now, offers, offered>>

\* Get: an entry past its lifetime is removed, a hit becomes the most recent.
Get(k) ==
  /\ \/ /\ items[k] = None
        /\ answer' = None
        /\ UNCHANGED <<items, lru, curSize, seen, recent>>
     \/ /\ items[k] # None
        /\ Expired(k)
        /\ answer' = None
        /\ Becomes(Removed(Cache, k))
        /\ UNCHANGED <<seen, recent>>
     \/ /\ items[k] # None
        /\ ~Expired(k)
        /\ answer' = items[k]
        /\ lru' = ToFront(lru, k)
        /\ recent' = ToFront(recent, k)
        /\ seen' = [seen EXCEPT ![k] = items[k].ver]
        /\ UNCHANGED <<items, curSize>>
  /\ UNCHANGED <<maxSize, writeCh, phase, resizing, now, offers, offered>>

\* Resize stores the limit without the mutex ...
ResizeStore(r, limit) ==
  /\ resizing[r] = None
  /\ maxSize' = limit
  /\ resizing' = [resizing EXCEPT ![r] = limit]
  /\ UNCHANGED <<items, lru, curSize, writeCh, phase, now, offers, answer, offered, seen, recent>>

\* ... and evicts, for the limit it was given, with it.
ResizeEvict(r) ==
  /\ resizing[r] # None
  /\ Becomes(Evicted(Cache, 0, resizing[r]))
  /\ resizing' = [resizing EXCEPT ![r] = None]
  /\ UNCHANGED <<maxSize, writeCh, phase, now, offers, answer, offered, seen, recent>>

\* Close closes the channel and waits for writeLoop, which ends when it is empty.
Close ==
  /\ phase = "open"
  /\ phase' = "closing"
  /\ UNCHANGED <<items, lru, curSize, maxSize, writeCh, resizing, now, offers, answer, offered, seen, recent>>

CloseDone ==
  /\ phase = "closing"
  /\ writeCh = <<>>
  /\ phase' = "closed"
  /\ UNCHANGED <<items, lru, curSize, maxSize, writeCh, resizing, now, offers, answer, offered, seen, recent>>

Tick ==
  /\ now < MaxTime
  /\ now' = now + 1
  /\ UNCHANGED <<items, lru, curSize, maxSize, writeCh, phase, resizing, offers, answer, offered, seen, recent>>

-----------------------------------------------------------------------------
Init ==
  /\ items = [k \in Keys |-> None]
  /\ lru = <<>>
  /\ curSize = 0
  /\ maxSize = MaxSize
  /\ writeCh = <<>>
  /\ phase = "open"
  /\ resizing = [r \in Resizers |-> None]
  /\ now = 0
  /\ offers = 0
  /\ answer = None
  /\ offered = [k \in Keys |-> {}]
  /\ seen = [k \in Keys |-> 0]
  /\ recent = <<>>

Next ==
  \/ \E k \in Keys, size \in Sizes, ttl \in Lifetimes : SetAsync(k, size, ttl)
  \/ Write
  \/ \E k \in Keys : Get(k)
  \/ \E r \in Resizers, limit \in Limits : ResizeStore(r, limit)
  \/ \E r \in Resizers : ResizeEvict(r)
  \/ Close
  \/ CloseDone
  \/ Tick

Spec == Init /\ [][Next]_vars /\ WF_vars(Write) /\ WF_vars(CloseDone)

-----------------------------------------------------------------------------
Stored == {k \in Keys : items[k] # None}

\* Every variable has its type.
TypeOK ==
  /\ items \in [Keys -> Responses \cup {None}]
  /\ lru \in Seq(Keys)
  /\ curSize \in Int
  /\ maxSize \in {MaxSize} \cup Limits
  /\ writeCh \in Seq(Writes) /\ Len(writeCh) <= ChanCap
  /\ phase \in {"open", "closing", "closed"}
  /\ resizing \in [Resizers -> Limits \cup {None}]
  /\ now \in 0 .. MaxTime
  /\ offers \in 0 .. MaxOffers
  /\ answer \in Responses \cup {None}
  /\ offered \in [Keys -> SUBSET Versions]
  /\ seen \in [Keys -> 0 .. MaxOffers]
  /\ recent \in Seq(Keys)

\* The list, the map and the byte count describe the same entries after every
\* mixture of writes, hits, expiries and evictions; and the limit holds whenever
\* no Resize is between its two halves, except that a single entry may exceed it.
Accounted ==
  /\ ToSet(lru) = Stored
  /\ IsInjective(lru)
  /\ curSize = SizeOf(items, Stored)
  /\ (\A r \in Resizers : resizing[r] = None) => curSize <= maxSize \/ Len(lru) = 1

\* Making room drops the least recently used entries only: what a write or a resize
\* drops was used before everything it keeps.
EvictsLeastRecent ==
  [][writeCh' # writeCh \/ resizing' # resizing =>
       \A k, l \in Stored :
         k \notin ToSet(lru') /\ l \in ToSet(lru') /\ items'[l] = items[l]
           => \E i, j \in 1 .. Len(recent) : i < j /\ recent[i] = l /\ recent[j] = k]_vars

\* Close returns.
CloseReturns == phase = "closing" ~> phase = "closed"

\* The cache keeps the promises of CacheSpec.
Abstract == INSTANCE CacheSpec WITH store <- items, offered <- offered, seen <- seen,
                                    answer <- answer, now <- now

Promises == Abstract!Spec
=============================================================================
