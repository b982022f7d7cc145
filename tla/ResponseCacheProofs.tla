-------------------------- MODULE ResponseCacheProofs --------------------------
(***************************************************************************)
(* What ResponseCache keeps for any keys, sizes, limits and lifetimes, any *)
(* capacity of the channel and any number of goroutines that resize; and   *)
(* that it implements CacheSpec.                                           *)
(***************************************************************************)
EXTENDS ResponseCache, FiniteSetTheorems, WellFoundedInduction, SequenceTheorems, TLAPS

-----------------------------------------------------------------------------
(* Sums of sizes.                                                          *)

\* Induction on the subsets of a finite set; T is the set of those a claim holds for.
LEMMA SubsetInduction ==
  ASSUME NEW S, IsFiniteSet(S), NEW T,
         \A s \in SUBSET S : (\A t \in SUBSET s : t # s => t \in T) => s \in T
  PROVE  S \in T
<1> DEFINE Less == StrictSubsetOrdering(S)
           Bad == (SUBSET S) \ T
<1>1. IsWellFoundedOn(Less, SUBSET S)
  BY FS_StrictSubsetOrderingWellFounded, FS_FiniteSubsetsOfFinite
<1>2. Bad = {}
  <2> SUFFICES ASSUME Bad # {} PROVE FALSE
    OBVIOUS
  <2>0. Bad \subseteq SUBSET S
    OBVIOUS
  <2> HIDE DEF Less, Bad
  <2>1. PICK s \in Bad : \A t \in Bad : ~(<<t, s>> \in Less)
    BY <1>1, <2>0, WFMin
  <2>2. s \in SUBSET S /\ s \notin T
    BY DEF Bad
  <2>3. ASSUME NEW t \in SUBSET s, t # s PROVE t \in T
    <3>1. t \in SUBSET S /\ <<t, s>> \in Less
      BY <2>2, <2>3 DEF Less, StrictSubsetOrdering
    <3> QED
      BY <2>1, <3>1 DEF Bad
  <2> QED
    BY <2>2, <2>3
<1> QED
  BY <1>2

\* One step of the sum: an element is taken, and the rest summed.
Chosen(s) == CHOOSE x \in s : TRUE

SumStep(entries, s, rest) == IF s = {} THEN 0 ELSE entries[Chosen(s)].size + rest[s \ {Chosen(s)}]

Sums(g, entries, S) == g = [s \in SUBSET S |-> SumStep(entries, s, g)]

LEMMA SizeOfIsSum ==
  ASSUME NEW entries, NEW S, NEW g, Sums(g, entries, S)
  PROVE  \E h : Sums(h, entries, S) /\ SizeOf(entries, S) = h[S]
BY DEF SizeOf, MapThenSumSet, MapThenFoldSet, Sums, SumStep, Chosen

\* The sum exists, and does not depend on the set it is computed in.
LEMMA SizeOfStep ==
  ASSUME NEW entries, NEW S, IsFiniteSet(S)
  PROVE  SizeOf(entries, S) = IF S = {} THEN 0
                              ELSE entries[Chosen(S)].size + SizeOf(entries, S \ {Chosen(S)})
<1> DEFINE Rest(s) == IF s = {} THEN 0
                      ELSE entries[Chosen(s)].size + SizeOf(entries, s \ {Chosen(s)})
           T == {s \in SUBSET S : SizeOf(entries, s) = Rest(s)}
<1>1. ASSUME NEW s \in SUBSET S, \A t \in SUBSET s : t # s => t \in T
      PROVE  s \in T
  <2> DEFINE g == [t \in SUBSET s |-> Rest(t)]
  <2>1. \A t \in SUBSET s : t # {} => Chosen(t) \in t
    BY DEF Chosen
  <2>2. \A t \in SUBSET s : t # {} => g[t \ {Chosen(t)}] = SizeOf(entries, t \ {Chosen(t)})
    BY <1>1, <2>1
  <2>3. Sums(g, entries, s)
    BY <2>2 DEF Sums, SumStep
  <2> HIDE DEF g
  <2>4. PICK h : Sums(h, entries, s) /\ SizeOf(entries, s) = h[s]
    BY <2>3, SizeOfIsSum
  <2>5. \A t \in SUBSET s : h[t] = SumStep(entries, t, h)
    BY <2>4 DEF Sums
  <2> DEFINE U == {t \in SUBSET s : t # s => h[t] = SizeOf(entries, t)}
  <2>6. ASSUME NEW t \in SUBSET s, \A u \in SUBSET t : u # t => u \in U
        PROVE  t \in U
    <3> SUFFICES ASSUME t # s PROVE h[t] = SizeOf(entries, t)
      OBVIOUS
    <3>1. SizeOf(entries, t) = Rest(t)
      BY <1>1
    <3>2. t # {} => t \ {Chosen(t)} \in U /\ t \ {Chosen(t)} # s
      BY <2>1, <2>6
    <3> QED
      BY <2>5, <3>1, <3>2 DEF SumStep
  <2>7. \A t \in SUBSET s : t # s => h[t] = SizeOf(entries, t)
    <3> TAKE t \in SUBSET s
    <3>1. IsFiniteSet(t)
      BY FS_Subset
    <3> HIDE DEF U
    <3>2. t \in U
      BY <2>6, <3>1, SubsetInduction
    <3> QED
      BY <3>2 DEF U
  <2>8. s # {} => h[s \ {Chosen(s)}] = SizeOf(entries, s \ {Chosen(s)})
    BY <2>1, <2>7
  <2> QED
    BY <2>4, <2>5, <2>8 DEF SumStep
<1> HIDE DEF T
<1>2. S \in T
  BY <1>1, SubsetInduction
<1> QED
  BY <1>2 DEF T

Sized(entries, S) == \A k \in S : entries[k].size \in Nat

LEMMA SizeOfType ==
  ASSUME NEW entries, NEW S, IsFiniteSet(S), Sized(entries, S)
  PROVE  SizeOf(entries, S) \in Nat
<1> DEFINE T == {s \in SUBSET S : SizeOf(entries, s) \in Nat}
<1>1. ASSUME NEW s \in SUBSET S, \A t \in SUBSET s : t # s => t \in T
      PROVE  s \in T
  <2>1. IsFiniteSet(s)
    BY FS_Subset
  <2>2. s # {} => Chosen(s) \in s
    BY DEF Chosen
  <2>3. s # {} => SizeOf(entries, s \ {Chosen(s)}) \in Nat /\ entries[Chosen(s)].size \in Nat
    BY <1>1, <2>2 DEF Sized
  <2>4. SizeOf(entries, s) = IF s = {} THEN 0
                             ELSE entries[Chosen(s)].size + SizeOf(entries, s \ {Chosen(s)})
    BY <2>1, SizeOfStep
  <2> QED
    BY <2>3, <2>4
<1> HIDE DEF T
<1>2. S \in T
  BY <1>1, SubsetInduction
<1> QED
  BY <1>2 DEF T

\* Any element may be taken first.
LEMMA SizeOfRemove ==
  ASSUME NEW entries, NEW S, IsFiniteSet(S), Sized(entries, S), NEW k \in S
  PROVE  SizeOf(entries, S) = entries[k].size + SizeOf(entries, S \ {k})
<1> DEFINE T == {s \in SUBSET S : \A x \in s : SizeOf(entries, s) = entries[x].size + SizeOf(entries, s \ {x})}
<1>1. ASSUME NEW s \in SUBSET S, \A t \in SUBSET s : t # s => t \in T
      PROVE  s \in T
  <2> SUFFICES ASSUME NEW x \in s
               PROVE  SizeOf(entries, s) = entries[x].size + SizeOf(entries, s \ {x})
    OBVIOUS
  <2> DEFINE c == Chosen(s)
  <2>1. c \in s
    BY DEF Chosen
  <2>2. IsFiniteSet(s) /\ IsFiniteSet(s \ {x}) /\ IsFiniteSet(s \ {c}) /\ IsFiniteSet((s \ {x}) \ {c})
    BY FS_Subset
  <2>3. SizeOf(entries, s) = entries[c].size + SizeOf(entries, s \ {c})
    BY <2>2, SizeOfStep
  <2>4. entries[x].size \in Nat /\ entries[c].size \in Nat
    BY <2>1 DEF Sized
  <2> HIDE DEF c
  <2>5. CASE x = c
    BY <2>3, <2>5
  <2>6. CASE x # c
    <3>1. SizeOf(entries, s \ {c}) = entries[x].size + SizeOf(entries, (s \ {c}) \ {x})
      BY <1>1, <2>1, <2>6
    <3>2. SizeOf(entries, s \ {x}) = entries[c].size + SizeOf(entries, (s \ {x}) \ {c})
      BY <1>1, <2>1, <2>6
    <3>3. (s \ {c}) \ {x} = (s \ {x}) \ {c}
      OBVIOUS
    <3>4. SizeOf(entries, (s \ {x}) \ {c}) \in Nat
      BY <2>2, SizeOfType DEF Sized
    <3> QED
      BY <2>3, <2>4, <3>1, <3>2, <3>3, <3>4
  <2> QED
    BY <2>5, <2>6
<1> HIDE DEF T
<1>2. S \in T
  BY <1>1, SubsetInduction
<1> QED
  BY <1>2 DEF T

\* Only the sizes of the summed elements count.
LEMMA SizeOfSame ==
  ASSUME NEW entries, NEW others, NEW S, IsFiniteSet(S), Sized(entries, S),
         \A k \in S : others[k].size = entries[k].size
  PROVE  SizeOf(others, S) = SizeOf(entries, S)
<1> DEFINE T == {s \in SUBSET S : SizeOf(others, s) = SizeOf(entries, s)}
<1>1. ASSUME NEW s \in SUBSET S, \A t \in SUBSET s : t # s => t \in T
      PROVE  s \in T
  <2>1. IsFiniteSet(s)
    BY FS_Subset
  <2>2. s # {} => Chosen(s) \in s
    BY DEF Chosen
  <2>3. s # {} => /\ SizeOf(others, s \ {Chosen(s)}) = SizeOf(entries, s \ {Chosen(s)})
                  /\ others[Chosen(s)].size = entries[Chosen(s)].size
    BY <1>1, <2>2
  <2>4. /\ SizeOf(entries, s) = IF s = {} THEN 0
                                ELSE entries[Chosen(s)].size + SizeOf(entries, s \ {Chosen(s)})
        /\ SizeOf(others, s) = IF s = {} THEN 0
                               ELSE others[Chosen(s)].size + SizeOf(others, s \ {Chosen(s)})
    BY <2>1, SizeOfStep
  <2> QED
    BY <2>3, <2>4
<1> HIDE DEF T
<1>2. S \in T
  BY <1>1, SubsetInduction
<1> QED
  BY <1>2 DEF T

\* What is removed and what is kept add up.
LEMMA SizeOfSplit ==
  ASSUME NEW entries, NEW S, IsFiniteSet(S), Sized(entries, S), NEW A \in SUBSET S
  PROVE  SizeOf(entries, S) = SizeOf(entries, A) + SizeOf(entries, S \ A)
<1> DEFINE T == {s \in SUBSET A : SizeOf(entries, S) = SizeOf(entries, s) + SizeOf(entries, S \ s)}
<1>0. IsFiniteSet(A)
  BY FS_Subset
<1>1. ASSUME NEW s \in SUBSET A, \A t \in SUBSET s : t # s => t \in T
      PROVE  s \in T
  <2>1. CASE s = {}
    <3>1. S \ {} = S /\ SizeOf(entries, {}) = 0
      BY SizeOfStep, FS_EmptySet
    <3>2. SizeOf(entries, S) \in Nat
      BY SizeOfType
    <3> QED
      BY <2>1, <3>1, <3>2
  <2>2. CASE s # {}
    <3>1. PICK x \in s : TRUE
      BY <2>2
    <3>2. SizeOf(entries, S) = SizeOf(entries, s \ {x}) + SizeOf(entries, S \ (s \ {x}))
      BY <1>1
    <3>3. /\ IsFiniteSet(s) /\ IsFiniteSet(S \ (s \ {x})) /\ IsFiniteSet(s \ {x}) /\ IsFiniteSet(S \ s)
          /\ Sized(entries, s) /\ Sized(entries, S \ (s \ {x})) /\ Sized(entries, s \ {x}) /\ Sized(entries, S \ s)
          /\ entries[x].size \in Nat
      BY FS_Subset DEF Sized
    <3>4. SizeOf(entries, s) = entries[x].size + SizeOf(entries, s \ {x})
      BY <3>3, SizeOfRemove
    <3>5. SizeOf(entries, S \ (s \ {x})) = entries[x].size + SizeOf(entries, S \ s)
      <4>1. x \in S \ (s \ {x}) /\ (S \ (s \ {x})) \ {x} = S \ s
        OBVIOUS
      <4> QED
        BY <3>3, <4>1, SizeOfRemove
    <3>6. SizeOf(entries, s \ {x}) \in Nat /\ SizeOf(entries, S \ s) \in Nat
      BY <3>3, SizeOfType
    <3> QED
      BY <3>2, <3>3, <3>4, <3>5, <3>6
  <2> QED
    BY <2>1, <2>2
<1> HIDE DEF T
<1>2. A \in T
  BY <1>0, <1>1, SubsetInduction
<1> QED
  BY <1>2 DEF T

-----------------------------------------------------------------------------
(* Lists of keys.                                                          *)

\* x stands before y in a list.
Before(s, x, y) == \E i, j \in 1 .. Len(s) : i < j /\ s[i] = x /\ s[j] = y

\* A list of keys without repetitions.
KeyLists == {s \in Seq(Keys) : IsInjective(s)}

LEMMA RemoveAtElements ==
  ASSUME NEW s \in Seq(Keys), NEW i \in 1 .. Len(s)
  PROVE  /\ RemoveAt(s, i) \in Seq(Keys) /\ Len(RemoveAt(s, i)) = Len(s) - 1
         /\ \A j \in 1 .. Len(s) - 1 : RemoveAt(s, i)[j] = IF j < i THEN s[j] ELSE s[j + 1]
<1> DEFINE front == SubSeq(s, 1, i - 1)
           back == SubSeq(s, i + 1, Len(s))
<1>1. front \in Seq(Keys) /\ Len(front) = i - 1 /\ \A j \in 1 .. i - 1 : front[j] = s[j]
  OBVIOUS
<1>2. back \in Seq(Keys) /\ Len(back) = Len(s) - i /\ \A j \in 1 .. Len(s) - i : back[j] = s[i + j]
  OBVIOUS
<1>3. RemoveAt(s, i) = front \o back
  BY DEF RemoveAt
<1> HIDE DEF front, back
<1>4. /\ front \o back \in Seq(Keys) /\ Len(front \o back) = Len(front) + Len(back)
      /\ \A j \in 1 .. Len(front) + Len(back) :
           (front \o back)[j] = IF j <= Len(front) THEN front[j] ELSE back[j - Len(front)]
  BY <1>1, <1>2, ConcatProperties
<1>5. Len(s) \in Nat /\ Len(front) + Len(back) = Len(s) - 1
  BY <1>1, <1>2
<1>6. ASSUME NEW j \in 1 .. Len(s) - 1
      PROVE  (front \o back)[j] = IF j < i THEN s[j] ELSE s[j + 1]
  <2>1. CASE j < i
    <3>1. j \in 1 .. i - 1 /\ j <= Len(front) /\ j \in 1 .. Len(front) + Len(back)
      BY <1>1, <1>5, <2>1
    <3> QED
      BY <1>1, <1>4, <2>1, <3>1
  <2>2. CASE ~(j < i)
    <3>1. /\ j - (i - 1) \in 1 .. Len(s) - i /\ ~(j <= Len(front)) /\ j \in 1 .. Len(front) + Len(back)
          /\ i + (j - (i - 1)) = j + 1
      BY <1>1, <1>5, <2>2
    <3>2. (front \o back)[j] = back[j - (i - 1)]
      BY <1>1, <1>4, <3>1
    <3> QED
      BY <1>2, <2>2, <3>1, <3>2
  <2> QED
    BY <2>1, <2>2
<1> QED
  BY <1>3, <1>4, <1>5, <1>6

LEMMA WithoutList ==
  ASSUME NEW s \in KeyLists, NEW k
  PROVE  /\ Without(s, k) \in KeyLists
         /\ ToSet(Without(s, k)) = ToSet(s) \ {k}
         /\ Len(Without(s, k)) = IF k \in ToSet(s) THEN Len(s) - 1 ELSE Len(s)
         /\ \A x, y : Before(Without(s, k), x, y) <=> Before(s, x, y) /\ x # k /\ y # k
<1>1. s \in Seq(Keys) /\ Len(s) \in Nat /\ DOMAIN s = 1 .. Len(s)
  BY DEF KeyLists
<1>2. \A a, b \in 1 .. Len(s) : s[a] = s[b] => a = b
  BY <1>1 DEF KeyLists, IsInjective
<1>3. CASE k \notin ToSet(s)
  <2>1. \A a \in 1 .. Len(s) : s[a] # k
    BY <1>1, <1>3 DEF ToSet
  <2> QED
    BY <1>3, <2>1 DEF Without, Before
<1>4. CASE k \in ToSet(s)
  <2> DEFINE i == CHOOSE a \in DOMAIN s : s[a] = k
             r == RemoveAt(s, i)
  <2>1. i \in 1 .. Len(s) /\ s[i] = k
    BY <1>1, <1>4 DEF ToSet
  <2>2. Without(s, k) = r
    BY <1>4 DEF Without
  <2> HIDE DEF i
  <2>3. /\ r \in Seq(Keys) /\ Len(r) = Len(s) - 1
        /\ \A j \in 1 .. Len(s) - 1 : r[j] = IF j < i THEN s[j] ELSE s[j + 1]
    BY <1>1, <2>1, RemoveAtElements
  <2> HIDE DEF r
  <2>4. \A j \in 1 .. Len(s) - 1 : j + 1 \in 1 .. Len(s) /\ j \in 1 .. Len(s)
    BY <1>1
  <2>5. DOMAIN r = 1 .. Len(s) - 1
    BY <1>1, <2>3
  <2>6. IsInjective(r)
    BY <1>1, <1>2, <2>1, <2>3, <2>4, <2>5 DEF IsInjective
  \* Where each of the others is now.
  <2>7. ASSUME NEW a \in 1 .. Len(s), a # i
        PROVE  LET b == IF a < i THEN a ELSE a - 1
               IN b \in 1 .. Len(s) - 1 /\ r[b] = s[a]
    BY <1>1, <2>1, <2>3, <2>7
  <2>8. \A j \in 1 .. Len(s) - 1 : r[j] # k
    BY <1>1, <1>2, <2>1, <2>3, <2>4
  <2>9. ToSet(r) = ToSet(s) \ {k}
    <3>1. \A x \in ToSet(r) : x \in ToSet(s) \ {k}
      BY <1>1, <2>3, <2>4, <2>5, <2>8 DEF ToSet
    <3>2. ASSUME NEW x \in ToSet(s) \ {k} PROVE x \in ToSet(r)
      <4>1. PICK a \in 1 .. Len(s) : s[a] = x
        BY <1>1 DEF ToSet
      <4>2. a # i
        BY <2>1, <4>1
      <4> QED
        BY <2>5, <2>7, <4>1, <4>2 DEF ToSet
    <3> QED
      BY <3>1, <3>2
  <2>10. ASSUME NEW x, NEW y, Before(r, x, y) PROVE Before(s, x, y) /\ x # k /\ y # k
    <3>1. PICK a, b \in 1 .. Len(s) - 1 : a < b /\ r[a] = x /\ r[b] = y
      BY <2>3, <2>10 DEF Before
    <3> DEFINE at(j) == IF j < i THEN j ELSE j + 1
    <3>2. at(a) \in 1 .. Len(s) /\ at(b) \in 1 .. Len(s) /\ at(a) < at(b)
      BY <1>1, <2>1, <3>1
    <3>3. s[at(a)] = x /\ s[at(b)] = y
      BY <2>3, <3>1
    <3> HIDE DEF at
    <3> QED
      BY <2>8, <3>1, <3>2, <3>3 DEF Before
  <2>11. ASSUME NEW x, NEW y, Before(s, x, y), x # k, y # k PROVE Before(r, x, y)
    <3>1. PICK a, b \in 1 .. Len(s) : a < b /\ s[a] = x /\ s[b] = y
      BY <2>11 DEF Before
    <3> DEFINE at(j) == IF j < i THEN j ELSE j - 1
    <3>2. a # i /\ b # i
      BY <2>1, <2>11, <3>1
    <3>3. at(a) \in 1 .. Len(s) - 1 /\ r[at(a)] = x /\ at(b) \in 1 .. Len(s) - 1 /\ r[at(b)] = y
      BY <2>7, <3>1, <3>2
    <3>4. at(a) < at(b)
      BY <1>1, <2>1, <3>1, <3>2
    <3> HIDE DEF at
    <3> QED
      BY <2>3, <3>3, <3>4 DEF Before
  <2> QED
    BY <1>4, <2>2, <2>3, <2>6, <2>9, <2>10, <2>11 DEF KeyLists
<1> QED
  BY <1>3, <1>4

\* A key put in front of a list that does not have it.
LEMMA InFrontList ==
  ASSUME NEW s \in KeyLists, NEW k \in Keys, k \notin ToSet(s)
  PROVE  /\ <<k>> \o s \in KeyLists
         /\ ToSet(<<k>> \o s) = ToSet(s) \cup {k}
         /\ Len(<<k>> \o s) = Len(s) + 1
         /\ \A x, y : Before(<<k>> \o s, x, y) <=> (x = k /\ y \in ToSet(s)) \/ Before(s, x, y)
<1> DEFINE r == <<k>> \o s
<1>1. s \in Seq(Keys) /\ Len(s) \in Nat /\ DOMAIN s = 1 .. Len(s)
  BY DEF KeyLists
<1>2. <<k>> \in Seq(Keys) /\ Len(<<k>>) = 1 /\ <<k>>[1] = k
  OBVIOUS
<1>3. /\ r \in Seq(Keys) /\ Len(r) = Len(s) + 1
      /\ r[1] = k /\ \A j \in 1 .. Len(s) : r[j + 1] = s[j]
  <2>1. /\ r \in Seq(Keys) /\ Len(r) = 1 + Len(s)
        /\ \A j \in 1 .. 1 + Len(s) : r[j] = IF j <= 1 THEN <<k>>[j] ELSE s[j - 1]
    BY <1>1, <1>2, ConcatProperties
  <2> HIDE DEF r
  <2>2. r[1] = k
    BY <1>1, <1>2, <2>1
  <2>3. ASSUME NEW j \in 1 .. Len(s) PROVE r[j + 1] = s[j]
    <3>1. j + 1 \in 1 .. 1 + Len(s) /\ ~(j + 1 <= 1) /\ (j + 1) - 1 = j
      BY <1>1
    <3> QED
      BY <2>1, <3>1
  <2> QED
    BY <1>1, <2>1, <2>2, <2>3
<1> HIDE DEF r
<1>4. \A j \in 1 .. Len(s) : s[j] # k /\ s[j] \in ToSet(s)
  BY <1>1 DEF ToSet
<1>5. \A a, b \in 1 .. Len(s) : s[a] = s[b] => a = b
  BY <1>1 DEF KeyLists, IsInjective
<1>6. ASSUME NEW j \in 1 .. Len(s) + 1
      PROVE  j = 1 \/ (j - 1 \in 1 .. Len(s) /\ r[j] = s[j - 1])
  <2>1. j # 1 => j - 1 \in 1 .. Len(s) /\ (j - 1) + 1 = j
    BY <1>1
  <2> QED
    BY <1>3, <2>1
<1>7. DOMAIN r = 1 .. Len(s) + 1
  BY <1>1, <1>3
<1>8. IsInjective(r)
  <2> SUFFICES ASSUME NEW a \in 1 .. Len(s) + 1, NEW b \in 1 .. Len(s) + 1, r[a] = r[b] PROVE a = b
    BY <1>7 DEF IsInjective
  <2> QED
    BY <1>1, <1>3, <1>4, <1>5, <1>6
<1>9. ToSet(r) = ToSet(s) \cup {k}
  <2>1. \A x \in ToSet(r) : x \in ToSet(s) \cup {k}
    BY <1>3, <1>4, <1>6, <1>7 DEF ToSet
  <2>2. k \in ToSet(r)
    BY <1>1, <1>3, <1>7 DEF ToSet
  <2>3. ASSUME NEW x \in ToSet(s) PROVE x \in ToSet(r)
    <3>1. PICK j \in 1 .. Len(s) : s[j] = x
      BY <1>1 DEF ToSet
    <3>2. j + 1 \in 1 .. Len(s) + 1 /\ r[j + 1] = x
      BY <1>1, <1>3, <3>1
    <3> QED
      BY <1>7, <3>2 DEF ToSet
  <2> QED
    BY <2>1, <2>2, <2>3
<1>10. ASSUME NEW x, NEW y, Before(r, x, y) PROVE (x = k /\ y \in ToSet(s)) \/ Before(s, x, y)
  <2>1. PICK a, b \in 1 .. Len(s) + 1 : a < b /\ r[a] = x /\ r[b] = y
    BY <1>3, <1>10 DEF Before
  <2>2. b # 1 /\ b - 1 \in 1 .. Len(s) /\ y = s[b - 1]
    BY <1>1, <1>6, <2>1
  <2>3. CASE a = 1
    BY <1>3, <1>4, <2>1, <2>2, <2>3
  <2>4. CASE a # 1
    <3>1. a - 1 \in 1 .. Len(s) /\ x = s[a - 1] /\ a - 1 < b - 1
      BY <1>1, <1>6, <2>1, <2>4
    <3> QED
      BY <2>2, <3>1 DEF Before
  <2> QED
    BY <2>3, <2>4
<1>11. ASSUME NEW x, NEW y, (x = k /\ y \in ToSet(s)) \/ Before(s, x, y) PROVE Before(r, x, y)
  <2>1. CASE x = k /\ y \in ToSet(s)
    <3>1. PICK j \in 1 .. Len(s) : s[j] = y
      BY <1>1, <2>1 DEF ToSet
    <3>2. 1 \in 1 .. Len(s) + 1 /\ j + 1 \in 1 .. Len(s) + 1 /\ 1 < j + 1 /\ r[j + 1] = y
      BY <1>1, <1>3, <3>1
    <3> QED
      BY <1>3, <2>1, <3>2 DEF Before
  <2>2. CASE Before(s, x, y)
    <3>1. PICK a, b \in 1 .. Len(s) : a < b /\ s[a] = x /\ s[b] = y
      BY <2>2 DEF Before
    <3>2. /\ a + 1 \in 1 .. Len(s) + 1 /\ b + 1 \in 1 .. Len(s) + 1 /\ a + 1 < b + 1
          /\ r[a + 1] = x /\ r[b + 1] = y
      BY <1>1, <1>3, <3>1
    <3> QED
      BY <1>3, <3>2 DEF Before
  <2> QED
    BY <1>11, <2>1, <2>2
<1> QED
  BY <1>3, <1>8, <1>9, <1>10, <1>11 DEF KeyLists, r

LEMMA ToFrontList ==
  ASSUME NEW s \in KeyLists, NEW k \in Keys
  PROVE  /\ ToFront(s, k) \in KeyLists
         /\ ToSet(ToFront(s, k)) = ToSet(s) \cup {k}
         /\ Len(ToFront(s, k)) = IF k \in ToSet(s) THEN Len(s) ELSE Len(s) + 1
         /\ \A x, y : Before(ToFront(s, k), x, y) <=>
              (x = k /\ y \in ToSet(s) \ {k}) \/ (Before(s, x, y) /\ x # k /\ y # k)
<1>1. /\ Without(s, k) \in KeyLists /\ ToSet(Without(s, k)) = ToSet(s) \ {k}
      /\ Len(Without(s, k)) = IF k \in ToSet(s) THEN Len(s) - 1 ELSE Len(s)
      /\ \A x, y : Before(Without(s, k), x, y) <=> Before(s, x, y) /\ x # k /\ y # k
  BY WithoutList
<1>2. Len(s) \in Nat
  BY DEF KeyLists
<1> QED
  BY <1>1, <1>2, InFrontList DEF ToFront

\* The first n elements of a list and the rest.
LEMMA PrefixList ==
  ASSUME NEW s \in KeyLists, NEW n \in 0 .. Len(s)
  PROVE  LET front == SubSeq(s, 1, n)
             gone == ToSet(SubSeq(s, n + 1, Len(s)))
         IN /\ front \in KeyLists /\ Len(front) = n
            /\ gone \subseteq ToSet(s) /\ ToSet(front) = ToSet(s) \ gone
            /\ \A x, y : Before(front, x, y) => Before(s, x, y)
            /\ \A x \in ToSet(front), y \in gone : Before(s, x, y)
<1> DEFINE front == SubSeq(s, 1, n)
           back == SubSeq(s, n + 1, Len(s))
<1>1. s \in Seq(Keys) /\ Len(s) \in Nat /\ DOMAIN s = 1 .. Len(s)
  BY DEF KeyLists
<1>2. \A a, b \in 1 .. Len(s) : s[a] = s[b] => a = b
  BY <1>1 DEF KeyLists, IsInjective
<1>3. front \in Seq(Keys) /\ DOMAIN front = 1 .. n /\ Len(front) = n /\ \A j \in 1 .. n : front[j] = s[j]
  BY <1>1
<1>4. DOMAIN back = 1 .. Len(s) - n /\ \A j \in 1 .. Len(s) - n : back[j] = s[n + j]
  BY <1>1
<1> HIDE DEF front, back
<1>5. ToSet(front) = {s[j] : j \in 1 .. n}
  BY <1>3 DEF ToSet
<1>6. ToSet(back) = {s[j] : j \in n + 1 .. Len(s)}
  <2>1. \A j \in 1 .. Len(s) - n : n + j \in n + 1 .. Len(s)
    BY <1>1
  <2>2. \A j \in n + 1 .. Len(s) : j - n \in 1 .. Len(s) - n /\ n + (j - n) = j
    BY <1>1
  <2>3. \A j \in n + 1 .. Len(s) : back[j - n] = s[j]
    BY <1>4, <2>2
  <2> QED
    BY <1>4, <2>1, <2>2, <2>3 DEF ToSet
<1>7. ToSet(s) = {s[j] : j \in 1 .. Len(s)}
  BY <1>1 DEF ToSet
<1>8. ToSet(back) \subseteq ToSet(s) /\ ToSet(front) = ToSet(s) \ ToSet(back)
  BY <1>1, <1>2, <1>5, <1>6, <1>7
<1>9. IsInjective(front)
  BY <1>1, <1>2, <1>3 DEF IsInjective
<1>10. \A x, y : Before(front, x, y) => Before(s, x, y)
  BY <1>1, <1>3 DEF Before
<1>11. \A x \in ToSet(front), y \in ToSet(back) : Before(s, x, y)
  BY <1>1, <1>5, <1>6 DEF Before
<1> QED
  BY <1>3, <1>8, <1>9, <1>10, <1>11 DEF KeyLists, front, back

-----------------------------------------------------------------------------
(* The cache.                                                              *)

StoredIn(entries) == {k \in Keys : entries[k] # None}

\* The list, the map and the byte count describe the same entries.
CacheOK(c) ==
  /\ c.items \in [Keys -> Responses \cup {None}]
  /\ c.lru \in KeyLists
  /\ ToSet(c.lru) = StoredIn(c.items)
  /\ c.size = SizeOf(c.items, StoredIn(c.items))

LEMMA ListFinite ==
  ASSUME NEW s \in KeyLists
  PROVE  IsFiniteSet(ToSet(s))
<1>1. s \in Seq(Keys) /\ Len(s) \in Nat /\ DOMAIN s = 1 .. Len(s)
  BY DEF KeyLists
<1>2. IsFiniteSet(1 .. Len(s))
  BY <1>1, FS_Interval
<1>3. s \in Surjection(1 .. Len(s), ToSet(s))
  BY <1>1 DEF ToSet, Surjection
<1> QED
  BY <1>2, <1>3, FS_Surjection

LEMMA ListEmpty ==
  ASSUME NEW s \in KeyLists
  PROVE  /\ Len(s) \in Nat
         /\ Len(s) = 0 <=> s = <<>>
         /\ Len(s) = 0 <=> ToSet(s) = {}
<1>1. s \in Seq(Keys) /\ Len(s) \in Nat /\ DOMAIN s = 1 .. Len(s)
  BY DEF KeyLists
<1>2. Len(s) = 0 => ToSet(s) = {}
  BY <1>1 DEF ToSet
<1>3. Len(s) # 0 => s[1] \in ToSet(s)
  BY <1>1 DEF ToSet
<1> QED
  BY <1>1, <1>2, <1>3

\* What follows from the accounts of a cache.
LEMMA Accounts ==
  ASSUME NEW c, CacheOK(c)
  PROVE  /\ IsFiniteSet(StoredIn(c.items))
         /\ Sized(c.items, StoredIn(c.items))
         /\ \A k \in StoredIn(c.items) : k \in Keys /\ c.items[k] \in Responses
         /\ c.size \in Nat
         /\ c.lru = <<>> => c.size = 0
<1>1. IsFiniteSet(StoredIn(c.items))
  BY ListFinite DEF CacheOK
<1>2. \A k \in StoredIn(c.items) : k \in Keys /\ c.items[k] \in Responses
  BY DEF CacheOK, StoredIn
<1>3. Sized(c.items, StoredIn(c.items))
  BY <1>2, SizesAssumption DEF Sized, Responses
<1>4. c.size \in Nat
  BY <1>1, <1>3, SizeOfType DEF CacheOK
<1>5. ASSUME c.lru = <<>> PROVE c.size = 0
  <2>1. StoredIn(c.items) = {}
    BY <1>5, ListEmpty DEF CacheOK
  <2>2. SizeOf(c.items, {}) = 0
    BY SizeOfStep, FS_EmptySet
  <2> QED
    BY <2>1, <2>2 DEF CacheOK
<1> QED
  BY <1>1, <1>2, <1>3, <1>4, <1>5

LEMMA RemovedOK ==
  ASSUME NEW c, CacheOK(c), NEW k \in Keys, c.items[k] # None
  PROVE  /\ CacheOK(Removed(c, k))
         /\ Removed(c, k).size <= c.size
         /\ Len(Removed(c, k).lru) = Len(c.lru) - 1
         /\ StoredIn(Removed(c, k).items) = StoredIn(c.items) \ {k}
<1> DEFINE d == Removed(c, k)
           S == StoredIn(c.items)
<1>1. /\ d.items = [c.items EXCEPT ![k] = None]
      /\ d.lru = Without(c.lru, k)
      /\ d.size = c.size - c.items[k].size
  BY DEF Removed
<1>2. /\ IsFiniteSet(S) /\ Sized(c.items, S) /\ c.size \in Nat /\ k \in S
  BY Accounts DEF StoredIn
<1>3. /\ c.items \in [Keys -> Responses \cup {None}] /\ c.lru \in KeyLists /\ ToSet(c.lru) = S
      /\ c.size = SizeOf(c.items, S)
  BY DEF CacheOK
<1> HIDE DEF d
<1>4. StoredIn(d.items) = S \ {k}
  BY <1>1, <1>3 DEF StoredIn
<1>5. d.items \in [Keys -> Responses \cup {None}]
  BY <1>1, <1>3
<1> HIDE DEF S
<1>6. d.lru \in KeyLists /\ ToSet(d.lru) = S \ {k} /\ Len(d.lru) = Len(c.lru) - 1
  BY <1>1, <1>2, <1>3, WithoutList
<1>7. c.size = c.items[k].size + SizeOf(c.items, S \ {k})
  BY <1>2, <1>3, SizeOfRemove
<1>8. SizeOf(c.items, S \ {k}) \in Nat /\ IsFiniteSet(S \ {k}) /\ Sized(c.items, S \ {k})
  BY <1>2, SizeOfType, FS_Subset DEF Sized
<1>9. SizeOf(d.items, S \ {k}) = SizeOf(c.items, S \ {k})
  <2>1. \A x \in S \ {k} : d.items[x].size = c.items[x].size
    BY <1>1, <1>3 DEF S, StoredIn
  <2> QED
    BY <1>8, <2>1, SizeOfSame
<1>10. c.items[k].size \in Nat
  BY <1>2 DEF Sized
<1>11. d.size = SizeOf(c.items, S \ {k}) /\ d.size <= c.size
  <2> DEFINE rest == SizeOf(c.items, S \ {k})
             one == c.items[k].size
  <2>1. rest \in Nat /\ one \in Nat /\ c.size = one + rest /\ d.size = c.size - one
    BY <1>1, <1>7, <1>8, <1>10
  <2> HIDE DEF rest, one
  <2>2. d.size = rest /\ d.size <= c.size
    BY <2>1
  <2> QED
    BY <2>2 DEF rest
<1>12. d.size = SizeOf(d.items, StoredIn(d.items))
  BY <1>4, <1>9, <1>11
<1> QED
  BY <1>4, <1>5, <1>6, <1>11, <1>12 DEF CacheOK, d, S

\* d is what is left of c when the last entries of the list go.
Keeps(c, d) ==
  /\ CacheOK(d)
  /\ d.size <= c.size
  /\ Len(d.lru) <= Len(c.lru)
  /\ \A k \in Keys : d.items[k] = IF k \in ToSet(d.lru) THEN c.items[k] ELSE None
  /\ ToSet(d.lru) \subseteq ToSet(c.lru)
  /\ \A x, y : Before(d.lru, x, y) => Before(c.lru, x, y)
  /\ \A x \in ToSet(d.lru), y \in ToSet(c.lru) \ ToSet(d.lru) : Before(c.lru, x, y)

LEMMA KeptOK ==
  ASSUME NEW c, CacheOK(c), NEW n \in 0 .. Len(c.lru)
  PROVE  Keeps(c, Kept(c, n)) /\ Len(Kept(c, n).lru) = n
<1> DEFINE d == Kept(c, n)
           S == StoredIn(c.items)
           gone == ToSet(SubSeq(c.lru, n + 1, Len(c.lru)))
<1>1. /\ d.items = [k \in Keys |-> IF k \in gone THEN None ELSE c.items[k]]
      /\ d.lru = SubSeq(c.lru, 1, n)
      /\ d.size = c.size - SizeOf(c.items, gone)
  BY DEF Kept
<1>2. IsFiniteSet(S) /\ Sized(c.items, S) /\ c.size \in Nat
  BY Accounts
<1>3. /\ c.items \in [Keys -> Responses \cup {None}] /\ c.lru \in KeyLists /\ ToSet(c.lru) = S
      /\ c.size = SizeOf(c.items, S)
  BY DEF CacheOK
<1>4. /\ d.lru \in KeyLists /\ Len(d.lru) = n
      /\ gone \subseteq S /\ ToSet(d.lru) = S \ gone
      /\ \A x, y : Before(d.lru, x, y) => Before(c.lru, x, y)
      /\ \A x \in ToSet(d.lru), y \in gone : Before(c.lru, x, y)
  <2> HIDE DEF d, S
  <2> QED
    BY <1>1, <1>3, PrefixList
<1> HIDE DEF d, gone
<1>5. /\ StoredIn(d.items) = S \ gone
      /\ d.items \in [Keys -> Responses \cup {None}]
      /\ \A k \in Keys : d.items[k] = IF k \in ToSet(d.lru) THEN c.items[k] ELSE None
  BY <1>1, <1>3, <1>4 DEF StoredIn
<1>6. \A x \in S \ gone : d.items[x].size = c.items[x].size
  BY <1>1, <1>3 DEF StoredIn
<1> HIDE DEF S
<1>7. c.size = SizeOf(c.items, gone) + SizeOf(c.items, S \ gone)
  BY <1>2, <1>3, <1>4, SizeOfSplit
<1>8. /\ SizeOf(c.items, gone) \in Nat /\ SizeOf(c.items, S \ gone) \in Nat
      /\ IsFiniteSet(S \ gone) /\ Sized(c.items, S \ gone)
  <2>1. IsFiniteSet(gone) /\ IsFiniteSet(S \ gone)
    BY <1>2, <1>4, FS_Subset
  <2>2. Sized(c.items, gone) /\ Sized(c.items, S \ gone)
    BY <1>2, <1>4 DEF Sized
  <2> QED
    BY <2>1, <2>2, SizeOfType
<1>9. SizeOf(d.items, S \ gone) = SizeOf(c.items, S \ gone)
  BY <1>6, <1>8, SizeOfSame
<1>10. d.size = SizeOf(d.items, StoredIn(d.items)) /\ d.size <= c.size
  <2> DEFINE rest == SizeOf(c.items, S \ gone)
             out == SizeOf(c.items, gone)
  <2>1. rest \in Nat /\ out \in Nat /\ c.size = out + rest /\ d.size = c.size - out
    BY <1>1, <1>7, <1>8
  <2>2. SizeOf(d.items, StoredIn(d.items)) = rest
    BY <1>5, <1>9
  <2> HIDE DEF rest, out
  <2>3. d.size = rest /\ d.size <= c.size
    BY <2>1
  <2> QED
    BY <2>2, <2>3
<1>11. ToSet(c.lru) \ ToSet(d.lru) = gone
  BY <1>3, <1>4
<1>12. CacheOK(d)
  BY <1>4, <1>5, <1>10 DEF CacheOK
<1>13. ToSet(d.lru) \subseteq ToSet(c.lru)
  BY <1>3, <1>4
<1>14. n <= Len(c.lru)
  BY <1>3 DEF KeyLists
<1>15. Keeps(c, d)
  BY <1>4, <1>5, <1>10, <1>11, <1>12, <1>13, <1>14 DEF Keeps
<1> QED
  BY <1>4, <1>15 DEF d

\* The loops stop: what is left is a stage at which need more bytes fit or nothing is left.
LEMMA EvictedIsKept ==
  ASSUME NEW c, CacheOK(c), NEW need, NEW limit
  PROVE  \E n \in 0 .. Len(c.lru) :
           /\ Evicted(c, need, limit) = Kept(c, n)
           /\ Kept(c, n).lru = <<>> \/ Kept(c, n).size + need <= limit
<1> DEFINE Fits(d) == d.lru = <<>> \/ d.size + need <= limit
           Stages == {Kept(c, n) : n \in 0 .. Len(c.lru)}
           L == Len(c.lru)
           T == {m \in 0 .. L : Fits(Kept(c, L - m))}
<1>1. L \in Nat
  BY ListEmpty DEF CacheOK
<1>2. \A m \in 0 .. L : L - m \in 0 .. L /\ Len(Kept(c, L - m).lru) = L - m
  <2> TAKE m \in 0 .. L
  <2>1. L - m \in 0 .. L
    BY <1>1
  <2> QED
    BY <2>1, KeptOK
<1>3. L \in T
  <2>1. L \in 0 .. L /\ L - L = 0
    BY <1>1
  <2>2. Kept(c, 0).lru = <<>>
    <3>1. Len(Kept(c, 0).lru) = 0 /\ Kept(c, 0).lru \in KeyLists
      BY <1>2, <2>1, KeptOK DEF Keeps, CacheOK
    <3> QED
      BY <3>1, ListEmpty
  <2> QED
    BY <2>1, <2>2
<1>4. PICK m \in T : \A j \in T : ~(j < m)
  <2>1. T \subseteq Nat /\ T # {}
    BY <1>1, <1>3
  <2> HIDE DEF T
  <2>2. \E m \in T : \A j \in T : ~(<<j, m>> \in OpToRel(<, Nat))
    BY <2>1, NatLessThanWellFounded, WFMin
  <2> QED
    BY <2>1, <2>2 DEF OpToRel
<1> DEFINE d == Kept(c, L - m)
<1>5. d \in Stages /\ Fits(d) /\ Len(d.lru) = L - m
  BY <1>2, <1>4
<1>6. ASSUME NEW e \in Stages, Len(e.lru) > Len(d.lru) PROVE ~Fits(e)
  <2>1. PICK n \in 0 .. L : e = Kept(c, n)
    OBVIOUS
  <2>2. Len(e.lru) = n
    BY <2>1, KeptOK
  <2>3. L - n \in 0 .. L /\ L - (L - n) = n /\ L - n < m
    BY <1>1, <1>4, <1>5, <1>6, <2>2
  <2>4. L - n \notin T
    BY <1>4, <2>3
  <2> QED
    BY <2>1, <2>3, <2>4
<1>7. /\ Evicted(c, need, limit) \in Stages
      /\ Fits(Evicted(c, need, limit))
  <2> HIDE DEF d, Stages, T, L
  <2>1. \E x \in Stages : Fits(x) /\ \A e \in Stages : Len(e.lru) > Len(x.lru) => ~Fits(e)
    BY <1>5, <1>6
  <2>2. Evicted(c, need, limit) = CHOOSE x \in Stages : Fits(x) /\ \A e \in Stages : Len(e.lru) > Len(x.lru) => ~Fits(e)
    BY DEF Evicted, Stages
  <2> QED
    BY <2>1, <2>2
<1> QED
  BY <1>7

Clears(c, d, k) ==
  /\ CacheOK(d)
  /\ \A l \in Keys : d.items[l] = IF l = k THEN None ELSE c.items[l]
  /\ ToSet(d.lru) = ToSet(c.lru) \ {k}
  /\ \A x, y : Before(d.lru, x, y) <=> Before(c.lru, x, y) /\ x # k /\ y # k

LEMMA ClearedOK ==
  ASSUME NEW c, CacheOK(c), NEW k \in Keys
  PROVE  Clears(c, Cleared(c, k), k)
<1>1. c.items \in [Keys -> Responses \cup {None}] /\ c.lru \in KeyLists /\ ToSet(c.lru) = StoredIn(c.items)
  BY DEF CacheOK
<1>2. CASE c.items[k] # None
  <2>1. Cleared(c, k) = Removed(c, k)
    BY <1>2 DEF Cleared
  <2>2. Removed(c, k).items = [c.items EXCEPT ![k] = None] /\ Removed(c, k).lru = Without(c.lru, k)
    BY DEF Removed
  <2>3. CacheOK(Removed(c, k))
    BY <1>2, RemovedOK
  <2> QED
    BY <1>1, <2>1, <2>2, <2>3, WithoutList DEF Clears
<1>3. CASE c.items[k] = None
  <2>1. Cleared(c, k) = c
    BY <1>3 DEF Cleared
  <2>2. k \notin ToSet(c.lru)
    BY <1>1, <1>3 DEF StoredIn
  <2>3. \A x, y : Before(c.lru, x, y) => x \in ToSet(c.lru) /\ y \in ToSet(c.lru)
    <3>1. DOMAIN c.lru = 1 .. Len(c.lru)
      BY <1>1 DEF KeyLists
    <3> QED
      BY <3>1 DEF Before, ToSet
  <2> QED
    BY <1>1, <1>3, <2>1, <2>2, <2>3 DEF Clears
<1> QED
  BY <1>2, <1>3

Inserts(c, d, w) ==
  /\ CacheOK(d)
  /\ d.size = c.size + w.size
  /\ Len(d.lru) = Len(c.lru) + 1
  /\ ToSet(d.lru) = ToSet(c.lru) \cup {w.key}
  /\ \A x, y : Before(d.lru, x, y) <=> (x = w.key /\ y \in ToSet(c.lru)) \/ Before(c.lru, x, y)
  /\ d.items[w.key] \in Responses /\ d.items[w.key].ver = w.ver
  /\ \A k \in Keys : k # w.key => d.items[k] = c.items[k]

LEMMA InsertedOK ==
  ASSUME NEW c, CacheOK(c), NEW w \in Writes, w.ttl >= 0, now \in Nat, c.items[w.key] = None
  PROVE  Inserts(c, Inserted(c, w), w)
<1> DEFINE d == Inserted(c, w)
           S == StoredIn(c.items)
           new == [ver |-> w.ver, size |-> w.size, until |-> now + w.ttl]
<1>1. /\ d.items = [c.items EXCEPT ![w.key] = new]
      /\ d.lru = <<w.key>> \o c.lru
      /\ d.size = c.size + w.size
  BY DEF Inserted
<1>2. IsFiniteSet(S) /\ Sized(c.items, S) /\ c.size \in Nat
  BY Accounts
<1>3. /\ c.items \in [Keys -> Responses \cup {None}] /\ c.lru \in KeyLists /\ ToSet(c.lru) = S
      /\ c.size = SizeOf(c.items, S)
  BY DEF CacheOK
<1>4. w.key \in Keys /\ w.ver \in Versions /\ w.size \in Sizes /\ w.size \in Nat /\ w.ttl \in Int
  BY SizesAssumption, LifetimesAssumption DEF Writes
<1>5. new \in Responses /\ new # None /\ new.ver = w.ver /\ new.size = w.size
  <2>1. now + w.ttl \in Nat
    BY <1>4
  <2> QED
    BY <1>4, <2>1, NoneAssumption DEF Responses
<1> HIDE DEF d, new
<1>6. /\ d.items \in [Keys -> Responses \cup {None}] /\ d.items[w.key] = new
      /\ \A k \in Keys : k # w.key => d.items[k] = c.items[k]
  BY <1>1, <1>3, <1>4, <1>5
<1>7. StoredIn(d.items) = S \cup {w.key} /\ w.key \notin S
  BY <1>4, <1>5, <1>6 DEF StoredIn
<1>8. \A x \in S : d.items[x].size = c.items[x].size
  BY <1>6 DEF StoredIn
<1> HIDE DEF S
<1>9. /\ d.lru \in KeyLists
      /\ ToSet(d.lru) = ToSet(c.lru) \cup {w.key}
      /\ Len(d.lru) = Len(c.lru) + 1
      /\ \A x, y : Before(d.lru, x, y) <=> (x = w.key /\ y \in ToSet(c.lru)) \/ Before(c.lru, x, y)
  BY <1>1, <1>3, <1>4, <1>7, InFrontList
<1>10. SizeOf(d.items, S) = c.size
  BY <1>2, <1>3, <1>8, SizeOfSame
<1>11. SizeOf(d.items, S \cup {w.key}) = w.size + SizeOf(d.items, S)
  <2>1. IsFiniteSet(S \cup {w.key}) /\ (S \cup {w.key}) \ {w.key} = S
    BY <1>2, <1>7, FS_AddElement
  <2>2. Sized(d.items, S \cup {w.key})
    BY <1>2, <1>4, <1>5, <1>6, <1>8 DEF Sized
  <2>3. SizeOf(d.items, S \cup {w.key}) = d.items[w.key].size + SizeOf(d.items, (S \cup {w.key}) \ {w.key})
    BY <2>1, <2>2, SizeOfRemove
  <2> QED
    BY <1>5, <1>6, <2>1, <2>3
<1>12. d.size = SizeOf(d.items, StoredIn(d.items))
  <2>1. SizeOf(d.items, StoredIn(d.items)) = w.size + c.size
    BY <1>7, <1>10, <1>11
  <2> QED
    BY <1>1, <1>2, <1>4, <2>1
<1>13. CacheOK(d)
  BY <1>3, <1>6, <1>7, <1>9, <1>12 DEF CacheOK
<1> QED
  BY <1>1, <1>5, <1>6, <1>9, <1>13 DEF d, Inserts

-----------------------------------------------------------------------------
(* What the operations do to the cache.                                    *)

LEMMA BecomesOK ==
  ASSUME NEW c, CacheOK(c), Becomes(c)
  PROVE  CacheOK(Cache)'
BY DEF CacheOK, Becomes, Cache, StoredIn

LEMMA EvictedOK ==
  ASSUME NEW c, CacheOK(c), NEW need, NEW limit
  PROVE  /\ Keeps(c, Evicted(c, need, limit))
         /\ Evicted(c, need, limit).lru = <<>> \/ Evicted(c, need, limit).size + need <= limit
BY EvictedIsKept, KeptOK

\* A response taken from the channel and stored.
Stores(w) ==
  \E c \in {Cleared(Cache, w.key)} : \E d \in {Evicted(c, w.size, maxSize)} : Becomes(Inserted(d, w))

LEMMA StoresOK ==
  ASSUME CacheOK(Cache), now \in Nat, maxSize \in Nat,
         NEW w \in Writes, w.ttl >= 0, Stores(w)
  PROVE  /\ CacheOK(Cache)'
         /\ curSize' <= maxSize \/ Len(lru') = 1
         /\ items'[w.key] \in Responses /\ items'[w.key].ver = w.ver
         /\ \A k \in Keys : k # w.key => items'[k] \in {None, items[k]}
         /\ ToSet(lru') \subseteq ToSet(lru) \cup {w.key}
         /\ w.key \in ToSet(lru')
         /\ \A x, y : Before(lru', x, y) =>
              \/ x = w.key /\ y \in ToSet(lru) \ {w.key}
              \/ Before(lru, x, y) /\ x # w.key /\ y # w.key
         /\ \A x \in ToSet(lru') \ {w.key}, y \in ToSet(lru) \ ToSet(lru') : Before(lru, x, y)
<1> DEFINE c == Cleared(Cache, w.key)
           d == Evicted(c, w.size, maxSize)
           e == Inserted(d, w)
<1>1. w.key \in Keys /\ w.size \in Nat
  BY SizesAssumption DEF Writes
<1>2. Clears(Cache, c, w.key) /\ Cache.items = items /\ Cache.lru = lru
  BY <1>1, ClearedOK DEF Cache
<1> HIDE DEF c
<1>3. Keeps(c, d) /\ (d.lru = <<>> \/ d.size + w.size <= maxSize)
  BY <1>2, EvictedOK DEF Clears
<1> HIDE DEF d
<1>4. d.items[w.key] = None
  BY <1>1, <1>2, <1>3 DEF Clears, Keeps
<1>5. Inserts(d, e, w)
  BY <1>3, <1>4, InsertedOK DEF Keeps
<1> HIDE DEF e
<1>6. Becomes(e)
  BY DEF Stores, c, d, e
<1>7. items' = e.items /\ lru' = e.lru /\ curSize' = e.size
  BY <1>6 DEF Becomes
<1>8. CacheOK(Cache)'
  BY <1>5, <1>6, BecomesOK DEF Inserts
<1>9. curSize' <= maxSize \/ Len(lru') = 1
  <2>1. d.lru = <<>> => Len(d.lru) = 0
    OBVIOUS
  <2>2. d.lru = <<>> => Len(e.lru) = 1
    BY <1>5, <2>1 DEF Inserts
  <2> QED
    BY <1>3, <1>5, <1>7, <2>2 DEF Inserts
<1>10. \A k \in Keys : k # w.key => items'[k] \in {None, items[k]}
  BY <1>2, <1>3, <1>5, <1>7 DEF Clears, Keeps, Inserts
<1>11. ToSet(lru') \subseteq ToSet(lru) \cup {w.key} /\ w.key \in ToSet(lru')
  BY <1>2, <1>3, <1>5, <1>7 DEF Clears, Keeps, Inserts
<1>12. \A x, y : Before(lru', x, y) =>
         \/ x = w.key /\ y \in ToSet(lru) \ {w.key}
         \/ Before(lru, x, y) /\ x # w.key /\ y # w.key
  BY <1>2, <1>3, <1>5, <1>7 DEF Clears, Keeps, Inserts
<1>13. \A x \in ToSet(lru') \ {w.key}, y \in ToSet(lru) \ ToSet(lru') : Before(lru, x, y)
  BY <1>2, <1>3, <1>5, <1>7 DEF Clears, Keeps, Inserts
<1> QED
  BY <1>5, <1>7, <1>8, <1>9, <1>10, <1>11, <1>12, <1>13 DEF Inserts

LEMMA EvictsOK ==
  ASSUME CacheOK(Cache), NEW limit \in Nat, Becomes(Evicted(Cache, 0, limit))
  PROVE  /\ CacheOK(Cache)'
         /\ curSize' <= limit
         /\ curSize' <= curSize
         /\ Len(lru) = 1 => Len(lru') = 1 \/ curSize' = 0
         /\ \A k \in Keys : items'[k] \in {None, items[k]}
         /\ ToSet(lru') \subseteq ToSet(lru)
         /\ \A x, y : Before(lru', x, y) => Before(lru, x, y)
         /\ \A x \in ToSet(lru'), y \in ToSet(lru) \ ToSet(lru') : Before(lru, x, y)
<1> DEFINE d == Evicted(Cache, 0, limit)
<1>1. Cache.items = items /\ Cache.lru = lru /\ Cache.size = curSize
  BY DEF Cache
<1>2. Keeps(Cache, d) /\ (d.lru = <<>> \/ d.size + 0 <= limit)
  BY EvictedOK
<1> HIDE DEF d
<1>3. items' = d.items /\ lru' = d.lru /\ curSize' = d.size
  BY DEF Becomes, d
<1>4. CacheOK(Cache)'
  BY <1>2, BecomesOK DEF d, Keeps
<1>5. d.size \in Nat /\ (d.lru = <<>> => d.size = 0) /\ Len(d.lru) \in Nat /\ (Len(d.lru) = 0 => d.lru = <<>>)
  BY <1>2, Accounts, ListEmpty DEF CacheOK, Keeps
<1>6. d.size <= limit
  BY <1>2, <1>5
<1>7. Len(lru) = 1 => Len(d.lru) = 1 \/ d.size = 0
  <2>1. Len(d.lru) <= Len(lru)
    BY <1>1, <1>2 DEF Keeps
  <2>2. Len(d.lru) = 0 => d.size = 0
    BY <1>5
  <2> DEFINE n == Len(d.lru)
             m == Len(lru)
  <2>3. n \in Nat /\ n <= m /\ (n = 0 => d.size = 0)
    BY <1>5, <2>1, <2>2
  <2> HIDE DEF n, m
  <2>4. m = 1 => n = 1 \/ d.size = 0
    BY <2>3
  <2> QED
    BY <2>4 DEF n, m
<1> QED
  BY <1>1, <1>2, <1>3, <1>4, <1>6, <1>7 DEF Keeps

-----------------------------------------------------------------------------
(* The inductive invariant.                                                *)

Typed ==
  /\ maxSize \in {MaxSize} \cup Limits
  /\ writeCh \in Seq(Writes) /\ Len(writeCh) <= ChanCap
  /\ phase \in {"open", "closing", "closed"}
  /\ resizing \in [Resizers -> Limits \cup {None}]
  /\ now \in 0 .. MaxTime
  /\ offers \in 0 .. MaxOffers
  /\ answer \in Responses \cup {None}
  /\ offered \in [Keys -> SUBSET Versions]
  /\ seen \in [Keys -> 0 .. MaxOffers]

\* The limit holds, or the Resize that stored it has yet to evict.
Limited ==
  \/ \E r \in Resizers : resizing[r] = maxSize
  \/ curSize <= maxSize
  \/ Len(lru) = 1

\* What is queued was offered, in this order, after what is stored and what was read.
QueueOrdered ==
  /\ \A i \in 1 .. Len(writeCh) :
       /\ writeCh[i].ver <= offers
       /\ writeCh[i].ver \in offered[writeCh[i].key]
       /\ seen[writeCh[i].key] <= writeCh[i].ver
       /\ items[writeCh[i].key] # None => items[writeCh[i].key].ver < writeCh[i].ver
  /\ \A i, j \in 1 .. Len(writeCh) : i < j => writeCh[i].ver < writeCh[j].ver

StoreOrdered ==
  \A k \in Keys :
    /\ seen[k] <= offers
    /\ items[k] # None =>
         items[k].ver <= offers /\ items[k].ver \in offered[k] /\ seen[k] <= items[k].ver

\* The list keeps the order of use.
InOrderOfUse ==
  /\ recent \in KeyLists
  /\ ToSet(lru) \subseteq ToSet(recent)
  /\ \A x, y \in Keys : Before(lru, x, y) => Before(recent, x, y)

CacheInv ==
  /\ CacheOK(Cache)
  /\ Typed
  /\ Limited
  /\ QueueOrdered
  /\ StoreOrdered
  /\ InOrderOfUse

-----------------------------------------------------------------------------
(* The invariant is kept.                                                  *)

LEMMA Limitations ==
  ASSUME Typed
  PROVE  /\ maxSize \in Nat /\ None # maxSize
         /\ now \in Nat /\ offers \in Nat
         /\ \A r \in Resizers : resizing[r] # None => resizing[r] \in Nat
BY LimitsAssumption, BoundsAssumption, NoneAssumption DEF Typed

\* Nothing but the list and the history of uses.
LEMMA InOrderSame ==
  ASSUME InOrderOfUse, UNCHANGED <<lru, recent>>
  PROVE  InOrderOfUse'
BY DEF InOrderOfUse, Before

LEMMA InitInv ==
  ASSUME Init
  PROVE  CacheInv
<1>1. Stored = {} /\ StoredIn(items) = {}
  BY DEF Init, Stored, StoredIn
<1>2. <<>> \in KeyLists /\ ToSet(<<>>) = {} /\ \A x, y : ~Before(<<>>, x, y)
  BY DEF KeyLists, IsInjective, ToSet, Before
<1>3. CacheOK(Cache)
  <2>1. SizeOf(items, {}) = 0
    BY SizeOfStep, FS_EmptySet
  <2> QED
    BY <1>1, <1>2, <2>1 DEF Init, Cache, CacheOK
<1>4. Typed
  BY LimitsAssumption, ChanCapAssumption, BoundsAssumption DEF Init, Typed
<1>5. Limited
  BY LimitsAssumption DEF Init, Limited
<1>6. QueueOrdered /\ StoreOrdered
  BY DEF Init, QueueOrdered, StoreOrdered
<1>7. InOrderOfUse
  BY <1>2 DEF Init, InOrderOfUse
<1> QED
  BY <1>3, <1>4, <1>5, <1>6, <1>7 DEF CacheInv

LEMMA CacheSame ==
  ASSUME CacheOK(Cache), UNCHANGED <<items, lru, curSize>>
  PROVE  CacheOK(Cache)'
BY DEF CacheOK, Cache, StoredIn

LEMMA SetAsyncInv ==
  ASSUME CacheInv, NEW k \in Keys, NEW size \in Sizes, NEW ttl \in Lifetimes, SetAsync(k, size, ttl)
  PROVE  CacheInv'
<1> DEFINE w == [key |-> k, ver |-> offers + 1, size |-> size, ttl |-> ttl]
<1> USE DEF CacheInv
<1>1. /\ offers' = offers + 1 /\ offers < MaxOffers
      /\ offered' = [offered EXCEPT ![k] = @ \cup {offers + 1}]
      /\ writeCh' = writeCh \/ (writeCh' = Append(writeCh, w) /\ Len(writeCh) < ChanCap)
      /\ UNCHANGED <<items, lru, curSize, maxSize, phase, resizing, now, answer, seen, recent>>
  BY DEF SetAsync
<1>2. offers \in Nat /\ offers + 1 \in Versions /\ offers + 1 \in 0 .. MaxOffers
  BY <1>1, Limitations, BoundsAssumption DEF Versions
<1>3. w \in Writes
  BY <1>2 DEF Writes
<1>4. writeCh \in Seq(Writes) /\ Len(writeCh) \in Nat
  BY DEF Typed
<1>5. offered' \in [Keys -> SUBSET Versions] /\ (\A l \in Keys : offered[l] \subseteq offered'[l]) /\ offers + 1 \in offered'[k]
  BY <1>1, <1>2 DEF Typed
<1>6. Typed'
  <2>1. writeCh' \in Seq(Writes) /\ Len(writeCh') <= ChanCap
    <3>1. CASE writeCh' = writeCh
      BY <3>1 DEF Typed
    <3>2. CASE writeCh' = Append(writeCh, w) /\ Len(writeCh) < ChanCap
      <4> HIDE DEF w
      <4> QED
        BY <1>3, <1>4, <3>2, ChanCapAssumption
    <3> QED
      BY <1>1, <3>1, <3>2
  <2> QED
    BY <1>1, <1>2, <1>5, <2>1 DEF Typed
<1>7. QueueOrdered'
  <2>0. \A i \in 1 .. Len(writeCh) : writeCh[i] \in Writes
    BY <1>4
  <2>1. \A i \in 1 .. Len(writeCh) :
          /\ writeCh[i].key \in Keys /\ writeCh[i].ver \in Nat
          /\ writeCh[i].ver <= offers' /\ writeCh[i].ver < offers + 1
          /\ writeCh[i].ver \in offered'[writeCh[i].key]
          /\ seen'[writeCh[i].key] <= writeCh[i].ver
          /\ items'[writeCh[i].key] # None => items'[writeCh[i].key].ver < writeCh[i].ver
    <3> TAKE i \in 1 .. Len(writeCh)
    <3>1. writeCh[i].key \in Keys /\ writeCh[i].ver \in Nat
      BY <2>0 DEF Writes, Versions
    <3>2. writeCh[i].ver <= offers /\ writeCh[i].ver \in offered[writeCh[i].key]
      BY DEF QueueOrdered
    <3> QED
      BY <1>1, <1>2, <1>5, <3>1, <3>2 DEF QueueOrdered
  <2>2. CASE writeCh' = writeCh
    BY <2>1, <2>2 DEF QueueOrdered
  <2>3. CASE writeCh' = Append(writeCh, w)
    <3>1. Len(writeCh') = Len(writeCh) + 1 /\ writeCh'[Len(writeCh) + 1] = w
          /\ \A i \in 1 .. Len(writeCh) : writeCh'[i] = writeCh[i]
      <4> HIDE DEF w
      <4> QED
        BY <1>3, <1>4, <2>3
    <3>2. \A i \in 1 .. Len(writeCh') : i = Len(writeCh) + 1 \/ (i \in 1 .. Len(writeCh) /\ writeCh'[i] = writeCh[i])
      BY <1>4, <3>1
    <3>3. w.key = k /\ w.ver = offers + 1
      OBVIOUS
    <3> HIDE DEF w
    <3>4. /\ w.ver <= offers'
          /\ w.ver \in offered'[w.key]
          /\ seen'[w.key] <= w.ver
          /\ items'[w.key] # None => items'[w.key].ver < w.ver
      <4>1. seen[k] \in Nat /\ seen[k] <= offers
        BY BoundsAssumption DEF Typed, StoreOrdered
      <4>2. items[k] # None => items[k] \in Responses
        BY DEF CacheOK, Cache
      <4>3. items[k] # None => items[k].ver \in Nat /\ items[k].ver <= offers
        BY <4>2 DEF Responses, Versions, StoreOrdered
      <4> QED
        BY <1>1, <1>2, <1>5, <3>3, <4>1, <4>3
    <3>5. \A i \in 1 .. Len(writeCh') :
            /\ writeCh'[i].ver <= offers'
            /\ writeCh'[i].ver \in offered'[writeCh'[i].key]
            /\ seen'[writeCh'[i].key] <= writeCh'[i].ver
            /\ items'[writeCh'[i].key] # None => items'[writeCh'[i].key].ver < writeCh'[i].ver
      BY <2>1, <3>1, <3>2, <3>4
    <3>6. ASSUME NEW i \in 1 .. Len(writeCh'), NEW j \in 1 .. Len(writeCh'), i < j
          PROVE  writeCh'[i].ver < writeCh'[j].ver
      <4>1. i \in 1 .. Len(writeCh) /\ writeCh'[i] = writeCh[i]
        BY <1>4, <3>1, <3>2, <3>6
      <4>2. CASE j = Len(writeCh) + 1
        BY <2>1, <3>1, <3>3, <4>1, <4>2
      <4>3. CASE j \in 1 .. Len(writeCh) /\ writeCh'[j] = writeCh[j]
        BY <3>6, <4>1, <4>3 DEF QueueOrdered
      <4> QED
        BY <3>2, <4>2, <4>3
    <3> QED
      BY <3>5, <3>6 DEF QueueOrdered
  <2> QED
    BY <1>1, <2>2, <2>3
<1>8. StoreOrdered'
  <2> SUFFICES ASSUME NEW l \in Keys
               PROVE  /\ seen'[l] <= offers'
                      /\ items'[l] # None =>
                           items'[l].ver <= offers' /\ items'[l].ver \in offered'[l] /\ seen'[l] <= items'[l].ver
    BY DEF StoreOrdered
  <2>1. seen[l] \in Nat /\ seen[l] <= offers
    BY BoundsAssumption DEF Typed, StoreOrdered
  <2>2. items[l] # None => items[l] \in Responses
    BY DEF CacheOK, Cache
  <2>3. items[l] # None => items[l].ver \in Nat /\ items[l].ver <= offers /\ items[l].ver \in offered[l] /\ seen[l] <= items[l].ver
    BY <2>2 DEF Responses, Versions, StoreOrdered
  <2> QED
    BY <1>1, <1>2, <1>5, <2>1, <2>3
<1>9. Limited'
  BY <1>1 DEF Limited
<1>10. CacheOK(Cache)' /\ InOrderOfUse'
  BY <1>1, CacheSame, InOrderSame
<1> QED
  BY <1>6, <1>7, <1>8, <1>9, <1>10

\* What an entry of the channel satisfies.
LEMMA QueueFacts ==
  ASSUME CacheInv, NEW i \in 1 .. Len(writeCh)
  PROVE  /\ writeCh[i] \in Writes /\ writeCh[i].key \in Keys
         /\ writeCh[i].ver \in Nat /\ writeCh[i].ver <= offers
         /\ writeCh[i].ver \in offered[writeCh[i].key]
         /\ seen[writeCh[i].key] <= writeCh[i].ver
         /\ items[writeCh[i].key] # None => items[writeCh[i].key].ver < writeCh[i].ver
<1>1. writeCh[i] \in Writes
  BY DEF CacheInv, Typed
<1> QED
  BY <1>1 DEF Writes, Versions, CacheInv, QueueOrdered

LEMMA StoreFacts ==
  ASSUME CacheInv, NEW k \in Keys
  PROVE  /\ items[k] \in Responses \cup {None}
         /\ seen[k] \in Nat /\ seen[k] <= offers
         /\ items[k] # None => /\ items[k].ver \in Versions /\ items[k].ver \in Nat
                               /\ items[k].ver <= offers /\ items[k].ver \in offered[k]
                               /\ seen[k] <= items[k].ver
<1>1. items[k] \in Responses \cup {None}
  BY DEF CacheInv, CacheOK, Cache
<1>2. items[k] # None => items[k].ver \in Versions /\ items[k].ver \in Nat
  BY <1>1 DEF Responses, Versions
<1>3. seen[k] \in Nat
  BY BoundsAssumption DEF CacheInv, Typed
<1> QED
  BY <1>1, <1>2, <1>3 DEF CacheInv, StoreOrdered

LEMMA TailFacts ==
  ASSUME CacheInv, writeCh # <<>>
  PROVE  /\ 1 \in 1 .. Len(writeCh) /\ Head(writeCh) = writeCh[1]
         /\ Tail(writeCh) \in Seq(Writes) /\ Len(Tail(writeCh)) <= ChanCap
         /\ \A i \in 1 .. Len(Tail(writeCh)) : i + 1 \in 1 .. Len(writeCh) /\ Tail(writeCh)[i] = writeCh[i + 1]
BY ChanCapAssumption DEF CacheInv, Typed

LEMMA WriteInv ==
  ASSUME CacheInv, Write
  PROVE  CacheInv'
<1> DEFINE w == writeCh[1]
<1>1. /\ writeCh # <<>> /\ writeCh' = Tail(writeCh) /\ Head(writeCh) = w /\ 1 \in 1 .. Len(writeCh)
      /\ UNCHANGED <<maxSize, phase, resizing, now, offers, answer, offered, seen>>
  BY TailFacts DEF Write
<1>2. /\ w \in Writes /\ w.key \in Keys /\ w.ver \in Nat /\ w.ver <= offers
      /\ w.ver \in offered[w.key] /\ seen[w.key] <= w.ver
      /\ items[w.key] # None => items[w.key].ver < w.ver
  BY <1>1, QueueFacts
<1>3. /\ writeCh' \in Seq(Writes) /\ Len(writeCh') <= ChanCap
      /\ \A i \in 1 .. Len(writeCh') : i + 1 \in 1 .. Len(writeCh) /\ writeCh'[i] = writeCh[i + 1]
  BY <1>1, TailFacts
<1>4. Typed'
  BY <1>1, <1>3 DEF CacheInv, Typed
<1>5. ASSUME NEW i \in 1 .. Len(writeCh'), NEW j \in 1 .. Len(writeCh'), i < j
      PROVE  writeCh'[i].ver < writeCh'[j].ver
  <2>1. i + 1 \in 1 .. Len(writeCh) /\ j + 1 \in 1 .. Len(writeCh) /\ i + 1 < j + 1
    BY <1>3, <1>5
  <2> QED
    BY <1>3, <2>1 DEF CacheInv, QueueOrdered
<1>6. \A i \in 1 .. Len(writeCh') : w.ver < writeCh'[i].ver
  <2> TAKE i \in 1 .. Len(writeCh')
  <2>1. i + 1 \in 1 .. Len(writeCh) /\ 1 < i + 1
    BY <1>3
  <2> QED
    BY <1>1, <1>3, <2>1 DEF CacheInv, QueueOrdered
<1>7. CASE UNCHANGED <<items, lru, curSize, recent>>
  <2>1. QueueOrdered'
    <3>1. ASSUME NEW i \in 1 .. Len(writeCh')
          PROVE  /\ writeCh'[i].ver <= offers'
                 /\ writeCh'[i].ver \in offered'[writeCh'[i].key]
                 /\ seen'[writeCh'[i].key] <= writeCh'[i].ver
                 /\ items'[writeCh'[i].key] # None => items'[writeCh'[i].key].ver < writeCh'[i].ver
      BY <1>1, <1>3, <1>7, QueueFacts
    <3> QED
      BY <1>5, <3>1 DEF QueueOrdered
  <2>2. StoreOrdered' /\ Limited'
    BY <1>1, <1>7 DEF CacheInv, StoreOrdered, Limited
  <2>3. CacheOK(Cache)' /\ InOrderOfUse'
    BY <1>7, CacheSame, InOrderSame DEF CacheInv
  <2> QED
    BY <1>4, <2>1, <2>2, <2>3 DEF CacheInv
<1>8. CASE w.ttl >= 0 /\ Stores(w) /\ recent' = ToFront(recent, w.key)
  <2> HIDE DEF w
  <2>1. /\ CacheOK(Cache)'
        /\ curSize' <= maxSize \/ Len(lru') = 1
        /\ items'[w.key] \in Responses /\ items'[w.key].ver = w.ver
        /\ \A k \in Keys : k # w.key => items'[k] \in {None, items[k]}
        /\ ToSet(lru') \subseteq ToSet(lru) \cup {w.key}
        /\ \A x, y : Before(lru', x, y) =>
             \/ x = w.key /\ y \in ToSet(lru) \ {w.key}
             \/ Before(lru, x, y) /\ x # w.key /\ y # w.key
    BY <1>2, <1>8, StoresOK, Limitations DEF CacheInv
  <2>2. QueueOrdered'
    <3>1. ASSUME NEW i \in 1 .. Len(writeCh')
          PROVE  /\ writeCh'[i].ver <= offers'
                 /\ writeCh'[i].ver \in offered'[writeCh'[i].key]
                 /\ seen'[writeCh'[i].key] <= writeCh'[i].ver
                 /\ items'[writeCh'[i].key] # None => items'[writeCh'[i].key].ver < writeCh'[i].ver
      <4>1. i + 1 \in 1 .. Len(writeCh) /\ writeCh'[i] = writeCh[i + 1]
        BY <1>3
      <4>2. /\ writeCh'[i].key \in Keys
            /\ writeCh'[i].ver <= offers' /\ writeCh'[i].ver \in offered'[writeCh'[i].key]
            /\ seen'[writeCh'[i].key] <= writeCh'[i].ver
            /\ items[writeCh'[i].key] # None => items[writeCh'[i].key].ver < writeCh'[i].ver
        BY <1>1, <4>1, QueueFacts
      <4>3. CASE writeCh'[i].key = w.key
        BY <1>6, <2>1, <4>2, <4>3
      <4>4. CASE writeCh'[i].key # w.key
        BY <2>1, <4>2, <4>4
      <4> QED
        BY <4>2, <4>3, <4>4
    <3> QED
      BY <1>5, <3>1 DEF QueueOrdered
  <2>3. StoreOrdered'
    <3> SUFFICES ASSUME NEW k \in Keys
                 PROVE  /\ seen'[k] <= offers'
                        /\ items'[k] # None =>
                             items'[k].ver <= offers' /\ items'[k].ver \in offered'[k] /\ seen'[k] <= items'[k].ver
      BY DEF StoreOrdered
    <3>1. CASE k = w.key
      BY <1>1, <1>2, <2>1, <3>1, StoreFacts
    <3>2. CASE k # w.key
      BY <1>1, <2>1, <3>2, StoreFacts
    <3> QED
      BY <3>1, <3>2
  <2>4. Limited'
    BY <1>1, <2>1 DEF Limited
  <2>5. InOrderOfUse'
    <3>1. recent \in KeyLists /\ ToSet(lru) \subseteq ToSet(recent) /\ \A x, y \in Keys : Before(lru, x, y) => Before(recent, x, y)
      BY DEF CacheInv, InOrderOfUse
    <3>2. /\ recent' \in KeyLists
          /\ ToSet(recent') = ToSet(recent) \cup {w.key}
          /\ \A x, y : Before(recent', x, y) <=>
               (x = w.key /\ y \in ToSet(recent) \ {w.key}) \/ (Before(recent, x, y) /\ x # w.key /\ y # w.key)
      BY <1>2, <1>8, <3>1, ToFrontList
    <3> QED
      BY <2>1, <3>1, <3>2 DEF InOrderOfUse
  <2> QED
    BY <1>4, <2>1, <2>2, <2>3, <2>4, <2>5 DEF CacheInv
<1>9. UNCHANGED <<items, lru, curSize, recent>> \/ (w.ttl >= 0 /\ Stores(w) /\ recent' = ToFront(recent, w.key))
  BY <1>1 DEF Write, Stores
<1> QED
  BY <1>7, <1>8, <1>9

\* A change that only forgets entries keeps the order of versions.
LEMMA ForgetOrdered ==
  ASSUME CacheInv, \A k \in Keys : items'[k] \in {None, items[k]},
         UNCHANGED <<writeCh, offers, offered, seen>>
  PROVE  QueueOrdered' /\ StoreOrdered'
<1>1. QueueOrdered'
  <2>1. ASSUME NEW i \in 1 .. Len(writeCh)
        PROVE  /\ writeCh[i].ver <= offers
               /\ writeCh[i].ver \in offered[writeCh[i].key]
               /\ seen[writeCh[i].key] <= writeCh[i].ver
               /\ items'[writeCh[i].key] # None => items'[writeCh[i].key].ver < writeCh[i].ver
    BY QueueFacts
  <2> QED
    BY <2>1 DEF QueueOrdered, CacheInv
<1>2. StoreOrdered'
  BY StoreFacts DEF StoreOrdered
<1> QED
  BY <1>1, <1>2

LEMMA GetInv ==
  ASSUME CacheInv, NEW k \in Keys, Get(k)
  PROVE  CacheInv'
<1>1. UNCHANGED <<maxSize, writeCh, phase, resizing, now, offers, offered>>
  BY DEF Get
<1>2. CASE items[k] = None /\ answer' = None /\ UNCHANGED <<items, lru, curSize, seen, recent>>
  <2>1. QueueOrdered' /\ StoreOrdered'
    BY <1>1, <1>2, ForgetOrdered
  <2>2. CacheOK(Cache)' /\ InOrderOfUse'
    BY <1>2, CacheSame, InOrderSame DEF CacheInv
  <2> QED
    BY <1>1, <1>2, <2>1, <2>2 DEF CacheInv, Typed, Limited
<1>3. CASE items[k] # None /\ answer' = None /\ Becomes(Removed(Cache, k)) /\ UNCHANGED <<seen, recent>>
  <2> DEFINE d == Removed(Cache, k)
  <2>1. Cache.items = items /\ Cache.lru = lru /\ Cache.size = curSize /\ CacheOK(Cache)
    BY DEF Cache, CacheInv
  <2>2. CacheOK(d) /\ d.size <= curSize /\ Len(d.lru) = Len(lru) - 1
    BY <1>3, <2>1, RemovedOK
  <2>3. d.items = [items EXCEPT ![k] = None] /\ d.lru = Without(lru, k)
    BY <2>1 DEF Removed
  <2> HIDE DEF d
  <2>4. items' = d.items /\ lru' = d.lru /\ curSize' = d.size
    BY <1>3 DEF Becomes, d
  <2>5. CacheOK(Cache)'
    BY <1>3, <2>2, BecomesOK DEF d
  <2>6. \A l \in Keys : items'[l] \in {None, items[l]}
    BY <2>1, <2>3, <2>4 DEF CacheOK
  <2>7. QueueOrdered' /\ StoreOrdered'
    BY <1>1, <1>3, <2>6, ForgetOrdered
  <2>8. Limited'
    <3>1. Len(lru) = 1 => Len(d.lru) = 0
      BY <2>2
    <3>2. Len(lru) = 1 => d.size = 0
      BY <2>2, <3>1, Accounts, ListEmpty DEF CacheOK
    <3>3. curSize \in Nat /\ d.size \in Nat /\ maxSize \in Nat
      BY <2>1, <2>2, Accounts, Limitations DEF CacheInv
    <3> QED
      BY <1>1, <2>2, <2>4, <3>2, <3>3 DEF CacheInv, Limited
  <2>9. InOrderOfUse'
    <3>1. lru \in KeyLists
      BY <2>1 DEF CacheOK
    <3>2. ToSet(lru') = ToSet(lru) \ {k} /\ \A x, y : Before(lru', x, y) <=> Before(lru, x, y) /\ x # k /\ y # k
      BY <2>3, <2>4, <3>1, WithoutList
    <3>3. recent' = recent
      BY <1>3
    <3> QED
      BY <3>2, <3>3 DEF CacheInv, InOrderOfUse
  <2>10. Typed'
    BY <1>1, <1>3 DEF CacheInv, Typed
  <2> QED
    BY <2>5, <2>7, <2>8, <2>9, <2>10 DEF CacheInv
<1>4. CASE /\ items[k] # None /\ answer' = items[k]
           /\ lru' = ToFront(lru, k) /\ recent' = ToFront(recent, k)
           /\ seen' = [seen EXCEPT ![k] = items[k].ver]
           /\ UNCHANGED <<items, curSize>>
  <2>1. lru \in KeyLists /\ ToSet(lru) = StoredIn(items) /\ k \in ToSet(lru)
    BY <1>4 DEF CacheInv, CacheOK, Cache, StoredIn
  <2>2. /\ lru' \in KeyLists /\ ToSet(lru') = ToSet(lru) /\ Len(lru') = Len(lru)
        /\ \A x, y : Before(lru', x, y) <=>
             (x = k /\ y \in ToSet(lru) \ {k}) \/ (Before(lru, x, y) /\ x # k /\ y # k)
    <3>1. /\ lru' \in KeyLists /\ ToSet(lru') = ToSet(lru) \cup {k}
          /\ Len(lru') = IF k \in ToSet(lru) THEN Len(lru) ELSE Len(lru) + 1
          /\ \A x, y : Before(lru', x, y) <=>
               (x = k /\ y \in ToSet(lru) \ {k}) \/ (Before(lru, x, y) /\ x # k /\ y # k)
      BY <1>4, <2>1, ToFrontList
    <3> QED
      BY <2>1, <3>1
  <2>3. recent \in KeyLists /\ ToSet(lru) \subseteq ToSet(recent) /\ \A x, y \in Keys : Before(lru, x, y) => Before(recent, x, y)
    BY DEF CacheInv, InOrderOfUse
  <2>4. /\ recent' \in KeyLists /\ ToSet(recent') = ToSet(recent) \cup {k}
        /\ \A x, y : Before(recent', x, y) <=>
             (x = k /\ y \in ToSet(recent) \ {k}) \/ (Before(recent, x, y) /\ x # k /\ y # k)
    BY <1>4, <2>3, ToFrontList
  <2>5. InOrderOfUse'
    BY <2>2, <2>3, <2>4 DEF InOrderOfUse
  <2>6. CacheOK(Cache)'
    BY <1>4, <2>2 DEF CacheInv, CacheOK, Cache, StoredIn
  <2>7. \A l \in Keys : seen'[l] = IF l = k THEN items[k].ver ELSE seen[l]
    BY <1>4 DEF CacheInv, Typed
  <2>8. QueueOrdered'
    <3>1. ASSUME NEW i \in 1 .. Len(writeCh)
          PROVE  /\ writeCh[i].ver <= offers
                 /\ writeCh[i].ver \in offered[writeCh[i].key]
                 /\ seen'[writeCh[i].key] <= writeCh[i].ver
                 /\ items[writeCh[i].key] # None => items[writeCh[i].key].ver < writeCh[i].ver
      BY <1>4, <2>7, QueueFacts, StoreFacts
    <3> QED
      BY <1>1, <1>4, <3>1 DEF QueueOrdered, CacheInv
  <2>9. StoreOrdered'
    BY <1>1, <1>4, <2>7, StoreFacts DEF StoreOrdered
  <2>10. Typed'
    <3>1. items[k] \in Responses
      BY <1>4, StoreFacts
    <3>2. items[k].ver \in 0 .. MaxOffers
      BY <1>4, StoreFacts, BoundsAssumption DEF Versions
    <3> QED
      BY <1>1, <1>4, <3>1, <3>2 DEF CacheInv, Typed
  <2>11. Limited'
    BY <1>1, <1>4, <2>2 DEF CacheInv, Limited
  <2> QED
    BY <2>5, <2>6, <2>8, <2>9, <2>10, <2>11 DEF CacheInv
<1> QED
  BY <1>2, <1>3, <1>4 DEF Get

LEMMA ResizeStoreInv ==
  ASSUME CacheInv, NEW r \in Resizers, NEW limit \in Limits, ResizeStore(r, limit)
  PROVE  CacheInv'
<1>1. QueueOrdered' /\ StoreOrdered'
  BY ForgetOrdered DEF ResizeStore
<1>2. CacheOK(Cache)' /\ InOrderOfUse'
  BY CacheSame, InOrderSame DEF CacheInv, ResizeStore
<1>3. Typed' /\ Limited'
  BY DEF CacheInv, Typed, Limited, ResizeStore
<1> QED
  BY <1>1, <1>2, <1>3 DEF CacheInv

LEMMA ResizeEvictInv ==
  ASSUME CacheInv, NEW r \in Resizers, ResizeEvict(r)
  PROVE  CacheInv'
<1>1. /\ resizing[r] # None /\ Becomes(Evicted(Cache, 0, resizing[r]))
      /\ resizing' = [resizing EXCEPT ![r] = None]
      /\ UNCHANGED <<maxSize, writeCh, phase, now, offers, answer, offered, seen, recent>>
  BY DEF ResizeEvict
<1>2. resizing[r] \in Nat
  BY <1>1, Limitations DEF CacheInv
<1>3. /\ CacheOK(Cache)'
      /\ curSize' <= resizing[r]
      /\ curSize' <= curSize
      /\ Len(lru) = 1 => Len(lru') = 1 \/ curSize' = 0
      /\ \A k \in Keys : items'[k] \in {None, items[k]}
      /\ ToSet(lru') \subseteq ToSet(lru)
      /\ \A x, y : Before(lru', x, y) => Before(lru, x, y)
  BY <1>1, <1>2, EvictsOK DEF CacheInv
<1>4. QueueOrdered' /\ StoreOrdered'
  BY <1>1, <1>3, ForgetOrdered
<1>5. Limited'
  <2>1. curSize \in Nat /\ curSize' \in Nat /\ maxSize \in Nat
    <3>1. curSize = Cache.size /\ curSize' = Cache'.size
      BY DEF Cache
    <3>2. Cache.size \in Nat
      BY Accounts DEF CacheInv
    <3>3. Cache'.size \in Nat
      BY <1>3, BecomesOK, EvictedOK, Accounts, <1>1 DEF CacheInv, Keeps, Becomes, Cache
    <3> QED
      BY <3>1, <3>2, <3>3, Limitations DEF CacheInv
  <2>2. CASE resizing[r] = maxSize
    BY <1>1, <1>3, <2>2 DEF Limited
  <2>3. CASE \E q \in Resizers : q # r /\ resizing[q] = maxSize
    BY <1>1, <2>3 DEF Limited, CacheInv, Typed
  <2>4. CASE curSize <= maxSize
    BY <1>1, <1>3, <2>1, <2>4 DEF Limited
  <2>5. CASE Len(lru) = 1
    BY <1>1, <1>3, <2>1, <2>5 DEF Limited
  <2> QED
    BY <2>2, <2>3, <2>4, <2>5 DEF CacheInv, Limited
<1>6. InOrderOfUse'
  BY <1>1, <1>3 DEF CacheInv, InOrderOfUse
<1>7. Typed'
  BY <1>1 DEF CacheInv, Typed
<1> QED
  BY <1>3, <1>4, <1>5, <1>6, <1>7 DEF CacheInv

\* The steps that leave the cache and its queue alone.
LEMMA QuietInv ==
  ASSUME CacheInv, Close \/ CloseDone \/ Tick \/ UNCHANGED vars
  PROVE  CacheInv'
<1>1. UNCHANGED <<items, lru, curSize, maxSize, writeCh, resizing, offers, answer, offered, seen, recent>>
  BY DEF Close, CloseDone, Tick, vars
<1>2. QueueOrdered' /\ StoreOrdered'
  BY <1>1, ForgetOrdered
<1>3. CacheOK(Cache)' /\ InOrderOfUse'
  BY <1>1, CacheSame, InOrderSame DEF CacheInv
<1>4. phase' \in {"open", "closing", "closed"} /\ now' \in 0 .. MaxTime
  BY BoundsAssumption DEF CacheInv, Typed, Close, CloseDone, Tick, vars
<1>5. Typed' /\ Limited'
  BY <1>1, <1>4 DEF CacheInv, Typed, Limited
<1> QED
  BY <1>2, <1>3, <1>5 DEF CacheInv

LEMMA NextInv ==
  ASSUME CacheInv, [Next]_vars
  PROVE  CacheInv'
BY SetAsyncInv, WriteInv, GetInv, ResizeStoreInv, ResizeEvictInv, QuietInv DEF Next

LEMMA Invariant == Spec => []CacheInv
<1>1. Init => CacheInv
  BY InitInv
<1>2. CacheInv /\ [Next]_vars => CacheInv'
  BY NextInv
<1> QED
  BY <1>1, <1>2, PTL DEF Spec

\* Every variable keeps its type, for any constants.
THEOREM TypeCorrect == Spec => []TypeOK
<1>1. ASSUME CacheInv PROVE TypeOK
  <2>1. items \in [Keys -> Responses \cup {None}] /\ lru \in Seq(Keys) /\ recent \in Seq(Keys)
    BY <1>1 DEF CacheInv, CacheOK, Cache, KeyLists, InOrderOfUse
  <2>2. curSize \in Int
    <3>1. Cache.size \in Nat
      BY <1>1, Accounts DEF CacheInv
    <3> QED
      BY <3>1 DEF Cache
  <2> QED
    BY <1>1, <2>1, <2>2 DEF CacheInv, Typed, TypeOK
<1> QED
  BY <1>1, Invariant, PTL

\* The list, the map and the byte count of Cache always describe the same entries, and
\* outside of a Resize the limit holds unless a single entry exceeds it.
THEOREM AccountedCorrect == Spec => []Accounted
<1>1. ASSUME CacheInv PROVE Accounted
  <2>1. ToSet(lru) = Stored /\ IsInjective(lru) /\ curSize = SizeOf(items, Stored)
    BY <1>1 DEF CacheInv, CacheOK, Cache, KeyLists, Stored, StoredIn
  <2>2. (\A r \in Resizers : resizing[r] = None) => curSize <= maxSize \/ Len(lru) = 1
    BY <1>1, Limitations DEF CacheInv, Limited
  <2> QED
    BY <2>1, <2>2 DEF Accounted
<1> QED
  BY <1>1, Invariant, PTL

LEMMA EvictsStep ==
  ASSUME CacheInv, [Next]_vars, writeCh' # writeCh \/ resizing' # resizing,
         NEW k \in Stored, NEW l \in Stored, k \notin ToSet(lru'), l \in ToSet(lru'), items'[l] = items[l]
  PROVE  Before(recent, l, k)
<1>1. /\ k \in Keys /\ l \in Keys /\ k \in ToSet(lru) /\ l \in ToSet(lru)
      /\ items[k] # None /\ items[l] # None
  BY DEF CacheInv, CacheOK, Cache, Stored, StoredIn
<1>2. lru' # lru
  BY <1>1
<1>3. \A x, y \in Keys : Before(lru, x, y) => Before(recent, x, y)
  BY DEF CacheInv, InOrderOfUse
<1>4. CASE Write
  <2> DEFINE w == writeCh[1]
  <2>1. writeCh # <<>> /\ 1 \in 1 .. Len(writeCh) /\ Head(writeCh) = w
    BY <1>4, TailFacts DEF Write
  <2>2. w.ttl >= 0 /\ Stores(w)
    BY <1>2, <1>4, <2>1 DEF Write, Stores
  <2>3. w \in Writes /\ (items[w.key] # None => items[w.key].ver < w.ver) /\ w.ver \in Nat
    BY <2>1, QueueFacts
  <2> HIDE DEF w
  <2>4. /\ items'[w.key].ver = w.ver
        /\ \A x \in ToSet(lru') \ {w.key}, y \in ToSet(lru) \ ToSet(lru') : Before(lru, x, y)
    BY <2>2, <2>3, StoresOK, Limitations DEF CacheInv
  <2>5. l # w.key
    BY <1>1, <2>3, <2>4, StoreFacts
  <2> QED
    BY <1>1, <1>3, <2>4, <2>5
<1>5. CASE \E r \in Resizers : ResizeEvict(r)
  <2>1. PICK r \in Resizers : ResizeEvict(r)
    BY <1>5
  <2>2. resizing[r] \in Nat /\ Becomes(Evicted(Cache, 0, resizing[r]))
    BY <2>1, Limitations DEF CacheInv, ResizeEvict
  <2>3. \A x \in ToSet(lru'), y \in ToSet(lru) \ ToSet(lru') : Before(lru, x, y)
    BY <2>2, EvictsOK DEF CacheInv
  <2> QED
    BY <1>1, <1>3, <2>3
<1> QED
  BY <1>2, <1>4, <1>5 DEF Next, vars, SetAsync, Get, ResizeStore, Close, CloseDone, Tick

\* Making room for a write or a smaller limit drops least recently used entries only.
THEOREM EvictsCorrect == Spec => EvictsLeastRecent
<1>1. ASSUME CacheInv, [Next]_vars
      PROVE  [writeCh' # writeCh \/ resizing' # resizing =>
                \A k, l \in Stored :
                  k \notin ToSet(lru') /\ l \in ToSet(lru') /\ items'[l] = items[l]
                    => \E i, j \in 1 .. Len(recent) : i < j /\ recent[i] = l /\ recent[j] = k]_vars
  BY <1>1, EvictsStep DEF Before
<1> QED
  BY <1>1, Invariant, PTL DEF Spec, EvictsLeastRecent

-----------------------------------------------------------------------------
(* The cache implements CacheSpec.                                         *)

LEMMA RefinesSetAsync ==
  ASSUME CacheInv, NEW k \in Keys, NEW size \in Sizes, NEW ttl \in Lifetimes, SetAsync(k, size, ttl)
  PROVE  Abstract!Offer(k, offers + 1) /\ offers + 1 \in Versions
<1>1. offers + 1 \in Versions
  BY Limitations, BoundsAssumption DEF CacheInv, SetAsync, Versions
<1> QED
  BY <1>1 DEF SetAsync, Abstract!Offer

LEMMA RefinesWrite ==
  ASSUME CacheInv, Write
  PROVE  Abstract!Change
<1> DEFINE w == writeCh[1]
<1>1. /\ writeCh # <<>> /\ 1 \in 1 .. Len(writeCh) /\ Head(writeCh) = w
      /\ UNCHANGED <<offered, seen, answer, now>>
  BY TailFacts DEF Write
<1>2. w \in Writes /\ w.ver \in offered[w.key]
  BY <1>1, QueueFacts
<1>3. (items' = items) \/ (w.ttl >= 0 /\ Stores(w))
  BY <1>1 DEF Write, Stores
<1> HIDE DEF w
<1>4. CASE items' = items
  BY <1>1, <1>4 DEF Abstract!Change
<1>5. CASE w.ttl >= 0 /\ Stores(w)
  <2>1. /\ items'[w.key] \in Responses /\ items'[w.key].ver = w.ver
        /\ \A k \in Keys : k # w.key => items'[k] \in {None, items[k]}
    BY <1>2, <1>5, StoresOK, Limitations DEF CacheInv
  <2>2. \A k \in Keys : items'[k] \in {None, items[k]} \cup {v \in Responses : v.ver \in offered[k]}
    BY <1>2, <2>1
  <2>3. \A k, l \in Keys : k # l /\ items'[k] \notin {None, items[k]} => items'[l] \in {None, items[l]}
    BY <2>1
  <2> QED
    BY <1>1, <2>2, <2>3 DEF Abstract!Change
<1> QED
  BY <1>3, <1>4, <1>5

LEMMA RefinesGet ==
  ASSUME CacheInv, NEW k \in Keys, Get(k)
  PROVE  Abstract!Read(k)
<1>1. UNCHANGED <<now, offered>>
  BY DEF Get
<1>2. CASE answer' = None /\ UNCHANGED <<items, seen>>
  BY <1>1, <1>2 DEF Abstract!Read
<1>3. CASE answer' = None /\ Becomes(Removed(Cache, k)) /\ UNCHANGED seen
  <2>1. items' = [items EXCEPT ![k] = None]
    BY <1>3 DEF Becomes, Removed, Cache
  <2> QED
    BY <1>1, <1>3, <2>1 DEF Abstract!Read
<1>4. CASE /\ items[k] # None /\ ~Expired(k) /\ answer' = items[k]
           /\ seen' = [seen EXCEPT ![k] = items[k].ver] /\ UNCHANGED items
  <2>1. items[k] \in Responses /\ items[k].ver \in Nat /\ seen[k] \in Nat /\ seen[k] <= items[k].ver
    BY <1>4, StoreFacts
  <2>2. now \in Nat /\ items[k].until \in Nat
    BY <2>1, Limitations DEF CacheInv, Responses
  <2>3. now <= items[k].until /\ items[k].ver >= seen[k]
    BY <1>4, <2>1, <2>2 DEF Expired
  <2> QED
    BY <1>1, <1>4, <2>3 DEF Abstract!Read
<1> QED
  BY <1>2, <1>3, <1>4 DEF Get

LEMMA RefinesResize ==
  ASSUME CacheInv, NEW r \in Resizers, ResizeEvict(r)
  PROVE  Abstract!Change
<1>1. /\ resizing[r] \in Nat /\ Becomes(Evicted(Cache, 0, resizing[r]))
      /\ UNCHANGED <<now, answer, offered, seen>>
  BY Limitations DEF CacheInv, ResizeEvict
<1>2. \A k \in Keys : items'[k] \in {None, items[k]}
  BY <1>1, EvictsOK DEF CacheInv
<1> QED
  BY <1>1, <1>2 DEF Abstract!Change

\* What Get returns was offered under its key, is fresh, and is never older than what
\* it returned before, whatever the writer, the clock and Resize do in between.
THEOREM PromisesKept == Spec => Promises
<1>1. Init => Abstract!Init
  BY DEF Init, Abstract!Init
<1>2. ASSUME CacheInv, [Next]_vars PROVE [Abstract!Next]_(Abstract!vars)
  <2>1. ASSUME NEW k \in Keys, NEW size \in Sizes, NEW ttl \in Lifetimes, SetAsync(k, size, ttl)
        PROVE  Abstract!Next
    BY <1>2, <2>1, RefinesSetAsync DEF Abstract!Next
  <2>2. ASSUME Write PROVE Abstract!Next
    BY <1>2, <2>2, RefinesWrite DEF Abstract!Next
  <2>3. ASSUME NEW k \in Keys, Get(k) PROVE Abstract!Next
    BY <1>2, <2>3, RefinesGet DEF Abstract!Next
  <2>4. ASSUME NEW r \in Resizers, ResizeEvict(r) PROVE Abstract!Next
    BY <1>2, <2>4, RefinesResize DEF Abstract!Next
  <2>5. ASSUME Tick PROVE Abstract!Next
    BY <2>5 DEF Tick, Abstract!Tick, Abstract!Next
  <2>6. ASSUME (\E r \in Resizers, limit \in Limits : ResizeStore(r, limit)) \/ Close \/ CloseDone \/ UNCHANGED vars
        PROVE  UNCHANGED Abstract!vars
    BY <2>6 DEF ResizeStore, Close, CloseDone, vars, Abstract!vars
  <2> QED
    BY <1>2, <2>1, <2>2, <2>3, <2>4, <2>5, <2>6 DEF Next
<1> QED
  BY <1>1, <1>2, Invariant, PTL DEF Spec, Promises, Abstract!Spec
=============================================================================
