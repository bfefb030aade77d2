------------------------- MODULE Timestamps_proofs -------------------------
(***************************************************************************)
(* What newestTS and a page of Slack's return, for any set of messages.    *)
(***************************************************************************)
EXTENDS Timestamps, SlackPages, TLAPS, FiniteSetTheorems, FunctionTheorems,
    WellFoundedInduction

\* A nonempty set of messages, none newer than b, has a newest timestamp.
LEMMA NewestTSProperties ==
    ASSUME NEW S, S # {}, NEW b \in Nat,
           \A m \in S : m.ts \in Nat /\ m.ts <= b
    PROVE  /\ NewestTS(S) \in Nat
           /\ \E m \in S : NewestTS(S) = m.ts
           /\ \A m \in S : m.ts <= NewestTS(S)
<1> DEFINE Above(t) == {y \in 0 .. b : y > t}
           T == {Above(m.ts) : m \in S}
<1>1. IsFiniteSet(0 .. b)
  BY FS_Interval
<1>2. IsWellFoundedOn(StrictSubsetOrdering(0 .. b), FiniteSubsetsOf(0 .. b))
  BY FS_StrictSubsetOrderingWellFounded
<1>3. T \subseteq FiniteSubsetsOf(0 .. b) /\ T # {}
  <2>1. FiniteSubsetsOf(0 .. b) = SUBSET (0 .. b)
    BY <1>1, FS_FiniteSubsetsOfFinite
  <2>2. T \subseteq SUBSET (0 .. b)
    OBVIOUS
  <2> QED
    BY <2>1, <2>2
<1>4. PICK x \in T : \A y \in T : ~ (<<y, x>> \in StrictSubsetOrdering(0 .. b))
  BY <1>2, <1>3, WFMin
<1>5. PICK n \in S : x = Above(n.ts)
  BY <1>3
<1>6. ASSUME NEW m \in S, m.ts > n.ts
      PROVE  FALSE
  <2>1. Above(m.ts) \in SUBSET (0 .. b) /\ x \in SUBSET (0 .. b)
    BY <1>5
  <2>2. Above(m.ts) \subseteq x
    BY <1>5, <1>6
  <2>3. m.ts \in x /\ m.ts \notin Above(m.ts)
    BY <1>5, <1>6
  <2>4. <<Above(m.ts), x>> \in StrictSubsetOrdering(0 .. b)
    BY <2>1, <2>2, <2>3 DEF StrictSubsetOrdering
  <2> QED
    BY <1>4, <2>4
<1>7. \A m \in S : m.ts <= n.ts
  BY <1>6
<1> QED
  BY <1>7 DEF NewestTS

-----------------------------------------------------------------------------
\* A finite set of numbers has a smallest one.
LEMMA Smallest ==
    ASSUME NEW S \in SUBSET Nat, IsFiniteSet(S), S # {}
    PROVE  \E k \in S : \A l \in S : k <= l
<1> DEFINE Below(k) == {l \in S : l < k}
           T == {Below(k) : k \in S}
<1>1. IsWellFoundedOn(StrictSubsetOrdering(S), FiniteSubsetsOf(S))
  BY FS_StrictSubsetOrderingWellFounded
<1>2. T \subseteq FiniteSubsetsOf(S) /\ T # {}
  <2>1. FiniteSubsetsOf(S) = SUBSET S
    BY FS_FiniteSubsetsOfFinite
  <2>2. T \subseteq SUBSET S /\ T # {}
    OBVIOUS
  <2> QED
    BY <2>1, <2>2
<1>3. PICK x \in T : \A y \in T : ~ (<<y, x>> \in StrictSubsetOrdering(S))
  BY <1>1, <1>2, WFMin
<1>4. PICK k \in S : x = Below(k)
  BY <1>2
<1>0. \A l \in S : l \in Nat
  OBVIOUS
<1>5. ASSUME NEW l \in S, l < k PROVE FALSE
  <2>1. Below(l) \in SUBSET S /\ x \in SUBSET S
    BY <1>4
  <2>2. Below(l) \subseteq x /\ l \in x /\ l \notin Below(l)
    <3>1. l \in Nat /\ k \in Nat /\ l \in x
      BY <1>0, <1>4, <1>5
    <3>2. \A m \in Below(l) : m \in S /\ m \in Nat /\ m < l
      BY <1>0
    <3>3. \A m \in Below(l) : m \in Below(k)
      BY <1>5, <3>1, <3>2
    <3>4. l \notin Below(l)
      BY <3>1
    <3>5. Below(l) \subseteq x
      BY <1>4, <3>3
    <3> QED
      BY <3>1, <3>4, <3>5
  <2>3. <<Below(l), x>> \in StrictSubsetOrdering(S)
    BY <2>1, <2>2 DEF StrictSubsetOrdering
  <2> QED
    BY <1>3, <2>3
<1> QED
  BY <1>5

\* And a largest one.
LEMMA Largest ==
    ASSUME NEW S \in SUBSET Nat, IsFiniteSet(S), S # {}
    PROVE  \E k \in S : \A l \in S : l <= k
<1> DEFINE Above(k) == {l \in S : l > k}
           T == {Above(k) : k \in S}
<1>1. IsWellFoundedOn(StrictSubsetOrdering(S), FiniteSubsetsOf(S))
  BY FS_StrictSubsetOrderingWellFounded
<1>2. T \subseteq FiniteSubsetsOf(S) /\ T # {}
  <2>1. FiniteSubsetsOf(S) = SUBSET S
    BY FS_FiniteSubsetsOfFinite
  <2>2. T \subseteq SUBSET S /\ T # {}
    OBVIOUS
  <2> QED
    BY <2>1, <2>2
<1>3. PICK x \in T : \A y \in T : ~ (<<y, x>> \in StrictSubsetOrdering(S))
  BY <1>1, <1>2, WFMin
<1>4. PICK k \in S : x = Above(k)
  BY <1>2
<1>0. \A l \in S : l \in Nat
  OBVIOUS
<1>5. ASSUME NEW l \in S, l > k PROVE FALSE
  <2>1. Above(l) \in SUBSET S /\ x \in SUBSET S
    BY <1>4
  <2>2. Above(l) \subseteq x /\ l \in x /\ l \notin Above(l)
    <3>1. l \in Nat /\ k \in Nat /\ l \in x
      BY <1>0, <1>4, <1>5
    <3>2. \A m \in Above(l) : m \in S /\ m \in Nat /\ m > l
      BY <1>0
    <3>3. \A m \in Above(l) : m \in Above(k)
      BY <1>5, <3>1, <3>2
    <3>4. l \notin Above(l)
      BY <3>1
    <3>5. Above(l) \subseteq x
      BY <1>4, <3>3
    <3> QED
      BY <3>1, <3>4, <3>5
  <2>3. <<Above(l), x>> \in StrictSubsetOrdering(S)
    BY <2>1, <2>2 DEF StrictSubsetOrdering
  <2> QED
    BY <1>3, <2>3
<1> QED
  BY <1>5

\* A nonempty finite set of sets has a smallest member.
LEMMA SmallestSet ==
    ASSUME NEW S, IsFiniteSet(S), NEW T \in SUBSET SUBSET S, T # {}
    PROVE  \E X \in T : \A Y \in T : Y \subseteq X => Y = X
<1>1. IsWellFoundedOn(StrictSubsetOrdering(S), FiniteSubsetsOf(S))
  BY FS_StrictSubsetOrderingWellFounded
<1>2. T \subseteq FiniteSubsetsOf(S)
  BY FS_FiniteSubsetsOfFinite
<1>3. PICK X \in T : \A Y \in T : ~ (<<Y, X>> \in StrictSubsetOrdering(S))
  BY <1>1, <1>2, WFMin
<1>4. ASSUME NEW Y \in T, Y \subseteq X, Y # X PROVE FALSE
  BY <1>3, <1>4 DEF StrictSubsetOrdering
<1> QED
  BY <1>4

(***************************************************************************)
(* Pages.                                                                  *)
(***************************************************************************)
\* Messages with numbers for timestamps.
Timed(S) == IsFiniteSet(S) /\ \A m \in S : m.ts \in Nat

\* Among messages there is a newest and an oldest one.
LEMMA NewestAndOldest ==
    ASSUME NEW S, Timed(S), S # {}
    PROVE  /\ \E m \in S : \A x \in S : x.ts <= m.ts
           /\ \E m \in S : \A x \in S : m.ts <= x.ts
<1> DEFINE A(m) == {x \in S : x.ts > m.ts}
           B(m) == {x \in S : x.ts < m.ts}
<1>1. \E m \in S : \A x \in S : x.ts <= m.ts
  <2> DEFINE T == {A(m) : m \in S}
  <2>1. T \in SUBSET SUBSET S /\ T # {} /\ IsFiniteSet(S)
    BY DEF Timed
  <2> HIDE DEF T
  <2>2. PICK X \in T : \A Y \in T : Y \subseteq X => Y = X
    BY <2>1, SmallestSet
  <2>3. PICK m \in S : X = A(m)
    BY <2>2 DEF T
  <2>4. ASSUME NEW x \in S, x.ts > m.ts PROVE FALSE
    <3>1. A(x) \subseteq A(m) /\ x \in A(m) /\ x \notin A(x)
      BY <2>4 DEF Timed
    <3>2. A(x) \in T
      BY DEF T
    <3> QED
      BY <2>2, <2>3, <3>1, <3>2
  <2> QED
    BY <2>4 DEF Timed
<1>2. \E m \in S : \A x \in S : m.ts <= x.ts
  <2> DEFINE T == {B(m) : m \in S}
  <2>1. T \in SUBSET SUBSET S /\ T # {} /\ IsFiniteSet(S)
    BY DEF Timed
  <2> HIDE DEF T
  <2>2. PICK X \in T : \A Y \in T : Y \subseteq X => Y = X
    BY <2>1, SmallestSet
  <2>3. PICK m \in S : X = B(m)
    BY <2>2 DEF T
  <2>4. ASSUME NEW x \in S, x.ts < m.ts PROVE FALSE
    <3>1. B(x) \subseteq B(m) /\ x \in B(m) /\ x \notin B(x)
      BY <2>4 DEF Timed
    <3>2. B(x) \in T
      BY DEF T
    <3> QED
      BY <2>2, <2>3, <3>1, <3>2
  <2> QED
    BY <2>4 DEF Timed
<1> QED
  BY <1>1, <1>2

\* A page of more than nothing shows something, when there is something.
LEMMA NewestOfNonempty ==
    ASSUME NEW S, Timed(S), S # {}, NEW n \in Nat \ {0}
    PROVE  NewestOf(S, n) # {}
<1>1. PICK m \in S : \A x \in S : x.ts <= m.ts
  BY NewestAndOldest
<1>2. {x \in S : x.ts > m.ts} = {}
  BY <1>1 DEF Timed
<1>3. Cardinality({}) = 0
  BY FS_EmptySet
<1> QED
  BY <1>1, <1>2, <1>3 DEF NewestOf

\* What is on the newest page of more messages is on that of fewer.
LEMMA NewestOfFewer ==
    ASSUME NEW T, Timed(T), NEW S \in SUBSET T, NEW n \in Nat,
           NEW m \in S, m \in NewestOf(T, n)
    PROVE  m \in NewestOf(S, n)
<1> DEFINE A == {x \in S : x.ts > m.ts}
           B == {x \in T : x.ts > m.ts}
<1>1. IsFiniteSet(B) /\ A \subseteq B
  BY FS_Subset DEF Timed
<1>2. Cardinality(A) <= Cardinality(B) /\ Cardinality(A) \in Nat /\ Cardinality(B) \in Nat
  BY <1>1, FS_Subset, FS_CardinalityType
<1>3. Cardinality(B) < n
  BY DEF NewestOf
<1>4. Cardinality(A) < n
  <2> HIDE DEF A, B
  <2> QED
    BY <1>2, <1>3
<1> QED
  BY <1>4 DEF NewestOf

\* And the same of the oldest page.
LEMMA OldestOfFewer ==
    ASSUME NEW T, Timed(T), NEW S \in SUBSET T, NEW n \in Nat,
           NEW m \in S, m \in OldestOf(T, n)
    PROVE  m \in OldestOf(S, n)
<1> DEFINE A == {x \in S : x.ts < m.ts}
           B == {x \in T : x.ts < m.ts}
<1>1. IsFiniteSet(B) /\ A \subseteq B
  BY FS_Subset DEF Timed
<1>2. Cardinality(A) <= Cardinality(B) /\ Cardinality(A) \in Nat /\ Cardinality(B) \in Nat
  BY <1>1, FS_Subset, FS_CardinalityType
<1>3. Cardinality(B) < n
  BY DEF OldestOf
<1>4. Cardinality(A) < n
  <2> HIDE DEF A, B
  <2> QED
    BY <1>2, <1>3
<1> QED
  BY <1>4 DEF OldestOf

\* What a page leaves out is older than all of it.
LEMMA LeftOutIsOlder ==
    ASSUME NEW S, Timed(S), NEW n \in Nat, NEW m \in S \ NewestOf(S, n), NEW x \in NewestOf(S, n)
    PROVE  x.ts > m.ts
<1> DEFINE A == {y \in S : y.ts > m.ts}
           B == {y \in S : y.ts > x.ts}
<1>1. SUFFICES ASSUME x.ts <= m.ts PROVE FALSE
  BY DEF NewestOf, Timed
<1>2. IsFiniteSet(B) /\ A \subseteq B
  BY <1>1, FS_Subset DEF Timed, NewestOf
<1>3. Cardinality(A) <= Cardinality(B) /\ Cardinality(A) \in Nat /\ Cardinality(B) \in Nat
  BY <1>2, FS_Subset, FS_CardinalityType
<1>4. Cardinality(B) < n /\ ~ (Cardinality(A) < n)
  BY DEF NewestOf
<1> HIDE DEF A, B
<1> QED
  BY <1>3, <1>4

\* A page that leaves something out is full, when no two messages share a
\* timestamp.
LEMMA ShortPageIsAll ==
    ASSUME NEW S, Timed(S), \A x, y \in S : x.ts = y.ts => x = y,
           NEW n \in Nat, NewestOf(S, n) # S
    PROVE  Cardinality(NewestOf(S, n)) = n
<1> DEFINE T == {X \in SUBSET S : NewestOf(X, n) # X /\ Cardinality(NewestOf(X, n)) # n}
<1>1. SUFFICES ASSUME S \in T PROVE FALSE
  OBVIOUS
<1>2. PICK X \in T : \A Y \in T : Y \subseteq X => Y = X
  <2>1. T \in SUBSET SUBSET S /\ T # {} /\ IsFiniteSet(S)
    BY <1>1 DEF Timed
  <2> HIDE DEF T
  <2> QED
    BY <2>1, SmallestSet
<1>3. Timed(X) /\ \A x, y \in X : x.ts = y.ts => x = y
  BY FS_Subset DEF Timed
<1>4. X # {}
  BY DEF NewestOf
<1>5. PICK o \in X : \A x \in X : o.ts <= x.ts
  BY <1>3, <1>4, NewestAndOldest
<1> DEFINE Y == X \ {o}
<1>6. /\ IsFiniteSet(Y) /\ Cardinality(Y) = Cardinality(X) - 1
      /\ Cardinality(X) \in Nat /\ Cardinality(Y) \in Nat
  BY <1>3, FS_RemoveElement, FS_CardinalityType DEF Timed
<1>7. {x \in X : x.ts > o.ts} = Y
  <2>1. \A x \in X : x.ts \in Nat /\ o.ts \in Nat /\ o.ts <= x.ts /\ (x.ts = o.ts => x = o)
    BY <1>3, <1>5 DEF Timed
  <2> QED
    BY <2>1
<1>8. \A m \in Y : {x \in X : x.ts > m.ts} = {x \in Y : x.ts > m.ts}
  BY <1>3, <1>5 DEF Timed
<1>9. NewestOf(X, n) = IF Cardinality(Y) < n THEN NewestOf(Y, n) \cup {o} ELSE NewestOf(Y, n)
  BY <1>7, <1>8 DEF NewestOf
<1>10. Y \notin T
  BY <1>2, <1>5
<1>11. NewestOf(Y, n) = Y \/ Cardinality(NewestOf(Y, n)) = n
  BY <1>10
<1>12. CASE Cardinality(Y) < n
  <2>1. NewestOf(Y, n) # Y
    <3>1. Y \cup {o} = X
      BY <1>5
    <3>2. NewestOf(X, n) # X
      BY <1>2
    <3> QED
      BY <1>9, <1>12, <3>1, <3>2
  <2>2. Cardinality(NewestOf(Y, n)) = n
    BY <1>11, <2>1
  <2>3. NewestOf(Y, n) \in SUBSET Y
    BY DEF NewestOf
  <2>4. Cardinality(NewestOf(Y, n)) <= Cardinality(Y)
    BY <1>6, <2>3, FS_Subset
  <2> QED
    BY <1>6, <1>12, <2>2, <2>4
<1>13. CASE ~ (Cardinality(Y) < n)
  <2>1. NewestOf(X, n) = NewestOf(Y, n)
    BY <1>9, <1>13
  <2>2. Cardinality(NewestOf(Y, n)) # n
    BY <1>2, <2>1
  <2>3. NewestOf(Y, n) = Y
    BY <1>11, <2>2
  <2>4. Cardinality(Y) > n /\ Y # {}
    <3>1. Cardinality(Y) # n
      BY <2>2, <2>3
    <3> QED
      BY <1>6, <1>13, <3>1, FS_EmptySet
  <2>5. Timed(Y)
    BY <1>3, <1>6 DEF Timed
  <2>6. PICK p \in Y : \A x \in Y : p.ts <= x.ts
    BY <2>4, <2>5, NewestAndOldest
  <2>7. {x \in Y : x.ts > p.ts} = Y \ {p}
    <3>1. \A x \in Y : x.ts \in Nat /\ p.ts \in Nat /\ p.ts <= x.ts /\ (x.ts = p.ts => x = p)
      BY <1>3, <2>6 DEF Timed
    <3> QED
      BY <3>1
  <2>8. Cardinality(Y \ {p}) = Cardinality(Y) - 1
    BY <1>6, FS_RemoveElement
  <2>9. Cardinality(Y \ {p}) < n
    BY <2>3, <2>6, <2>7 DEF NewestOf
  <2> QED
    BY <1>6, <2>4, <2>8, <2>9
<1> QED
  BY <1>12, <1>13

\* The first n of some things in order (B[c] being what comes before c) are n in
\* number and come before whatever is left out.
LEMMA FirstInOrder ==
    ASSUME NEW S, IsFiniteSet(S), NEW B \in [S -> SUBSET S],
           \A c \in S : c \notin B[c],
           \A c, d \in S : d \in B[c] => B[d] \subseteq B[c],
           \A c, d \in S : c = d \/ c \in B[d] \/ d \in B[c],
           NEW n \in Nat, NEW c \in S, ~ (Cardinality(B[c]) < n)
    PROVE  LET First == {d \in S : Cardinality(B[d]) < n}
           IN  Cardinality(First) = n /\ \A d \in First : d \in B[c]
<1> DEFINE f == [d \in S |-> Cardinality(B[d])]
           k == Cardinality(S)
           T == 0 .. k - 1
           First == {d \in S : Cardinality(B[d]) < n}
           g == [d \in First |-> f[d]]
<1>1. k \in Nat /\ \A d \in S : IsFiniteSet(B[d]) /\ Cardinality(B[d]) \in Nat
  BY FS_Subset, FS_CardinalityType
<1>2. ASSUME NEW U \in SUBSET S, NEW V \in SUBSET U, NEW x \in U \ V
      PROVE  Cardinality(V) < Cardinality(U)
  <2>1. IsFiniteSet(U) /\ IsFiniteSet(V)
    BY FS_Subset
  <2>2. /\ Cardinality(V) <= Cardinality(U) /\ Cardinality(V) # Cardinality(U)
        /\ Cardinality(U) \in Nat /\ Cardinality(V) \in Nat
    BY <2>1, FS_Subset, FS_CardinalityType
  <2> QED
    BY <2>2
<1>3. ASSUME NEW d \in S, NEW e \in B[d] PROVE Cardinality(B[e]) < Cardinality(B[d])
  <2>1. e \in S /\ B[e] \in SUBSET B[d] /\ B[d] \in SUBSET S /\ e \in B[d] \ B[e]
    OBVIOUS
  <2> QED
    BY <1>2, <2>1
<1>4. \A d \in S : Cardinality(B[d]) < k
  <2>1. \A d \in S : B[d] \in SUBSET S /\ d \in S \ B[d]
    OBVIOUS
  <2> QED
    BY <1>2, <2>1
<1>5. \A d \in First : d \in B[c]
  <2> SUFFICES ASSUME NEW d \in First, c = d \/ c \in B[d] PROVE FALSE
    OBVIOUS
  <2>1. Cardinality(B[d]) < n /\ Cardinality(B[d]) \in Nat /\ Cardinality(B[c]) \in Nat
    BY <1>1
  <2>2. c = d \/ Cardinality(B[c]) < Cardinality(B[d])
    BY <1>3
  <2> QED
    BY <2>1, <2>2
<1> HIDE DEF k
<1>6. f \in [S -> T]
  BY <1>1, <1>4
<1>7. \A d, e \in S : f[d] = f[e] => d = e
  <2>1. \A d \in S : f[d] \in Nat /\ \A e \in B[d] : e \in S /\ f[e] < f[d]
    BY <1>1, <1>3
  <2> HIDE DEF f
  <2> SUFFICES ASSUME NEW d \in S, NEW e \in S, f[d] = f[e], d # e PROVE FALSE
    OBVIOUS
  <2>2. d \in B[e] \/ e \in B[d]
    OBVIOUS
  <2> QED
    BY <2>1, <2>2
<1>8. \A i \in T : \E d \in S : f[d] = i
  <2>1. Cardinality(T) = IF 0 > k - 1 THEN 0 ELSE (k - 1) - 0 + 1
    BY <1>1, FS_Interval
  <2>2. IsFiniteSet(T) /\ Cardinality(T) = k
    BY <1>1, <2>1, FS_Interval
  <2>3. f \in Injection(S, T)
    BY <1>6, <1>7, Fun_IsInj
  <2>4. f \in Surjection(S, T)
    BY <2>2, <2>3, FS_Injection DEF k
  <2> QED
    BY <2>4 DEF Surjection
<1>9. g \in [First -> 0 .. n - 1] /\ \A d, e \in First : g[d] = g[e] => d = e
  <2>1. \A d \in First : f[d] \in 0 .. n - 1
    BY <1>1
  <2> QED
    BY <1>7, <2>1
<1>10. \A i \in 0 .. n - 1 : \E d \in First : g[d] = i
  <2> SUFFICES ASSUME NEW i \in 0 .. n - 1 PROVE \E d \in First : g[d] = i
    OBVIOUS
  <2>1. i \in T
    BY <1>1, <1>4
  <2>2. PICK d \in S : f[d] = i
    BY <1>8, <2>1
  <2>3. d \in First
    BY <2>2
  <2> QED
    BY <2>2, <2>3
<1>11. IsFiniteSet(0 .. n - 1) /\ Cardinality(0 .. n - 1) = n
  <2>1. n - 1 \in Int /\ 0 \in Int
    OBVIOUS
  <2>2. Cardinality(0 .. n - 1) = (IF 0 > n - 1 THEN 0 ELSE (n - 1) - 0 + 1) /\ IsFiniteSet(0 .. n - 1)
    BY <2>1, FS_Interval
  <2>3. n = IF 0 > n - 1 THEN 0 ELSE (n - 1) - 0 + 1
    OBVIOUS
  <2> QED
    BY <2>2, <2>3
<1>12. Cardinality(First) = n
  <2> HIDE DEF g, First
  <2>1. g \in Injection(First, 0 .. n - 1) /\ g \in Surjection(First, 0 .. n - 1)
    BY <1>9, <1>10, Fun_IsInj, Fun_IsSurj
  <2> QED
    BY <1>11, <2>1, FS_Injection
<1> QED
  BY <1>5, <1>12

\* Messages with timestamps of their own from 1 to b are at most b.
LEMMA AsManyAsTimestamps ==
    ASSUME NEW S, IsFiniteSet(S), \A x, y \in S : x.ts = y.ts => x = y,
           NEW b \in Nat, \A m \in S : m.ts \in 1 .. b
    PROVE  Cardinality(S) \in 0 .. b
<1> DEFINE f == [m \in S |-> m.ts]
<1>1. f \in Injection(S, 1 .. b)
  BY Fun_IsInj
<1>2. IsFiniteSet(1 .. b) /\ Cardinality(1 .. b) <= b
  BY FS_Interval
<1>3. Cardinality(S) <= Cardinality(1 .. b) /\ Cardinality(1 .. b) \in Nat /\ Cardinality(S) \in Nat
  BY <1>1, <1>2, FS_Injection, FS_CardinalityType
<1> QED
  BY <1>2, <1>3
=============================================================================
