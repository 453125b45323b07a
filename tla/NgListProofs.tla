---------------------------- MODULE NgListProofs ----------------------------
(***************************************************************************)
(* Lemmas about the linked lists of NgRegistry: what a loop over a list    *)
(* sees, when it ends, and what putting an object in front changes.  They  *)
(* are stated for any kind of object: D are the objects, next their        *)
(* pointers.                                                               *)
(***************************************************************************)
EXTENDS NgRegistry, SequenceTheorems, FiniteSetTheorems, TLAPS

\* A set of natural numbers that is not empty has a least element: the intervals
\* from 0 to its elements are finite sets, and inclusion is well-founded on
\* those.
LEMMA LeastNumber ==
  ASSUME NEW T, T \subseteq Nat, T # {}
  PROVE  \E x \in T : \A y \in T : x <= y
<1> DEFINE Below == {0 .. x : x \in T}
<1>1. Below \subseteq FiniteSubsetsOf(Nat) /\ Below # {}
  <2>1. \A x \in T : IsFiniteSet(0 .. x) /\ 0 .. x \subseteq Nat
    BY FS_Interval
  <2> QED
    BY <2>1 DEF FiniteSubsetsOf
<1> HIDE DEF Below
<1>2. PICK I \in Below : \A J \in Below : <<J, I>> \notin StrictSubsetOrdering(Nat)
  BY <1>1, FS_StrictSubsetOrderingWellFounded, WFMin
<1>3. PICK x \in T : I = 0 .. x
  BY DEF Below
<1>4. ASSUME NEW y \in T, y < x
      PROVE  FALSE
  <2>1. 0 .. y \subseteq 0 .. x /\ x \in 0 .. x /\ x \notin 0 .. y
    BY <1>4
  <2>2. <<0 .. y, 0 .. x>> \in StrictSubsetOrdering(Nat)
    BY <2>1 DEF StrictSubsetOrdering
  <2>3. 0 .. y \in Below
    BY DEF Below
  <2> QED
    BY <1>2, <1>3, <2>2, <2>3
<1> QED
  BY <1>4

\* Induction, as a fact about sets of numbers.
LEMMA Induction ==
  ASSUME NEW S, 0 \in S, \A n \in Nat : n \in S => n + 1 \in S
  PROVE  Nat \subseteq S
<1> SUFFICES ASSUME Nat \ S # {} PROVE FALSE
  OBVIOUS
<1>1. PICK x \in Nat \ S : \A y \in Nat \ S : x <= y
  BY LeastNumber
<1>2. x # 0 /\ x - 1 \in Nat /\ ~ x <= x - 1 /\ (x - 1) + 1 = x
  OBVIOUS
<1>3. x - 1 \in S
  BY <1>1, <1>2
<1> QED
  BY <1>2, <1>3

-----------------------------------------------------------------------------
(* What a loop over a list sees                                            *)

\* The function that List is computed with, for so many rounds
Rounds(from, next, D, rounds) ==
  from = [n \in 0 .. rounds |->
            [x \in D \cup {Null} |->
               IF n = 0 \/ x = Null THEN <<>>
               ELSE <<x>> \o from[n - 1][next[x]]]]

\* The recursion defines a function, for any number of rounds.
LEMMA RoundsExist ==
  ASSUME NEW D, NEW next \in [D -> D \cup {Null}]
  PROVE  \A rounds \in Nat : \E from : Rounds(from, next, D, rounds)
<1> DEFINE X == D \cup {Null}
           S == {k \in Nat : \E from : Rounds(from, next, D, k)}
<1>1. 0 \in S
  <2> DEFINE f == [n \in 0 .. 0 |-> [x \in X |-> <<>>]]
  <2>1. f = [n \in 0 .. 0 |->
               [x \in X |-> IF n = 0 \/ x = Null THEN <<>>
                            ELSE <<x>> \o f[n - 1][next[x]]]]
    OBVIOUS
  <2> QED
    BY <2>1, Zenon DEF Rounds
<1>2. ASSUME NEW k \in Nat, k \in S
      PROVE  k + 1 \in S
  <2>1. PICK f : Rounds(f, next, D, k)
    BY <1>2
  <2> DEFINE last == [x \in X |-> IF x = Null THEN <<>> ELSE <<x>> \o f[k][next[x]]]
             g == [n \in 0 .. k + 1 |-> IF n = k + 1 THEN last ELSE f[n]]
             G(n) == [x \in X |-> IF n = 0 \/ x = Null THEN <<>>
                                  ELSE <<x>> \o g[n - 1][next[x]]]
  <2>2. \A n \in 0 .. k : g[n] = f[n]
    OBVIOUS
  <2>3. ASSUME NEW n \in 0 .. k + 1
        PROVE  g[n] = G(n)
    <3>1. CASE n = k + 1
      <4>1. n # 0 /\ n - 1 = k /\ g[k] = f[k] /\ g[n] = last
        BY <3>1, <2>2
      <4> HIDE DEF g
      <4> QED
        BY <4>1
    <3>2. CASE n # k + 1
      <4>1. n \in 0 .. k /\ g[n] = f[n]
        BY <3>2, <2>2
      <4>2. f[n] = [x \in X |-> IF n = 0 \/ x = Null THEN <<>>
                                ELSE <<x>> \o f[n - 1][next[x]]]
        BY <2>1, <4>1 DEF Rounds
      <4>3. n # 0 => n - 1 \in 0 .. k
        BY <4>1
      <4>4. n # 0 => g[n - 1] = f[n - 1]
        BY <4>3, <2>2
      <4> HIDE DEF g
      <4> QED
        BY <4>1, <4>2, <4>4
    <3> QED
      BY <3>1, <3>2
  <2>4. g = [n \in 0 .. k + 1 |-> G(n)]
    <3>1. g = [n \in 0 .. k + 1 |-> g[n]]
      OBVIOUS
    <3> HIDE DEF g, G
    <3> QED
      BY <3>1, <2>3
  <2>5. Rounds(g, next, D, k + 1)
    BY <2>4, Zenon DEF Rounds
  <2> QED
    BY <2>5
<1> QED
  BY <1>1, <1>2, Induction, Zenon

\* L is what a loop sees that starts at x and makes at most n rounds.
IsWalk(L, x, next, D, n) ==
  /\ L \in Seq(D)
  /\ Len(L) <= n
  /\ x = Null => L = <<>>
  /\ x # Null /\ n # 0 => L # <<>>
  /\ L # <<>> => L[1] = x
  /\ \A i \in 1 .. Len(L) : i + 1 \in 1 .. Len(L) => L[i + 1] = next[L[i]]
  /\ \A i \in 1 .. Len(L) : i = Len(L) /\ i < n => next[L[i]] = Null

\* One round, then the others
LEMMA OneMoreRound ==
  ASSUME NEW D, Null \notin D, NEW next \in [D -> D \cup {Null}],
         NEW n \in Nat, NEW x \in D, NEW L, IsWalk(L, next[x], next, D, n)
  PROVE  IsWalk(<<x>> \o L, x, next, D, n + 1)
<1> DEFINE M == <<x>> \o L
<1>1. L \in Seq(D) /\ Len(L) \in Nat /\ <<x>> \in Seq(D) /\ Len(<<x>>) = 1
  BY LenProperties DEF IsWalk
<1>2. /\ M \in Seq(D)
      /\ Len(M) = 1 + Len(L)
      /\ \A i \in 1 .. 1 + Len(L) : M[i] = IF i <= 1 THEN <<x>>[i] ELSE L[i - 1]
  BY <1>1, ConcatProperties
<1>3. M[1] = x /\ M # <<>>
  BY <1>1, <1>2, EmptySeq
<1>4. \A i \in 1 .. Len(L) : i + 1 \in 1 .. 1 + Len(L) /\ M[i + 1] = L[i]
  BY <1>1, <1>2
<1>5. Len(M) <= n + 1
  BY <1>1, <1>2 DEF IsWalk
<1> HIDE DEF M
<1>6. L = <<>> <=> Len(L) = 0
  BY <1>1, EmptySeq
<1>7. ASSUME NEW i \in 1 .. Len(M), i + 1 \in 1 .. Len(M)
      PROVE  M[i + 1] = next[M[i]]
  <2>1. i \in 1 .. Len(L) /\ M[i + 1] = L[i]
    BY <1>1, <1>2, <1>4, <1>7
  <2>2. CASE i = 1
    BY <2>1, <2>2, <1>1, <1>3, <1>6 DEF IsWalk
  <2>3. CASE i # 1
    <3>1. i - 1 \in 1 .. Len(L) /\ (i - 1) + 1 = i
      BY <2>1, <2>3, <1>1
    <3>2. M[i] = L[i - 1] /\ L[i] = next[L[i - 1]]
      BY <2>1, <3>1, <1>4 DEF IsWalk
    <3> QED
      BY <2>1, <3>2
  <2> QED
    BY <2>2, <2>3
<1>8. ASSUME NEW i \in 1 .. Len(M), i = Len(M), i < n + 1
      PROVE  next[M[i]] = Null
  <2>1. CASE Len(L) = 0
    <3>1. i = 1 /\ n # 0
      BY <1>2, <1>8, <2>1
    <3>2. next[x] = Null
      BY <1>6, <2>1, <3>1 DEF IsWalk
    <3> QED
      BY <1>3, <3>1, <3>2
  <2>2. CASE Len(L) # 0
    <3>1. Len(L) \in 1 .. Len(L) /\ Len(L) < n /\ i = Len(L) + 1
      BY <1>1, <1>2, <1>8, <2>2
    <3>2. M[i] = L[Len(L)] /\ next[L[Len(L)]] = Null
      BY <1>4, <3>1 DEF IsWalk
    <3> QED
      BY <3>2
  <2> QED
    BY <2>1, <2>2
<1>9. x # Null
  OBVIOUS
<1> QED
  BY <1>2, <1>3, <1>5, <1>7, <1>8, <1>9, Zenon DEF IsWalk, M

\* List is what a loop sees, for one round more than there are objects.
LEMMA ListIsWalk ==
  ASSUME NEW D, Null \notin D, IsFiniteSet(D), NEW next \in [D -> D \cup {Null}],
         NEW x \in D \cup {Null}
  PROVE  IsWalk(List(x, next), x, next, D, Cardinality(D) + 1)
<1> DEFINE rounds == Cardinality(D) + 1
           X == D \cup {Null}
           F == CHOOSE from : Rounds(from, next, D, rounds)
<1>1. DOMAIN next = D /\ rounds \in Nat
  BY FS_CardinalityType
<1>2. Rounds(F, next, D, rounds)
  BY <1>1, RoundsExist
<1>3. List(x, next) = F[rounds][x]
  BY <1>1 DEF List, Rounds
<1> HIDE DEF F, rounds
<1>4. \A n \in 0 .. rounds, y \in X :
        F[n][y] = IF n = 0 \/ y = Null THEN <<>> ELSE <<y>> \o F[n - 1][next[y]]
  <2> SUFFICES ASSUME NEW n \in 0 .. rounds, NEW y \in X
               PROVE  F[n][y] = IF n = 0 \/ y = Null THEN <<>>
                                ELSE <<y>> \o F[n - 1][next[y]]
    OBVIOUS
  <2>1. F[n] = [z \in X |-> IF n = 0 \/ z = Null THEN <<>>
                             ELSE <<z>> \o F[n - 1][next[z]]]
    BY <1>2 DEF Rounds
  <2> QED
    BY <2>1
<1> DEFINE S == {n \in Nat : n <= rounds =>
                    \A y \in X : IsWalk(F[n][y], y, next, D, n)}
<1>5. \A y, n : n \in Nat /\ (n = 0 \/ y = Null) => IsWalk(<<>>, y, next, D, n)
  BY EmptySeq DEF IsWalk
<1>6. 0 \in S
  <2>1. \A y \in X : F[0][y] = <<>>
    <3>1. 0 \in 0 .. rounds
      BY <1>1
    <3> QED
      BY <1>4, <3>1
  <2> QED
    BY <2>1, <1>5
<1>7. ASSUME NEW n \in Nat, n \in S
      PROVE  n + 1 \in S
  <2> SUFFICES ASSUME n + 1 <= rounds, NEW y \in X
               PROVE  IsWalk(F[n + 1][y], y, next, D, n + 1)
    OBVIOUS
  <2>1. n <= rounds /\ n + 1 \in 0 .. rounds /\ n + 1 # 0 /\ (n + 1) - 1 = n
    BY <1>1
  <2>2. CASE y = Null
    <3>1. F[n + 1][y] = <<>>
      BY <2>1, <2>2, <1>4
    <3> QED
      BY <2>2, <3>1, <1>5
  <2>3. CASE y # Null
    <3>1. y \in D /\ next[y] \in X
      BY <2>3
    <3>2. IsWalk(F[n][next[y]], next[y], next, D, n)
      BY <1>7, <2>1, <3>1
    <3>3. F[n + 1][y] = <<y>> \o F[n][next[y]]
      BY <1>4, <2>1, <2>3
    <3> QED
      BY <3>1, <3>2, <3>3, OneMoreRound
  <2> QED
    BY <2>2, <2>3
<1>8. rounds \in S
  BY <1>1, <1>6, <1>7, Induction, Zenon
<1> QED
  BY <1>1, <1>3, <1>8 DEF rounds

-----------------------------------------------------------------------------
(* Putting an object in front of a list                                    *)

\* What a loop sees is determined by where it starts and by the pointers of what
\* it sees.
LEMMA WalkDetermined ==
  ASSUME NEW D, Null \notin D, NEW n \in Nat, NEW x,
         NEW next, NEW L, IsWalk(L, x, next, D, n),
         NEW new, NEW M, IsWalk(M, x, new, D, n),
         \A i \in 1 .. Len(L) : new[L[i]] = next[L[i]]
  PROVE  M = L
<1>1. /\ L \in Seq(D) /\ Len(L) \in Nat /\ L \in [1 .. Len(L) -> D]
      /\ M \in Seq(D) /\ Len(M) \in Nat /\ M \in [1 .. Len(M) -> D]
  BY LenProperties DEF IsWalk
<1>2. (L = <<>> <=> Len(L) = 0) /\ (M = <<>> <=> Len(M) = 0)
  BY <1>1, EmptySeq
<1>3. L = <<>> <=> M = <<>>
  <2>1. CASE n = 0
    <3>1. Len(L) <= 0 /\ Len(M) <= 0
      BY <2>1, Zenon DEF IsWalk
    <3> QED
      BY <1>1, <1>2, <3>1
  <2>2. CASE n # 0
    BY <2>2, Zenon DEF IsWalk
  <2> QED
    BY <2>1, <2>2
<1>4. Len(L) <= n /\ Len(M) <= n
  BY DEF IsWalk
<1> DEFINE S == {i \in Nat : i + 1 \in 1 .. Len(L) =>
                                i + 1 \in 1 .. Len(M) /\ M[i + 1] = L[i + 1]}
<1>5. 0 \in S
  <2> SUFFICES ASSUME 1 \in 1 .. Len(L)
               PROVE  1 \in 1 .. Len(M) /\ M[1] = L[1]
    OBVIOUS
  <2>1. L # <<>> /\ M # <<>>
    BY <1>1, <1>2, <1>3
  <2>2. L[1] = x /\ M[1] = x
    BY <2>1, Zenon DEF IsWalk
  <2>3. 1 \in 1 .. Len(M)
    BY <1>1, <1>2, <2>1
  <2> QED
    BY <2>2, <2>3
<1>6. ASSUME NEW i \in Nat, i \in S
      PROVE  i + 1 \in S
  <2> SUFFICES ASSUME (i + 1) + 1 \in 1 .. Len(L)
               PROVE  (i + 1) + 1 \in 1 .. Len(M) /\ M[(i + 1) + 1] = L[(i + 1) + 1]
    OBVIOUS
  <2>1. i + 1 \in 1 .. Len(L)
    BY <1>1
  <2>2. i + 1 \in 1 .. Len(M) /\ M[i + 1] = L[i + 1]
    BY <1>6, <2>1
  <2>3. L[(i + 1) + 1] = next[L[i + 1]] /\ new[M[i + 1]] = next[L[i + 1]]
    BY <2>1, <2>2 DEF IsWalk
  <2>4. new[M[i + 1]] # Null
    BY <1>1, <2>3
  <2>5. i + 1 < n
    BY <1>1, <1>4
  <2>6. i + 1 # Len(M)
    BY <2>2, <2>4, <2>5 DEF IsWalk
  <2>7. (i + 1) + 1 \in 1 .. Len(M)
    <3>1. \A a, b \in Nat : a \in 1 .. b /\ a # b => a + 1 \in 1 .. b
      OBVIOUS
    <3>2. i + 1 \in Nat /\ Len(M) \in Nat
      BY <1>1
    <3> QED
      BY <2>2, <2>6, <3>1, <3>2, Zenon
  <2> QED
    BY <2>2, <2>3, <2>7 DEF IsWalk
<1>7. \A i \in Nat : i \in S
  BY <1>5, <1>6, Induction, Zenon
<1>8. ASSUME NEW j \in 1 .. Len(L)
      PROVE  j \in 1 .. Len(M) /\ M[j] = L[j]
  <2>1. j - 1 \in Nat /\ (j - 1) + 1 = j
    OBVIOUS
  <2> QED
    BY <1>7, <2>1
<1>9. Len(M) = Len(L)
  <2>1. CASE Len(L) = 0
    BY <1>2, <1>3, <2>1
  <2>2. CASE Len(L) # 0
    <3> DEFINE k == Len(L)
    <3>1. k \in 1 .. Len(L) /\ k \in 1 .. Len(M) /\ M[k] = L[k]
      BY <1>1, <1>8, <2>2
    <3> SUFFICES ASSUME k < Len(M)
                 PROVE  FALSE
      <4>1. \A a, b \in Nat : a \in 1 .. b /\ ~ a < b => b = a
        OBVIOUS
      <4> QED
        BY <1>1, <3>1, <4>1, Zenon
    <3>2. k + 1 \in 1 .. Len(M) /\ k < n
      BY <1>1, <1>4
    <3>3. M[k + 1] = new[M[k]] /\ M[k + 1] \in D
      BY <1>1, <3>1, <3>2 DEF IsWalk
    <3>4. next[L[k]] = Null
      BY <3>1, <3>2 DEF IsWalk
    <3> QED
      BY <3>1, <3>3, <3>4
  <2> QED
    BY <2>1, <2>2
<1> QED
  BY <1>1, <1>8, <1>9, SeqEqual

\* What is on a list, by position
LEMMA OnListAt ==
  ASSUME NEW D, Null \notin D, IsFiniteSet(D), NEW next \in [D -> D \cup {Null}],
         NEW h \in D \cup {Null}, NEW y
  PROVE  /\ List(h, next) \in Seq(D)
         /\ Len(List(h, next)) \in Nat
         /\ OnList(y, h, next) <=> \E i \in 1 .. Len(List(h, next)) : List(h, next)[i] = y
         /\ OnList(y, h, next) => y \in D
<1>1. List(h, next) \in Seq(D)
  BY ListIsWalk DEF IsWalk
<1>2. Range(List(h, next)) = {List(h, next)[i] : i \in 1 .. Len(List(h, next))}
  BY <1>1, RangeEquality
<1>3. List(h, next) \in [1 .. Len(List(h, next)) -> D] /\ Len(List(h, next)) \in Nat
  BY <1>1, LenProperties
<1> QED
  BY <1>1, <1>2, <1>3 DEF OnList

\* The same, without lengths
LEMMA Listed ==
  ASSUME NEW D, Null \notin D, IsFiniteSet(D), NEW next \in [D -> D \cup {Null}],
         NEW h \in D \cup {Null}
  PROVE  /\ DOMAIN List(h, next) \subseteq Nat
         /\ \A i \in DOMAIN List(h, next) :
              List(h, next)[i] \in D /\ OnList(List(h, next)[i], h, next)
         /\ \A y : OnList(y, h, next) => \E i \in DOMAIN List(h, next) : List(h, next)[i] = y
<1> DEFINE L == List(h, next)
<1>1. L \in Seq(D) /\ Len(L) \in Nat
  BY OnListAt
<1>2. DOMAIN L = 1 .. Len(L) /\ L \in [1 .. Len(L) -> D]
  BY <1>1, LenProperties
<1>3. \A y : OnList(y, h, next) <=> \E i \in 1 .. Len(L) : L[i] = y
  BY OnListAt
<1> HIDE DEF L
<1>4. \A i \in DOMAIN L : i \in Nat /\ L[i] \in D
  BY <1>1, <1>2
<1> QED
  BY <1>2, <1>3, <1>4 DEF L

\* The pointer of m was set to h and no other was.
PointsTo(m, h, next, new, D) ==
  /\ new \in [D -> D \cup {Null}]
  /\ new[m] = h
  /\ \A y \in D : y # m => new[y] = next[y]

LEMMA SetPointer ==
  ASSUME NEW D, NEW next \in [D -> D \cup {Null}], NEW m \in D,
         NEW h \in D \cup {Null}
  PROVE  PointsTo(m, h, next, [next EXCEPT ![m] = h], D)
BY DEF PointsTo

\* A list that the object is not on is what it was before.
LEMMA OtherListsKept ==
  ASSUME NEW D, Null \notin D, IsFiniteSet(D), NEW next \in [D -> D \cup {Null}],
         NEW h \in D \cup {Null}, NEW m \in D,
         NEW new, PointsTo(m, h, next, new, D),
         NEW g \in D \cup {Null}, ~ OnList(m, g, next)
  PROVE  List(g, new) = List(g, next)
<1> DEFINE L == List(g, next)
<1>1. new \in [D -> D \cup {Null}] /\ Cardinality(D) + 1 \in Nat
  BY FS_CardinalityType DEF PointsTo
<1>2. IsWalk(L, g, next, D, Cardinality(D) + 1)
  BY ListIsWalk
<1>3. IsWalk(List(g, new), g, new, D, Cardinality(D) + 1)
  BY <1>1, ListIsWalk
<1>4. ASSUME NEW i \in 1 .. Len(L)
      PROVE  new[L[i]] = next[L[i]]
  <2>1. OnList(L[i], g, next)
    BY OnListAt
  <2>2. L[i] \in D /\ L[i] # m
    BY <2>1, OnListAt
  <2> QED
    BY <2>2 DEF PointsTo
<1> HIDE DEF L
<1>5. List(g, new) = L
  BY <1>1, <1>2, <1>3, <1>4, WalkDetermined
<1> QED
  BY <1>5 DEF L

\* The list that the object is put on has it in front and is otherwise as before.
LEMMA PutInFront ==
  ASSUME NEW D, Null \notin D, IsFiniteSet(D), NEW next \in [D -> D \cup {Null}],
         NEW h \in D \cup {Null}, NEW m \in D,
         NEW new, PointsTo(m, h, next, new, D),
         ListEnds(h, next), ~ OnList(m, h, next)
  PROVE  List(m, new) = <<m>> \o List(h, next)
<1> DEFINE L == List(h, next)
           n == Cardinality(D)
           M == <<m>> \o L
<1>1. new \in [D -> D \cup {Null}] /\ n \in Nat /\ DOMAIN next = D /\ new[m] = h
  BY FS_CardinalityType DEF PointsTo
<1>2. L = List(h, new)
  BY OtherListsKept
<1>3. IsWalk(L, h, new, D, n + 1) /\ Len(L) <= n
  BY <1>1, <1>2, ListIsWalk DEF ListEnds
<1>4. IsWalk(L, h, new, D, n)
  <2>1. Len(L) \in Nat
    BY OnListAt
  <2>2. h # Null /\ n # 0 => L # <<>>
    BY <1>1, <1>3 DEF IsWalk
  <2>3. \A i \in 1 .. Len(L) : i = Len(L) /\ i < n => i < n + 1
    BY <1>1, <2>1
  <2> HIDE DEF L, n
  <2> QED
    BY <1>3, <2>2, <2>3 DEF IsWalk
<1> HIDE DEF L, n
<1>5. IsWalk(M, m, new, D, n + 1)
  BY <1>1, <1>4, OneMoreRound
<1>6. IsWalk(List(m, new), m, new, D, n + 1)
  BY <1>1, ListIsWalk DEF n
<1>7. n + 1 \in Nat /\ \A i \in 1 .. Len(M) : new[M[i]] = new[M[i]]
  BY <1>1
<1> HIDE DEF M
<1>8. List(m, new) = M
  BY <1>5, <1>6, <1>7, WalkDetermined
<1> QED
  BY <1>8 DEF M, L

\* On the list that the object was put on are the object and what was there.
LEMMA OnListInFront ==
  ASSUME NEW D, Null \notin D, IsFiniteSet(D), NEW next \in [D -> D \cup {Null}],
         NEW h \in D \cup {Null}, NEW m \in D,
         NEW new, PointsTo(m, h, next, new, D),
         ListEnds(h, next), ~ OnList(m, h, next), NEW y
  PROVE  OnList(y, m, new) <=> y = m \/ OnList(y, h, next)
<1> DEFINE L == List(h, next)
           one == <<m>>
<1>1. one \in Seq(D) /\ Range(one) = {m}
  BY DEF Range
<1>2. L \in Seq(D)
  BY OnListAt
<1>3. List(m, new) = one \o L
  BY PutInFront
<1> HIDE DEF one, L
<1>4. Range(one \o L) = Range(one) \cup Range(L)
  BY <1>1, <1>2, RangeConcatenation
<1> QED
  BY <1>1, <1>3, <1>4 DEF OnList, L

-----------------------------------------------------------------------------
(* Lists that end                                                          *)

\* The objects have ranks that go down along the pointers.
Acyclic(next, D) ==
  \E rank \in [D -> Nat] : \A x \in D : next[x] # Null => rank[next[x]] < rank[x]

\* Without a cycle a loop sees no object twice, so that it ends: there are not
\* enough objects for one more round than there are objects.
LEMMA AcyclicEnds ==
  ASSUME NEW D, Null \notin D, IsFiniteSet(D), NEW next \in [D -> D \cup {Null}],
         Acyclic(next, D), NEW h \in D \cup {Null}
  PROVE  ListEnds(h, next)
<1> DEFINE L == List(h, next)
           n == Cardinality(D)
<1>1. DOMAIN next = D /\ n \in Nat
  BY FS_CardinalityType
<1>2. IsWalk(L, h, next, D, n + 1)
  BY ListIsWalk
<1>3. L \in [1 .. Len(L) -> D] /\ Len(L) \in Nat
  BY <1>2, LenProperties DEF IsWalk
<1>4. PICK rank \in [D -> Nat] : \A x \in D : next[x] # Null => rank[next[x]] < rank[x]
  BY DEF Acyclic
<1> HIDE DEF L, n
<1> DEFINE Down(i, j) == j \in 1 .. Len(L) => rank[L[j]] < rank[L[i]]
<1>5. ASSUME NEW i \in 1 .. Len(L)
      PROVE  \A k \in Nat : Down(i, i + 1 + k)
  <2> DEFINE S == {k \in Nat : Down(i, i + 1 + k)}
  <2>1. ASSUME NEW j \in 1 .. Len(L), j + 1 \in 1 .. Len(L)
        PROVE  rank[L[j + 1]] < rank[L[j]]
    <3>1. L[j + 1] = next[L[j]] /\ L[j] \in D /\ L[j + 1] \in D
      BY <1>2, <1>3, <2>1 DEF IsWalk
    <3> QED
      BY <1>4, <3>1
  <2>2. 0 \in S
    <3>1. i + 1 + 0 = i + 1
      BY <1>3
    <3> QED
      BY <2>1, <3>1
  <2>3. ASSUME NEW k \in Nat, k \in S
        PROVE  k + 1 \in S
    <3> SUFFICES ASSUME i + 1 + (k + 1) \in 1 .. Len(L)
                 PROVE  rank[L[i + 1 + (k + 1)]] < rank[L[i]]
      OBVIOUS
    <3> DEFINE j == i + 1 + k
    <3>1. j \in 1 .. Len(L) /\ i + 1 + (k + 1) = j + 1
      BY <1>3
    <3>2. rank[L[j]] < rank[L[i]]
      BY <2>3, <3>1
    <3>3. rank[L[j + 1]] < rank[L[j]]
      BY <2>1, <3>1
    <3>4. rank[L[i]] \in Nat /\ rank[L[j]] \in Nat /\ rank[L[j + 1]] \in Nat
      BY <1>3, <1>4, <3>1
    <3>5. \A a, b, c \in Nat : a < b /\ b < c => a < c
      OBVIOUS
    <3> QED
      BY <3>1, <3>2, <3>3, <3>4, <3>5
  <2>4. Nat \subseteq S
    BY <2>2, <2>3, Induction, Zenon
  <2> QED
    BY <2>4
<1>6. ASSUME NEW i \in 1 .. Len(L), NEW j \in 1 .. Len(L), i < j
      PROVE  L[i] # L[j]
  <2>1. j - (i + 1) \in Nat /\ i + 1 + (j - (i + 1)) = j
    BY <1>3, <1>6
  <2>2. rank[L[j]] < rank[L[i]]
    BY <1>5, <2>1
  <2>3. rank[L[i]] \in Nat
    BY <1>3, <1>4
  <2> QED
    BY <2>2, <2>3
<1>7. Len(L) <= n
  <2> SUFFICES ASSUME Len(L) = n + 1
               PROVE  FALSE
    <3>1. Len(L) <= n + 1
      BY <1>2, Zenon DEF IsWalk
    <3>2. \A a, b \in Nat : a <= b + 1 /\ a # b + 1 => a <= b
      OBVIOUS
    <3> QED
      BY <1>1, <1>3, <3>1, <3>2
  <2>1. IsFiniteSet(1 .. Len(L)) /\ Cardinality(1 .. Len(L)) = n + 1
    BY <1>1, FS_Interval
  <2>2. n < n + 1
    BY <1>1
  <2>3. PICK i, j \in 1 .. Len(L) : i # j /\ L[i] = L[j]
    BY <1>3, <2>1, <2>2, FS_PigeonHole DEF n
  <2>4. i < j \/ j < i
    BY <1>3, <2>3
  <2> QED
    BY <1>6, <2>3, <2>4
<1> QED
  BY <1>1, <1>7 DEF ListEnds, L, n

\* An object put in front of a list it is not on closes no cycle: what is on that
\* list keeps its rank, and everything else is raised above it.
LEMMA StaysAcyclic ==
  ASSUME NEW D, Null \notin D, IsFiniteSet(D), NEW next \in [D -> D \cup {Null}],
         Acyclic(next, D), NEW h \in D \cup {Null}, NEW m \in D,
         NEW new, PointsTo(m, h, next, new, D), ~ OnList(m, h, next)
  PROVE  Acyclic(new, D)
<1> DEFINE R == {x \in D : OnList(x, h, next)}
           L == List(h, next)
           n == Cardinality(D)
<1>1. PICK rank \in [D -> Nat] : \A x \in D : next[x] # Null => rank[next[x]] < rank[x]
  BY DEF Acyclic
<1>2. IsWalk(L, h, next, D, n + 1) /\ Len(L) <= n /\ n \in Nat /\ Len(L) \in Nat
  <2>1. ListEnds(h, next) /\ DOMAIN next = D
    BY AcyclicEnds
  <2> QED
    BY <2>1, ListIsWalk, OnListAt, FS_CardinalityType DEF ListEnds
<1>3. h # Null => h \in R
  <2> SUFFICES ASSUME h # Null
               PROVE  OnList(h, h, next)
    OBVIOUS
  <2>1. n + 1 # 0
    BY <1>2
  <2>2. L # <<>> /\ L[1] = h /\ L \in Seq(D)
    BY <1>2, <2>1, Zenon DEF IsWalk
  <2>3. 1 \in 1 .. Len(L)
    BY <2>2, EmptySeq
  <2> QED
    BY <2>2, <2>3, OnListAt
<1>4. ASSUME NEW x \in R, next[x] # Null
      PROVE  next[x] \in R
  <2>1. PICK i \in 1 .. Len(L) : L[i] = x
    BY OnListAt
  <2>2. i < n + 1
    BY <1>2
  <2>3. i # Len(L)
    BY <1>2, <1>4, <2>1, <2>2 DEF IsWalk
  <2>4. i + 1 \in 1 .. Len(L)
    BY <1>2, <2>3
  <2>5. L[i + 1] = next[x]
    BY <1>2, <2>1, <2>4 DEF IsWalk
  <2>6. OnList(next[x], h, next)
    BY <2>4, <2>5, OnListAt
  <2> QED
    BY <2>6, OnListAt
<1> HIDE DEF L, n
<1> DEFINE top == IF h = Null THEN 0 ELSE rank[h] + 1
           raised == [x \in D |-> IF x \in R THEN rank[x] ELSE rank[x] + top]
<1>5. top \in Nat /\ (h # Null => rank[h] < top) /\ \A x \in D : rank[x] \in Nat
  OBVIOUS
<1> HIDE DEF top
<1>6. raised \in [D -> Nat] /\ m \notin R
  BY <1>5
<1>7. ASSUME NEW x \in D, new[x] # Null
      PROVE  raised[new[x]] < raised[x]
  <2>1. CASE x = m
    <3>1. new[x] = h /\ h \in R /\ raised[h] = rank[h] /\ raised[m] = rank[m] + top
      BY <1>3, <1>6, <1>7, <2>1 DEF PointsTo
    <3>2. rank[h] \in Nat /\ rank[m] \in Nat /\ rank[h] < top
      BY <1>5, <1>7, <3>1
    <3>3. \A a, b, c \in Nat : a < b => a < c + b
      OBVIOUS
    <3> QED
      BY <1>5, <2>1, <3>1, <3>2, <3>3
  <2>2. CASE x # m
    <3>1. new[x] = next[x] /\ next[x] \in D /\ rank[next[x]] < rank[x]
      BY <1>1, <1>7, <2>2 DEF PointsTo
    <3>2. x \in R => next[x] \in R
      BY <1>4, <1>7, <3>1
    <3>3. \A a, b, c \in Nat : a < b => a + c < b + c /\ a < b + c
      OBVIOUS
    <3>4. rank[x] \in Nat /\ rank[next[x]] \in Nat
      BY <3>1
    <3>5. /\ raised[x] = IF x \in R THEN rank[x] ELSE rank[x] + top
          /\ raised[next[x]] = IF next[x] \in R THEN rank[next[x]]
                                ELSE rank[next[x]] + top
      BY <3>1
    <3> HIDE DEF raised, R
    <3> QED
      BY <1>5, <3>1, <3>2, <3>3, <3>4, <3>5
  <2> QED
    BY <2>1, <2>2
<1> QED
  BY <1>6, <1>7 DEF Acyclic

-----------------------------------------------------------------------------
(* The first of some objects on a list                                     *)

LEMMA MinIsLeast ==
  ASSUME NEW T, T \subseteq Nat, T # {}
  PROVE  Min(T) \in T /\ \A y \in T : Min(T) <= y
BY LeastNumber DEF Min

LEMMA LeastIsMin ==
  ASSUME NEW T, T \subseteq Nat, NEW x \in T, \A y \in T : x <= y
  PROVE  Min(T) = x
<1>1. Min(T) \in T /\ Min(T) <= x /\ x <= Min(T)
  BY MinIsLeast
<1>2. \A a, b \in Nat : a <= b /\ b <= a => a = b
  OBVIOUS
<1> QED
  BY <1>1, <1>2

\* Where a loop that looks for one of these objects stops
Where(list, wanted) == {i \in DOMAIN list : list[i] \in wanted}

Foremost(list, wanted) ==
  IF Where(list, wanted) = {} THEN Null ELSE list[Min(Where(list, wanted))]

LEMMA ForemostIsWanted ==
  ASSUME NEW D, Null \notin D, NEW L \in Seq(D), NEW wanted
  PROVE  /\ Foremost(L, wanted) \in D \cup {Null}
         /\ Foremost(L, wanted) # Null => Foremost(L, wanted) \in wanted
         /\ Foremost(L, wanted) = Null <=> Where(L, wanted) = {}
<1>1. Where(L, wanted) \subseteq Nat /\ \A i \in Where(L, wanted) : L[i] \in D \cap wanted
  BY LenProperties DEF Where
<1> QED
  BY <1>1, MinIsLeast DEF Foremost

\* An object put in front is the first one, if it is wanted, and else changes
\* nothing.
LEMMA ForemostInFront ==
  ASSUME NEW D, Null \notin D, NEW L \in Seq(D), NEW x \in D, NEW wanted
  PROVE  Foremost(<<x>> \o L, wanted) = IF x \in wanted THEN x ELSE Foremost(L, wanted)
<1> DEFINE M == <<x>> \o L
<1>1. /\ DOMAIN L = 1 .. Len(L) /\ Len(L) \in Nat
      /\ DOMAIN M = 1 .. Len(L) + 1 /\ M[1] = x
      /\ \A i \in 1 .. Len(L) : M[i + 1] = L[i]
  <2>1. <<x>> \in Seq(D) /\ Len(<<x>>) = 1 /\ Len(L) \in Nat /\ DOMAIN L = 1 .. Len(L)
    BY LenProperties
  <2>2. /\ M \in Seq(D) /\ Len(M) = 1 + Len(L)
        /\ \A i \in 1 .. 1 + Len(L) : M[i] = IF i <= 1 THEN <<x>>[i] ELSE L[i - 1]
    BY <2>1, ConcatProperties
  <2>3. DOMAIN M = 1 .. 1 + Len(L)
    BY <2>2, LenProperties
  <2> QED
    BY <2>1, <2>2, <2>3
<1> HIDE DEF M
<1> DEFINE A == Where(L, wanted)
           B == Where(M, wanted)
<1>2. A \subseteq 1 .. Len(L) /\ B \subseteq 1 .. Len(L) + 1
  BY <1>1 DEF Where
<1>3. \A i \in 1 .. Len(L) : i + 1 \in B <=> i \in A
  BY <1>1 DEF Where
<1>4. 1 \in B <=> x \in wanted
  BY <1>1 DEF Where
<1> HIDE DEF A, B
<1>5. CASE x \in wanted
  <2>1. Min(B) = 1
    <3>1. 1 \in B /\ B \subseteq Nat /\ \A j \in B : 1 <= j
      BY <1>1, <1>2, <1>4, <1>5
    <3> QED
      BY <3>1, LeastIsMin
  <2> QED
    BY <1>1, <1>4, <1>5, <2>1 DEF Foremost, B, M
<1>6. CASE x \notin wanted
  <2>1. \A j \in B : j # 1
    BY <1>4, <1>6
  <2>2. \A j \in B : j - 1 \in A /\ (j - 1) + 1 = j
    <3> SUFFICES ASSUME NEW j \in B
                 PROVE  j - 1 \in A /\ (j - 1) + 1 = j
      OBVIOUS
    <3>1. j - 1 \in 1 .. Len(L) /\ (j - 1) + 1 = j
      BY <1>1, <1>2, <2>1
    <3> QED
      BY <1>3, <3>1
  <2>3. CASE A = {}
    <3>1. B = {}
      BY <2>2, <2>3
    <3> QED
      BY <1>6, <2>3, <3>1 DEF Foremost, A, B, M
  <2>4. CASE A # {}
    <3>1. Min(A) \in A /\ Min(A) \in 1 .. Len(L) /\ \A i \in A : Min(A) <= i
      <4>1. A \subseteq Nat
        BY <1>2
      <4> QED
        BY <1>2, <2>4, <4>1, MinIsLeast
    <3>2. Min(A) + 1 \in B
      BY <1>3, <3>1
    <3>3. \A j \in B : Min(A) + 1 <= j
      <4> SUFFICES ASSUME NEW j \in B
                   PROVE  Min(A) + 1 <= j
        OBVIOUS
      <4>1. j \in Nat /\ j - 1 \in A /\ Min(A) <= j - 1 /\ Min(A) \in Nat
        BY <1>2, <2>2, <3>1
      <4> QED
        BY <4>1
    <3>4. Min(B) = Min(A) + 1
      <4>1. B \subseteq Nat
        BY <1>2
      <4> QED
        BY <3>2, <3>3, <4>1, LeastIsMin
    <3>5. M[Min(B)] = L[Min(A)] /\ B # {}
      BY <1>1, <3>1, <3>2, <3>4
    <3> QED
      BY <1>6, <2>4, <3>5 DEF Foremost, A, B, M
  <2> QED
    BY <2>3, <2>4
<1> QED
  BY <1>5, <1>6

\* When one object more is wanted, it is the first one or changes nothing.
LEMMA ForemostWanted ==
  ASSUME NEW D, Null \notin D, NEW L \in Seq(D), NEW x \in D, NEW wanted, NEW more,
         \A y \in D : y \in more <=> y \in wanted \/ y = x
  PROVE  Foremost(L, more) = x \/ Foremost(L, more) = Foremost(L, wanted)
<1> DEFINE A == Where(L, wanted)
           B == Where(L, more)
<1>1. A \subseteq B /\ B \subseteq Nat /\ \A i \in B : L[i] # x => i \in A
  BY LenProperties DEF Where
<1>2. CASE B = {}
  BY <1>1, <1>2 DEF Foremost
<1>3. CASE B # {}
  <2> HIDE DEF A, B
  <2>1. Min(B) \in B /\ \A i \in B : Min(B) <= i
    BY <1>1, <1>3, MinIsLeast
  <2>2. CASE L[Min(B)] = x
    BY <1>3, <2>2 DEF Foremost, B
  <2>3. CASE L[Min(B)] # x
    <3>1. Min(B) \in A /\ \A i \in A : Min(B) <= i
      BY <1>1, <2>1, <2>3
    <3>2. Min(A) = Min(B)
      BY <1>1, <3>1, LeastIsMin
    <3> QED
      BY <1>3, <3>1, <3>2 DEF Foremost, A, B
  <2> QED
    BY <2>2, <2>3
<1> QED
  BY <1>2, <1>3
=============================================================================
