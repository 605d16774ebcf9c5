---------------------------- MODULE Search_proofs ----------------------------
(***************************************************************************)
(* Proofs about the genetic search of a session (modules SearchVariation   *)
(* and SearchRun, under the specification of Research), for any size of    *)
(* population, settings, trees, scores and operations on trees.            *)
(***************************************************************************)
EXTENDS Research_proofs, FunctionTheorems

-----------------------------------------------------------------------------
(* Lists.                                                                    *)

LEMMA ListFacts ==
    ASSUME NEW s, IsList(s)
    PROVE  /\ Len(s) \in Nat /\ DOMAIN s = 1 .. Len(s)
           /\ \A k \in 1 .. Len(s) : s[k] \in Range(s)
           /\ s = [k \in 1 .. Len(s) |-> s[k]]
  BY DEF IsList, Range

LEMMA ListOf ==
    ASSUME NEW n \in Nat, NEW s, s = [k \in 1 .. n |-> s[k]]
    PROVE  IsList(s) /\ Len(s) = n
<1>1. \A k \in 1 .. n : s[k] \in Range(s)
  <2>1. DOMAIN s = 1 .. n
    OBVIOUS
  <2> QED BY <2>1 DEF Range
<1>2. s \in [1 .. n -> Range(s)]
  BY <1>1
<1>3. s \in Seq(Range(s))
  BY <1>2
<1> QED BY <1>2, <1>3 DEF IsList

(* A set in a strict order, as a list of what it has.                        *)
LEMMA InOrderFacts ==
    ASSUME NEW S, IsFiniteSet(S), NEW R,
           \A x \in S : <<x, x>> \notin R,
           \A x, y \in S : x # y => <<x, y>> \in R \/ <<y, x>> \in R,
           \A x, y, z \in S : <<x, y>> \in R /\ <<y, z>> \in R => <<x, z>> \in R
    PROVE  /\ IsList(InOrder(S, R)) /\ Len(InOrder(S, R)) = Cardinality(S)
           /\ \A n \in 1 .. Cardinality(S) : InOrder(S, R)[n] \in S
           /\ \A x \in S : \E n \in 1 .. Cardinality(S) : InOrder(S, R)[n] = x
           /\ \A n, m \in 1 .. Cardinality(S) :
                 n < m => <<InOrder(S, R)[n], InOrder(S, R)[m]>> \in R
<1> DEFINE N == Cardinality(S)
           Ahead_(x) == {y \in S : <<y, x>> \in R}
           place == [x \in S |-> Cardinality(Ahead_(x)) + 1]
           l == InOrder(S, R)
<1>1. N \in Nat
  BY FS_CardinalityType
<1>2. ASSUME NEW x \in S
      PROVE  IsFiniteSet(Ahead_(x)) /\ Cardinality(Ahead_(x)) \in 0 .. N - 1
  <2>1. Ahead_(x) \in SUBSET (S \ {x})
    OBVIOUS
  <2>2. IsFiniteSet(S \ {x}) /\ Cardinality(S \ {x}) = N - 1
    BY FS_RemoveElement
  <2>3. IsFiniteSet(Ahead_(x)) /\ Cardinality(Ahead_(x)) <= N - 1
    <3> HIDE DEF Ahead_
    <3> QED BY <2>1, <2>2, FS_Subset
  <2>4. Cardinality(Ahead_(x)) \in Nat
    BY <2>3, FS_CardinalityType
  <2> HIDE DEF Ahead_
  <2> QED BY <1>1, <2>3, <2>4
<1>3. ASSUME NEW x \in S, NEW y \in S, <<x, y>> \in R
      PROVE  Cardinality(Ahead_(x)) < Cardinality(Ahead_(y))
  <2>1. Ahead_(x) \in SUBSET Ahead_(y) /\ x \in Ahead_(y) /\ x \notin Ahead_(x)
    BY <1>3
  <2>2. /\ Cardinality(Ahead_(x)) <= Cardinality(Ahead_(y))
        /\ Cardinality(Ahead_(x)) # Cardinality(Ahead_(y))
    <3> HIDE DEF Ahead_
    <3> QED BY <1>2, <2>1, FS_Subset
  <2>3. Cardinality(Ahead_(x)) \in 0 .. N - 1 /\ Cardinality(Ahead_(y)) \in 0 .. N - 1
    BY <1>2
  <2> HIDE DEF Ahead_
  <2> QED BY <1>1, <2>2, <2>3
<1>4. place \in [S -> 1 .. N] /\ \A x \in S : place[x] = Cardinality(Ahead_(x)) + 1
  <2> HIDE DEF Ahead_
  <2> QED BY <1>1, <1>2
<1>5. ASSUME NEW x \in S, NEW y \in S, place[x] = place[y]
      PROVE  x = y
  <2>1. Cardinality(Ahead_(x)) = Cardinality(Ahead_(y))
    <3>1. Cardinality(Ahead_(x)) \in 0 .. N - 1 /\ Cardinality(Ahead_(y)) \in 0 .. N - 1
      BY <1>2
    <3>2. Cardinality(Ahead_(x)) + 1 = Cardinality(Ahead_(y)) + 1
      BY <1>4, <1>5
    <3> HIDE DEF Ahead_
    <3> QED BY <1>1, <3>1, <3>2
  <2>2. ~(<<x, y>> \in R) /\ ~(<<y, x>> \in R)
    <3>1. /\ Cardinality(Ahead_(x)) \in 0 .. N - 1
          /\ <<x, y>> \in R => Cardinality(Ahead_(x)) < Cardinality(Ahead_(y))
          /\ <<y, x>> \in R => Cardinality(Ahead_(y)) < Cardinality(Ahead_(x))
      BY <1>2, <1>3
    <3> HIDE DEF Ahead_
    <3> QED BY <1>1, <2>1, <3>1
  <2> QED BY <2>2
<1> HIDE DEF place
<1>6. ASSUME NEW n \in 1 .. N PROVE \E x \in S : place[x] = n
  <2>1. place \in Injection(S, 1 .. N)
    BY <1>4, <1>5, Fun_IsInj
  <2>2. IsFiniteSet(1 .. N) /\ Cardinality(1 .. N) = N
    BY <1>1, FS_Interval
  <2>3. place \in Surjection(S, 1 .. N)
    BY <2>1, <2>2, FS_Injection
  <2> QED BY <2>3 DEF Surjection
<1>7. ASSUME NEW n \in 1 .. N PROVE l[n] \in S /\ place[l[n]] = n
  <2>1. l[n] = CHOOSE x \in S : Cardinality(Ahead_(x)) = n - 1
    BY DEF InOrder
  <2>2. \E x \in S : Cardinality(Ahead_(x)) = n - 1
    <3>1. PICK x \in S : place[x] = n
      BY <1>6
    <3>2. Cardinality(Ahead_(x)) \in 0 .. N - 1
      BY <1>2
    <3> HIDE DEF Ahead_
    <3> QED BY <1>1, <1>4, <3>1, <3>2
  <2>3. l[n] \in S /\ Cardinality(Ahead_(l[n])) = n - 1
    <3> HIDE DEF Ahead_, l
    <3> QED BY <2>1, <2>2
  <2>4. place[l[n]] = Cardinality(Ahead_(l[n])) + 1
    BY <1>4, <2>3
  <2>5. Cardinality(Ahead_(l[n])) + 1 = n
    <3> HIDE DEF Ahead_, l
    <3> QED BY <1>1, <2>3
  <2> HIDE DEF Ahead_, l
  <2> QED BY <2>3, <2>4, <2>5
<1>8. IsList(l) /\ Len(l) = N
  <2>1. l = [n \in 1 .. N |-> CHOOSE x \in S : Cardinality(Ahead_(x)) = n - 1]
    BY DEF InOrder
  <2> HIDE DEF l, Ahead_
  <2>2. l = [n \in 1 .. N |-> l[n]]
    BY <2>1
  <2> QED BY <1>1, <2>2, ListOf
<1>9. ASSUME NEW x \in S PROVE \E n \in 1 .. N : l[n] = x
  <2>1. place[x] \in 1 .. N
    BY <1>4
  <2>2. l[place[x]] \in S /\ place[l[place[x]]] = place[x]
    BY <1>7, <2>1
  <2>3. l[place[x]] = x
    BY <1>5, <2>2
  <2> QED BY <2>1, <2>3
<1>10. ASSUME NEW n \in 1 .. N, NEW m \in 1 .. N, n < m
       PROVE  <<l[n], l[m]>> \in R
  <2>1. /\ l[n] \in S /\ place[l[n]] = n /\ l[m] \in S /\ place[l[m]] = m
    BY <1>7
  <2>2. l[n] # l[m]
    BY <1>10, <2>1
  <2>3. CASE <<l[m], l[n]>> \in R
    <3>1. Cardinality(Ahead_(l[m])) < Cardinality(Ahead_(l[n]))
      BY <1>3, <2>1, <2>3
    <3>2. /\ Cardinality(Ahead_(l[m])) \in 0 .. N - 1 /\ Cardinality(Ahead_(l[n])) \in 0 .. N - 1
      BY <1>2, <2>1
    <3>3. n = Cardinality(Ahead_(l[n])) + 1 /\ m = Cardinality(Ahead_(l[m])) + 1
      BY <1>4, <2>1
    <3> HIDE DEF Ahead_, l
    <3> QED BY <1>1, <1>10, <3>1, <3>2, <3>3
  <2> QED BY <2>1, <2>2, <2>3
<1> HIDE DEF l
<1> QED BY <1>7, <1>8, <1>9, <1>10 DEF l

(* The places picked come in their order.                                    *)
LEMMA PickedFacts ==
    ASSUME NEW list, IsList(list), NEW K \in SUBSET (1 .. Len(list))
    PROVE  \E at : /\ at \in [1 .. Cardinality(K) -> K]
                   /\ Cardinality(K) \in 0 .. Len(list) /\ IsFiniteSet(K)
                   /\ \A k \in K : \E n \in 1 .. Cardinality(K) : at[n] = k
                   /\ \A n, m \in 1 .. Cardinality(K) : n < m => at[n] < at[m]
                   /\ Picked(list, K) = [n \in 1 .. Cardinality(K) |-> list[at[n]]]
                   /\ IsList(Picked(list, K)) /\ Len(Picked(list, K)) = Cardinality(K)
                   /\ \A n \in 1 .. Cardinality(K) : Picked(list, K)[n] = list[at[n]]
<1> DEFINE R == {p \in K \X K : p[1] < p[2]}
           at == InOrder(K, R)
           N == Cardinality(K)
           l == Picked(list, K)
<1>1. Len(list) \in Nat
  BY ListFacts
<1>2. IsFiniteSet(K) /\ N \in 0 .. Len(list)
  <2>1. IsFiniteSet(1 .. Len(list)) /\ Cardinality(1 .. Len(list)) = Len(list)
    BY <1>1, FS_Interval
  <2>2. IsFiniteSet(K) /\ N <= Len(list)
    BY <2>1, FS_Subset
  <2>3. N \in Nat
    BY <2>2, FS_CardinalityType
  <2> QED BY <1>1, <2>2, <2>3
<1>3. \A x, y \in K : <<x, y>> \in R <=> x < y
  OBVIOUS
<1>4. \A x \in K : x \in Nat
  BY <1>1
<1> HIDE DEF R
<1>5. /\ IsList(at) /\ Len(at) = N /\ \A n \in 1 .. N : at[n] \in K
      /\ \A x \in K : \E n \in 1 .. N : at[n] = x
      /\ \A n, m \in 1 .. N : n < m => <<at[n], at[m]>> \in R
  <2>1. \A x \in K : <<x, x>> \notin R
    BY <1>3, <1>4
  <2>2. \A x, y \in K : x # y => <<x, y>> \in R \/ <<y, x>> \in R
    BY <1>3, <1>4
  <2>3. \A x, y, z \in K : <<x, y>> \in R /\ <<y, z>> \in R => <<x, z>> \in R
    BY <1>3, <1>4
  <2>0. IsFiniteSet(K)
    BY <1>2
  <2> HIDE DEF at, N
  <2>4. /\ IsList(InOrder(K, R)) /\ Len(InOrder(K, R)) = Cardinality(K)
        /\ \A n \in 1 .. Cardinality(K) : InOrder(K, R)[n] \in K
        /\ \A x \in K : \E n \in 1 .. Cardinality(K) : InOrder(K, R)[n] = x
        /\ \A n, m \in 1 .. Cardinality(K) :
              n < m => <<InOrder(K, R)[n], InOrder(K, R)[m]>> \in R
    BY <2>0, <2>1, <2>2, <2>3, InOrderFacts
  <2> QED BY <2>4 DEF at, N
<1>6. l = [n \in 1 .. N |-> list[at[n]]]
  BY DEF Picked, R
<1> HIDE DEF at, l
<1>7. at \in [1 .. N -> K]
  BY <1>5, ListFacts
<1>8. \A n, m \in 1 .. N : n < m => at[n] < at[m]
  BY <1>3, <1>5
<1>9. l = [n \in 1 .. N |-> l[n]] /\ \A n \in 1 .. N : l[n] = list[at[n]]
  BY <1>6
<1>10. IsList(l) /\ Len(l) = N
  BY <1>2, <1>9, ListOf
<1> HIDE DEF N
<1>11. /\ at \in [1 .. N -> K]
       /\ N \in 0 .. Len(list) /\ IsFiniteSet(K)
       /\ \A k \in K : \E n \in 1 .. N : at[n] = k
       /\ \A n, m \in 1 .. N : n < m => at[n] < at[m]
       /\ l = [n \in 1 .. N |-> list[at[n]]]
       /\ IsList(l) /\ Len(l) = N
       /\ \A n \in 1 .. N : l[n] = list[at[n]]
  BY <1>2, <1>5, <1>6, <1>7, <1>8, <1>9, <1>10
<1> QED BY <1>11 DEF l, N

LEMMA CopiesType ==
    ASSUME NEW l, IsList(l), NEW t
    PROVE  Copies(l, t) \in 0 .. Len(l) /\ IsFiniteSet({k \in DOMAIN l : l[k] = t})
<1> DEFINE K == {k \in DOMAIN l : l[k] = t}
<1>1. Len(l) \in Nat /\ DOMAIN l = 1 .. Len(l)
  BY ListFacts
<1>3. K \in SUBSET (1 .. Len(l))
  BY <1>1
<1> HIDE DEF K
<1>2. IsFiniteSet(1 .. Len(l)) /\ Cardinality(1 .. Len(l)) = Len(l)
  <2>1. 1 \in Int /\ Len(l) \in Int /\ Len(l) + 1 - 1 = Len(l) /\ (1 > Len(l) => Len(l) = 0)
    BY <1>1
  <2> QED BY <2>1, FS_Interval
<1>4. IsFiniteSet(K) /\ Cardinality(K) <= Len(l)
  BY <1>2, <1>3, FS_Subset
<1>5. Cardinality(K) \in Nat
  BY <1>4, FS_CardinalityType
<1> QED BY <1>1, <1>4, <1>5 DEF Copies, K

LEMMA CopiesEmpty == \A t : Copies(<<>>, t) = 0
<1> SUFFICES ASSUME NEW t PROVE Copies(<<>>, t) = 0
  OBVIOUS
<1>1. {k \in DOMAIN <<>> : <<>>[k] = t} = {}
  OBVIOUS
<1> QED BY <1>1, FS_EmptySet DEF Copies

LEMMA CopiesAppended ==
    ASSUME NEW l, IsList(l), NEW e, NEW t
    PROVE  Copies(Append(l, e), t) = Copies(l, t) + (IF e = t THEN 1 ELSE 0)
<1> DEFINE m == Append(l, e)
           At(x) == {k \in DOMAIN x : x[k] = t}
<1>1. Len(l) \in Nat /\ DOMAIN l = 1 .. Len(l)
  BY ListFacts
<1>2. /\ DOMAIN m = 1 .. Len(l) + 1 /\ m[Len(l) + 1] = e
      /\ \A i \in 1 .. Len(l) : m[i] = l[i]
  BY Appended
<1> HIDE DEF m
<1>3. IsFiniteSet(At(l)) /\ Cardinality(At(l)) \in Nat
  BY CopiesType, FS_CardinalityType
<1>4. CASE e = t
  <2>1. At(m) = At(l) \cup {Len(l) + 1} /\ Len(l) + 1 \notin At(l)
    BY <1>1, <1>2, <1>4
  <2> HIDE DEF At
  <2>2. Cardinality(At(m)) = Cardinality(At(l)) + 1
    BY <1>3, <2>1, FS_AddElement
  <2> QED BY <1>4, <2>2 DEF Copies, m, At
<1>5. CASE e # t
  <2>1. At(m) = At(l)
    BY <1>1, <1>2, <1>5
  <2> QED BY <1>3, <1>5, <2>1 DEF Copies, m
<1> QED BY <1>4, <1>5

LEMMA CopiesJoined ==
    ASSUME NEW a, IsList(a), NEW b, IsList(b), NEW t
    PROVE  /\ IsList(a \o b) /\ Len(a \o b) = Len(a) + Len(b)
           /\ \A k \in 1 .. Len(a) : (a \o b)[k] = a[k]
           /\ \A k \in 1 .. Len(b) : (a \o b)[Len(a) + k] = b[k]
           /\ Copies(a \o b, t) = Copies(a, t) + Copies(b, t)
<1> DEFINE c == a \o b
           S == Range(a) \cup Range(b)
           n == Len(a)
           At(x) == {k \in DOMAIN x : x[k] = t}
           Moved_ == {n + k : k \in At(b)}
           f == [k \in At(b) |-> n + k]
<1>1. /\ n \in Nat /\ DOMAIN a = 1 .. n
      /\ Len(b) \in Nat /\ DOMAIN b = 1 .. Len(b)
  BY ListFacts
<1>2. a \in Seq(S) /\ b \in Seq(S)
  <2>1. a \in Seq(Range(a)) /\ b \in Seq(Range(b))
    BY DEF IsList
  <2> QED BY <2>1
<1>3. /\ c \in Seq(S) /\ Len(c) = n + Len(b) /\ DOMAIN c = 1 .. n + Len(b)
      /\ \A k \in 1 .. n : c[k] = a[k]
      /\ \A k \in 1 .. Len(b) : c[n + k] = b[k]
  BY <1>2
<1>4. IsList(c)
  <2> HIDE DEF c
  <2>1. n + Len(b) \in Nat
    BY <1>1
  <2>2. c = [k \in 1 .. n + Len(b) |-> c[k]]
    BY <1>3
  <2> QED BY <2>1, <2>2, ListOf
<1> HIDE DEF c
<1>5. At(c) = At(a) \cup Moved_ /\ At(a) \cap Moved_ = {}
  <2>1. ASSUME NEW k \in At(c) PROVE k \in At(a) \cup Moved_
    <3>1. CASE k <= n
      BY <1>1, <1>3, <2>1, <3>1
    <3>2. CASE k > n
      <4>1. k - n \in 1 .. Len(b) /\ k = n + (k - n)
        BY <1>1, <1>3, <2>1, <3>2
      <4>2. k - n \in At(b)
        BY <1>1, <1>3, <2>1, <4>1
      <4> QED BY <4>1, <4>2
    <3> QED BY <1>1, <1>3, <2>1, <3>1, <3>2
  <2>2. At(a) \subseteq At(c)
    BY <1>1, <1>3
  <2>3. ASSUME NEW k \in At(b) PROVE n + k \in At(c) /\ n + k \notin At(a)
    BY <1>1, <1>3
  <2> QED BY <2>1, <2>2, <2>3
<1>6. /\ IsFiniteSet(At(a)) /\ Cardinality(At(a)) \in Nat
      /\ IsFiniteSet(At(b)) /\ Cardinality(At(b)) \in Nat
  BY CopiesType, FS_CardinalityType
<1>7. IsFiniteSet(Moved_) /\ Cardinality(Moved_) = Cardinality(At(b))
  <2>1. \A k \in At(b) : k \in Nat
    BY <1>1
  <2>2. f \in Bijection(At(b), Moved_)
    <3>1. f \in [At(b) -> Moved_]
      OBVIOUS
    <3>2. \A j, k \in At(b) : f[j] = f[k] => j = k
      BY <1>1, <2>1
    <3>3. \A y \in Moved_ : \E k \in At(b) : f[k] = y
      OBVIOUS
    <3> HIDE DEF f, Moved_, At
    <3> QED BY <3>1, <3>2, <3>3, Fun_IsBij
  <2> HIDE DEF f, Moved_, At
  <2>3. ExistsBijection(At(b), Moved_)
    BY <2>2 DEF ExistsBijection
  <2> QED BY <1>6, <2>3, FS_Bijection
<1>8. Cardinality(At(c)) = Cardinality(At(a)) + Cardinality(At(b))
  <2> DEFINE A == At(a)
             B == Moved_
             C == At(c)
  <2>1. /\ C = A \cup B /\ A \cap B = {} /\ IsFiniteSet(A) /\ IsFiniteSet(B)
        /\ Cardinality(A) \in Nat /\ Cardinality(B) \in Nat
        /\ Cardinality(B) = Cardinality(At(b))
    BY <1>5, <1>6, <1>7
  <2> HIDE DEF A, B, C
  <2>2. Cardinality(C) = Cardinality(A) + Cardinality(B) - Cardinality(A \cap B)
    BY <2>1, FS_Union
  <2>3. Cardinality(A \cap B) = 0
    BY <2>1, FS_EmptySet
  <2>4. Cardinality(C) = Cardinality(A) + Cardinality(B)
    BY <2>1, <2>2, <2>3
  <2> QED BY <2>1, <2>4 DEF A, C
<1> QED BY <1>3, <1>4, <1>8 DEF Copies, c

LEMMA InOrderIsList ==
    ASSUME NEW S, IsFiniteSet(S), NEW R
    PROVE  IsList(InOrder(S, R)) /\ Len(InOrder(S, R)) = Cardinality(S)
<1> DEFINE l == InOrder(S, R)
<1>1. Cardinality(S) \in Nat
  BY FS_CardinalityType
<1> DEFINE Entry(n) == CHOOSE x \in S : Cardinality({y \in S : <<y, x>> \in R}) = n - 1
<1>2. l = [n \in 1 .. Cardinality(S) |-> Entry(n)]
  BY DEF InOrder
<1> HIDE DEF l, Entry
<1>3. l = [n \in 1 .. Cardinality(S) |-> l[n]]
  BY <1>2
<1>4. IsList(l) /\ Len(l) = Cardinality(S)
  BY <1>1, <1>3, ListOf
<1> QED BY <1>4 DEF l

(* Among some places, one is the first of those with the greatest value.     *)
LEMMA FirstGreatest ==
    ASSUME NEW n \in Nat, NEW S \in SUBSET (1 .. n), S # {},
           NEW F, \A k \in S : F[k] \in Int
    PROVE  \E k \in S : \A m \in S : F[k] > F[m] \/ (F[k] = F[m] /\ k <= m)
<1> DEFINE Best(k, j) == \A m \in S : m <= j => F[k] > F[m] \/ (F[k] = F[m] /\ k <= m)
           Done == {j \in 0 .. n : (\E m \in S : m <= j) =>
                                      \E k \in S : k <= j /\ Best(k, j)}
<1>1. 0 \in Done
  OBVIOUS
<1>2. ASSUME NEW j \in 1 .. n, j - 1 \in Done PROVE j \in Done
  <2>1. SUFFICES ASSUME \E m \in S : m <= j
                 PROVE  \E k \in S : k <= j /\ Best(k, j)
    OBVIOUS
  <2>2. CASE j \notin S
    <3>1. \A m \in S : m <= j => m <= j - 1
      BY <2>2
    <3>2. \E m \in S : m <= j - 1
      BY <2>1, <3>1
    <3>3. PICK k \in S : k <= j - 1 /\ Best(k, j - 1)
      BY <1>2, <3>2
    <3> QED BY <3>1, <3>3
  <2>3. CASE j \in S /\ ~(\E m \in S : m <= j - 1)
    <3>1. \A m \in S : m <= j => m = j
      BY <2>3
    <3>2. Best(j, j)
      BY <2>3, <3>1
    <3> QED BY <2>3, <3>2
  <2>4. CASE j \in S /\ \E m \in S : m <= j - 1
    <3>1. PICK k \in S : k <= j - 1 /\ Best(k, j - 1)
      BY <1>2, <2>4
    <3>2. \A m \in S : m <= j => m <= j - 1 \/ m = j
      OBVIOUS
    <3>3. CASE F[j] > F[k]
      <4>1. Best(j, j)
        <5>1. SUFFICES ASSUME NEW m \in S, m <= j
                       PROVE  F[j] > F[m] \/ (F[j] = F[m] /\ j <= m)
          OBVIOUS
        <5>2. CASE m <= j - 1
          <6>1. F[k] \in Int /\ F[m] \in Int /\ F[j] \in Int /\ F[k] >= F[m]
            BY <2>4, <3>1, <5>2
          <6> QED BY <3>3, <6>1
        <5>3. CASE m = j
          BY <2>4, <5>3
        <5> QED BY <3>2, <5>1, <5>2, <5>3
      <4> QED BY <2>4, <4>1
    <3>4. CASE ~(F[j] > F[k])
      <4>1. F[k] \in Int /\ F[j] \in Int
        BY <2>4
      <4>2. Best(k, j)
        <5>1. SUFFICES ASSUME NEW m \in S, m <= j
                       PROVE  F[k] > F[m] \/ (F[k] = F[m] /\ k <= m)
          OBVIOUS
        <5>2. CASE m <= j - 1
          BY <3>1, <5>2
        <5>3. CASE m = j
          BY <3>1, <3>4, <4>1, <5>3
        <5> QED BY <3>2, <5>1, <5>2, <5>3
      <4> QED BY <3>1, <4>2
    <3> QED BY <3>3, <3>4
  <2> QED BY <2>2, <2>3, <2>4
<1>3. n \in Done
  <2> HIDE DEF Done
  <2>1. 0 .. n \subseteq Done
    BY <1>1, <1>2, UpToN
  <2> QED BY <2>1
<1> HIDE DEF Best
<1>6. \A m \in S : m <= n
  OBVIOUS
<1>4. \E m \in S : m <= n
  BY <1>6
<1>5. PICK k \in S : Best(k, n)
  BY <1>3, <1>4
<1> USE DEF Best
<1> QED BY <1>5, <1>6

(* Lists one after the other.                                                *)
LEMMA FlattenIs ==
    ASSUME NEW X, NEW seqs \in Seq(Seq(X))
    PROVE  FlattenSeq(seqs) \in Seq(X)
<1> DEFINE n == Len(seqs)
           Joined_(f, m) == f = [i \in 1 .. m |-> IF i = 1 THEN seqs[i] ELSE f[i - 1] \o seqs[i]]
           Can == {m \in 0 .. n : \E f : Joined_(f, m)}
<1>1. n \in Nat /\ \A i \in 1 .. n : seqs[i] \in Seq(X)
  OBVIOUS
<1>2. 0 \in Can
  <2>1. Joined_([i \in {} |-> 0], 0)
    OBVIOUS
  <2>2. \E f : Joined_(f, 0)
    BY <2>1
  <2> HIDE DEF Joined_
  <2> QED BY <1>1, <2>2
<1>3. ASSUME NEW m \in 1 .. n, m - 1 \in Can PROVE m \in Can
  <2>1. PICK f : Joined_(f, m - 1)
    BY <1>3
  <2> DEFINE g == [i \in 1 .. m |->
                     IF i = m THEN (IF m = 1 THEN seqs[m] ELSE f[m - 1] \o seqs[m]) ELSE f[i]]
  <2>2. ASSUME NEW i \in 1 .. m PROVE g[i] = IF i = 1 THEN seqs[i] ELSE g[i - 1] \o seqs[i]
    <3>1. CASE i = m
      <4>1. m # 1 => m - 1 \in 1 .. m /\ m - 1 # m
        BY <1>1
      <4> QED BY <3>1, <4>1
    <3>2. CASE i # m
      <4>1. i \in 1 .. m - 1 /\ g[i] = f[i]
        BY <1>1, <3>2
      <4>2. i # 1 => g[i - 1] = f[i - 1]
        BY <1>1, <3>2
      <4>3. f[i] = IF i = 1 THEN seqs[i] ELSE f[i - 1] \o seqs[i]
        BY <2>1, <4>1
      <4> QED BY <4>1, <4>2, <4>3
    <3> QED BY <3>1, <3>2
  <2>3. g = [i \in 1 .. m |-> g[i]]
    OBVIOUS
  <2> HIDE DEF g
  <2>4. Joined_(g, m)
    BY <2>2, <2>3
  <2>5. \E h : Joined_(h, m)
    BY <2>4
  <2> HIDE DEF Joined_
  <2> QED BY <1>1, <2>5
<1>4. n \in Can
  <2> HIDE DEF Can
  <2>1. 0 .. n \subseteq Can
    BY <1>1, <1>2, <1>3, UpToN
  <2> QED BY <1>1, <2>1
<1> DEFINE all == CHOOSE f : f = [i \in 1 .. Len(seqs) |->
                        IF i = 1 THEN seqs[i] ELSE f[i - 1] \o seqs[i]]
<1>5. all = [i \in 1 .. n |-> IF i = 1 THEN seqs[i] ELSE all[i - 1] \o seqs[i]]
  BY <1>4
<1>6. FlattenSeq(seqs) = IF n = 0 THEN seqs ELSE all[n]
  BY DEF FlattenSeq
<1> HIDE DEF all
<1> DEFINE Fine == {m \in 0 .. n : m = 0 \/ all[m] \in Seq(X)}
<1>7. 0 \in Fine
  BY <1>1
<1>8. ASSUME NEW m \in 1 .. n, m - 1 \in Fine PROVE m \in Fine
  <2>1. all[m] = IF m = 1 THEN seqs[m] ELSE all[m - 1] \o seqs[m]
    BY <1>5
  <2>2. m # 1 => all[m - 1] \in Seq(X)
    BY <1>1, <1>8
  <2>3. seqs[m] \in Seq(X)
    BY <1>1
  <2>4. all[m] \in Seq(X)
    BY <2>1, <2>2, <2>3
  <2> QED BY <1>1, <2>4
<1>9. n \in Fine
  <2> HIDE DEF Fine
  <2>1. 0 .. n \subseteq Fine
    BY <1>1, <1>7, <1>8, UpToN
  <2> QED BY <1>1, <2>1
<1>10. CASE n = 0
  <2>1. seqs = <<>>
    BY <1>10
  <2> QED BY <1>6, <1>10, <2>1
<1>11. CASE n # 0
  BY <1>6, <1>9, <1>11
<1> QED BY <1>10, <1>11

-----------------------------------------------------------------------------
(* The search's state.                                                       *)

(* What the operations make of trees are trees, wherever the stream stands.  *)
OperationsGiveTrees ==
    /\ \A n \in Nat : Draw(n) \in Nat /\ Grown(n) \in Trees
    /\ \A t, u \in Trees, n \in Nat : Crossed(t, u, n) \in Trees /\ Composed(t, u, n) \in Trees
    /\ \A t \in Trees, n \in Nat :
          Subtree(t, n) \in Trees /\ Pointed(t, n) \in Trees /\ Inserted(t, n) \in Trees

SearchFields ==
    {"generation", "rng", "population", "cache", "prior", "pending", "beam", "frontier",
     "lane", "guide", "best", "stale"}

Individual == [tree : Trees, fitness : Nat, birth : Nat, stones : SUBSET Trees]

CacheOK(c) ==
    /\ DOMAIN c \in SUBSET Trees /\ IsFiniteSet(DOMAIN c)
    /\ c = [t \in DOMAIN c |-> c[t]] /\ \A t \in DOMAIN c : c[t] \in Nat

(* A position in the stream, the cursors and the defaults to come.           *)
Placed(s) ==
    /\ s = [f \in SearchFields |-> s[f]]
    /\ s.rng \in Nat /\ s.beam \in Nat /\ s.frontier \in Nat /\ s.lane \in Nat
    /\ s.guide \in Nat /\ s.pending \in Seq(Trees)

Sane(s) ==
    /\ Placed(s)
    /\ s.generation \in Nat /\ s.prior \in Nat
    /\ s.population \in Seq(Individual) /\ CacheOK(s.cache)

(* What breeding leaves alone.                                               *)
Moved(s, u) ==
    /\ Placed(u)
    /\ u.generation = s.generation /\ u.population = s.population /\ u.cache = s.cache
    /\ u.prior = s.prior /\ u.best = s.best /\ u.stale = s.stale

LEMMA MovedOn ==
    ASSUME NEW s, NEW u, Sane(s), Moved(s, u)
    PROVE  Sane(u) /\ DOMAIN u = SearchFields /\ \A w : Moved(u, w) => Moved(s, w)
  BY DEF Sane, Moved, Placed

LEMMA MovedStill ==
    ASSUME NEW s, Sane(s)
    PROVE  Moved(s, s) /\ DOMAIN s = SearchFields
  BY DEF Sane, Moved, Placed

(* A cursor or the stream moves on, or a default is taken.                   *)
LEMMA MovedRng ==
    ASSUME NEW s, Sane(s), NEW n \in Nat
    PROVE  Moved(s, [s EXCEPT !.rng = n]) /\ [s EXCEPT !.rng = n].rng = n
  BY DEF Sane, Moved, Placed, SearchFields

LEMMA MovedGuide ==
    ASSUME NEW s, Sane(s), NEW n \in Nat
    PROVE  Moved(s, [s EXCEPT !.guide = n])
  BY DEF Sane, Moved, Placed, SearchFields

LEMMA MovedPending ==
    ASSUME NEW s, Sane(s), NEW d \in Seq(Trees)
    PROVE  Moved(s, [s EXCEPT !.pending = d])
  BY DEF Sane, Moved, Placed, SearchFields

LEMMA Ticked ==
    ASSUME NEW s, Sane(s)
    PROVE  Moved(s, Tick(s)) /\ Sane(Tick(s)) /\ Tick(s).population = s.population
<1>1. s.rng + 1 \in Nat
  BY DEF Sane, Placed
<1>2. Tick(s) = [s EXCEPT !.rng = s.rng + 1]
  BY DEF Tick
<1>3. Moved(s, Tick(s))
  BY <1>1, <1>2, MovedRng
<1>4. Tick(s).population = s.population
  BY <1>3 DEF Moved
<1> QED BY <1>3, <1>4, MovedOn

Places(s) == 1 .. Len(s.population)

LEMMA MembersOK ==
    ASSUME NEW s, Sane(s)
    PROVE  /\ DOMAIN s.population = Places(s) /\ Len(s.population) \in Nat
           /\ \A i \in Places(s) :
                 /\ TreeAt(s, i) \in Trees /\ FitnessAt(s, i) \in Nat
                 /\ s.population[i] \in Individual /\ s.population[i].birth \in Nat
                 /\ i \in Nat
<1>1. DOMAIN s.population = Places(s) /\ Len(s.population) \in Nat
  BY DEF Sane, Places
<1>2. \A i \in Places(s) : i \in Nat
  BY <1>1 DEF Places
<1>3. \A i \in Places(s) : s.population[i] \in Individual
  BY DEF Sane, Places
<1>4. \A x \in Individual : x.tree \in Trees /\ x.fitness \in Nat /\ x.birth \in Nat
  BY DEF Individual
<1>5. \A i \in Places(s) :
         /\ s.population[i].tree \in Trees /\ s.population[i].fitness \in Nat
         /\ s.population[i].birth \in Nat
  BY <1>3, <1>4
<1> QED BY <1>1, <1>2, <1>3, <1>5 DEF TreeAt, FitnessAt

LEMMA PlacesFinite ==
    ASSUME NEW s, Sane(s), NEW S \in SUBSET Places(s)
    PROVE  IsFiniteSet(S) /\ Cardinality(S) \in 0 .. Len(s.population)
<1>1. Len(s.population) \in Nat
  BY MembersOK
<1>2. IsFiniteSet(1 .. Len(s.population))
      /\ Cardinality(1 .. Len(s.population)) = Len(s.population)
  <2>1. 1 \in Int /\ Len(s.population) \in Int
        /\ Len(s.population) + 1 - 1 = Len(s.population)
        /\ (1 > Len(s.population) => Len(s.population) = 0)
    BY <1>1
  <2> QED BY <2>1, FS_Interval
<1>3. IsFiniteSet(S) /\ Cardinality(S) <= Len(s.population)
  BY <1>2, FS_Subset DEF Places
<1>4. Cardinality(S) \in Nat
  BY <1>3, FS_CardinalityType
<1> QED BY <1>1, <1>3, <1>4

(* By fitness, then by place, there is an order.                             *)
LEMMA AheadFacts ==
    ASSUME NEW s, Sane(s)
    PROVE  /\ \A i \in Places(s) : ~Ahead(s, i, i)
           /\ \A i, j \in Places(s) : i # j => Ahead(s, i, j) \/ Ahead(s, j, i)
           /\ \A i, j, k \in Places(s) : Ahead(s, i, j) /\ Ahead(s, j, k) => Ahead(s, i, k)
<1>1. \A i \in Places(s) : FitnessAt(s, i) \in Nat /\ i \in Nat
  BY MembersOK
<1> QED BY <1>1 DEF Ahead

LEMMA RankedFacts ==
    ASSUME NEW s, Sane(s), NEW S \in SUBSET Places(s)
    PROVE  /\ IsList(Ranked(s, S)) /\ Len(Ranked(s, S)) = Cardinality(S)
           /\ \A k \in DOMAIN Ranked(s, S) : Ranked(s, S)[k] \in S
<1> DEFINE R == {p \in S \X S : Ahead(s, p[1], p[2])}
<1>1. IsFiniteSet(S)
  BY PlacesFinite
<1>2. \A i, j \in S : <<i, j>> \in R <=> Ahead(s, i, j)
  OBVIOUS
<1> HIDE DEF R
<1>3. \A i \in S : <<i, i>> \notin R
  BY <1>2, AheadFacts
<1>4. \A i, j \in S : i # j => <<i, j>> \in R \/ <<j, i>> \in R
  BY <1>2, AheadFacts
<1>5. \A i, j, k \in S : <<i, j>> \in R /\ <<j, k>> \in R => <<i, k>> \in R
  <2>1. \A i, j, k \in S : Ahead(s, i, j) /\ Ahead(s, j, k) => Ahead(s, i, k)
    BY AheadFacts
  <2> QED BY <1>2, <2>1
<1>6. /\ IsList(InOrder(S, R)) /\ Len(InOrder(S, R)) = Cardinality(S)
      /\ \A n \in 1 .. Cardinality(S) : InOrder(S, R)[n] \in S
  BY <1>1, <1>3, <1>4, <1>5, InOrderFacts
<1>7. Ranked(s, S) = InOrder(S, R)
  BY DEF Ranked, R
<1>8. DOMAIN Ranked(s, S) = 1 .. Cardinality(S)
  BY <1>6, <1>7, ListFacts
<1> QED BY <1>6, <1>7, <1>8

-----------------------------------------------------------------------------
(* Operations.                                                               *)

PoolOK(s, pool) == pool \in Seq(Places(s)) /\ pool # <<>>

(* A tree and where it comes from.                                           *)
ChildFields == {"s", "parents", "move", "tree"}
ChildOK(s, child) ==
    /\ child = [f \in ChildFields |-> child[f]]
    /\ Moved(s, child.s) /\ child.tree \in Trees /\ child.parents \in Seq(Places(s))

LEMMA Remainder ==
    ASSUME NEW a \in Int, NEW n \in Nat, n # 0
    PROVE  a % n \in 0 .. n - 1
  OBVIOUS

LEMMA TournamentOK ==
    ASSUME OperationsGiveTrees, NEW s, Sane(s), NEW pool, PoolOK(s, pool)
    PROVE  /\ Moved(s, Tournament(s, pool).s) /\ Sane(Tournament(s, pool).s)
           /\ Tournament(s, pool).s.population = s.population
           /\ Tournament(s, pool).i \in Places(s)
<1> DEFINE N == TournamentSize
           drawn == [k \in 1 .. N |-> pool[1 + (Draw(s.rng + k - 1) % Len(pool))]]
           Wins(k) == \A m \in DOMAIN drawn :
                          \/ FitnessAt(s, drawn[k]) > FitnessAt(s, drawn[m])
                          \/ FitnessAt(s, drawn[k]) = FitnessAt(s, drawn[m]) /\ k <= m
           F == [k \in 1 .. N |-> FitnessAt(s, drawn[k])]
<1>1. N \in Nat \ {0} /\ s.rng \in Nat
  BY VariationAssumption DEF Sane, Placed
<1>2. ASSUME NEW k \in 1 .. N PROVE drawn[k] \in Places(s)
  <2>1. s.rng + k - 1 \in Nat
    BY <1>1
  <2>2. Draw(s.rng + k - 1) \in Int
    BY <2>1 DEF OperationsGiveTrees
  <2>3. Len(pool) \in Nat /\ Len(pool) # 0
    BY DEF PoolOK
  <2>4. Draw(s.rng + k - 1) % Len(pool) \in 0 .. Len(pool) - 1
    BY <2>2, <2>3, Remainder
  <2>5. 1 + (Draw(s.rng + k - 1) % Len(pool)) \in 1 .. Len(pool)
    BY <2>3, <2>4
  <2>6. pool[1 + (Draw(s.rng + k - 1) % Len(pool))] \in Places(s)
    BY <2>5 DEF PoolOK
  <2> QED BY <2>6
<1>3. DOMAIN drawn = 1 .. N
  OBVIOUS
<1> HIDE DEF drawn
<1>4. \A k \in 1 .. N : F[k] \in Int /\ F[k] = FitnessAt(s, drawn[k])
  BY <1>2, MembersOK
<1>5. \E k \in DOMAIN drawn : Wins(k)
  <2>1. 1 .. N # {} /\ 1 .. N \in SUBSET (1 .. N)
    BY <1>1
  <2> HIDE DEF F
  <2>2. PICK k \in 1 .. N : \A m \in 1 .. N : F[k] > F[m] \/ (F[k] = F[m] /\ k <= m)
    BY <1>1, <1>4, <2>1, FirstGreatest
  <2>3. Wins(k)
    BY <1>3, <1>4, <2>2
  <2> QED BY <1>3, <2>3
<1>6. (CHOOSE k \in DOMAIN drawn : Wins(k)) \in 1 .. N
  <2> HIDE DEF Wins
  <2> QED BY <1>3, <1>5
<1>7. Tournament(s, pool) = [s |-> [s EXCEPT !.rng = s.rng + N],
                             i |-> drawn[CHOOSE k \in DOMAIN drawn : Wins(k)]]
  BY DEF Tournament, drawn
<1>8. Moved(s, [s EXCEPT !.rng = s.rng + N])
  <2>1. s.rng + N \in Nat
    BY <1>1
  <2> QED BY <2>1, MovedRng
<1>9. Tournament(s, pool).i \in Places(s) /\ Moved(s, Tournament(s, pool).s)
  <2> DEFINE w == CHOOSE k \in DOMAIN drawn : Wins(k)
  <2>1. /\ w \in 1 .. N /\ Moved(s, [s EXCEPT !.rng = s.rng + N])
        /\ Tournament(s, pool) = [s |-> [s EXCEPT !.rng = s.rng + N], i |-> drawn[w]]
    BY <1>6, <1>7, <1>8
  <2> HIDE DEF Wins, N, w
  <2> QED BY <1>2, <2>1
<1>10. Tournament(s, pool).s.population = s.population
  BY <1>9 DEF Moved
<1> QED BY <1>9, <1>10, MovedOn

LEMMA EveryoneOK ==
    ASSUME NEW s, Sane(s), s.population # <<>>
    PROVE  PoolOK(s, Everyone(s))
<1>1. Len(s.population) \in Nat /\ Len(s.population) # 0 /\ DOMAIN s.population = Places(s)
  BY MembersOK DEF Sane
<1>2. Everyone(s) = [i \in 1 .. Len(s.population) |-> i]
  BY <1>1 DEF Everyone, Places
<1>3. Everyone(s) \in Seq(Places(s)) /\ Len(Everyone(s)) = Len(s.population)
  BY <1>1, <1>2 DEF Places
<1> QED BY <1>1, <1>3 DEF PoolOK

LEMMA SameMembers ==
    ASSUME NEW s, NEW u, u.population = s.population
    PROVE  /\ Places(u) = Places(s) /\ Everyone(u) = Everyone(s)
           /\ \A i : TreeAt(u, i) = TreeAt(s, i) /\ FitnessAt(u, i) = FitnessAt(s, i)
           /\ \A pool : PoolOK(u, pool) <=> PoolOK(s, pool)
  BY DEF Places, Everyone, TreeAt, FitnessAt, PoolOK

LEMMA RewrittenOK ==
    ASSUME OperationsGiveTrees, NEW t \in Trees, NEW n \in Nat,
           NEW how \in {"subtree", "point", "insertion"}
    PROVE  Rewritten(how, t, n) \in Trees
<1>1. Subtree(t, n) \in Trees /\ Pointed(t, n) \in Trees /\ Inserted(t, n) \in Trees
  BY DEF OperationsGiveTrees
<1> QED BY <1>1 DEF Rewritten

LEMMA PairOK ==
    ASSUME OperationsGiveTrees, NEW s, Sane(s), s.population # <<>>, NEW pool, PoolOK(s, pool),
           NEW how
    PROVE  ChildOK(s, Pair(s, pool, how))
<1> DEFINE a == Tournament(s, pool)
           b == Tournament(a.s, Everyone(s))
           tree == Mated(how, TreeAt(s, a.i), TreeAt(s, b.i), b.s.rng)
           c == Pair(s, pool, how)
<1>1. /\ Moved(s, a.s) /\ Sane(a.s) /\ a.s.population = s.population /\ a.i \in Places(s)
  BY TournamentOK
<1>2. PoolOK(a.s, Everyone(s)) /\ Places(a.s) = Places(s)
  BY <1>1, EveryoneOK, SameMembers
<1> HIDE DEF a
<1>3. /\ Moved(a.s, b.s) /\ Sane(b.s) /\ b.i \in Places(s)
  BY <1>1, <1>2, TournamentOK
<1> HIDE DEF b
<1>4. Moved(b.s, Tick(b.s))
  BY <1>3, Ticked
<1>5. Moved(s, Tick(b.s))
  BY <1>1, <1>3, <1>4, MovedOn
<1>6. b.s.rng \in Nat /\ TreeAt(s, a.i) \in Trees /\ TreeAt(s, b.i) \in Trees
  BY <1>1, <1>3, MembersOK DEF Sane, Placed
<1>7. tree \in Trees
  BY <1>6 DEF Mated, OperationsGiveTrees
<1>8. c = [s |-> Tick(b.s), parents |-> <<a.i, b.i>>, move |-> FALSE, tree |-> tree]
  BY DEF Pair, a, b
<1> HIDE DEF c, tree
<1>9. <<a.i, b.i>> \in Seq(Places(s))
  BY <1>1, <1>3
<1>10. /\ c = [f \in ChildFields |-> c[f]] /\ c.s = Tick(b.s) /\ c.tree = tree
       /\ c.parents = <<a.i, b.i>>
  BY <1>8 DEF ChildFields
<1>11. ChildOK(s, c)
  BY <1>5, <1>7, <1>9, <1>10 DEF ChildOK
<1> QED BY <1>11 DEF c

LEMMA SingleOK ==
    ASSUME OperationsGiveTrees, NEW s, Sane(s), NEW pool, PoolOK(s, pool)
    PROVE  ChildOK(s, Single(s, pool))
<1> DEFINE a == Tournament(s, pool)
           c == Single(s, pool)
<1>1. /\ Moved(s, a.s) /\ a.i \in Places(s)
  BY TournamentOK
<1>2. c = [s |-> a.s, parents |-> <<a.i>>, move |-> FALSE, tree |-> TreeAt(s, a.i)]
  BY DEF Single
<1> HIDE DEF a, c
<1>3. TreeAt(s, a.i) \in Trees /\ <<a.i>> \in Seq(Places(s))
  BY <1>1, MembersOK
<1>4. /\ c = [f \in ChildFields |-> c[f]] /\ c.s = a.s /\ c.tree = TreeAt(s, a.i)
      /\ c.parents = <<a.i>>
  BY <1>2 DEF ChildFields
<1>5. ChildOK(s, c)
  BY <1>1, <1>3, <1>4 DEF ChildOK
<1> QED BY <1>5 DEF c

LEMMA TickedChild ==
    ASSUME NEW s, Sane(s), NEW child, ChildOK(s, child)
    PROVE  ChildOK(s, [child EXCEPT !.s = Tick(child.s)])
<1> DEFINE c == [child EXCEPT !.s = Tick(child.s)]
<1>1. Sane(child.s)
  BY MovedOn DEF ChildOK
<1>2. Moved(child.s, Tick(child.s))
  BY <1>1, Ticked
<1>3. Moved(s, Tick(child.s))
  BY <1>2, MovedOn DEF ChildOK
<1>4. /\ c = [f \in ChildFields |-> c[f]] /\ c.s = Tick(child.s) /\ c.tree = child.tree
      /\ c.parents = child.parents
  BY DEF ChildOK, ChildFields
<1> HIDE DEF c
<1>5. ChildOK(s, c)
  BY <1>3, <1>4 DEF ChildOK
<1> QED BY <1>5 DEF c

LEMMA EditedOK ==
    ASSUME OperationsGiveTrees, NEW s, Sane(s), NEW child, ChildOK(s, child),
           NEW how \in {"subtree", "point", "insertion"}
    PROVE  ChildOK(s, Edited(child, how))
<1> DEFINE c == Edited(child, how)
           tree == Rewritten(how, child.tree, child.s.rng)
<1>1. Sane(child.s)
  BY MovedOn DEF ChildOK
<1>2. Moved(child.s, Tick(child.s))
  BY <1>1, Ticked
<1>3. Moved(s, Tick(child.s))
  BY <1>2, MovedOn DEF ChildOK
<1>4. tree \in Trees
  BY <1>1, RewrittenOK DEF ChildOK, Sane, Placed
<1> HIDE DEF tree
<1>5. c = [child EXCEPT !.s = Tick(child.s), !.tree = tree]
  BY DEF Edited, tree
<1> HIDE DEF c
<1>6. /\ c = [f \in ChildFields |-> c[f]] /\ c.s = Tick(child.s) /\ c.tree = tree
      /\ c.parents = child.parents
  BY <1>5 DEF ChildOK, ChildFields
<1>7. ChildOK(s, c)
  BY <1>3, <1>4, <1>6 DEF ChildOK
<1> QED BY <1>7 DEF c

LEMMA PerhapsOK ==
    ASSUME OperationsGiveTrees, NEW s, Sane(s), NEW child, ChildOK(s, child),
           NEW percent, NEW how \in {"subtree", "point", "insertion"}
    PROVE  ChildOK(s, Perhaps(child, percent, how))
<1> DEFINE after == [child EXCEPT !.s = Tick(child.s)]
<1>1. ChildOK(s, after)
  BY TickedChild
<1> HIDE DEF after
<1>2. ChildOK(s, Edited(after, how))
  BY <1>1, EditedOK
<1>3. Perhaps(child, percent, how) = IF Happens(child.s, percent) THEN Edited(after, how)
                                     ELSE after
  BY DEF Perhaps, after
<1> QED BY <1>1, <1>2, <1>3

(* The child of a search a little further on is one of this search too.      *)
LEMMA ChildOf ==
    ASSUME NEW s, Sane(s), NEW u, Moved(s, u), NEW child, ChildOK(u, child)
    PROVE  ChildOK(s, child)
<1>1. Moved(s, child.s)
  BY MovedOn DEF ChildOK
<1>2. Places(u) = Places(s)
  BY SameMembers DEF Moved
<1> QED BY <1>1, <1>2 DEF ChildOK

LEMMA StandardOK ==
    ASSUME OperationsGiveTrees, NEW s, Sane(s), s.population # <<>>, NEW pool, PoolOK(s, pool)
    PROVE  ChildOK(s, Standard(s, pool))
<1> DEFINE u == Tick(s)
           bred == IF Happens(s, CrossoverRate) THEN Pair(u, pool, "crossover")
                   ELSE Single(u, pool)
<1>1. Moved(s, u) /\ Sane(u) /\ u.population = s.population
  BY Ticked
<1>2. PoolOK(u, pool)
  BY <1>1, SameMembers
<1>3. Standard(s, pool) = Perhaps(Perhaps(bred, SubtreeRate, "subtree"), PointRate, "point")
  BY DEF Standard
<1> HIDE DEF u
<1>4. ChildOK(u, bred)
  BY <1>1, <1>2, PairOK, SingleOK
<1>5. ChildOK(s, bred)
  <2> HIDE DEF bred
  <2> QED BY <1>1, <1>4, ChildOf
<1> HIDE DEF bred
<1>6. ChildOK(s, Perhaps(bred, SubtreeRate, "subtree"))
  BY <1>5, PerhapsOK
<1> QED BY <1>3, <1>6, PerhapsOK

LEMMA TwoEditsOK ==
    ASSUME OperationsGiveTrees, NEW s, Sane(s), NEW pool, PoolOK(s, pool)
    PROVE  ChildOK(s, TwoEdits(s, pool))
<1> DEFINE Edit(child) ==
               LET after == [child EXCEPT !.s = Tick(child.s)]
               IN  CASE Draw(child.s.rng) % 3 = 0 -> Edited(after, "point")
                     [] Draw(child.s.rng) % 3 = 1 -> Edited(after, "subtree")
                     [] OTHER -> Edited(after, "insertion")
<1>1. ASSUME NEW child, ChildOK(s, child) PROVE ChildOK(s, Edit(child))
  <2> DEFINE after == [child EXCEPT !.s = Tick(child.s)]
             r == Draw(child.s.rng) % 3
  <2>1. ChildOK(s, after)
    BY <1>1, TickedChild
  <2>2. Edit(child) = CASE r = 0 -> Edited(after, "point")
                        [] r = 1 -> Edited(after, "subtree")
                        [] OTHER -> Edited(after, "insertion")
    OBVIOUS
  <2> HIDE DEF after, r, Edit
  <2>3. /\ ChildOK(s, Edited(after, "point")) /\ ChildOK(s, Edited(after, "subtree"))
        /\ ChildOK(s, Edited(after, "insertion"))
    BY <2>1, EditedOK
  <2> QED BY <2>2, <2>3
<1>2. TwoEdits(s, pool) = Edit(Edit(Single(s, pool)))
  BY DEF TwoEdits
<1> HIDE DEF Edit
<1>3. ChildOK(s, Single(s, pool))
  BY SingleOK
<1>4. ChildOK(s, Edit(Single(s, pool)))
  BY <1>1, <1>3
<1> QED BY <1>1, <1>2, <1>4

(* Parameter moves: which trees call formulas, and what one change makes.    *)
LEMMA SourcesOK ==
    ASSUME NEW s, Sane(s), NEW eligible \in SUBSET Places(s), NEW beam \in BOOLEAN
    PROVE  Sources(s, eligible, beam) \in Seq(Places(s))
<1> DEFINE calls == {i \in eligible : Formula[TreeAt(s, i)] # NoFormula}
           First(j, i) == IF beam THEN Ahead(s, j, i) ELSE j < i
           Call_(i) == <<Formula[TreeAt(s, i)], Tuple[TreeAt(s, i)]>>
           fresh == {i \in calls : \A j \in calls : First(j, i) => Call_(j) # Call_(i)}
           Rivals(i) == {Call_(j) : j \in {k \in calls : First(k, i) /\ Call_(k)[1] = Call_(i)[1]}}
           Before(i, j) ==
               LET a == Call_(i)
                   b == Call_(j)
               IN  IF a[1] # b[1] THEN a[1] < b[1]
                   ELSE IF beam THEN First(i, j)
                   ELSE a[2] < b[2] \/ (a[2] = b[2] /\ i < j)
           best == {i \in fresh : ~beam \/ Cardinality(Rivals(i)) < Profile.width}
           R == {p \in best \X best : Before(p[1], p[2])}
           F(i) == Formula[TreeAt(s, i)]
           T(i) == Tuple[TreeAt(s, i)]
<1>1. Sources(s, eligible, beam) = InOrder(best, R)
  BY DEF Sources
<1>2. best \in SUBSET calls /\ calls \in SUBSET Places(s)
  OBVIOUS
<1>3. ASSUME NEW i \in best PROVE i \in Places(s) /\ i \in Nat /\ F(i) \in Int /\ T(i) \in Int
  <2>1. i \in calls /\ i \in Places(s)
    BY <1>2
  <2>2. TreeAt(s, i) \in Trees /\ i \in Nat
    BY <2>1, MembersOK
  <2> QED BY <2>1, <2>2, VariationAssumption
<1>4. \A i, j \in best : <<i, j>> \in R <=>
         IF F(i) # F(j) THEN F(i) < F(j)
         ELSE IF beam THEN Ahead(s, i, j)
         ELSE T(i) < T(j) \/ (T(i) = T(j) /\ i < j)
  <2> HIDE DEF best
  <2> QED OBVIOUS
<1> HIDE DEF best, R, F, T
<1>5. \A i \in best : <<i, i>> \notin R
  BY <1>3, <1>4, AheadFacts
<1>6. \A i, j \in best : i # j => <<i, j>> \in R \/ <<j, i>> \in R
  <2>1. \A i, j \in best : i # j => Ahead(s, i, j) \/ Ahead(s, j, i)
    BY <1>3, AheadFacts
  <2> QED BY <1>3, <1>4, <2>1
<1>7. \A i, j, k \in best : <<i, j>> \in R /\ <<j, k>> \in R => <<i, k>> \in R
  <2>1. \A i, j, k \in best : Ahead(s, i, j) /\ Ahead(s, j, k) => Ahead(s, i, k)
    BY <1>3, AheadFacts
  <2> QED BY <1>3, <1>4, <2>1
<1>8. best \in SUBSET Places(s)
  BY <1>3
<1>9. IsFiniteSet(best)
  BY <1>8, PlacesFinite
<1>10. /\ IsList(InOrder(best, R)) /\ Len(InOrder(best, R)) = Cardinality(best)
       /\ \A n \in 1 .. Cardinality(best) : InOrder(best, R)[n] \in best
  BY <1>5, <1>6, <1>7, <1>9, InOrderFacts
<1> DEFINE l == InOrder(best, R)
<1>11. l \in Seq(Places(s))
  <2>1. Len(l) \in Nat /\ \A n \in 1 .. Len(l) : l[n] \in Places(s)
    BY <1>8, <1>10, ListFacts
  <2>2. l = [n \in 1 .. Len(l) |-> l[n]]
    BY <1>10, ListFacts
  <2> HIDE DEF l
  <2>3. l \in [1 .. Len(l) -> Places(s)]
    BY <2>1, <2>2
  <2> QED BY <2>1, <2>3
<1> QED BY <1>1, <1>11

Move(s) == [tree : Trees, parent : Places(s)]

LEMMA MovesOK ==
    ASSUME NEW s, Sane(s), NEW sources \in Seq(Places(s)), NEW beam \in BOOLEAN
    PROVE  Moves(s, sources, beam) \in Seq(Move(s))
<1> DEFINE Of(i) == IF beam THEN AxisMoves(TreeAt(s, i)) ELSE AllMoves(TreeAt(s, i))
           Each(k) == [m \in DOMAIN Of(sources[k]) |->
                          [tree |-> Of(sources[k])[m], parent |-> sources[k]]]
           all == [k \in DOMAIN sources |-> Each(k)]
<1>1. Moves(s, sources, beam) = FlattenSeq(all)
  BY DEF Moves
<1>2. ASSUME NEW k \in DOMAIN sources PROVE Each(k) \in Seq(Move(s))
  <2>1. sources[k] \in Places(s)
    OBVIOUS
  <2>2. TreeAt(s, sources[k]) \in Trees
    BY <2>1, MembersOK
  <2>3. Of(sources[k]) \in Seq(Trees)
    BY <2>2, VariationAssumption
  <2> DEFINE o == Of(sources[k])
  <2>4. o \in Seq(Trees)
    BY <2>3
  <2> HIDE DEF o, Of
  <2>5. [m \in DOMAIN o |-> [tree |-> o[m], parent |-> sources[k]]] \in Seq(Move(s))
    <3>1. Len(o) \in Nat /\ DOMAIN o = 1 .. Len(o)
      BY <2>4
    <3>2. \A m \in 1 .. Len(o) : [tree |-> o[m], parent |-> sources[k]] \in Move(s)
      BY <2>1, <2>4 DEF Move
    <3> QED BY <3>1, <3>2
  <2> QED BY <2>5 DEF o
<1> HIDE DEF Each
<1>3. Len(sources) \in Nat /\ DOMAIN sources = 1 .. Len(sources)
  OBVIOUS
<1>4. all \in Seq(Seq(Move(s)))
  BY <1>2, <1>3
<1> HIDE DEF all
<1> QED BY <1>1, <1>4, FlattenIs

MoveOK(s, r) ==
    Moved(s, r.s) /\ (r.move => ChildOK(s, r))

LEMMA MovedCursors ==
    ASSUME NEW s, Sane(s), NEW u, u = [f \in SearchFields |-> u[f]],
           u.lane \in Nat, u.beam \in Nat, u.frontier \in Nat,
           u.generation = s.generation, u.rng = s.rng, u.population = s.population,
           u.cache = s.cache, u.prior = s.prior, u.pending = s.pending, u.guide = s.guide,
           u.best = s.best, u.stale = s.stale
    PROVE  Moved(s, u)
  BY DEF Sane, Moved, Placed, SearchFields

LEMMA NextMoveOK ==
    ASSUME NEW s, Sane(s), NEW isBeam \in BOOLEAN, NEW moves \in Seq(Move(s)), NEW cursor \in Nat
    PROVE  MoveOK(s, NextMove(s, isBeam, moves, cursor))
<1> DEFINE n == Len(moves)
           At(offset) == moves[1 + ((cursor + offset) % Len(moves))]
           unseen == {k \in 0 .. Len(moves) - 1 : At(k).tree \notin DOMAIN s.cache}
           next == IF unseen = {} THEN cursor + Len(moves) ELSE cursor + Min(unseen) + 1
           after == IF isBeam THEN [s EXCEPT !.lane = s.lane + 1, !.beam = next]
                    ELSE [s EXCEPT !.lane = s.lane + 1, !.frontier = next]
           r == NextMove(s, isBeam, moves, cursor)
<1>1. n \in Nat
  OBVIOUS
<1>2. ASSUME NEW k \in 0 .. n - 1 PROVE At(k) \in Move(s)
  <2>1. cursor + k \in Int /\ n # 0
    BY <1>1
  <2>2. (cursor + k) % n \in 0 .. n - 1
    BY <1>1, <2>1, Remainder
  <2> QED BY <1>1, <2>2
<1>3. r = IF unseen = {} THEN [s |-> after, move |-> FALSE]
          ELSE [s |-> after, move |-> TRUE, tree |-> At(Min(unseen)).tree,
                parents |-> <<At(Min(unseen)).parent>>]
  BY DEF NextMove
<1>4. unseen \in SUBSET (0 .. n - 1)
  OBVIOUS
<1>5. unseen # {} => Min(unseen) \in 0 .. n - 1
  <2>1. unseen \in SUBSET Nat
    OBVIOUS
  <2> HIDE DEF unseen
  <2> QED BY <1>4, <2>1, MinIsLeast
<1> HIDE DEF At, unseen
<1>6. next \in Nat
  BY <1>1, <1>5
<1> HIDE DEF next
<1>7. Moved(s, after)
  <2>1. /\ s.lane + 1 \in Nat /\ s.beam \in Nat /\ s.frontier \in Nat
        /\ s = [f \in SearchFields |-> s[f]]
    BY DEF Sane, Placed
  <2>2. /\ after = [f \in SearchFields |-> after[f]]
        /\ after.lane = s.lane + 1 /\ after.beam \in {s.beam, next}
        /\ after.frontier \in {s.frontier, next}
        /\ after.generation = s.generation /\ after.rng = s.rng
        /\ after.population = s.population /\ after.cache = s.cache
        /\ after.prior = s.prior /\ after.pending = s.pending /\ after.guide = s.guide
        /\ after.best = s.best /\ after.stale = s.stale
    <3>1. CASE isBeam
      BY <2>1, <3>1 DEF SearchFields
    <3>2. CASE ~isBeam
      BY <2>1, <3>2 DEF SearchFields
    <3> QED BY <3>1, <3>2
  <2> HIDE DEF after
  <2> QED BY <1>6, <2>1, <2>2, MovedCursors
<1> HIDE DEF after, r
<1>8. ASSUME unseen = {} PROVE MoveOK(s, r)
  <2>1. r.s = after /\ ~r.move
    BY <1>3, <1>8
  <2> QED BY <1>7, <2>1 DEF MoveOK
<1>9. ASSUME unseen # {} PROVE MoveOK(s, r)
  <2>1. At(Min(unseen)) \in Move(s)
    BY <1>2, <1>5, <1>9
  <2>2. At(Min(unseen)).tree \in Trees /\ <<At(Min(unseen)).parent>> \in Seq(Places(s))
    BY <2>1 DEF Move
  <2>3. /\ r = [f \in ChildFields |-> r[f]] /\ r.s = after /\ r.tree = At(Min(unseen)).tree
        /\ r.parents = <<At(Min(unseen)).parent>>
    BY <1>3, <1>9 DEF ChildFields
  <2>4. ChildOK(s, r)
    BY <1>7, <2>2, <2>3 DEF ChildOK
  <2> QED BY <1>7, <2>3, <2>4 DEF MoveOK
<1>10. MoveOK(s, r)
  BY <1>8, <1>9
<1> QED BY <1>10 DEF r

LEMMA NeighborOK ==
    ASSUME NEW s, Sane(s), NEW eligible \in SUBSET Places(s)
    PROVE  MoveOK(s, Neighbor(s, eligible))
<1> DEFINE isBeam == s.lane % 2 = 0
           moves == Moves(s, Sources(s, eligible, isBeam), isBeam)
           cursor == IF isBeam THEN s.beam ELSE s.frontier
<1>1. isBeam \in BOOLEAN
  OBVIOUS
<1>2. Neighbor(s, eligible) = NextMove(s, isBeam, moves, cursor)
  BY DEF Neighbor
<1> HIDE DEF isBeam
<1>3. moves \in Seq(Move(s))
  BY <1>1, SourcesOK, MovesOK
<1>4. cursor \in Nat
  BY DEF Sane, Placed
<1> HIDE DEF moves, cursor
<1> QED BY <1>1, <1>2, <1>3, <1>4, NextMoveOK

LEMMA ParameterChildOK ==
    ASSUME OperationsGiveTrees, NEW s, Sane(s), s.population # <<>>, NEW pool, PoolOK(s, pool)
    PROVE  ChildOK(s, ParameterChild(s, pool))
<1> DEFINE first == Neighbor(s, Range(pool))
           other == Neighbor(first.s, DOMAIN s.population)
           second == IF first.move THEN first ELSE other
<1>1. ParameterChild(s, pool) = IF second.move THEN second ELSE Standard(second.s, pool)
  BY DEF ParameterChild, OrElse
<1>2. Range(pool) \in SUBSET Places(s)
  BY DEF PoolOK, Range
<1>3. MoveOK(s, first)
  BY <1>2, NeighborOK
<1> HIDE DEF first
<1>4. /\ Sane(first.s) /\ first.s.population = s.population
      /\ DOMAIN s.population \in SUBSET Places(first.s)
  BY <1>3, MembersOK, MovedOn DEF MoveOK, Moved, Places
<1>5. MoveOK(first.s, other)
  BY <1>4, NeighborOK
<1> HIDE DEF other
<1>6. MoveOK(s, other)
  <2>1. Moved(s, other.s)
    BY <1>3, <1>5, MovedOn DEF MoveOK
  <2>2. other.move => ChildOK(s, other)
    BY <1>3, <1>5, ChildOf DEF MoveOK
  <2> QED BY <1>5, <2>1, <2>2 DEF MoveOK
<1>7. MoveOK(s, second)
  BY <1>3, <1>6
<1> HIDE DEF second
<1>8. Sane(second.s) /\ second.s.population = s.population
  BY <1>7, MovedOn DEF MoveOK, Moved
<1>9. ChildOK(second.s, Standard(second.s, pool))
  BY <1>8, SameMembers, StandardOK
<1>10. ChildOK(s, Standard(second.s, pool))
  BY <1>7, <1>9, ChildOf DEF MoveOK
<1> QED BY <1>1, <1>7, <1>10 DEF MoveOK

LEMMA ChildIsOK ==
    ASSUME OperationsGiveTrees, NEW s, Sane(s), s.population # <<>>, NEW pool, PoolOK(s, pool),
           NEW lane \in Range(Lanes) \cup {"standard"}
    PROVE  ChildOK(s, Child(s, lane, pool))
<1>1. /\ ChildOK(s, ParameterChild(s, pool)) /\ ChildOK(s, TwoEdits(s, pool))
      /\ ChildOK(s, Pair(s, pool, "composition")) /\ ChildOK(s, Standard(s, pool))
  BY ParameterChildOK, TwoEditsOK, PairOK, StandardOK
<1>2. ChildOK(s, Edited(Single(s, pool), "insertion"))
  BY SingleOK, EditedOK
<1> QED BY <1>1, <1>2 DEF Child

-----------------------------------------------------------------------------
(* Trees to take.                                                            *)

LEMMA SeqIsList ==
    ASSUME NEW X, NEW l \in Seq(X)
    PROVE  IsList(l)
<1>1. Len(l) \in Nat /\ l = [k \in 1 .. Len(l) |-> l[k]]
  OBVIOUS
<1> QED BY <1>1, ListOf

LEMMA ListIsSeq ==
    ASSUME NEW X, NEW l, IsList(l), \A k \in 1 .. Len(l) : l[k] \in X
    PROVE  l \in Seq(X)
<1>1. Len(l) \in Nat /\ l = [k \in 1 .. Len(l) |-> l[k]]
  BY ListFacts
<1>2. l \in [1 .. Len(l) -> X]
  BY <1>1
<1> QED BY <1>1, <1>2

LEMMA PickedOK ==
    ASSUME NEW X, NEW list \in Seq(X), NEW K \in SUBSET (1 .. Len(list))
    PROVE  /\ Picked(list, K) \in Seq(X) /\ Len(Picked(list, K)) = Cardinality(K)
           /\ Cardinality(K) \in 0 .. Len(list)
<1> DEFINE l == Picked(list, K)
           N == Cardinality(K)
<1>1. IsList(list)
  BY SeqIsList
<1>2. PICK at : /\ at \in [1 .. N -> K] /\ N \in 0 .. Len(list)
                /\ IsList(l) /\ Len(l) = N /\ \A n \in 1 .. N : l[n] = list[at[n]]
  BY <1>1, PickedFacts
<1> HIDE DEF l, N
<1>3. \A n \in 1 .. Len(l) : l[n] \in X
  BY <1>2
<1>4. l \in Seq(X)
  BY <1>2, <1>3, ListIsSeq
<1> QED BY <1>2, <1>4 DEF l, N

LEMMA UnseenOK ==
    ASSUME NEW list \in Seq(Trees), NEW cache
    PROVE  Unseen(list, cache) \in Seq(Trees)
<1> DEFINE K == {k \in DOMAIN list : list[k] \notin DOMAIN cache}
<1>1. K \in SUBSET (1 .. Len(list))
  OBVIOUS
<1> HIDE DEF K
<1>2. Picked(list, K) \in Seq(Trees)
  BY <1>1, PickedOK
<1> QED BY <1>2 DEF Unseen, K

LEMMA ImmigrantOK ==
    ASSUME OperationsGiveTrees, NEW s, Sane(s), NEW counts
    PROVE  Immigrant(s, counts).found =>
              /\ Moved(s, Immigrant(s, counts).s)
              /\ Immigrant(s, counts).tree \in Trees
              /\ counts[Immigrant(s, counts).tree] < CopyLimit
              /\ Immigrant(s, counts).parents = <<>>
<1> DEFINE fits == {k \in 0 .. ImmigrantLimit - 1 : counts[Grown(s.rng + k)] < CopyLimit}
           m == Min(fits)
           u == [s EXCEPT !.rng = s.rng + m + 1]
           r == Immigrant(s, counts)
<1>1. r = IF fits = {} THEN [found |-> FALSE]
          ELSE [found |-> TRUE, s |-> u, tree |-> Grown(s.rng + m), parents |-> <<>>]
  BY DEF Immigrant
<1>2. CASE fits = {}
  BY <1>1, <1>2
<1>3. CASE fits # {}
  <2>1. fits \in SUBSET Nat
    BY VariationAssumption
  <2>2. m \in fits
    <3> HIDE DEF fits
    <3> QED BY <1>3, <2>1, MinIsLeast
  <2>3. m \in Nat /\ counts[Grown(s.rng + m)] < CopyLimit
    BY <2>1, <2>2
  <2> HIDE DEF fits, m
  <2>4. s.rng + m \in Nat /\ s.rng + m + 1 \in Nat
    BY <2>3 DEF Sane, Placed
  <2>5. Grown(s.rng + m) \in Trees
    BY <2>4 DEF OperationsGiveTrees
  <2>6. Moved(s, u)
    BY <2>4, MovedRng
  <2> HIDE DEF u, r
  <2>7. r.s = u /\ r.tree = Grown(s.rng + m) /\ r.parents = <<>>
    BY <1>1, <1>3
  <2>8. /\ Moved(s, r.s) /\ r.tree \in Trees /\ counts[r.tree] < CopyLimit /\ r.parents = <<>>
    BY <2>3, <2>5, <2>6, <2>7
  <2> QED BY <2>8 DEF r
<1> QED BY <1>2, <1>3

LEMMA TakeDefaultOK ==
    ASSUME NEW s, Sane(s), NEW counts
    PROVE  /\ Moved(s, TakeDefault(s, counts).s)
           /\ TakeDefault(s, counts).found =>
                 /\ TakeDefault(s, counts).tree \in Trees
                 /\ counts[TakeDefault(s, counts).tree] < CopyLimit
<1> DEFINE ready == {k \in DOMAIN s.pending :
                       s.pending[k] \notin DOMAIN s.cache /\ counts[s.pending[k]] < CopyLimit}
           Passed(k) == Unseen(SubSeq(s.pending, 1, k), s.cache)
           n == Len(s.pending)
           m == Min(ready)
           none == [s EXCEPT !.pending = Passed(n)]
           some == [s EXCEPT !.pending = SubSeq(s.pending, m + 1, n) \o Passed(m - 1)]
           r == TakeDefault(s, counts)
<1>1. r = IF ready = {} THEN [found |-> FALSE, s |-> none]
          ELSE [found |-> TRUE, tree |-> s.pending[m], s |-> some]
  BY DEF TakeDefault
<1>2. s.pending \in Seq(Trees) /\ n \in Nat /\ DOMAIN s.pending = 1 .. n
  BY DEF Sane, Placed
<1>3. \A k \in 0 .. n : SubSeq(s.pending, 1, k) \in Seq(Trees)
  BY <1>2
<1>4. \A k \in 0 .. n : Passed(k) \in Seq(Trees)
  BY <1>3, UnseenOK
<1> HIDE DEF Passed
<1>5. CASE ready = {}
  <2>1. Passed(n) \in Seq(Trees)
    BY <1>2, <1>4
  <2>2. Moved(s, none)
    BY <2>1, MovedPending
  <2> HIDE DEF none, r, ready
  <2>3. r.s = none /\ ~r.found
    BY <1>1, <1>5
  <2>4. Moved(s, r.s)
    BY <2>2, <2>3
  <2> QED BY <2>3, <2>4 DEF r
<1>6. CASE ready # {}
  <2>1. ready \in SUBSET (1 .. n) /\ ready \in SUBSET Nat
    BY <1>2
  <2>2. m \in ready
    <3> HIDE DEF ready
    <3> QED BY <1>6, <2>1, MinIsLeast
  <2>3. m \in 1 .. n /\ counts[s.pending[m]] < CopyLimit
    BY <1>2, <2>2
  <2> HIDE DEF ready, m
  <2>4. m - 1 \in 0 .. n
    BY <1>2, <2>3
  <2>5. SubSeq(s.pending, m + 1, n) \in Seq(Trees)
    BY <1>2, <2>3
  <2>6. SubSeq(s.pending, m + 1, n) \o Passed(m - 1) \in Seq(Trees)
    BY <1>4, <2>4, <2>5
  <2>7. Moved(s, some)
    BY <2>6, MovedPending
  <2> HIDE DEF some, r
  <2>8. r.s = some /\ r.tree = s.pending[m]
    BY <1>1, <1>6
  <2>9. /\ Moved(s, r.s) /\ r.tree \in Trees /\ counts[r.tree] < CopyLimit
    BY <1>2, <2>3, <2>7, <2>8
  <2> QED BY <2>9 DEF r
<1> QED BY <1>5, <1>6

(* A tree to take: its copies are not used up, and its parents are there.    *)
TakenOK(s, counts, r) ==
    r.found => /\ Moved(s, r.s) /\ r.tree \in Trees /\ r.parents \in Seq(Places(s))
               /\ counts[r.tree] < CopyLimit

LEMMA BredOK ==
    ASSUME OperationsGiveTrees, NEW s, Sane(s), s.population # <<>>, NEW pool, PoolOK(s, pool),
           NEW lane \in Range(Lanes) \cup {"standard"}, NEW counts
    PROVE  TakenOK(s, counts, Bred(s, lane, pool, counts))
<1> DEFINE n == RetryLimit
           Offered(child) ==
               IF counts[child.tree] < CopyLimit
               THEN [found |-> TRUE, s |-> child.s, tree |-> child.tree, parents |-> child.parents]
               ELSE [found |-> FALSE, s |-> child.s]
           base == [s |-> s, found |-> FALSE]
           Step(x) == IF x.found THEN x ELSE Offered(Child(x.s, lane, pool))
           Tries(f, m) == f = [k \in 0 .. m |-> IF k = 0 THEN base ELSE Step(f[k - 1])]
           Can == {m \in 0 .. n : \E f : Tries(f, m)}
<1>1. n \in Nat
  BY VariationAssumption
<1> HIDE DEF n, base, Step
<1>2. 0 \in Can
  <2>1. Tries([k \in {0} |-> base], 0)
    OBVIOUS
  <2>2. \E f : Tries(f, 0)
    BY <2>1
  <2> HIDE DEF Tries
  <2> QED BY <1>1, <2>2
<1>3. ASSUME NEW m \in 1 .. n, m - 1 \in Can PROVE m \in Can
  <2>1. PICK f : Tries(f, m - 1)
    BY <1>3
  <2> DEFINE g == [k \in 0 .. m |-> IF k = m THEN Step(f[m - 1]) ELSE f[k]]
  <2>2. m \in Nat /\ m # 0 /\ m - 1 \in 0 .. m /\ m \in 0 .. m /\ m - 1 # m
    BY <1>1
  <2>3. ASSUME NEW k \in 0 .. m PROVE g[k] = IF k = 0 THEN base ELSE Step(g[k - 1])
    <3>1. CASE k = m
      BY <2>2, <3>1
    <3>2. CASE k # m
      <4>1. k \in 0 .. m - 1 /\ g[k] = f[k]
        BY <2>2, <3>2
      <4>2. k # 0 => g[k - 1] = f[k - 1]
        BY <2>2, <3>2
      <4>3. f[k] = IF k = 0 THEN base ELSE Step(f[k - 1])
        BY <2>1, <4>1
      <4> QED BY <4>1, <4>2, <4>3
    <3> QED BY <3>1, <3>2
  <2>4. g = [k \in 0 .. m |-> g[k]]
    OBVIOUS
  <2> HIDE DEF g
  <2>5. Tries(g, m)
    BY <2>3, <2>4
  <2>6. \E h : Tries(h, m)
    BY <2>5
  <2> HIDE DEF Tries
  <2> QED BY <1>1, <2>6
<1>4. n \in Can
  <2> HIDE DEF Can
  <2>1. 0 .. n \subseteq Can
    BY <1>1, <1>2, <1>3, UpToN
  <2> QED BY <1>1, <2>1
<1> DEFINE tried == CHOOSE f : f = [k \in 0 .. n |-> IF k = 0 THEN base ELSE Step(f[k - 1])]
<1>5. tried = [k \in 0 .. n |-> IF k = 0 THEN base ELSE Step(tried[k - 1])]
  BY <1>4
<1>6. Bred(s, lane, pool, counts) =
         IF tried[n].found THEN tried[n] ELSE Immigrant(tried[n].s, counts)
  BY DEF Bred, n, base, Step
<1> HIDE DEF tried
<1> DEFINE Fine == {m \in 0 .. n : Moved(s, tried[m].s) /\ TakenOK(s, counts, tried[m])}
<1>7. 0 \in Fine
  <2>1. tried[0] = base
    BY <1>1, <1>5
  <2>2. tried[0].s = s /\ ~tried[0].found
    BY <2>1 DEF base
  <2> QED BY <1>1, <2>2, MovedStill DEF TakenOK
<1>8. ASSUME NEW m \in 1 .. n, m - 1 \in Fine PROVE m \in Fine
  <2> DEFINE x == tried[m - 1]
             child == Child(x.s, lane, pool)
             y == tried[m]
  <2>0. tried[m] = Step(tried[m - 1])
    BY <1>1, <1>5
  <2>1. y = IF x.found THEN x ELSE Offered(child)
    BY <2>0 DEF Step
  <2>2. Moved(s, x.s) /\ TakenOK(s, counts, x)
    BY <1>8
  <2> HIDE DEF x, y
  <2>3. Sane(x.s) /\ x.s.population = s.population
    BY <2>2, MovedOn DEF Moved
  <2>4. ChildOK(x.s, child)
    BY <2>3, SameMembers, ChildIsOK
  <2>5. ChildOK(s, child)
    BY <2>2, <2>4, ChildOf
  <2> HIDE DEF child
  <2>6. Moved(s, y.s) /\ TakenOK(s, counts, y)
    <3>1. CASE x.found
      BY <2>1, <2>2, <3>1
    <3>2. CASE ~x.found /\ counts[child.tree] < CopyLimit
      <4>1. /\ y.s = child.s /\ y.tree = child.tree /\ y.parents = child.parents
        BY <2>1, <3>2
      <4> QED BY <2>5, <3>2, <4>1 DEF ChildOK, TakenOK
    <3>3. CASE ~x.found /\ ~(counts[child.tree] < CopyLimit)
      <4>1. y.s = child.s /\ ~y.found
        BY <2>1, <3>3
      <4> QED BY <2>5, <4>1 DEF ChildOK, TakenOK
    <3> QED BY <3>1, <3>2, <3>3
  <2> QED BY <1>1, <2>6 DEF y
<1>9. Moved(s, tried[n].s) /\ TakenOK(s, counts, tried[n])
  <2> HIDE DEF Fine
  <2>1. 0 .. n \subseteq Fine
    BY <1>1, <1>7, <1>8, UpToN
  <2>2. n \in Fine
    BY <1>1, <2>1
  <2> QED BY <2>2 DEF Fine
<1>10. TakenOK(s, counts, Immigrant(tried[n].s, counts))
  <2> DEFINE u == tried[n].s
             r == Immigrant(u, counts)
  <2>1. Moved(s, u) /\ Sane(u)
    BY <1>9, MovedOn
  <2>2. r.found => /\ Moved(u, r.s) /\ r.tree \in Trees /\ counts[r.tree] < CopyLimit
                   /\ r.parents = <<>>
    BY <2>1, ImmigrantOK
  <2> HIDE DEF u, r
  <2>3. r.found => Moved(s, r.s)
    BY <2>1, <2>2, MovedOn
  <2>4. <<>> \in Seq(Places(s))
    OBVIOUS
  <2>5. TakenOK(s, counts, r)
    BY <2>2, <2>3, <2>4 DEF TakenOK
  <2> QED BY <2>5 DEF r, u
<1> QED BY <1>6, <1>9, <1>10

-----------------------------------------------------------------------------
(* A generation while it is bred.                                            *)

GFields ==
    {"s", "counts", "offspring", "elite", "stones", "cursor", "scheduled", "guided", "stuck"}

Newborn(s) == [tree : Trees, parents : Seq(Places(s))]
Bodies(offspring) == [k \in DOMAIN offspring |-> offspring[k].tree]

(* How often a tree is among the survivors and the offspring.                *)
Taken_(s, g, t) ==
    Copies(TreesAt(s, g.elite), t) + Copies(TreesAt(s, g.stones), t)
        + Copies(Bodies(g.offspring), t)

BreedingOK(s, g) ==
    /\ g = [f \in GFields |-> g[f]] /\ Moved(s, g.s)
    /\ g.offspring \in Seq(Newborn(s))
    /\ g.elite \in Seq(Places(s)) /\ g.stones \in Seq(Places(s))
    /\ g.cursor \in Nat
    /\ g.counts = [t \in Trees |-> g.counts[t]]
    /\ \A t \in Trees : g.counts[t] = Taken_(s, g, t) /\ g.counts[t] <= CopyLimit

LEMMA TreesAtOK ==
    ASSUME NEW s, Sane(s), NEW indices \in Seq(Places(s))
    PROVE  /\ TreesAt(s, indices) \in Seq(Trees) /\ Len(TreesAt(s, indices)) = Len(indices)
           /\ \A k \in 1 .. Len(indices) : TreesAt(s, indices)[k] = TreeAt(s, indices[k])
<1> DEFINE l == TreesAt(s, indices)
<1>1. Len(indices) \in Nat /\ DOMAIN indices = 1 .. Len(indices)
  OBVIOUS
<1>2. l = [k \in 1 .. Len(indices) |-> TreeAt(s, indices[k])]
  BY <1>1 DEF TreesAt
<1>3. \A k \in 1 .. Len(indices) : TreeAt(s, indices[k]) \in Trees
  BY MembersOK
<1> HIDE DEF l
<1>4. l \in Seq(Trees) /\ Len(l) = Len(indices)
  BY <1>1, <1>2, <1>3
<1>5. \A k \in 1 .. Len(indices) : l[k] = TreeAt(s, indices[k])
  BY <1>2
<1> QED BY <1>4, <1>5 DEF l

LEMMA BodiesOK ==
    ASSUME NEW s, NEW offspring \in Seq(Newborn(s))
    PROVE  /\ Bodies(offspring) \in Seq(Trees) /\ Len(Bodies(offspring)) = Len(offspring)
           /\ \A x \in Newborn(s) : Bodies(Append(offspring, x)) = Append(Bodies(offspring), x.tree)
<1> DEFINE l == Bodies(offspring)
           n == Len(offspring)
<1>1. n \in Nat /\ DOMAIN offspring = 1 .. n
  OBVIOUS
<1>2. l = [k \in 1 .. n |-> offspring[k].tree]
  BY <1>1 DEF Bodies
<1>3. \A k \in 1 .. n : offspring[k].tree \in Trees
  <2>1. \A k \in 1 .. n : offspring[k] \in Newborn(s)
    OBVIOUS
  <2> QED BY <2>1 DEF Newborn
<1> HIDE DEF l
<1>4. l \in Seq(Trees) /\ Len(l) = n
  BY <1>1, <1>2, <1>3
<1>5. ASSUME NEW x \in Newborn(s)
      PROVE  Bodies(Append(offspring, x)) = Append(l, x.tree)
  <2> DEFINE a == Append(offspring, x)
             b == Append(l, x.tree)
  <2>1. /\ DOMAIN a = 1 .. n + 1 /\ a[n + 1] = x /\ \A k \in 1 .. n : a[k] = offspring[k]
    <3>1. IsList(offspring)
      BY SeqIsList
    <3> QED BY <3>1, Appended
  <2>2. /\ IsList(b) /\ Len(b) = n + 1 /\ b[n + 1] = x.tree /\ \A k \in 1 .. n : b[k] = l[k]
    <3>1. IsList(l)
      BY <1>4, SeqIsList
    <3> QED BY <1>4, <3>1, Appended
  <2>3. Bodies(a) = [k \in 1 .. n + 1 |-> a[k].tree]
    BY <2>1 DEF Bodies
  <2>4. b = [k \in 1 .. n + 1 |-> b[k]]
    BY <2>2, ListFacts
  <2> HIDE DEF a, b
  <2>5. \A k \in 1 .. n + 1 : a[k].tree = b[k]
    <3>1. ASSUME NEW k \in 1 .. n + 1 PROVE a[k].tree = b[k]
      <4>1. CASE k = n + 1
        BY <2>1, <2>2, <4>1
      <4>2. CASE k # n + 1
        <5>1. k \in 1 .. n
          BY <1>1, <4>2
        <5> QED BY <1>2, <2>1, <2>2, <5>1
      <4> QED BY <4>1, <4>2
    <3> QED BY <3>1
  <2>6. Bodies(a) = b
    BY <2>3, <2>4, <2>5
  <2> QED BY <2>6 DEF a, b
<1> QED BY <1>4, <1>5 DEF l

LEMMA JoinsOK ==
    ASSUME NEW s, Sane(s), NEW g, BreedingOK(s, g), NEW child, Moved(s, child.s),
           child.tree \in Trees, child.parents \in Seq(Places(s)),
           g.counts[child.tree] < CopyLimit
    PROVE  /\ BreedingOK(s, Joins(g, child))
           /\ Len(Joins(g, child).offspring) = Len(g.offspring) + 1
           /\ Joins(g, child).elite = g.elite /\ Joins(g, child).stones = g.stones
           /\ Joins(g, child).stuck = g.stuck
<1> DEFINE tree == child.tree
           x == [tree |-> child.tree, parents |-> child.parents]
           more == Append(g.offspring, x)
           counts == [g.counts EXCEPT ![tree] = g.counts[tree] + 1]
           r == Joins(g, child)
<1>1. /\ r = [f \in GFields |-> r[f]] /\ r.s = child.s /\ r.offspring = more
      /\ r.counts = counts /\ r.elite = g.elite /\ r.stones = g.stones
      /\ r.cursor = g.cursor /\ r.stuck = g.stuck
  <2>1. r = [g EXCEPT !.s = child.s, !.counts = counts, !.offspring = more]
    BY DEF Joins, Adds
  <2>2. g = [f \in GFields |-> g[f]]
    BY DEF BreedingOK
  <2> HIDE DEF r, counts, more
  <2> QED BY <2>1, <2>2 DEF GFields
<1>2. x \in Newborn(s)
  BY DEF Newborn
<1> HIDE DEF r, x
<1>3. more \in Seq(Newborn(s)) /\ Len(more) = Len(g.offspring) + 1
  BY <1>2 DEF BreedingOK
<1>4. Bodies(more) = Append(Bodies(g.offspring), tree)
  BY <1>2, BodiesOK DEF BreedingOK, x
<1> HIDE DEF more
<1>5. IsList(Bodies(g.offspring))
  BY BodiesOK, SeqIsList DEF BreedingOK
<1>6. ASSUME NEW t \in Trees
      PROVE  counts[t] = Taken_(s, r, t) /\ counts[t] <= CopyLimit
  <2> DEFINE a == Copies(TreesAt(s, g.elite), t)
             b == Copies(TreesAt(s, g.stones), t)
             c == Copies(Bodies(g.offspring), t)
  <2>1. a \in Nat /\ b \in Nat /\ c \in Nat
    <3>1. IsList(TreesAt(s, g.elite)) /\ IsList(TreesAt(s, g.stones))
      BY TreesAtOK, SeqIsList DEF BreedingOK
    <3>2. \A l, u : IsList(l) => Copies(l, u) \in Nat
      <4>1. \A l, u : IsList(l) => Len(l) \in Nat /\ Copies(l, u) \in 0 .. Len(l)
        BY ListFacts, CopiesType
      <4> QED BY <4>1
    <3> QED BY <1>5, <3>1, <3>2
  <2>2. Copies(Bodies(more), t) = c + (IF tree = t THEN 1 ELSE 0)
    BY <1>4, <1>5, CopiesAppended
  <2>3. g.counts[t] = a + b + c /\ g.counts[t] <= CopyLimit
    BY DEF BreedingOK, Taken_
  <2>4. Taken_(s, r, t) = a + b + Copies(Bodies(more), t)
    BY <1>1 DEF Taken_
  <2>5. counts[t] = IF tree = t THEN g.counts[t] + 1 ELSE g.counts[t]
    BY DEF BreedingOK
  <2>6. CopyLimit \in Nat
    BY VariationAssumption
  <2> HIDE DEF a, b, c, counts
  <2>7. CASE tree = t
    <3>1. counts[t] = Taken_(s, r, t)
      BY <2>1, <2>2, <2>3, <2>4, <2>5, <2>7
    <3>2. g.counts[t] < CopyLimit
      BY <2>7
    <3>3. counts[t] <= CopyLimit
      BY <2>1, <2>3, <2>5, <2>6, <2>7, <3>2
    <3> QED BY <3>1, <3>3
  <2>8. CASE tree # t
    BY <2>1, <2>2, <2>3, <2>4, <2>5, <2>8
  <2> QED BY <2>7, <2>8
<1>7. counts = [t \in Trees |-> counts[t]]
  BY DEF BreedingOK
<1> HIDE DEF counts
<1>8. BreedingOK(s, r)
  BY <1>1, <1>3, <1>6, <1>7 DEF BreedingOK
<1> QED BY <1>1, <1>3, <1>8 DEF r

LEMMA NextLaneOK ==
    ASSUME NEW scheduled, NEW targets, NEW cursor \in Nat
    PROVE  /\ NextLane(scheduled, targets, cursor).lane \in Range(Lanes) \cup {"standard"}
           /\ NextLane(scheduled, targets, cursor).cursor \in Nat
<1> DEFINE At(k) == Lanes[1 + ((cursor + k) % Len(Lanes))]
           short == {k \in 0 .. Len(Lanes) - 1 : scheduled[At(k)] < targets[At(k)]}
           r == NextLane(scheduled, targets, cursor)
<1>1. r = IF short = {} THEN [lane |-> "standard", cursor |-> cursor + 1]
          ELSE [lane |-> At(Min(short)), cursor |-> cursor + Min(short) + 1]
  BY DEF NextLane
<1>2. Len(Lanes) = 4 /\ DOMAIN Lanes = 1 .. 4
  BY DEF Lanes
<1>3. ASSUME NEW k \in Nat PROVE At(k) \in Range(Lanes)
  <2>1. cursor + k \in Int
    OBVIOUS
  <2>2. (cursor + k) % 4 \in 0 .. 3
    BY <2>1
  <2>3. 1 + ((cursor + k) % Len(Lanes)) \in DOMAIN Lanes
    BY <1>2, <2>2
  <2> QED BY <2>3 DEF Range
<1>4. short \in SUBSET Nat
  BY <1>2
<1>5. short # {} => Min(short) \in Nat
  <2> HIDE DEF short
  <2> QED BY <1>4, MinIsLeast
<1> HIDE DEF At, short, r
<1>6. r.lane \in Range(Lanes) \cup {"standard"} /\ r.cursor \in Nat
  BY <1>1, <1>3, <1>5
<1> QED BY <1>6 DEF r

LEMMA FillsOK ==
    ASSUME NEW s, Sane(s), NEW g, BreedingOK(s, g), NEW next, next.cursor \in Nat,
           NEW child, TakenOK(s, g.counts, child), NEW guides, NEW stone
    PROVE  /\ BreedingOK(s, Fills(g, next, child, guides, stone))
           /\ Fills(g, next, child, guides, stone).elite = g.elite
           /\ Fills(g, next, child, guides, stone).stones = g.stones
           /\ \/ Fills(g, next, child, guides, stone).stuck
              \/ Len(Fills(g, next, child, guides, stone).offspring) = Len(g.offspring) + 1
<1> DEFINE r == Fills(g, next, child, guides, stone)
           own == guides /\ child.parents # <<>> /\ Head(child.parents) = stone
           j == Joins(g, child)
<1>1. CASE ~child.found
  <2>1. r = [g EXCEPT !.stuck = TRUE]
    BY <1>1 DEF Fills
  <2>2. g = [f \in GFields |-> g[f]]
    BY DEF BreedingOK
  <2> HIDE DEF r
  <2>3. /\ r = [f \in GFields |-> r[f]] /\ r.s = g.s /\ r.offspring = g.offspring
        /\ r.counts = g.counts /\ r.elite = g.elite /\ r.stones = g.stones
        /\ r.cursor = g.cursor /\ r.stuck
    BY <2>1, <2>2 DEF GFields
  <2>4. BreedingOK(s, r)
    BY <2>3 DEF BreedingOK, Taken_
  <2> QED BY <2>3, <2>4 DEF r
<1>2. CASE child.found
  <2>1. /\ BreedingOK(s, j) /\ Len(j.offspring) = Len(g.offspring) + 1
        /\ j.elite = g.elite /\ j.stones = g.stones
    BY <1>2, JoinsOK DEF TakenOK
  <2> DEFINE scheduled == Adds(j.scheduled, next.lane)
             guided == j.guided + (IF own THEN 1 ELSE 0)
  <2>2. r = [j EXCEPT !.cursor = next.cursor, !.scheduled = scheduled, !.guided = guided]
    BY <1>2 DEF Fills
  <2>3. j = [f \in GFields |-> j[f]]
    BY <2>1 DEF BreedingOK
  <2> HIDE DEF r, j, scheduled, guided
  <2>4. /\ r = [f \in GFields |-> r[f]] /\ r.s = j.s /\ r.offspring = j.offspring
        /\ r.counts = j.counts /\ r.elite = j.elite /\ r.stones = j.stones
        /\ r.cursor = next.cursor
    BY <2>2, <2>3 DEF GFields
  <2>5. BreedingOK(s, r)
    BY <2>1, <2>4 DEF BreedingOK, Taken_
  <2> QED BY <2>1, <2>4, <2>5 DEF r
<1> QED BY <1>1, <1>2

LEMMA FillSlotOK ==
    ASSUME OperationsGiveTrees, NEW s, Sane(s), s.population # <<>>, NEW g, BreedingOK(s, g),
           NEW targets, NEW guided
    PROVE  /\ BreedingOK(s, FillSlot(g, targets, guided))
           /\ FillSlot(g, targets, guided).elite = g.elite
           /\ FillSlot(g, targets, guided).stones = g.stones
           /\ \/ FillSlot(g, targets, guided).stuck
              \/ Len(FillSlot(g, targets, guided).offspring) = Len(g.offspring) + 1
<1> DEFINE next == NextLane(g.scheduled, targets, g.cursor)
           guides == g.guided < guided /\ g.stones # <<>>
           stone == g.stones[1 + (g.s.guide % Len(g.stones))]
           pool == IF guides THEN <<stone>> ELSE Everyone(g.s)
           start == IF guides THEN [g.s EXCEPT !.guide = g.s.guide + 1] ELSE g.s
           child == Bred(start, next.lane, pool, g.counts)
<1>1. FillSlot(g, targets, guided) = Fills(g, next, child, guides, stone)
  BY DEF FillSlot
<1>2. next.lane \in Range(Lanes) \cup {"standard"} /\ next.cursor \in Nat
  BY NextLaneOK DEF BreedingOK
<1> HIDE DEF next
<1>3. Moved(s, g.s) /\ Sane(g.s) /\ g.s.population = s.population
  BY MovedOn DEF BreedingOK, Moved
<1>4. Moved(g.s, start)
  <2>1. g.s.guide + 1 \in Nat
    BY <1>3 DEF Sane, Placed
  <2>2. Moved(g.s, [g.s EXCEPT !.guide = g.s.guide + 1])
    BY <1>3, <2>1, MovedGuide
  <2>3. Moved(g.s, g.s)
    BY <1>3, MovedStill
  <2> QED BY <2>2, <2>3
<1>5. PoolOK(s, pool)
  <2>1. PoolOK(s, Everyone(g.s))
    BY <1>3, EveryoneOK, SameMembers
  <2>2. guides => PoolOK(s, <<stone>>)
    <3>1. SUFFICES ASSUME g.stones # <<>> PROVE PoolOK(s, <<stone>>)
      OBVIOUS
    <3>2. g.stones \in Seq(Places(s)) /\ g.s.guide \in Int
      BY <1>3 DEF BreedingOK, Sane, Placed
    <3>3. Len(g.stones) \in Nat /\ Len(g.stones) # 0
      BY <3>1, <3>2
    <3>4. g.s.guide % Len(g.stones) \in 0 .. Len(g.stones) - 1
      BY <3>2, <3>3, Remainder
    <3>5. stone \in Places(s)
      BY <3>2, <3>3, <3>4
    <3> HIDE DEF stone
    <3> QED BY <3>5 DEF PoolOK
  <2> HIDE DEF guides, stone
  <2> QED BY <2>1, <2>2
<1> HIDE DEF start, pool, guides, stone
<1>6. Moved(s, start)
  BY <1>3, <1>4, MovedOn
<1>7. Sane(start) /\ start.population = s.population
  BY <1>6, MovedOn DEF Moved
<1>8. PoolOK(start, pool) /\ Places(start) = Places(s)
  BY <1>5, <1>7, SameMembers
<1>9. TakenOK(start, g.counts, child)
  BY <1>2, <1>7, <1>8, BredOK
<1> HIDE DEF child
<1>10. TakenOK(s, g.counts, child)
  <2>1. child.found => Moved(s, child.s)
    BY <1>6, <1>9, MovedOn DEF TakenOK
  <2> QED BY <1>8, <1>9, <2>1 DEF TakenOK
<1> QED BY <1>1, <1>2, <1>10, FillsOK

(* A generation bred on from g has its survivors.                            *)
Further(s, g, x) == BreedingOK(s, x) /\ x.elite = g.elite /\ x.stones = g.stones

LEMMA AllSlotsOK ==
    ASSUME OperationsGiveTrees, NEW s, Sane(s), s.population # <<>>, NEW g, BreedingOK(s, g),
           NEW boosted,
           PopulationSize - (Len(g.elite) + Len(g.stones) + Len(g.offspring)) \in Nat
    PROVE  /\ Further(s, g, AllSlots(g, boosted))
           /\ \/ AllSlots(g, boosted).stuck
              \/ Len(g.elite) + Len(g.stones) + Len(AllSlots(g, boosted).offspring)
                    = PopulationSize
<1> DEFINE n == PopulationSize - (Len(g.elite) + Len(g.stones) + Len(g.offspring))
           targets == LaneTargets(n, boosted)
           guided == Least(n, Rounded(n, boosted.guided))
           base == g
           Step(x) == IF x.stuck THEN x ELSE FillSlot(x, targets, guided)
<1>1. n \in Nat
  OBVIOUS
<1>0. Len(g.offspring) \in Nat /\ Len(g.elite) \in Nat /\ Len(g.stones) \in Nat
  BY DEF BreedingOK
<1> HIDE DEF n, base, Step
<1> DEFINE Slots(f, m) == f = [k \in 0 .. m |-> IF k = 0 THEN base ELSE Step(f[k - 1])]
           Can == {m \in 0 .. n : \E f : Slots(f, m)}
<1>2. 0 \in Can
  <2>1. Slots([k \in {0} |-> base], 0)
    OBVIOUS
  <2>2. \E f : Slots(f, 0)
    BY <2>1
  <2> HIDE DEF Slots
  <2> QED BY <1>1, <2>2
<1>3. ASSUME NEW m \in 1 .. n, m - 1 \in Can PROVE m \in Can
  <2>1. PICK f : Slots(f, m - 1)
    BY <1>3
  <2> DEFINE h == [k \in 0 .. m |-> IF k = m THEN Step(f[m - 1]) ELSE f[k]]
  <2>2. m \in Nat /\ m # 0 /\ m - 1 \in 0 .. m /\ m \in 0 .. m /\ m - 1 # m
    BY <1>1
  <2>3. ASSUME NEW k \in 0 .. m PROVE h[k] = IF k = 0 THEN base ELSE Step(h[k - 1])
    <3>1. CASE k = m
      BY <2>2, <3>1
    <3>2. CASE k # m
      <4>1. k \in 0 .. m - 1 /\ h[k] = f[k]
        BY <2>2, <3>2
      <4>2. k # 0 => h[k - 1] = f[k - 1]
        BY <2>2, <3>2
      <4>3. f[k] = IF k = 0 THEN base ELSE Step(f[k - 1])
        BY <2>1, <4>1
      <4> QED BY <4>1, <4>2, <4>3
    <3> QED BY <3>1, <3>2
  <2>4. h = [k \in 0 .. m |-> h[k]]
    OBVIOUS
  <2> HIDE DEF h
  <2>5. Slots(h, m)
    BY <2>3, <2>4
  <2>6. \E f_ : Slots(f_, m)
    BY <2>5
  <2> HIDE DEF Slots
  <2> QED BY <1>1, <2>6
<1>4. n \in Can
  <2> HIDE DEF Can
  <2>1. 0 .. n \subseteq Can
    BY <1>1, <1>2, <1>3, UpToN
  <2> QED BY <1>1, <2>1
<1> DEFINE filled == CHOOSE f : f = [k \in 0 .. n |-> IF k = 0 THEN base ELSE Step(f[k - 1])]
<1>5. filled = [k \in 0 .. n |-> IF k = 0 THEN base ELSE Step(filled[k - 1])]
  BY <1>4
<1>6. AllSlots(g, boosted) = filled[n]
  BY DEF AllSlots, n, base, Step
<1> HIDE DEF filled
<1> DEFINE Fine == {m \in 0 .. n : /\ Further(s, g, filled[m])
                                   /\ \/ filled[m].stuck
                                      \/ Len(filled[m].offspring) = Len(g.offspring) + m}
<1>7. 0 \in Fine
  <2>1. filled[0] = g
    BY <1>1, <1>5 DEF base
  <2>2. Further(s, g, g)
    BY DEF Further
  <2> QED BY <1>0, <1>1, <2>1, <2>2
<1>8. ASSUME NEW m \in 1 .. n, m - 1 \in Fine PROVE m \in Fine
  <2> DEFINE x == filled[m - 1]
             y == filled[m]
  <2>1. filled[m] = Step(filled[m - 1])
    BY <1>1, <1>5
  <2>2. y = IF x.stuck THEN x ELSE FillSlot(x, targets, guided)
    BY <2>1 DEF Step
  <2>3. Further(s, g, x) /\ (x.stuck \/ Len(x.offspring) = Len(g.offspring) + (m - 1))
    BY <1>8
  <2> HIDE DEF x, y, targets, guided
  <2>4. CASE x.stuck
    <3>1. Further(s, g, y) /\ y.stuck
      BY <2>2, <2>3, <2>4
    <3> QED BY <1>1, <3>1 DEF y
  <2>5. CASE ~x.stuck
    <3>1. /\ BreedingOK(s, y) /\ y.elite = x.elite /\ y.stones = x.stones
          /\ y.stuck \/ Len(y.offspring) = Len(x.offspring) + 1
      BY <2>2, <2>3, <2>5, FillSlotOK DEF Further
    <3>2. Further(s, g, y)
      BY <2>3, <3>1 DEF Further
    <3>3. y.stuck \/ Len(y.offspring) = Len(g.offspring) + m
      BY <1>0, <1>1, <2>3, <2>5, <3>1
    <3> QED BY <1>1, <3>2, <3>3 DEF y
  <2> QED BY <2>4, <2>5
<1>9. Further(s, g, filled[n]) /\ (filled[n].stuck \/ Len(filled[n].offspring) = Len(g.offspring) + n)
  <2> HIDE DEF Fine
  <2>1. 0 .. n \subseteq Fine
    BY <1>1, <1>7, <1>8, UpToN
  <2>2. n \in Fine
    BY <1>1, <2>1
  <2> QED BY <2>2 DEF Fine
<1>10. filled[n].stuck \/ Len(g.elite) + Len(g.stones) + Len(filled[n].offspring) = PopulationSize
  <2>1. PopulationSize \in Nat
    BY VariationAssumption
  <2>2. n = PopulationSize - (Len(g.elite) + Len(g.stones) + Len(g.offspring))
    BY DEF n
  <2> DEFINE all == Len(filled[n].offspring)
  <2>3. filled[n].stuck \/ all = Len(g.offspring) + n
    BY <1>9
  <2> HIDE DEF all
  <2> DEFINE a == Len(g.elite)
             b == Len(g.stones)
             c == Len(g.offspring)
  <2>4. a \in Nat /\ b \in Nat /\ c \in Nat /\ n = PopulationSize - (a + b + c)
    BY <1>0, <2>2
  <2>5. filled[n].stuck \/ all = c + n
    BY <2>3
  <2> HIDE DEF a, b, c, n
  <2>6. all = c + n => a + b + all = PopulationSize
    BY <1>1, <2>1, <2>4
  <2>7. filled[n].stuck \/ a + b + all = PopulationSize
    BY <2>5, <2>6
  <2> QED BY <2>7 DEF all, a, b
<1> QED BY <1>6, <1>9, <1>10

-----------------------------------------------------------------------------
(* Survivors.                                                                *)

(* No more of a kind are picked than there are at the places.                *)
LEMMA PickedKinds ==
    ASSUME NEW X, NEW list \in Seq(X), NEW K \in SUBSET (1 .. Len(list)), NEW Y
    PROVE  Cardinality({n \in DOMAIN Picked(list, K) : Picked(list, K)[n] \in Y})
              <= Cardinality({k \in K : list[k] \in Y})
<1> DEFINE l == Picked(list, K)
           N == Cardinality(K)
           P == {k \in K : list[k] \in Y}
           Q == {n \in DOMAIN l : l[n] \in Y}
<1>1. IsList(list)
  BY SeqIsList
<1>2. PICK at : /\ at \in [1 .. N -> K] /\ N \in 0 .. Len(list) /\ IsFiniteSet(K)
                /\ \A n, m \in 1 .. N : n < m => at[n] < at[m]
                /\ IsList(l) /\ Len(l) = N /\ \A n \in 1 .. N : l[n] = list[at[n]]
  BY <1>1, PickedFacts
<1>3. DOMAIN l = 1 .. N /\ N \in Nat /\ Len(list) \in Nat
  BY <1>2, ListFacts
<1> HIDE DEF l, N
<1>4. P \in SUBSET K /\ IsFiniteSet(P)
  <2>1. P \in SUBSET K
    OBVIOUS
  <2> HIDE DEF P
  <2> QED BY <1>2, <2>1, FS_Subset
<1>5. Q \in SUBSET (1 .. N) /\ \A n \in Q : n \in Nat /\ at[n] \in P
  BY <1>2, <1>3
<1> DEFINE f == [n \in Q |-> at[n]]
           I == {at[n] : n \in Q}
<1>6. \A n, m \in Q : f[n] = f[m] => n = m
  <2>1. SUFFICES ASSUME NEW n \in Q, NEW m \in Q, at[n] = at[m] PROVE n = m
    OBVIOUS
  <2>2. n \in 1 .. N /\ m \in 1 .. N /\ n \in Nat /\ m \in Nat
    BY <1>3, <1>5
  <2>4. at[n] \in K /\ at[m] \in K
    BY <1>2, <2>2
  <2>5. at[n] \in Nat /\ at[m] \in Nat
    <3>1. \A k \in K : k \in Nat
      BY <1>3
    <3> QED BY <2>4, <3>1
  <2>3. ~(n < m) /\ ~(m < n)
    BY <1>2, <2>1, <2>2, <2>5
  <2> QED BY <2>2, <2>3
<1>7. I \in SUBSET P
  BY <1>5
<1>8. f \in [Q -> I] /\ \A y \in I : \E n \in Q : f[n] = y
  OBVIOUS
<1> HIDE DEF P, Q, I, f
<1>9. f \in Bijection(Q, I)
  BY <1>6, <1>8, Fun_IsBij
<1>10. IsFiniteSet(I) /\ Cardinality(I) <= Cardinality(P)
  BY <1>4, <1>7, FS_Subset
<1>11. ExistsBijection(Q, I)
  BY <1>9 DEF ExistsBijection
<1>12. IsFiniteSet(Q)
  <2>1. IsFiniteSet(1 .. N)
    BY <1>3, FS_Interval
  <2> QED BY <1>5, <2>1, FS_Subset
<1>13. Cardinality(Q) = Cardinality(I)
  BY <1>10, <1>11, <1>12, FS_Bijection
<1>14. Cardinality(Q) <= Cardinality(P)
  BY <1>10, <1>13
<1> QED BY <1>14 DEF Q, P, l

(* The places under the limit do not take a tree beyond it.                  *)
LEMMA UnderLimitOK ==
    ASSUME NEW trees \in Seq(Trees), NEW others, IsList(others), NEW t,
           Copies(others, t) <= CopyLimit
    PROVE  /\ UnderLimit(trees, others) \in SUBSET (1 .. Len(trees))
           /\ Cardinality({k \in UnderLimit(trees, others) : trees[k] = t}) \in Nat
           /\ Copies(others, t) + Cardinality({k \in UnderLimit(trees, others) : trees[k] = t})
                 <= CopyLimit
<1> DEFINE K == UnderLimit(trees, others)
           P == {k \in K : trees[k] = t}
           a == Copies(others, t)
           n == Len(trees)
<1>1. n \in Nat /\ DOMAIN trees = 1 .. n
  OBVIOUS
<1>2. K \in SUBSET (1 .. n)
  BY <1>1 DEF UnderLimit
<1>3. \A k \in P : a + Copies(SubSeq(trees, 1, k - 1), t) < CopyLimit
  BY DEF UnderLimit
<1>4. a \in Nat /\ CopyLimit \in Nat
  <2>1. Len(others) \in Nat /\ a \in 0 .. Len(others)
    BY ListFacts, CopiesType
  <2> QED BY <2>1, VariationAssumption
<1>5. P \in SUBSET (1 .. n) /\ \A k \in P : trees[k] = t
  BY <1>2
<1> HIDE DEF K, a
<1>6. IsFiniteSet(P) /\ Cardinality(P) \in Nat
  <2>1. IsFiniteSet(1 .. n)
    BY <1>1, FS_Interval
  <2> HIDE DEF P
  <2>2. IsFiniteSet(P)
    BY <1>5, <2>1, FS_Subset
  <2> QED BY <2>2, FS_CardinalityType
<1> HIDE DEF P
<1>7. CASE P = {}
  <2>1. Cardinality(P) = 0
    BY <1>7, FS_EmptySet
  <2>2. a + Cardinality(P) <= CopyLimit
    BY <1>4, <2>1 DEF a
  <2> QED BY <1>2, <1>6, <2>2 DEF K, P, a
<1>8. CASE P # {}
  <2> DEFINE k == Max(P)
             before == SubSeq(trees, 1, k - 1)
             B == {j \in DOMAIN before : before[j] = t}
  <2>1. k \in P /\ \A j \in P : j <= k
    <3>1. P \in SUBSET Nat /\ \A j \in P : j <= n
      BY <1>1, <1>5
    <3> QED BY <1>1, <1>8, <3>1, MaxIsGreatest
  <2> HIDE DEF k
  <2>2. k \in 1 .. n
    BY <1>5, <2>1
  <2>3. before \in Seq(Trees) /\ DOMAIN before = 1 .. k - 1
        /\ \A j \in 1 .. k - 1 : before[j] = trees[j]
    BY <1>1, <2>2
  <2> HIDE DEF before
  <2>4. P \ {k} \in SUBSET B
    <3>1. SUFFICES ASSUME NEW j \in P, j # k PROVE j \in B
      OBVIOUS
    <3>2. j \in 1 .. n /\ j <= k /\ trees[j] = t
      BY <1>5, <2>1
    <3>3. j \in 1 .. k - 1
      BY <1>1, <2>2, <3>1, <3>2
    <3> QED BY <2>3, <3>2, <3>3
  <2>5. IsFiniteSet(B) /\ Cardinality(B) = Copies(before, t) /\ Cardinality(B) \in Nat
    <3>1. IsList(before)
      BY <2>3, SeqIsList
    <3>2. IsFiniteSet(B)
      BY <3>1, CopiesType
    <3>3. Cardinality(B) \in Nat
      BY <3>2, FS_CardinalityType
    <3> QED BY <3>2, <3>3 DEF Copies
  <2>6. a + Cardinality(B) < CopyLimit
    BY <1>3, <2>1, <2>5 DEF before
  <2> HIDE DEF B
  <2>7. Cardinality(P \ {k}) <= Cardinality(B)
    BY <2>4, <2>5, FS_Subset
  <2>8. Cardinality(P \ {k}) = Cardinality(P) - 1
    BY <1>6, <2>1, FS_RemoveElement
  <2>9. a + Cardinality(P) <= CopyLimit
    BY <1>4, <1>6, <2>5, <2>6, <2>7, <2>8
  <2> QED BY <1>2, <1>6, <2>9 DEF K, P, a
<1> QED BY <1>7, <1>8

LEMMA SurvivorsOK ==
    ASSUME NEW s, Sane(s), NEW indices \in Seq(Places(s)), NEW others, IsList(others),
           \A t \in Trees : Copies(others, t) <= CopyLimit
    PROVE  /\ Survivors(s, indices, others) \in Seq(Places(s))
           /\ Len(Survivors(s, indices, others)) <= Len(indices)
           /\ \A t \in Trees :
                 Copies(others, t) + Copies(TreesAt(s, Survivors(s, indices, others)), t)
                    <= CopyLimit
<1> DEFINE trees == TreesAt(s, indices)
           K == UnderLimit(trees, others)
           l == Survivors(s, indices, others)
<1>1. /\ trees \in Seq(Trees) /\ Len(trees) = Len(indices)
      /\ \A k \in 1 .. Len(indices) : trees[k] = TreeAt(s, indices[k])
  BY TreesAtOK
<1>2. l = Picked(indices, K)
  BY DEF Survivors
<1> HIDE DEF trees
<1>3. K \in SUBSET (1 .. Len(indices))
  BY <1>1 DEF UnderLimit
<1> HIDE DEF K
<1>4. l \in Seq(Places(s)) /\ Len(l) = Cardinality(K) /\ Cardinality(K) \in 0 .. Len(indices)
  BY <1>2, <1>3, PickedOK
<1>5. ASSUME NEW t \in Trees PROVE Copies(others, t) + Copies(TreesAt(s, l), t) <= CopyLimit
  <2> DEFINE Y == {i \in Places(s) : TreeAt(s, i) = t}
             P == {k \in K : trees[k] = t}
             Q == {n \in DOMAIN l : l[n] \in Y}
             c == Copies(TreesAt(s, l), t)
  <2>1. c = Cardinality(Q)
    <3>1. /\ Len(TreesAt(s, l)) = Len(l)
          /\ \A k \in 1 .. Len(l) : TreesAt(s, l)[k] = TreeAt(s, l[k])
      BY <1>4, TreesAtOK
    <3>2. DOMAIN TreesAt(s, l) = DOMAIN l /\ DOMAIN l = 1 .. Len(l)
      BY <1>4 DEF TreesAt
    <3>3. \A k \in DOMAIN l : l[k] \in Places(s)
      BY <1>4
    <3>4. {k \in DOMAIN TreesAt(s, l) : TreesAt(s, l)[k] = t} = Q
      BY <3>1, <3>2, <3>3
    <3> QED BY <3>4 DEF Copies
  <2>2. {k \in K : indices[k] \in Y} = P
    <3>1. \A k \in K : indices[k] \in Places(s) /\ trees[k] = TreeAt(s, indices[k])
      BY <1>1, <1>3
    <3> QED BY <3>1
  <2>3. Cardinality(Q) <= Cardinality(P)
    <3> HIDE DEF Y, l
    <3>1. Cardinality({n \in DOMAIN Picked(indices, K) : Picked(indices, K)[n] \in Y})
             <= Cardinality({k \in K : indices[k] \in Y})
      BY <1>3, PickedKinds
    <3> QED BY <1>2, <2>2, <3>1
  <2>4. Cardinality(P) \in Nat /\ Copies(others, t) + Cardinality(P) <= CopyLimit
    <3> USE DEF K
    <3>1. Copies(others, t) <= CopyLimit
      OBVIOUS
    <3> QED BY <1>1, <3>1, UnderLimitOK
  <2>5. Copies(others, t) \in Nat /\ c \in Nat /\ CopyLimit \in Nat
    <3>1. Len(others) \in Nat /\ Copies(others, t) \in 0 .. Len(others)
      BY ListFacts, CopiesType
    <3>2. IsList(TreesAt(s, l))
      BY <1>4, TreesAtOK, SeqIsList
    <3>3. Len(TreesAt(s, l)) \in Nat /\ c \in 0 .. Len(TreesAt(s, l))
      BY <3>2, ListFacts, CopiesType
    <3> QED BY <3>1, <3>3, VariationAssumption
  <2> HIDE DEF c, P, Q
  <2>6. Copies(others, t) + c <= CopyLimit
    BY <2>1, <2>3, <2>4, <2>5
  <2> QED BY <2>6 DEF c
<1> HIDE DEF l
<1>6. Len(l) <= Len(indices)
  BY <1>4
<1> QED BY <1>4, <1>5, <1>6 DEF l

LEMMA StonesOK ==
    ASSUME NEW s, Sane(s), NEW excluded, NEW target \in Nat
    PROVE  Stones(s, excluded, target) \in Seq(Places(s))
           /\ Len(Stones(s, excluded, target)) <= target
<1> DEFINE young == {i \in DOMAIN s.population \ excluded :
                       s.generation - s.population[i].birth < Profile.ttl}
           Kin(i) == {j \in young : Niche[TreeAt(s, j)] = Niche[TreeAt(s, i)]}
           leading == {i \in young : \A j \in Kin(i) \ {i} : Ahead(s, i, j)}
           Others(i) == {j \in Kin(i) : TreeAt(s, j) # TreeAt(s, i)}
           Newer(i, j) == \/ s.population[i].birth > s.population[j].birth
                          \/ s.population[i].birth = s.population[j].birth /\ i <= j
           Second(i) == CHOOSE j \in Others(i) : \A k \in Others(i) : Newer(j, k)
           led == {i \in leading : Others(i) # {} /\ Profile.cap > 1}
           followed == Ranked(s, led)
           seconds == [k \in DOMAIN followed |-> Second(followed[k])]
           all == Ranked(s, leading) \o seconds
<1>1. Stones(s, excluded, target) = SubSeq(all, 1, Least(target, Len(all)))
  BY DEF Stones
<1>2. young \in SUBSET Places(s)
  BY MembersOK
<1> HIDE DEF young
<1>3. leading \in SUBSET Places(s) /\ led \in SUBSET Places(s)
      /\ \A i \in led : Others(i) # {} /\ Others(i) \in SUBSET Places(s)
  BY <1>2
<1>4. ASSUME NEW i \in led PROVE Second(i) \in Places(s)
  <2> DEFINE O == Others(i)
             F == [j \in Places(s) |-> s.population[j].birth]
  <2>1. O # {} /\ O \in SUBSET Places(s)
    BY <1>3
  <2>2. \A j \in Places(s) : F[j] \in Int /\ F[j] = s.population[j].birth
    BY MembersOK
  <2>3. Len(s.population) \in Nat
    BY MembersOK
  <2>4. \E j \in O : \A k \in O : Newer(j, k)
    <3> HIDE DEF O, F
    <3>1. PICK j \in O : \A k \in O : F[j] > F[k] \/ (F[j] = F[k] /\ j <= k)
      BY <2>1, <2>2, <2>3, FirstGreatest DEF Places
    <3>2. \A k \in O : Newer(j, k)
      BY <2>1, <2>2, <3>1
    <3> QED BY <3>2
  <2>5. Second(i) = CHOOSE j \in O : \A k \in O : Newer(j, k)
    OBVIOUS
  <2> HIDE DEF O, Newer, Second
  <2>6. Second(i) \in O
    BY <2>4, <2>5
  <2> QED BY <2>1, <2>6
<1> HIDE DEF Second, leading, led
<1>5. Ranked(s, leading) \in Seq(Places(s))
  <2> DEFINE l == Ranked(s, leading)
  <2>1. IsList(l) /\ \A k \in DOMAIN l : l[k] \in leading
    BY <1>3, RankedFacts
  <2> HIDE DEF l
  <2>2. \A k \in 1 .. Len(l) : l[k] \in Places(s)
    BY <1>3, <2>1, ListFacts
  <2>3. l \in Seq(Places(s))
    BY <2>1, <2>2, ListIsSeq
  <2> QED BY <2>3 DEF l
<1>6. seconds \in Seq(Places(s))
  <2>1. IsList(followed) /\ \A k \in DOMAIN followed : followed[k] \in led
    BY <1>3, RankedFacts
  <2> HIDE DEF followed
  <2>2. Len(followed) \in Nat /\ DOMAIN followed = 1 .. Len(followed)
    BY <2>1, ListFacts
  <2>3. \A k \in 1 .. Len(followed) : Second(followed[k]) \in Places(s)
    BY <1>4, <2>1, <2>2
  <2> QED BY <2>2, <2>3
<1> HIDE DEF seconds
<1>7. all \in Seq(Places(s))
  BY <1>5, <1>6
<1> HIDE DEF all
<1>8. Len(all) \in Nat
  BY <1>7
<1>9. Least(target, Len(all)) \in 0 .. Len(all) /\ Least(target, Len(all)) <= target
  BY <1>8 DEF Least
<1> QED BY <1>1, <1>7, <1>8, <1>9

LEMMA RoundedOK ==
    ASSUME NEW n \in Nat, NEW percent \in Nat
    PROVE  Rounded(n, percent) \in Nat
<1> DEFINE p == n * percent
<1>1. p \in Nat
  OBVIOUS
<1> HIDE DEF p
<1>2. p \div 100 \in Nat
  BY <1>1
<1>3. Rounded(n, percent) \in {p \div 100, p \div 100 + 1}
  BY DEF Rounded, p
<1> QED BY <1>2, <1>3

LEMMA BoostedOK == \A stale : Boosted(stale).stones \in Nat
<1>1. Profile.stones \in Nat /\ {"name", "stones", "guided", "two_edit"} \subseteq DOMAIN Profile
  BY VariationAssumption
<1> QED BY <1>1 DEF Boosted

(* The published defaults come before what is bred.                          *)
LEMMA WithDefaultsOK ==
    ASSUME NEW s, Sane(s), NEW g, BreedingOK(s, g), ~g.stuck, NEW n \in Nat
    PROVE  /\ Further(s, g, WithDefaults(g, n)) /\ ~WithDefaults(g, n).stuck
           /\ Len(WithDefaults(g, n).offspring) <= Len(g.offspring) + n
<1> DEFINE base == [g |-> g, more |-> TRUE]
           Next_(x) == TakeDefault(x.g.s, x.g.counts)
           Child_(x) == [s |-> Next_(x).s, tree |-> Next_(x).tree, parents |-> <<>>]
           Step(x) == IF ~x.more THEN x
                      ELSE IF Next_(x).found THEN [x EXCEPT !.g = Joins(x.g, Child_(x))]
                      ELSE [x EXCEPT !.g.s = Next_(x).s, !.more = FALSE]
<1>1. n \in Nat
  OBVIOUS
<1>0. Len(g.offspring) \in Nat
  BY DEF BreedingOK
<1> HIDE DEF base, Step
<1> DEFINE Gives(f, m) == f = [k \in 0 .. m |-> IF k = 0 THEN base ELSE Step(f[k - 1])]
           Can == {m \in 0 .. n : \E f : Gives(f, m)}
<1>2. 0 \in Can
  <2>1. Gives([k \in {0} |-> base], 0)
    OBVIOUS
  <2>2. \E f : Gives(f, 0)
    BY <2>1
  <2> HIDE DEF Gives
  <2> QED BY <1>1, <2>2
<1>3. ASSUME NEW m \in 1 .. n, m - 1 \in Can PROVE m \in Can
  <2>1. PICK f : Gives(f, m - 1)
    BY <1>3
  <2> DEFINE h == [k \in 0 .. m |-> IF k = m THEN Step(f[m - 1]) ELSE f[k]]
  <2>2. m \in Nat /\ m # 0 /\ m - 1 \in 0 .. m /\ m \in 0 .. m /\ m - 1 # m
    BY <1>1
  <2>3. ASSUME NEW k \in 0 .. m PROVE h[k] = IF k = 0 THEN base ELSE Step(h[k - 1])
    <3>1. CASE k = m
      BY <2>2, <3>1
    <3>2. CASE k # m
      <4>1. k \in 0 .. m - 1 /\ h[k] = f[k]
        BY <2>2, <3>2
      <4>2. k # 0 => h[k - 1] = f[k - 1]
        BY <2>2, <3>2
      <4>3. f[k] = IF k = 0 THEN base ELSE Step(f[k - 1])
        BY <2>1, <4>1
      <4> QED BY <4>1, <4>2, <4>3
    <3> QED BY <3>1, <3>2
  <2>4. h = [k \in 0 .. m |-> h[k]]
    OBVIOUS
  <2> HIDE DEF h
  <2>5. Gives(h, m)
    BY <2>3, <2>4
  <2>6. \E f_ : Gives(f_, m)
    BY <2>5
  <2> HIDE DEF Gives
  <2> QED BY <1>1, <2>6
<1>4. n \in Can
  <2> HIDE DEF Can
  <2>1. 0 .. n \subseteq Can
    BY <1>1, <1>2, <1>3, UpToN
  <2> QED BY <1>1, <2>1
<1> DEFINE given == CHOOSE f : f = [k \in 0 .. n |-> IF k = 0 THEN base ELSE Step(f[k - 1])]
<1>5. given = [k \in 0 .. n |-> IF k = 0 THEN base ELSE Step(given[k - 1])]
  BY <1>4
<1>6. WithDefaults(g, n) = given[n].g
  BY DEF WithDefaults, base, Step
<1> HIDE DEF given
<1> DEFINE Holds(m, x) == /\ x = [f \in {"g", "more"} |-> x[f]]
                          /\ Further(s, g, x.g) /\ ~x.g.stuck
                          /\ Len(x.g.offspring) <= Len(g.offspring) + m
           Fine == {m \in 0 .. n : Holds(m, given[m])}
<1>7. 0 \in Fine
  <2>1. given[0] = base
    BY <1>1, <1>5
  <2>2. base = [f \in {"g", "more"} |-> base[f]] /\ base.g = g
    BY DEF base
  <2>3. Further(s, g, g)
    BY DEF Further
  <2>4. Holds(0, base)
    BY <1>0, <2>2, <2>3
  <2> QED BY <1>1, <2>1, <2>4
<1>8. ASSUME NEW m \in 1 .. n, m - 1 \in Fine PROVE m \in Fine
  <2> DEFINE x == given[m - 1]
             y == given[m]
             next == Next_(x)
             child == Child_(x)
  <2>1. given[m] = Step(given[m - 1])
    BY <1>1, <1>5
  <2>2. y = IF ~x.more THEN x
            ELSE IF next.found THEN [x EXCEPT !.g = Joins(x.g, child)]
            ELSE [x EXCEPT !.g = [x.g EXCEPT !.s = next.s], !.more = FALSE]
    BY <2>1 DEF Step
  <2>3. Holds(m - 1, x)
    BY <1>8
  <2>4. /\ BreedingOK(s, x.g) /\ x.g.elite = g.elite /\ x.g.stones = g.stones /\ ~x.g.stuck
        /\ Len(x.g.offspring) \in Nat /\ Len(x.g.offspring) <= Len(g.offspring) + (m - 1)
        /\ x = [f \in {"g", "more"} |-> x[f]]
    BY <2>3 DEF Further, BreedingOK
  <2> HIDE DEF x, y
  <2>5. Moved(s, x.g.s) /\ Sane(x.g.s)
    BY <2>4, MovedOn DEF BreedingOK
  <2>6. /\ Moved(x.g.s, next.s)
        /\ next.found => next.tree \in Trees /\ x.g.counts[next.tree] < CopyLimit
    BY <2>5, TakeDefaultOK
  <2> HIDE DEF Next_
  <2>7. Moved(s, next.s)
    BY <2>5, <2>6, MovedOn
  <2>8. CASE ~x.more
    <3>1. y = x
      BY <2>2, <2>8
    <3>2. Holds(m, y)
      BY <1>0, <2>3, <2>4, <3>1
    <3> QED BY <3>2 DEF y
  <2>9. CASE x.more /\ next.found
    <3> DEFINE j == Joins(x.g, child)
    <3>1. child.s = next.s /\ child.tree = next.tree /\ child.parents = <<>>
      OBVIOUS
    <3>2. <<>> \in Seq(Places(s))
      OBVIOUS
    <3>3. Moved(s, child.s) /\ child.tree \in Trees /\ child.parents \in Seq(Places(s))
          /\ x.g.counts[child.tree] < CopyLimit
      BY <2>6, <2>7, <2>9, <3>1, <3>2
    <3> HIDE DEF Child_, next
    <3>4. /\ BreedingOK(s, j) /\ Len(j.offspring) = Len(x.g.offspring) + 1
          /\ j.elite = x.g.elite /\ j.stones = x.g.stones /\ j.stuck = x.g.stuck
      BY <2>4, <3>3, JoinsOK
    <3> HIDE DEF j
    <3>5. y = [f \in {"g", "more"} |-> y[f]] /\ y.g = j
      BY <2>2, <2>4, <2>9 DEF j
    <3>6. Further(s, g, y.g) /\ ~y.g.stuck
      BY <2>4, <3>4, <3>5 DEF Further
    <3>7. Len(y.g.offspring) <= Len(g.offspring) + m
      BY <1>0, <2>4, <3>4, <3>5
    <3>8. Holds(m, y)
      BY <3>5, <3>6, <3>7
    <3> QED BY <3>8 DEF y
  <2>10. CASE x.more /\ ~next.found
    <3> DEFINE u == next.s
               h == [x.g EXCEPT !.s = u]
    <3>1. y = [x EXCEPT !.g = h, !.more = FALSE]
      BY <2>2, <2>10
    <3>2. x.g = [f \in GFields |-> x.g[f]]
      BY <2>4 DEF BreedingOK
    <3> HIDE DEF u, next
    <3>3. /\ h = [f \in GFields |-> h[f]] /\ h.s = u /\ h.offspring = x.g.offspring
          /\ h.counts = x.g.counts /\ h.elite = x.g.elite /\ h.stones = x.g.stones
          /\ h.cursor = x.g.cursor /\ h.stuck = x.g.stuck
      BY <3>2 DEF GFields
    <3> HIDE DEF h
    <3>4. BreedingOK(s, h)
      BY <2>4, <2>7, <3>3 DEF BreedingOK, Taken_, u
    <3>5. y = [f \in {"g", "more"} |-> y[f]] /\ y.g = h
      BY <2>4, <3>1
    <3>6. Further(s, g, y.g) /\ ~y.g.stuck
      BY <2>4, <3>3, <3>4, <3>5 DEF Further
    <3>7. Len(y.g.offspring) <= Len(g.offspring) + m
      BY <1>0, <2>4, <3>3, <3>5
    <3>8. Holds(m, y)
      BY <3>5, <3>6, <3>7
    <3> QED BY <3>8 DEF y
  <2> QED BY <2>8, <2>9, <2>10
<1>9. Holds(n, given[n])
  <2> HIDE DEF Fine, Holds
  <2>1. 0 .. n \subseteq Fine
    BY <1>1, <1>7, <1>8, UpToN
  <2>2. n \in Fine
    BY <1>1, <2>1
  <2> QED BY <2>2 DEF Fine
<1> QED BY <1>6, <1>9

-----------------------------------------------------------------------------
(* A whole generation.                                                       *)
LEMMA SmallestOf ==
    ASSUME NEW a \in Nat, NEW b \in Nat, NEW c \in Nat
    PROVE  Min({a, Max({1, b}), c}) \in Nat /\ Min({a, Max({1, b}), c}) <= c
<1>1. Max({1, b}) \in Nat
  <2>1. {1, b} \in SUBSET Nat /\ {1, b} # {} /\ 1 + b \in Nat /\ \A x \in {1, b} : x <= 1 + b
    OBVIOUS
  <2>2. Max({1, b}) \in {1, b}
    BY <2>1, MaxIsGreatest
  <2> QED BY <2>2
<1> DEFINE m == Max({1, b})
           S == {a, m, c}
<1> HIDE DEF m
<1>2. S \in SUBSET Nat /\ S # {} /\ c \in S
  BY <1>1 DEF m
<1> HIDE DEF S
<1>3. Min(S) \in S /\ \A y \in S : Min(S) <= y
  BY <1>2, MinIsLeast
<1>4. Min(S) \in Nat /\ Min(S) <= c
  BY <1>2, <1>3
<1> QED BY <1>4 DEF S, m

LEMMA ShareOK ==
    ASSUME NEW n \in Nat, NEW a \in Nat
    PROVE  Least(n, a) \in 0 .. n
  BY DEF Least

LEMMA CopiesNumber ==
    ASSUME NEW l, IsList(l), NEW t
    PROVE  Copies(l, t) \in Nat
<1>1. Copies(l, t) \in 0 .. Len(l)
  BY CopiesType
<1>2. Len(l) \in Nat
  BY ListFacts
<1> QED BY <1>1, <1>2

(* The survivors that a generation starts from.                              *)
LEMMA StartsOK ==
    ASSUME NEW s, Sane(s), NEW elite \in Seq(Places(s)), NEW stones \in Seq(Places(s)),
           \A t \in Trees :
              Copies(TreesAt(s, elite), t) + Copies(TreesAt(s, stones), t) <= CopyLimit,
           NEW c, c = CountsOf(TreesAt(s, elite) \o TreesAt(s, stones)),
           NEW g, g = [field \in GFields |-> g[field]], g.s = s, g.counts = c,
           g.offspring = <<>>, g.elite = elite, g.stones = stones, g.cursor = 0
    PROVE  BreedingOK(s, g)
<1> DEFINE a == TreesAt(s, elite)
           b == TreesAt(s, stones)
<1>1. IsList(a) /\ IsList(b)
  <2>1. a \in Seq(Trees) /\ b \in Seq(Trees)
    BY TreesAtOK
  <2> QED BY <2>1, SeqIsList
<1>2. \A t \in Trees : Copies(a, t) + Copies(b, t) <= CopyLimit
  OBVIOUS
<1>5. c = CountsOf(a \o b)
  OBVIOUS
<1> HIDE DEF a, b
<1>3. \A t \in Trees : Copies(a \o b, t) = Copies(a, t) + Copies(b, t)
  BY <1>1, CopiesJoined
<1>4. c = [t \in Trees |-> c[t]] /\ \A t \in Trees : c[t] = Copies(a, t) + Copies(b, t)
  BY <1>3, <1>5 DEF CountsOf
<1>6. /\ g = [f \in GFields |-> g[f]] /\ g.s = s /\ g.counts = c /\ g.offspring = <<>>
      /\ g.elite = elite /\ g.stones = stones /\ g.cursor = 0
  OBVIOUS
<1>7. Moved(s, s)
  BY MovedStill
<1>8. ASSUME NEW t \in Trees PROVE c[t] = Copies(a, t) + Copies(b, t) + Copies(Bodies(<<>>), t)
  <2>1. Bodies(<<>>) = <<>>
    BY DEF Bodies
  <2>2. Copies(<<>>, t) = 0
    BY CopiesEmpty
  <2>3. Copies(a, t) \in Nat /\ Copies(b, t) \in Nat
    BY <1>1, CopiesNumber
  <2> QED BY <1>4, <2>1, <2>2, <2>3
<1>9. \A t \in Trees : g.counts[t] = Taken_(s, g, t)
  BY <1>6, <1>8 DEF Taken_, a, b
<1>10. \A t \in Trees : g.counts[t] <= CopyLimit
  BY <1>2, <1>4, <1>6
<1>11. g.offspring \in Seq(Newborn(s)) /\ 0 \in Nat
  <2>1. \A X : <<>> \in Seq(X)
    OBVIOUS
  <2> QED BY <1>6, <2>1
<1> QED BY <1>4, <1>6, <1>7, <1>9, <1>10, <1>11 DEF BreedingOK

LEMMA VariationOK ==
    ASSUME OperationsGiveTrees, NEW s, Sane(s), s.population # <<>>
    PROVE  /\ BreedingOK(s, Variation(s))
           /\ \/ Variation(s).stuck
              \/ Len(Variation(s).elite) + Len(Variation(s).stones)
                     + Len(Variation(s).offspring) = PopulationSize
<1> DEFINE boosted == Boosted(s.stale)
           order == Ranked(s, DOMAIN s.population)
           fittest == SubSeq(order, 1, Least(Elitism, Len(order)))
           elite == Survivors(s, fittest, <<>>)
           room == PopulationSize - Len(elite)
           target == Least(room, Rounded(PopulationSize, boosted.stones))
           young == Stones(s, Range(elite), target)
           stones == Survivors(s, young, TreesAt(s, elite))
           open == room - Len(stones)
           few == Min({Len(s.pending), Max({1, PopulationSize \div 2}), open})
           g == [s |-> s, counts |-> CountsOf(TreesAt(s, elite) \o TreesAt(s, stones)),
                 offspring |-> <<>>, elite |-> elite, stones |-> stones, cursor |-> 0,
                 scheduled |-> [lane \in Range(Lanes) \cup {"standard"} |-> 0],
                 guided |-> 0, stuck |-> FALSE]
<1>1. Variation(s) = AllSlots(WithDefaults(g, few), boosted)
  BY DEF Variation
<1>2. order \in Seq(Places(s))
  <2>1. DOMAIN s.population = Places(s)
    BY MembersOK
  <2>2. IsList(order) /\ \A k \in DOMAIN order : order[k] \in Places(s)
    BY <2>1, RankedFacts
  <2> HIDE DEF order
  <2>3. \A k \in 1 .. Len(order) : order[k] \in Places(s)
    BY <2>2, ListFacts
  <2> QED BY <2>2, <2>3, ListIsSeq
<1> HIDE DEF order
<1>3. fittest \in Seq(Places(s)) /\ Len(fittest) <= Elitism /\ Len(fittest) \in Nat
  <2>1. Len(order) \in Nat
    BY <1>2
  <2>2. Elitism \in Nat
    BY VariationAssumption
  <2>3. Least(Elitism, Len(order)) \in 0 .. Len(order) /\ Least(Elitism, Len(order)) <= Elitism
    BY <2>1, <2>2 DEF Least
  <2> QED BY <1>2, <2>1, <2>2, <2>3
<1> HIDE DEF fittest
<1>4. /\ elite \in Seq(Places(s)) /\ Len(elite) <= Len(fittest) /\ Len(elite) \in Nat
      /\ \A t \in Trees : Copies(TreesAt(s, elite), t) <= CopyLimit
  <2>1. IsList(<<>>) /\ CopyLimit \in Nat /\ \A t \in Trees : Copies(<<>>, t) = 0
    BY EmptyList, CopiesEmpty, VariationAssumption
  <2>2. \A t \in Trees : Copies(<<>>, t) <= CopyLimit
    BY <2>1
  <2>3. /\ elite \in Seq(Places(s)) /\ Len(elite) <= Len(fittest)
        /\ \A t \in Trees : Copies(<<>>, t) + Copies(TreesAt(s, elite), t) <= CopyLimit
    BY <1>3, <2>1, <2>2, SurvivorsOK
  <2> HIDE DEF elite
  <2>4. IsList(TreesAt(s, elite))
    <3>1. TreesAt(s, elite) \in Seq(Trees)
      BY <2>3, TreesAtOK
    <3> QED BY <3>1, SeqIsList
  <2>5. \A t \in Trees : Copies(TreesAt(s, elite), t) \in Nat
    BY <2>4, CopiesNumber
  <2>6. \A t \in Trees : Copies(TreesAt(s, elite), t) <= CopyLimit
    BY <2>1, <2>3, <2>5
  <2> QED BY <2>3, <2>6
<1> HIDE DEF elite
<1>5. room \in Nat
  <2>1. PopulationSize \in Nat /\ Elitism \in 0 .. PopulationSize - 1
    BY VariationAssumption
  <2> QED BY <1>3, <1>4, <2>1
<1>6. target \in 0 .. room
  <2>1. PopulationSize \in Nat /\ boosted.stones \in Nat
    BY VariationAssumption, BoostedOK
  <2> HIDE DEF boosted, room
  <2>2. Rounded(PopulationSize, boosted.stones) \in Nat
    BY <2>1, RoundedOK
  <2> QED BY <1>5, <2>2, ShareOK
<1> HIDE DEF target
<1>7. young \in Seq(Places(s)) /\ Len(young) <= target
  <2>1. target \in Nat
    BY <1>5, <1>6
  <2> QED BY <2>1, StonesOK
<1> HIDE DEF young
<1>8. /\ stones \in Seq(Places(s)) /\ Len(stones) <= Len(young)
      /\ \A t \in Trees :
            Copies(TreesAt(s, elite), t) + Copies(TreesAt(s, stones), t) <= CopyLimit
  <2>1. IsList(TreesAt(s, elite))
    <3>1. TreesAt(s, elite) \in Seq(Trees)
      BY <1>4, TreesAtOK
    <3> QED BY <3>1, SeqIsList
  <2> QED BY <1>4, <1>7, <2>1, SurvivorsOK
<1> HIDE DEF stones
<1>9. open \in Nat
  <2> DEFINE e == Len(stones)
             y == Len(young)
  <2>1. e \in Nat /\ y \in Nat
    BY <1>7, <1>8
  <2>2. e <= y /\ y <= target
    BY <1>7, <1>8
  <2>3. open = room - e
    OBVIOUS
  <2> HIDE DEF e, y, open, room
  <2> QED BY <1>5, <1>6, <2>1, <2>2, <2>3
<1> HIDE DEF open, room
<1>10. few \in Nat /\ few <= open
  <2>1. s.pending \in Seq(Trees)
    BY DEF Sane, Placed
  <2>2. Len(s.pending) \in Nat
    BY <2>1
  <2>3. PopulationSize \div 2 \in Nat
    BY VariationAssumption
  <2> QED BY <1>9, <2>2, <2>3, SmallestOf
<1> HIDE DEF few
<1> DEFINE counts == CountsOf(TreesAt(s, elite) \o TreesAt(s, stones))
           none == [lane \in Range(Lanes) \cup {"standard"} |-> 0]
<1>11. BreedingOK(s, g)
  <2>1. g = [s |-> s, counts |-> counts, offspring |-> <<>>, elite |-> elite,
             stones |-> stones, cursor |-> 0, scheduled |-> none, guided |-> 0,
             stuck |-> FALSE]
    OBVIOUS
  <2> HIDE DEF g, counts, none
  <2>2. /\ g = [f \in GFields |-> g[f]] /\ g.s = s /\ g.counts = counts
        /\ g.offspring = <<>> /\ g.elite = elite /\ g.stones = stones /\ g.cursor = 0
    BY <2>1 DEF GFields
  <2>3. counts = CountsOf(TreesAt(s, elite) \o TreesAt(s, stones))
    BY DEF counts
  <2> QED BY <1>4, <1>8, <2>2, <2>3, StartsOK
<1>12. g.elite = elite /\ g.stones = stones /\ g.offspring = <<>> /\ ~g.stuck
  OBVIOUS
<1> HIDE DEF g
<1> DEFINE h == WithDefaults(g, few)
<1>13. Further(s, g, h) /\ ~h.stuck /\ Len(h.offspring) <= Len(g.offspring) + few
  BY <1>10, <1>11, <1>12, WithDefaultsOK
<1> HIDE DEF h
<1>14. BreedingOK(s, h) /\ h.elite = elite /\ h.stones = stones
  BY <1>12, <1>13 DEF Further
<1>15. PopulationSize - (Len(h.elite) + Len(h.stones) + Len(h.offspring)) \in Nat
  <2> DEFINE a == Len(elite)
             b == Len(stones)
             c == Len(h.offspring)
  <2>1. a \in Nat /\ b \in Nat /\ c \in Nat
    BY <1>4, <1>8, <1>14 DEF BreedingOK
  <2>2. c <= few
    <3>1. Len(g.offspring) = 0
      BY <1>12
    <3> QED BY <1>10, <1>13, <3>1
  <2>3. open = (PopulationSize - a) - b
    BY DEF open, room
  <2>4. PopulationSize \in Nat
    BY VariationAssumption
  <2> HIDE DEF a, b, c
  <2>5. PopulationSize - (a + b + c) \in Nat
    BY <1>9, <1>10, <2>1, <2>2, <2>3, <2>4
  <2> QED BY <1>14, <2>5 DEF a, b, c
<1>16. /\ Further(s, h, AllSlots(h, boosted))
       /\ \/ AllSlots(h, boosted).stuck
          \/ Len(h.elite) + Len(h.stones) + Len(AllSlots(h, boosted).offspring)
                = PopulationSize
  BY <1>14, <1>15, AllSlotsOK
<1>17. Variation(s) = AllSlots(h, boosted)
  BY <1>1 DEF h
<1> QED BY <1>16, <1>17 DEF Further

-----------------------------------------------------------------------------
(* Scoring.                                                                  *)
(* What does not name a place in the stream, or a population, keeps.         *)
SameSearch(s, u) ==
    /\ u.rng = s.rng /\ u.pending = s.pending /\ u.beam = s.beam
    /\ u.frontier = s.frontier /\ u.lane = s.lane /\ u.guide = s.guide

LEMMA SaneAgain ==
    ASSUME NEW s, Sane(s), NEW u, u = [f \in SearchFields |-> u[f]], SameSearch(s, u),
           u.generation \in Nat, u.prior \in Nat, u.population \in Seq(Individual),
           CacheOK(u.cache)
    PROVE  Sane(u)
  BY DEF Sane, Placed, SameSearch

LEMMA SaneFields ==
    ASSUME NEW s, Sane(s)
    PROVE  /\ s = [f \in SearchFields |-> s[f]] /\ s.generation \in Nat /\ s.prior \in Nat
           /\ s.population \in Seq(Individual) /\ CacheOK(s.cache) /\ SameSearch(s, s)
  BY DEF Sane, Placed, SameSearch

LEMMA TrialsOK ==
    ASSUME NEW s, Sane(s)
    PROVE  /\ Trials(s) \in Nat /\ Cardinality(DOMAIN s.cache) \in Nat
           /\ Trials(s) = s.prior + Cardinality(DOMAIN s.cache)
<1>1. s.prior \in Nat /\ IsFiniteSet(DOMAIN s.cache)
  BY DEF Sane, CacheOK
<1>2. Cardinality(DOMAIN s.cache) \in Nat
  BY <1>1, FS_CardinalityType
<1> QED BY <1>1, <1>2 DEF Trials

(* What one measure and one evaluator give the trees.                        *)
Numbering == [Trees -> Nat]

LEMMA CacheTogether ==
    ASSUME NEW c, CacheOK(c), NEW T \in SUBSET Trees, IsFiniteSet(T), NEW a \in Numbering,
           NEW d, d = [t \in DOMAIN c \cup T |-> IF t \in DOMAIN c THEN c[t] ELSE a[t]]
    PROVE  CacheOK(d) /\ DOMAIN d = DOMAIN c \cup T
           /\ Cardinality(DOMAIN d) \in Nat /\ Cardinality(DOMAIN c) \in Nat
           /\ Cardinality(DOMAIN c) <= Cardinality(DOMAIN d)
           /\ \A t \in T : d[t] \in Nat
<1>1. DOMAIN d = DOMAIN c \cup T /\ d = [t \in DOMAIN d |-> d[t]]
  OBVIOUS
<1>2. DOMAIN c \in SUBSET Trees /\ IsFiniteSet(DOMAIN c) /\ \A t \in DOMAIN c : c[t] \in Nat
  BY DEF CacheOK
<1>3. \A t \in Trees : a[t] \in Nat
  BY DEF Numbering
<1>4. \A t \in DOMAIN d : d[t] \in Nat
  <2>1. ASSUME NEW t \in DOMAIN d PROVE d[t] \in Nat
    <3>1. d[t] = IF t \in DOMAIN c THEN c[t] ELSE a[t]
      BY <1>1
    <3>2. t \in Trees
      BY <1>1, <1>2
    <3> QED BY <1>2, <1>3, <3>1, <3>2
  <2> QED BY <2>1
<1>5. IsFiniteSet(DOMAIN d)
  BY <1>1, <1>2, FS_Union
<1>6. DOMAIN d \in SUBSET Trees
  BY <1>1, <1>2
<1>7. DOMAIN c \subseteq DOMAIN d
  BY <1>1
<1>8. Cardinality(DOMAIN c) <= Cardinality(DOMAIN d)
  BY <1>5, <1>7, FS_Subset
<1>9. Cardinality(DOMAIN d) \in Nat /\ Cardinality(DOMAIN c) \in Nat
  BY <1>2, <1>5, FS_CardinalityType
<1>10. CacheOK(d)
  BY <1>1, <1>4, <1>5, <1>6 DEF CacheOK
<1> QED BY <1>1, <1>4, <1>8, <1>9, <1>10

(* A search whose cache has some more trees.                                 *)
Wider(s, u, T) ==
    /\ Sane(u) /\ SameSearch(s, u)
    /\ u.generation = s.generation /\ u.prior = s.prior /\ u.population = s.population
    /\ u.best = s.best /\ u.stale = s.stale
    /\ DOMAIN u.cache = DOMAIN s.cache \cup T /\ Trials(u) >= Trials(s)
    /\ \A t \in T : u.cache[t] \in Nat

ScoredTogether(cache, T, a) ==
    [t \in DOMAIN cache \cup T |-> IF t \in DOMAIN cache THEN cache[t] ELSE a[t]]

LEMMA ScoredOK ==
    ASSUME NEW s, Sane(s), NEW T \in SUBSET Trees, IsFiniteSet(T), NEW a \in Numbering
    PROVE  /\ Wider(s, Scored(s, T, a), T)
           /\ Scored(s, T, a).cache = ScoredTogether(s.cache, T, a)
<1> DEFINE d == [t \in DOMAIN s.cache \cup T |->
                    IF t \in DOMAIN s.cache THEN s.cache[t] ELSE a[t]]
           u == Scored(s, T, a)
<1>1. u = [s EXCEPT !.cache = d]
  BY DEF Scored
<1>2. CacheOK(s.cache)
  BY SaneFields
<1>3. /\ CacheOK(d) /\ DOMAIN d = DOMAIN s.cache \cup T
      /\ Cardinality(DOMAIN d) \in Nat /\ Cardinality(DOMAIN s.cache) \in Nat
      /\ Cardinality(DOMAIN s.cache) <= Cardinality(DOMAIN d)
      /\ \A t \in T : d[t] \in Nat
  BY <1>2, CacheTogether
<1> HIDE DEF d, u
<1>4. s = [f \in SearchFields |-> s[f]]
  BY SaneFields
<1>5. /\ u = [f \in SearchFields |-> u[f]] /\ u.cache = d
      /\ u.generation = s.generation /\ u.prior = s.prior /\ u.population = s.population
      /\ u.best = s.best /\ u.stale = s.stale
  BY <1>1, <1>4 DEF SearchFields
<1>6. SameSearch(s, u)
  BY <1>1, <1>4 DEF SameSearch, SearchFields
<1>7. Sane(u)
  BY <1>3, <1>5, <1>6, SaneFields, SaneAgain
<1>8. Trials(u) >= Trials(s)
  <2>1. s.prior \in Nat
    BY SaneFields
  <2> QED BY <1>3, <1>5, <2>1 DEF Trials
<1>9. Wider(s, u, T)
  BY <1>3, <1>5, <1>6, <1>7, <1>8 DEF Wider
<1> QED BY <1>5, <1>9 DEF u, d, ScoredTogether

(* _record keeps all but the best score and the time since it.               *)
Kept(s, u) ==
    /\ SameSearch(s, u) /\ u.generation = s.generation /\ u.prior = s.prior
    /\ u.population = s.population /\ u.cache = s.cache

LEMMA RecordedOK ==
    ASSUME NEW s, Sane(s), NEW first
    PROVE  /\ Kept(s, Recorded(s, first)) /\ Sane(Recorded(s, first))
           /\ Trials(Recorded(s, first)) = Trials(s)
<1> DEFINE top == Max({FitnessAt(s, i) : i \in DOMAIN s.population})
           u == Recorded(s, first)
<1>1. u = IF top > s.best THEN [s EXCEPT !.best = top, !.stale = 0]
          ELSE IF first THEN s ELSE [s EXCEPT !.stale = s.stale + 1]
  BY DEF Recorded
<1> HIDE DEF top, u
<1>2. s = [f \in SearchFields |-> s[f]]
  BY SaneFields
<1>3. /\ u = [f \in SearchFields |-> u[f]]
      /\ u.generation = s.generation /\ u.prior = s.prior /\ u.population = s.population
      /\ u.cache = s.cache
  BY <1>1, <1>2 DEF SearchFields
<1>4. SameSearch(s, u)
  BY <1>1, <1>2 DEF SameSearch, SearchFields
<1>5. Sane(u)
  BY <1>3, <1>4, SaneFields, SaneAgain
<1>6. Kept(s, u) /\ Trials(u) = Trials(s)
  BY <1>3, <1>4 DEF Kept, Trials
<1> QED BY <1>5, <1>6 DEF u

(* The trees of a population.                                                *)
TreesOf(s) == [i \in DOMAIN s.population |-> TreeAt(s, i)]

LEMMA TreesOfOK ==
    ASSUME NEW s, Sane(s)
    PROVE  /\ TreesOf(s) \in Seq(Trees) /\ Len(TreesOf(s)) = Len(s.population)
           /\ DOMAIN TreesOf(s) = Places(s)
           /\ \A i \in Places(s) : TreesOf(s)[i] = TreeAt(s, i)
<1>1. DOMAIN s.population = Places(s) /\ Len(s.population) \in Nat
      /\ \A i \in Places(s) : TreeAt(s, i) \in Trees
  BY MembersOK
<1>2. TreesOf(s) = [i \in 1 .. Len(s.population) |-> TreeAt(s, i)]
  BY <1>1 DEF TreesOf, Places
<1> DEFINE n == Len(s.population)
<1>3. n \in Nat /\ \A i \in 1 .. n : TreeAt(s, i) \in Trees
  BY <1>1 DEF Places
<1> HIDE DEF n
<1>4. [i \in 1 .. n |-> TreeAt(s, i)] \in Seq(Trees) /\ Len([i \in 1 .. n |-> TreeAt(s, i)]) = n
  BY <1>3
<1> QED BY <1>1, <1>2, <1>4 DEF n, Places

LEMMA RangeFinite ==
    ASSUME NEW X, NEW l \in Seq(X)
    PROVE  Range(l) \in SUBSET X /\ IsFiniteSet(Range(l))
<1>1. Range(l) = {l[i] : i \in DOMAIN l}
  BY DEF Range
<1>2. DOMAIN l = 1 .. Len(l) /\ Len(l) \in Nat
  OBVIOUS
<1>3. IsFiniteSet(DOMAIN l)
  BY <1>2, FS_Interval
<1>4. IsFiniteSet({l[i] : i \in DOMAIN l})
  <2> DEFINE S == DOMAIN l
             R == {l[i] : i \in DOMAIN l}
  <2>1. l = [i \in S |-> l[i]]
    OBVIOUS
  <2>2. l \in Surjection(S, R)
    BY <2>1 DEF Surjection
  <2> HIDE DEF S, R
  <2>3. IsFiniteSet(S)
    BY <1>3 DEF S
  <2>4. IsFiniteSet(R)
    BY <2>2, <2>3, FS_Surjection
  <2> QED BY <2>4 DEF R
<1>5. \A i \in DOMAIN l : l[i] \in X
  OBVIOUS
<1> QED BY <1>1, <1>4, <1>5

LEMMA Refitted ==
    ASSUME NEW p \in Individual, NEW n \in Nat
    PROVE  [p EXCEPT !.fitness = n] \in Individual /\ [p EXCEPT !.fitness = n].tree = p.tree
           /\ [p EXCEPT !.fitness = n].fitness = n
  BY DEF Individual

LEMMA ListMade ==
    ASSUME NEW X, NEW n \in Nat, NEW f, f = [i \in 1 .. n |-> f[i]], \A i \in 1 .. n : f[i] \in X
    PROVE  f \in Seq(X) /\ Len(f) = n
  OBVIOUS

(* Every place keeps its tree, with a score from the cache.                  *)
LEMMA RescoredOK ==
    ASSUME NEW s, Sane(s), NEW a \in Numbering
    PROVE  /\ Sane(Rescored(s, a)) /\ SameSearch(s, Rescored(s, a))
           /\ Rescored(s, a).generation = s.generation /\ Rescored(s, a).prior = s.prior
           /\ Rescored(s, a).best = s.best /\ Rescored(s, a).stale = s.stale
           /\ Len(Rescored(s, a).population) = Len(s.population)
           /\ Trials(Rescored(s, a)) >= Trials(s)
           /\ Rescored(s, a).cache = Scored(s, Range(TreesOf(s)), a).cache
           /\ Rescored(s, a).population =
                 [i \in Places(s) |-> [s.population[i] EXCEPT !.fitness =
                                          Rescored(s, a).cache[TreeAt(s, i)]]]
<1> DEFINE T == Range(TreesOf(s))
           w == Scored(s, T, a)
           pop == [i \in Places(s) |-> [s.population[i] EXCEPT !.fitness = w.cache[TreeAt(s, i)]]]
           u == Rescored(s, a)
<1>1. T \in SUBSET Trees /\ IsFiniteSet(T) /\ DOMAIN TreesOf(s) = Places(s)
      /\ \A i \in Places(s) : TreesOf(s)[i] = TreeAt(s, i)
  BY TreesOfOK, RangeFinite
<1>2. \A i \in Places(s) : TreeAt(s, i) \in T
  BY <1>1 DEF Range
<1>3. Wider(s, w, T)
  BY <1>1, ScoredOK
<1>4. /\ DOMAIN s.population = Places(s) /\ Len(s.population) \in Nat
      /\ \A i \in Places(s) : s.population[i] \in Individual
  BY MembersOK
<1>5. u = [w EXCEPT !.population = pop]
  <2>1. u = [w EXCEPT !.population =
                [i \in DOMAIN TreesOf(s) |->
                    [w.population[i] EXCEPT !.fitness = w.cache[TreesOf(s)[i]]]]]
    BY DEF Rescored, TreesOf
  <2>2. w.population = s.population
    BY <1>3 DEF Wider
  <2> HIDE DEF u, w
  <2>3. [i \in DOMAIN TreesOf(s) |-> [w.population[i] EXCEPT !.fitness = w.cache[TreesOf(s)[i]]]]
        = pop
    BY <1>1, <2>2
  <2> QED BY <2>1, <2>3
<1> HIDE DEF u, w, T
<1>6. /\ Sane(w) /\ SameSearch(s, w) /\ w.generation = s.generation /\ w.prior = s.prior
      /\ w.best = s.best /\ w.stale = s.stale /\ Trials(w) >= Trials(s)
      /\ \A t \in T : w.cache[t] \in Nat
  BY <1>3 DEF Wider
<1>7. pop \in Seq(Individual) /\ Len(pop) = Len(s.population)
  <2>1. \A i \in Places(s) : pop[i] \in Individual
    BY <1>2, <1>4, <1>6, Refitted
  <2>2. pop = [i \in 1 .. Len(s.population) |-> pop[i]]
    BY DEF Places
  <2> HIDE DEF pop
  <2> QED BY <1>4, <2>1, <2>2, ListMade DEF Places
<1> HIDE DEF pop
<1>8. w = [f \in SearchFields |-> w[f]] /\ CacheOK(w.cache)
      /\ w.generation \in Nat /\ w.prior \in Nat
  BY <1>6, SaneFields
<1>9. /\ u = [f \in SearchFields |-> u[f]] /\ u.cache = w.cache /\ u.population = pop
      /\ u.generation = w.generation /\ u.prior = w.prior /\ u.best = w.best
      /\ u.stale = w.stale
  BY <1>5, <1>8 DEF SearchFields
<1>10. SameSearch(w, u) /\ SameSearch(s, u)
  BY <1>5, <1>6, <1>8 DEF SameSearch, SearchFields
<1>11. Sane(u)
  BY <1>6, <1>7, <1>8, <1>9, <1>10, SaneAgain
<1>12. Trials(u) >= Trials(s)
  BY <1>6, <1>9 DEF Trials
<1>13. u.population = [i \in Places(s) |-> [s.population[i] EXCEPT !.fitness =
                                          u.cache[TreeAt(s, i)]]]
  BY <1>9 DEF pop
<1> QED BY <1>6, <1>7, <1>9, <1>10, <1>11, <1>12, <1>13 DEF u, w, T

-----------------------------------------------------------------------------
(* The next population.                                                      *)
LEMMA BodiesJoined ==
    ASSUME NEW X, NEW p \in Seq(X), NEW q \in Seq(X)
    PROVE  Bodies(p \o q) = Bodies(p) \o Bodies(q)
<1> DEFINE m == Len(p)
           n == Len(q)
<1>1. m \in Nat /\ n \in Nat /\ DOMAIN p = 1 .. m /\ DOMAIN q = 1 .. n
  OBVIOUS
<1>2. DOMAIN (p \o q) = 1 .. m + n
      /\ \A k \in 1 .. m + n : (p \o q)[k] = IF k <= m THEN p[k] ELSE q[k - m]
  OBVIOUS
<1>3. Bodies(p) = [k \in 1 .. m |-> p[k].tree] /\ Bodies(q) = [k \in 1 .. n |-> q[k].tree]
  BY <1>1 DEF Bodies
<1>4. Bodies(p \o q) = [k \in 1 .. m + n |-> (p \o q)[k].tree]
  BY <1>2 DEF Bodies
<1> HIDE DEF m, n
<1>5. Bodies(p \o q) = [k \in 1 .. m + n |-> IF k <= m THEN p[k].tree ELSE q[k - m].tree]
  BY <1>2, <1>4
<1> DEFINE a == [k \in 1 .. m |-> p[k].tree]
           b == [k \in 1 .. n |-> q[k].tree]
           Y == {p[k].tree : k \in 1 .. m} \cup {q[k].tree : k \in 1 .. n}
<1>6. a \in Seq(Y) /\ b \in Seq(Y) /\ Len(a) = m /\ Len(b) = n
  BY <1>1
<1>7. \A k \in 1 .. m : a[k] = p[k].tree
  OBVIOUS
<1>8. \A k \in 1 .. n : b[k] = q[k].tree
  OBVIOUS
<1> HIDE DEF a, b, Y
<1>9. a \o b = [k \in 1 .. m + n |-> IF k <= m THEN a[k] ELSE b[k - m]]
  <2> DEFINE c == a \o b
  <2>1. c \in Seq(Y) /\ Len(c) = m + n
    BY <1>6
  <2>2. \A k \in 1 .. m + n : c[k] = IF k <= m THEN a[k] ELSE b[k - m]
    BY <1>1, <1>6
  <2> HIDE DEF c
  <2>3. c = [k \in 1 .. Len(c) |-> c[k]]
    BY <2>1, SeqIsList, ListFacts
  <2>4. c = [k \in 1 .. m + n |-> IF k <= m THEN a[k] ELSE b[k - m]]
    BY <2>1, <2>2, <2>3
  <2> QED BY <2>4 DEF c
<1>10. \A k \in 1 .. m + n : (IF k <= m THEN a[k] ELSE b[k - m])
                               = IF k <= m THEN p[k].tree ELSE q[k - m].tree
  BY <1>1, <1>7, <1>8
<1>11. a \o b = [k \in 1 .. m + n |-> IF k <= m THEN p[k].tree ELSE q[k - m].tree]
  BY <1>9, <1>10
<1> QED BY <1>3, <1>5, <1>11 DEF a, b

(* The stepping stones of a place, and that place when it is one.            *)
LineOf(s, g, i) ==
    s.population[i].stones
        \cup (IF i \in Range(g.stones) THEN {s.population[i].tree} ELSE {})

ChildAt(s, g, w, k) ==
    [tree |-> g.offspring[k].tree, fitness |-> w.cache[g.offspring[k].tree],
     birth |-> w.generation + 1,
     stones |-> UNION {LineOf(s, g, i) : i \in Range(g.offspring[k].parents)}]

CarriedAt(s, g, k) ==
    [s.population[g.stones[k]] EXCEPT
        !.stones = s.population[g.stones[k]].stones \cup {s.population[g.stones[k]].tree}]

LEMMA ChildAtOK ==
    ASSUME NEW s, Sane(s), NEW g, BreedingOK(s, g), NEW w, w.generation \in Nat,
           NEW k \in DOMAIN g.offspring, w.cache[g.offspring[k].tree] \in Nat
    PROVE  ChildAt(s, g, w, k) \in Individual /\ ChildAt(s, g, w, k).tree = g.offspring[k].tree
           /\ ChildAt(s, g, w, k).fitness = w.cache[g.offspring[k].tree]
<1>1. g.offspring[k] \in Newborn(s)
  BY DEF BreedingOK
<1>2. g.offspring[k].tree \in Trees /\ g.offspring[k].parents \in Seq(Places(s))
  BY <1>1 DEF Newborn
<1>3. Range(g.offspring[k].parents) \subseteq Places(s)
  BY <1>2, RangeFinite
<1>4. ASSUME NEW i \in Places(s) PROVE LineOf(s, g, i) \in SUBSET Trees
  <2>1. s.population[i] \in Individual
    BY MembersOK
  <2> QED BY <2>1 DEF LineOf, Individual
<1>5. UNION {LineOf(s, g, i) : i \in Range(g.offspring[k].parents)} \in SUBSET Trees
  BY <1>3, <1>4
<1> QED BY <1>2, <1>5 DEF ChildAt, Individual

LEMMA CarriedAtOK ==
    ASSUME NEW s, Sane(s), NEW g, BreedingOK(s, g), NEW k \in DOMAIN g.stones
    PROVE  /\ CarriedAt(s, g, k) \in Individual
           /\ CarriedAt(s, g, k).tree = TreeAt(s, g.stones[k])
           /\ CarriedAt(s, g, k).fitness = FitnessAt(s, g.stones[k])
<1> DEFINE p == s.population[g.stones[k]]
<1>1. g.stones[k] \in Places(s)
  BY DEF BreedingOK
<1>2. p \in Individual
  BY <1>1, MembersOK
<1> HIDE DEF p
<1>3. /\ [p EXCEPT !.stones = p.stones \cup {p.tree}] \in Individual
      /\ [p EXCEPT !.stones = p.stones \cup {p.tree}].tree = p.tree
      /\ [p EXCEPT !.stones = p.stones \cup {p.tree}].fitness = p.fitness
  BY <1>2 DEF Individual
<1> QED BY <1>3 DEF p, CarriedAt, TreeAt, FitnessAt

LEMMA Joined ==
    ASSUME NEW X, NEW p \in Seq(X), NEW q \in Seq(X)
    PROVE  /\ p \o q \in Seq(X) /\ Len(p \o q) = Len(p) + Len(q)
           /\ DOMAIN (p \o q) = 1 .. Len(p) + Len(q)
           /\ \A k \in 1 .. Len(p) : (p \o q)[k] = p[k]
           /\ \A k \in 1 .. Len(q) : (p \o q)[Len(p) + k] = q[k]
<1>1. p \o q \in Seq(X) /\ Len(p \o q) = Len(p) + Len(q)
  OBVIOUS
<1>2. DOMAIN (p \o q) = 1 .. Len(p) + Len(q)
  OBVIOUS
<1>3. \A k \in 1 .. Len(p) : (p \o q)[k] = p[k]
  OBVIOUS
<1>4. \A k \in 1 .. Len(q) : (p \o q)[Len(p) + k] = q[k]
  OBVIOUS
<1> QED BY <1>1, <1>2, <1>3, <1>4

(* Elite, stepping stones and children, one after the other.                 *)
LEMMA NextPopulationIs ==
    ASSUME NEW s, NEW g, NEW w
    PROVE  NextPopulation(s.population, g, w) =
              ([k \in DOMAIN g.elite |-> s.population[g.elite[k]]]
                  \o [k \in DOMAIN g.stones |-> CarriedAt(s, g, k)])
                  \o [k \in DOMAIN g.offspring |-> ChildAt(s, g, w, k)]
  BY DEF NextPopulation, CarriedAt, ChildAt, LineOf

(* A score of the cache for each of them, where the old ones have theirs.    *)
Fits(pop, cache) == \A i \in DOMAIN pop : pop[i].fitness = cache[pop[i].tree]

LEMMA FitsJoined ==
    ASSUME NEW X, NEW p \in Seq(X), NEW q \in Seq(X), NEW cache, Fits(p, cache), Fits(q, cache)
    PROVE  Fits(p \o q, cache)
<1>1. \A k \in 1 .. Len(p) : p[k].fitness = cache[p[k].tree]
  BY DEF Fits
<1>2. \A k \in 1 .. Len(q) : q[k].fitness = cache[q[k].tree]
  BY DEF Fits
<1>3. SUFFICES ASSUME NEW i \in DOMAIN (p \o q)
               PROVE  (p \o q)[i].fitness = cache[(p \o q)[i].tree]
  BY DEF Fits
<1>4. i \in 1 .. Len(p) + Len(q) /\ Len(p) \in Nat /\ Len(q) \in Nat
  OBVIOUS
<1>5. CASE i <= Len(p)
  <2>1. (p \o q)[i] = p[i] /\ i \in 1 .. Len(p)
    BY <1>4, <1>5
  <2> QED BY <1>1, <2>1
<1>6. CASE ~(i <= Len(p))
  <2>1. (p \o q)[i] = q[i - Len(p)] /\ i - Len(p) \in 1 .. Len(q)
    BY <1>4, <1>6
  <2> QED BY <1>2, <2>1
<1> QED BY <1>5, <1>6

SucceedOK(s, g, w, pop) ==
    /\ pop \in Seq(Individual)
    /\ Len(pop) = Len(g.elite) + Len(g.stones) + Len(g.offspring)
    /\ \A t \in Trees : Copies(Bodies(pop), t) = Taken_(s, g, t)
    /\ Fits(s.population, w.cache) => Fits(pop, w.cache)
    /\ \A i \in DOMAIN pop :
          \/ \E j \in Places(s) : pop[i].tree = TreeAt(s, j)
          \/ \E k \in DOMAIN g.offspring : pop[i].tree = g.offspring[k].tree

LEMMA NextPopulationOK ==
    ASSUME NEW s, Sane(s), NEW g, BreedingOK(s, g), NEW w, w.generation \in Nat,
           \A k \in DOMAIN g.offspring : w.cache[g.offspring[k].tree] \in Nat,
           NEW pop, pop = NextPopulation(s.population, g, w)
    PROVE  SucceedOK(s, g, w, pop)
<1> DEFINE a == [k \in DOMAIN g.elite |-> s.population[g.elite[k]]]
           b == [k \in DOMAIN g.stones |-> CarriedAt(s, g, k)]
           c == [k \in DOMAIN g.offspring |-> ChildAt(s, g, w, k)]
<1>1. pop = (a \o b) \o c
  BY NextPopulationIs
<1>2. /\ g.elite \in Seq(Places(s)) /\ g.stones \in Seq(Places(s))
      /\ g.offspring \in Seq(Newborn(s))
      /\ Len(g.elite) \in Nat /\ Len(g.stones) \in Nat /\ Len(g.offspring) \in Nat
      /\ DOMAIN g.elite = 1 .. Len(g.elite) /\ DOMAIN g.stones = 1 .. Len(g.stones)
      /\ DOMAIN g.offspring = 1 .. Len(g.offspring)
  BY DEF BreedingOK
<1>3. /\ \A i \in Places(s) : s.population[i] \in Individual
      /\ DOMAIN s.population = Places(s)
  BY MembersOK
<1>4. \A k \in DOMAIN g.elite : g.elite[k] \in Places(s)
  BY <1>2
<1>5. \A k \in DOMAIN g.stones : g.stones[k] \in Places(s)
  BY <1>2
<1>6. \A k \in DOMAIN g.elite : a[k] = s.population[g.elite[k]] /\ a[k] \in Individual
  BY <1>3, <1>4
<1>7. \A k \in DOMAIN g.stones :
          /\ b[k] \in Individual /\ b[k].tree = TreeAt(s, g.stones[k])
          /\ b[k].fitness = FitnessAt(s, g.stones[k])
  BY CarriedAtOK
<1>8. \A k \in DOMAIN g.offspring :
          /\ c[k] \in Individual /\ c[k].tree = g.offspring[k].tree
          /\ c[k].fitness = w.cache[g.offspring[k].tree]
  BY ChildAtOK
<1>9. /\ DOMAIN a = DOMAIN g.elite /\ DOMAIN b = DOMAIN g.stones
      /\ DOMAIN c = DOMAIN g.offspring
      /\ a = [k \in 1 .. Len(g.elite) |-> a[k]] /\ b = [k \in 1 .. Len(g.stones) |-> b[k]]
      /\ c = [k \in 1 .. Len(g.offspring) |-> c[k]]
  BY <1>2
<1> HIDE DEF a, b, c
<1>10. a \in Seq(Individual) /\ Len(a) = Len(g.elite)
  BY <1>2, <1>6, <1>9, ListMade
<1>11. b \in Seq(Individual) /\ Len(b) = Len(g.stones)
  BY <1>2, <1>7, <1>9, ListMade
<1>12. c \in Seq(Individual) /\ Len(c) = Len(g.offspring)
  BY <1>2, <1>8, <1>9, ListMade
<1>13. a \o b \in Seq(Individual) /\ Len(a \o b) = Len(a) + Len(b)
  BY <1>10, <1>11, Joined
<1>14. pop \in Seq(Individual) /\ Len(pop) = Len(g.elite) + Len(g.stones) + Len(g.offspring)
  <2> DEFINE d == a \o b
  <2>1. d \in Seq(Individual) /\ Len(d) = Len(g.elite) + Len(g.stones)
    BY <1>10, <1>11, <1>13
  <2> HIDE DEF d
  <2>2. d \o c \in Seq(Individual) /\ Len(d \o c) = Len(d) + Len(c)
    BY <1>12, <2>1, Joined
  <2> QED BY <1>1, <1>12, <2>1, <2>2 DEF d
<1>15. Bodies(pop) = (Bodies(a) \o Bodies(b)) \o Bodies(c)
  BY <1>1, <1>10, <1>11, <1>12, <1>13, BodiesJoined
<1>16. /\ Bodies(a) = TreesAt(s, g.elite) /\ Bodies(b) = TreesAt(s, g.stones)
       /\ Bodies(c) = Bodies(g.offspring)
  <2>1. Bodies(a) = TreesAt(s, g.elite)
    BY <1>6, <1>9 DEF Bodies, TreesAt, TreeAt
  <2>2. Bodies(b) = TreesAt(s, g.stones)
    BY <1>7, <1>9 DEF Bodies, TreesAt
  <2>3. Bodies(c) = Bodies(g.offspring)
    BY <1>8, <1>9 DEF Bodies
  <2> QED BY <2>1, <2>2, <2>3
<1>17. \A t \in Trees : Copies(Bodies(pop), t) = Taken_(s, g, t)
  <2> DEFINE x == TreesAt(s, g.elite)
             y == TreesAt(s, g.stones)
             z == Bodies(g.offspring)
  <2>1. x \in Seq(Trees) /\ y \in Seq(Trees) /\ z \in Seq(Trees)
    BY <1>2, TreesAtOK, BodiesOK
  <2>2. IsList(x) /\ IsList(y) /\ IsList(z)
    BY <2>1, SeqIsList
  <2>3. Bodies(pop) = (x \o y) \o z
    BY <1>15, <1>16
  <2>4. \A t \in Trees : Taken_(s, g, t) = Copies(x, t) + Copies(y, t) + Copies(z, t)
    BY DEF Taken_
  <2> HIDE DEF x, y, z
  <2>5. IsList(x \o y) /\ \A t \in Trees : Copies(x \o y, t) = Copies(x, t) + Copies(y, t)
    BY <2>2, CopiesJoined
  <2>6. \A t \in Trees : Copies((x \o y) \o z, t) = Copies(x \o y, t) + Copies(z, t)
    BY <2>2, <2>5, CopiesJoined
  <2> QED BY <2>3, <2>4, <2>5, <2>6
<1>18. ASSUME Fits(s.population, w.cache) PROVE Fits(pop, w.cache)
  <2>0. \A j \in Places(s) : s.population[j].fitness = w.cache[s.population[j].tree]
    BY <1>3, <1>18 DEF Fits
  <2>1. Fits(a, w.cache)
    <3>1. ASSUME NEW k \in DOMAIN a PROVE a[k].fitness = w.cache[a[k].tree]
      <4>1. a[k] = s.population[g.elite[k]] /\ g.elite[k] \in Places(s)
        BY <1>4, <1>6, <1>9
      <4> QED BY <2>0, <4>1
    <3> QED BY <3>1 DEF Fits
  <2>2. Fits(b, w.cache)
    <3>1. \A j \in Places(s) : FitnessAt(s, j) = w.cache[TreeAt(s, j)]
      BY <1>3, <1>18 DEF Fits, FitnessAt, TreeAt
    <3> QED BY <1>5, <1>7, <1>9, <3>1 DEF Fits
  <2>3. Fits(c, w.cache)
    BY <1>8, <1>9 DEF Fits
  <2> QED BY <1>1, <1>10, <1>11, <1>12, <1>13, <2>1, <2>2, <2>3, FitsJoined
<1>19. ASSUME NEW i \in DOMAIN pop
       PROVE  \/ \E j \in Places(s) : pop[i].tree = TreeAt(s, j)
              \/ \E k \in DOMAIN g.offspring : pop[i].tree = g.offspring[k].tree
  <2> DEFINE d == a \o b
             m == Len(a)
             n == Len(b)
             r == Len(c)
  <2>1. m \in Nat /\ n \in Nat /\ r \in Nat
    BY <1>10, <1>11, <1>12
  <2>2. i \in 1 .. (m + n) + r
    <3> DEFINE x == Len(g.elite)
               y == Len(g.stones)
               z == Len(g.offspring)
    <3>1. DOMAIN pop = 1 .. Len(pop)
      BY <1>14, SeqIsList, ListFacts
    <3>2. Len(pop) = x + y + z /\ m = x /\ n = y /\ r = z
      BY <1>10, <1>11, <1>12, <1>14
    <3> HIDE DEF m, n, r, x, y, z
    <3>3. (m + n) + r = x + y + z
      BY <3>2
    <3> QED BY <3>1, <3>2, <3>3
  <2>3. \A k \in 1 .. m : d[k] = a[k]
    BY <1>10, <1>11, Joined
  <2>4. \A k \in 1 .. n : d[m + k] = b[k]
    BY <1>10, <1>11, Joined
  <2>5. d \in Seq(Individual) /\ Len(d) = m + n
    BY <1>13
  <2> HIDE DEF d
  <2>6. \A k \in 1 .. m + n : (d \o c)[k] = d[k]
    BY <1>12, <2>5, Joined
  <2>7. \A k \in 1 .. r : (d \o c)[(m + n) + k] = c[k]
    <3>1. \A k \in 1 .. Len(c) : (d \o c)[Len(d) + k] = c[k]
      BY <1>12, <2>5, Joined
    <3> QED BY <2>5, <3>1
  <2>8. pop = d \o c
    BY <1>1 DEF d
  <2>9. DOMAIN a = 1 .. m /\ DOMAIN b = 1 .. n /\ DOMAIN c = 1 .. r
    BY <1>10, <1>11, <1>12
  <2> HIDE DEF m, n, r
  <2>10. CASE i <= m
    <3>0. i \in 1 .. m /\ i \in 1 .. m + n
      BY <2>1, <2>2, <2>10
    <3>1. pop[i] = a[i] /\ i \in DOMAIN g.elite
      BY <1>9, <2>3, <2>6, <2>8, <2>9, <3>0
    <3> QED BY <1>4, <1>6, <3>1 DEF TreeAt
  <2>11. CASE i > m /\ i <= m + n
    <3>1. i - m \in 1 .. n /\ i \in 1 .. m + n /\ m + (i - m) = i
      BY <2>1, <2>2, <2>11
    <3>2. pop[i] = b[i - m] /\ i - m \in DOMAIN g.stones
      BY <1>9, <2>4, <2>6, <2>8, <2>9, <3>1
    <3> QED BY <1>5, <1>7, <3>2
  <2>12. CASE i > m + n
    <3>1. i - (m + n) \in 1 .. r /\ (m + n) + (i - (m + n)) = i
      BY <2>1, <2>2, <2>12
    <3>2. pop[i] = c[i - (m + n)] /\ i - (m + n) \in DOMAIN g.offspring
      BY <1>9, <2>7, <2>8, <2>9, <3>1
    <3> QED BY <1>8, <3>2
  <2> QED BY <2>1, <2>2, <2>10, <2>11, <2>12
<1> QED BY <1>14, <1>17, <1>18, <1>19 DEF SucceedOK

(* A population of the size asked for, no tree beyond its copies.            *)
Sized(s) == Len(s.population) = PopulationSize
Limited(s) == \A t \in Trees : Copies(Bodies(s.population), t) <= CopyLimit

(* Every score that is kept is one of the numbers in V, and every tree of    *)
(* the population has the score that is kept for it.                         *)
Given(cache, V) == \A t \in DOMAIN cache : \E a \in V : cache[t] = a[t]
Cached(s) ==
    /\ \A i \in Places(s) : TreeAt(s, i) \in DOMAIN s.cache
    /\ Fits(s.population, s.cache)
ScoredBy(s, V) == Given(s.cache, V) /\ Cached(s)

(* Every score is of the one measure and evaluator, and is counted once.     *)
Exact(s, a) == s.prior = 0 /\ ScoredBy(s, {a})

LEMMA GivenTogether ==
    ASSUME NEW c, NEW V, Given(c, V), NEW a \in V, NEW T,
           NEW d, d = ScoredTogether(c, T, a)
    PROVE  Given(d, V)
<1>1. ASSUME NEW t \in DOMAIN d PROVE \E b \in V : d[t] = b[t]
  <2>1. d[t] = IF t \in DOMAIN c THEN c[t] ELSE a[t]
    BY DEF ScoredTogether
  <2>2. CASE t \in DOMAIN c
    BY <2>1, <2>2 DEF Given
  <2>3. CASE t \notin DOMAIN c
    BY <2>1, <2>3
  <2> QED BY <2>2, <2>3
<1> QED BY <1>1 DEF Given

LEMMA ScoredByAgain ==
    ASSUME NEW s, NEW V, ScoredBy(s, V),
           NEW u, u.cache = s.cache, u.population = s.population
    PROVE  ScoredBy(u, V)
  BY DEF ScoredBy, Given, Cached, Places, TreeAt

LEMMA ScoredByMore ==
    ASSUME NEW s, NEW V, NEW a \in V, ScoredBy(s, {a})
    PROVE  ScoredBy(s, V)
  BY DEF ScoredBy, Given

(* Where all places have been scored again.                                  *)
LEMMA RescoredBy ==
    ASSUME NEW s, Sane(s), NEW a \in Numbering, NEW V, a \in V, Given(s.cache, V),
           NEW u, u = Rescored(s, a)
    PROVE  ScoredBy(u, V)
<1> DEFINE T == Range(TreesOf(s))
<1>1. T \in SUBSET Trees /\ IsFiniteSet(T) /\ DOMAIN TreesOf(s) = Places(s)
      /\ \A i \in Places(s) : TreesOf(s)[i] = TreeAt(s, i)
  BY TreesOfOK, RangeFinite
<1>2. \A i \in Places(s) : TreeAt(s, i) \in T
  BY <1>1 DEF Range
<1>3. /\ u.cache = Scored(s, T, a).cache
      /\ Len(u.population) = Len(s.population)
      /\ u.population = [i \in Places(s) |-> [s.population[i] EXCEPT !.fitness =
                                                u.cache[TreeAt(s, i)]]]
  BY RescoredOK
<1> HIDE DEF T
<1>4. u.cache = ScoredTogether(s.cache, T, a)
  BY <1>1, <1>3, ScoredOK
<1>5. Given(u.cache, V)
  BY <1>4, GivenTogether
<1>6. T \subseteq DOMAIN u.cache
  BY <1>4 DEF ScoredTogether
<1>7. DOMAIN u.population = Places(s) /\ Places(u) = Places(s)
  BY <1>3 DEF Places
<1>8. \A i \in Places(s) : s.population[i] \in Individual
  BY MembersOK
<1>9. ASSUME NEW i \in Places(s)
      PROVE  /\ u.population[i].tree = TreeAt(s, i)
             /\ u.population[i].fitness = u.cache[TreeAt(s, i)]
  <2> DEFINE n == u.cache[TreeAt(s, i)]
             x == s.population[i]
  <2>1. u.population[i] = [x EXCEPT !.fitness = n]
    BY <1>3
  <2>2. x \in Individual
    BY <1>8
  <2> HIDE DEF n, x
  <2>3. u.population[i].tree = x.tree /\ u.population[i].fitness = n
    BY <2>1, <2>2 DEF Individual
  <2> QED BY <2>3 DEF n, x, TreeAt
<1>10. \A i \in Places(u) : TreeAt(u, i) \in DOMAIN u.cache
  BY <1>2, <1>6, <1>7, <1>9 DEF TreeAt
<1>11. Fits(u.population, u.cache)
  BY <1>7, <1>9 DEF Fits
<1> QED BY <1>5, <1>10, <1>11 DEF ScoredBy, Cached

LEMMA BornOK ==
    ASSUME NEW s, NEW offspring \in Seq(Newborn(s)),
           NEW T, T = {offspring[k].tree : k \in DOMAIN offspring}
    PROVE  T \in SUBSET Trees /\ IsFiniteSet(T) /\ \A k \in DOMAIN offspring : offspring[k].tree \in T
<1>1. Bodies(offspring) \in Seq(Trees)
  BY BodiesOK
<1>2. Range(Bodies(offspring)) \in SUBSET Trees /\ IsFiniteSet(Range(Bodies(offspring)))
  BY <1>1, RangeFinite
<1>3. Range(Bodies(offspring)) = T
  BY DEF Range, Bodies
<1> QED BY <1>2, <1>3

Succeeds(s, a, u) ==
    /\ Sane(u) /\ Sized(u) /\ Limited(u) /\ u.generation = s.generation + 1
    /\ Trials(u) >= Trials(s) /\ u.prior = s.prior
    /\ \A V : a \in V /\ ScoredBy(s, V) => ScoredBy(u, V)

LEMMA CommittedOK ==
    ASSUME NEW s, Sane(s), NEW g, BreedingOK(s, g), NEW a \in Numbering,
           Len(g.elite) + Len(g.stones) + Len(g.offspring) = PopulationSize,
           NEW u, u = Committed(s.population, g, a)
    PROVE  Succeeds(s, a, u)
<1> DEFINE T == {g.offspring[k].tree : k \in DOMAIN g.offspring}
           w == Scored(g.s, T, a)
           pop == NextPopulation(s.population, g, w)
           v == [w EXCEPT !.generation = w.generation + 1, !.population = pop]
<1>1. u = Recorded(v, FALSE)
  BY DEF Committed
<1>2. Moved(s, g.s) /\ g.offspring \in Seq(Newborn(s))
  BY DEF BreedingOK
<1>3. T \in SUBSET Trees /\ IsFiniteSet(T) /\ \A k \in DOMAIN g.offspring : g.offspring[k].tree \in T
  <2> DEFINE offspring == g.offspring
  <2>1. offspring \in Seq(Newborn(s)) /\ T = {offspring[k].tree : k \in DOMAIN offspring}
    BY <1>2
  <2> HIDE DEF offspring, T
  <2>2. T \in SUBSET Trees /\ IsFiniteSet(T) /\ \A k \in DOMAIN offspring : offspring[k].tree \in T
    BY <2>1, BornOK
  <2> QED BY <2>2 DEF offspring
<1> HIDE DEF T
<1>4. Sane(g.s) /\ g.s.generation = s.generation /\ g.s.population = s.population
      /\ g.s.cache = s.cache /\ g.s.prior = s.prior
  BY <1>2, MovedOn DEF Moved
<1>5. /\ Wider(g.s, w, T)
      /\ w.cache = ScoredTogether(s.cache, T, a)
  <2> DEFINE z == g.s
  <2>1. Sane(z) /\ z.cache = s.cache
    BY <1>4
  <2> HIDE DEF z
  <2>2. /\ Wider(z, Scored(z, T, a), T)
        /\ Scored(z, T, a).cache = ScoredTogether(z.cache, T, a)
    BY <1>3, <2>1, ScoredOK
  <2> QED BY <2>1, <2>2 DEF z
<1> HIDE DEF w
<1>6. /\ Sane(w) /\ w.generation = s.generation /\ w.population = s.population
      /\ w.prior = s.prior /\ \A t \in T : w.cache[t] \in Nat
  BY <1>4, <1>5 DEF Wider
<1>7. Trials(w) >= Trials(s)
  <2>1. Trials(g.s) = Trials(s)
    BY <1>4 DEF Trials
  <2> QED BY <1>5, <2>1 DEF Wider
<1>8. /\ w = [f \in SearchFields |-> w[f]] /\ w.generation \in Nat /\ w.prior \in Nat
      /\ CacheOK(w.cache)
  BY <1>6, SaneFields
<1>9. \A k \in DOMAIN g.offspring : w.cache[g.offspring[k].tree] \in Nat
  BY <1>3, <1>6
<1>10. /\ pop \in Seq(Individual)
       /\ Len(pop) = Len(g.elite) + Len(g.stones) + Len(g.offspring)
       /\ \A t \in Trees : Copies(Bodies(pop), t) = Taken_(s, g, t)
       /\ Fits(s.population, w.cache) => Fits(pop, w.cache)
       /\ \A i \in DOMAIN pop :
             \/ \E j \in Places(s) : pop[i].tree = TreeAt(s, j)
             \/ \E k \in DOMAIN g.offspring : pop[i].tree = g.offspring[k].tree
  <2>1. pop = NextPopulation(s.population, g, w)
    OBVIOUS
  <2>2. w.generation \in Nat
    BY <1>8
  <2> HIDE DEF pop
  <2>3. SucceedOK(s, g, w, pop)
    BY <1>9, <2>1, <2>2, NextPopulationOK
  <2> QED BY <2>3 DEF SucceedOK
<1> HIDE DEF pop
<1>11. /\ v = [f \in SearchFields |-> v[f]] /\ v.generation = w.generation + 1
       /\ v.population = pop /\ v.cache = w.cache /\ v.prior = w.prior
  BY <1>8 DEF SearchFields
<1>12. SameSearch(w, v)
  BY <1>8 DEF SearchFields, SameSearch
<1> HIDE DEF v
<1>13. Sane(v)
  BY <1>6, <1>8, <1>10, <1>11, <1>12, SaneAgain
<1>14. /\ Sane(u) /\ Trials(u) = Trials(v) /\ u.generation = v.generation
       /\ u.population = v.population /\ u.cache = v.cache /\ u.prior = v.prior
  BY <1>1, <1>13, RecordedOK DEF Kept
<1>15. Sized(u)
  BY <1>10, <1>11, <1>14 DEF Sized
<1>16. Limited(u)
  <2>1. \A t \in Trees : Taken_(s, g, t) <= CopyLimit
    BY DEF BreedingOK
  <2> QED BY <1>10, <1>11, <1>14, <2>1 DEF Limited
<1>17. u.generation = s.generation + 1
  BY <1>6, <1>11, <1>14
<1>18. Trials(u) >= Trials(s)
  BY <1>7, <1>11, <1>14 DEF Trials
<1>19. ASSUME NEW V, a \in V, ScoredBy(s, V) PROVE ScoredBy(u, V)
  <2>1. u.cache = w.cache /\ u.population = pop
    BY <1>11, <1>14
  <2>2. Given(u.cache, V)
    BY <1>5, <1>19, <2>1, GivenTogether DEF ScoredBy
  <2>3. DOMAIN u.cache = DOMAIN s.cache \cup T
    BY <1>5, <2>1 DEF ScoredTogether
  <2>4. ASSUME NEW i \in Places(u) PROVE TreeAt(u, i) \in DOMAIN u.cache
    <3>1. i \in DOMAIN pop
      BY <1>14, <2>1, MembersOK
    <3>2. CASE \E j \in Places(s) : pop[i].tree = TreeAt(s, j)
      BY <1>19, <2>1, <2>3, <3>2 DEF ScoredBy, Cached, TreeAt
    <3>3. CASE \E k \in DOMAIN g.offspring : pop[i].tree = g.offspring[k].tree
      BY <1>3, <2>1, <2>3, <3>3 DEF TreeAt
    <3> QED BY <1>10, <3>1, <3>2, <3>3
  <2>5. Fits(s.population, w.cache)
    <3>1. \A i \in Places(s) : s.population[i].tree \in DOMAIN s.cache
      BY <1>19 DEF ScoredBy, Cached, TreeAt
    <3>2. DOMAIN s.population = Places(s)
      BY MembersOK
    <3>3. \A t \in DOMAIN s.cache : w.cache[t] = s.cache[t]
      BY <1>5 DEF ScoredTogether
    <3> QED BY <1>19, <3>1, <3>2, <3>3 DEF ScoredBy, Cached, Fits
  <2>6. Fits(u.population, u.cache)
    BY <1>10, <2>1, <2>5
  <2> QED BY <2>2, <2>4, <2>6 DEF ScoredBy, Cached
<1>20. u.prior = s.prior
  BY <1>6, <1>11, <1>14
<1> QED BY <1>14, <1>15, <1>16, <1>17, <1>18, <1>19, <1>20 DEF Succeeds

-----------------------------------------------------------------------------
(* The first population.                                                     *)
LEMMA KeptOK ==
    ASSUME NEW trees \in Seq(Trees),
           NEW kept, kept = Picked(trees, UnderLimit(trees, <<>>))
    PROVE  /\ kept \in Seq(Trees) /\ Len(kept) <= Len(trees)
           /\ \A t \in Trees : Copies(kept, t) <= CopyLimit
<1> DEFINE K == UnderLimit(trees, <<>>)
<1>1. K \in SUBSET (1 .. Len(trees))
  BY DEF UnderLimit
<1>2. kept = Picked(trees, K)
  OBVIOUS
<1> HIDE DEF K
<1>3. kept \in Seq(Trees) /\ Len(kept) = Cardinality(K) /\ Cardinality(K) \in 0 .. Len(trees)
  BY <1>1, <1>2, PickedOK
<1>4. ASSUME NEW t \in Trees PROVE Copies(kept, t) <= CopyLimit
  <2> DEFINE Y == {t}
             P == {k \in K : trees[k] = t}
             Q == {n \in DOMAIN kept : kept[n] \in Y}
  <2>1. Copies(kept, t) = Cardinality(Q)
    BY DEF Copies
  <2>2. {k \in K : trees[k] \in Y} = P
    OBVIOUS
  <2>3. Cardinality(Q) <= Cardinality(P)
    <3> HIDE DEF Y
    <3>1. Cardinality({n \in DOMAIN Picked(trees, K) : Picked(trees, K)[n] \in Y})
             <= Cardinality({k \in K : trees[k] \in Y})
      BY <1>1, PickedKinds
    <3> QED BY <1>2, <2>2, <3>1
  <2>4. Cardinality(P) \in Nat /\ Copies(<<>>, t) + Cardinality(P) <= CopyLimit
    <3> USE DEF K
    <3>1. Copies(<<>>, t) <= CopyLimit /\ IsList(<<>>)
      BY CopiesEmpty, EmptyList, VariationAssumption
    <3> QED BY <3>1, UnderLimitOK
  <2>5. IsList(kept) /\ Copies(<<>>, t) = 0 /\ CopyLimit \in Nat
    BY <1>3, SeqIsList, CopiesEmpty, VariationAssumption
  <2>6. Copies(kept, t) \in Nat
    BY <2>5, CopiesNumber
  <2> HIDE DEF P, Q
  <2> QED BY <2>1, <2>3, <2>4, <2>5, <2>6
<1> QED BY <1>3, <1>4

LEMMA NewSearchOK == Sane(NewSearch) /\ Limited(NewSearch) /\ NewSearch.rng = 0
                     /\ NewSearch.cache = <<>> /\ NewSearch.prior = 0
                     /\ NewSearch.generation = 0
<1> DEFINE s == NewSearch
<1>1. /\ s = [f \in SearchFields |-> s[f]]
      /\ s.rng = 0 /\ s.beam = 0 /\ s.frontier = 0 /\ s.lane = 0 /\ s.guide = 0
      /\ s.pending = <<>> /\ s.generation = 0 /\ s.prior = 0 /\ s.population = <<>>
      /\ s.cache = <<>>
  BY DEF NewSearch, SearchFields
<1> HIDE DEF s
<1>2. CacheOK(<<>>)
  <2>1. DOMAIN <<>> = {} /\ <<>> = [t \in DOMAIN <<>> |-> <<>>[t]]
    OBVIOUS
  <2>2. IsFiniteSet({})
    BY FS_EmptySet
  <2> QED BY <2>1, <2>2 DEF CacheOK
<1>3. \A X : <<>> \in Seq(X)
  OBVIOUS
<1>4. Sane(s)
  <2>1. s.pending \in Seq(Trees) /\ s.population \in Seq(Individual) /\ CacheOK(s.cache)
    BY <1>1, <1>2, <1>3
  <2>2. 0 \in Nat
    OBVIOUS
  <2>3. Placed(s)
    BY <1>1, <2>1, <2>2 DEF Placed
  <2> QED BY <1>1, <2>1, <2>2, <2>3 DEF Sane
<1>5. Bodies(<<>>) = <<>>
  BY DEF Bodies
<1>6. Limited(s)
  <2>1. \A t : Copies(Bodies(s.population), t) = 0
    BY <1>1, <1>5, CopiesEmpty
  <2>2. 0 <= CopyLimit
    BY VariationAssumption
  <2> QED BY <2>1, <2>2 DEF Limited
<1> QED BY <1>1, <1>4, <1>6 DEF s

LEMMA CountsAre ==
    ASSUME NEW trees, NEW t \in Trees
    PROVE  CountsOf(trees)[t] = Copies(trees, t)
  BY DEF CountsOf

(* Seeds none, defaults, grown trees, and immigrants for what is left.       *)
FirstTreesOK(r) ==
    /\ r = [f \in {"found", "s", "trees"} |-> r[f]]
    /\ Moved(NewSearch, r.s) /\ r.trees \in Seq(Trees)
    /\ \A t \in Trees : Copies(r.trees, t) <= CopyLimit
    /\ r.found => Len(r.trees) = PopulationSize

LEMMA InitialTreesOK ==
    ASSUME OperationsGiveTrees
    PROVE  FirstTreesOK(InitialTrees(NewSearch, <<>>))
<1> DEFINE s == NewSearch
           capacity == Least(PopulationSize \div 2, PopulationSize - Len(<<>>))
           some == SubSeq(Defaults, 1, Least(capacity, Len(Defaults)))
           missing == PopulationSize - Len(<<>>) - Len(some)
           grown == [k \in 1 .. missing |-> Grown(s.rng + k - 1)]
           wanted == <<>> \o some \o grown
           kept == Picked(wanted, UnderLimit(wanted, <<>>))
           n == PopulationSize - Len(kept)
           base == [found |-> TRUE, s |-> [s EXCEPT !.rng = s.rng + missing], trees |-> kept]
           Step(last) == IF ~last.found THEN last
                         ELSE IF ~Immigrant(last.s, CountsOf(last.trees)).found
                         THEN [last EXCEPT !.found = FALSE]
                         ELSE [last EXCEPT !.s = Immigrant(last.s, CountsOf(last.trees)).s,
                                  !.trees = Append(last.trees,
                                               Immigrant(last.s, CountsOf(last.trees)).tree)]
           First(f) == f = [k \in 0 .. n |-> IF k = 0 THEN base ELSE Step(f[k - 1])]
<1>a. InitialTrees(s, <<>>) = (CHOOSE f : First(f))[n]
  BY DEF InitialTrees
<1>b. Sane(s) /\ s.rng = 0
  BY NewSearchOK
<1>c. some \in Seq(Trees) /\ Len(some) \in Nat /\ missing \in Nat
      /\ missing + Len(some) = PopulationSize
  <2> DEFINE a == Len(Defaults)
             b == PopulationSize \div 2
  <2>1. Defaults \in Seq(Trees) /\ PopulationSize \in Nat /\ Len(<<>>) = 0
    BY VariationAssumption
  <2>2. a \in Nat /\ b \in Nat /\ b <= PopulationSize /\ PopulationSize - 0 = PopulationSize
    BY <2>1
  <2>3. capacity \in 0 .. PopulationSize
    <3> HIDE DEF b
    <3> QED BY <2>1, <2>2 DEF Least, b
  <2> HIDE DEF capacity
  <2>4. Least(capacity, a) \in 0 .. a /\ Least(capacity, a) <= PopulationSize
    BY <2>1, <2>2, <2>3 DEF Least
  <2>5. some \in Seq(Trees) /\ Len(some) = Least(capacity, a)
    BY <2>1, <2>2, <2>4
  <2> HIDE DEF some, a
  <2> DEFINE c == Len(some)
  <2>6. c \in Nat /\ c <= PopulationSize
    BY <2>2, <2>4, <2>5
  <2>7. missing = PopulationSize - 0 - c
    BY <2>1
  <2> HIDE DEF c, missing
  <2>8. c \in Nat /\ missing \in Nat /\ missing + c = PopulationSize
    BY <2>1, <2>6, <2>7
  <2> QED BY <2>5, <2>8 DEF c
<1> HIDE DEF some, missing
<1>d. grown \in Seq(Trees) /\ Len(grown) = missing
  <2>1. ASSUME NEW k \in 1 .. missing PROVE Grown(s.rng + k - 1) \in Trees
    <3>1. s.rng + k - 1 \in Nat
      BY <1>b, <1>c
    <3> QED BY <3>1 DEF OperationsGiveTrees
  <2> QED BY <1>c, <2>1
<1> HIDE DEF grown
<1>e. wanted \in Seq(Trees) /\ Len(wanted) = PopulationSize
  <2>1. <<>> \o some = some
    BY <1>c
  <2>2. wanted = some \o grown
    BY <2>1
  <2>3. some \o grown \in Seq(Trees) /\ Len(some \o grown) = Len(some) + Len(grown)
    BY <1>c, <1>d, Joined
  <2> HIDE DEF wanted
  <2> QED BY <1>c, <1>d, <2>2, <2>3
<1> HIDE DEF wanted
<1>f. /\ kept \in Seq(Trees) /\ Len(kept) <= PopulationSize /\ Len(kept) \in Nat
      /\ \A t \in Trees : Copies(kept, t) <= CopyLimit
  <2>1. kept = Picked(wanted, UnderLimit(wanted, <<>>))
    OBVIOUS
  <2> HIDE DEF kept
  <2>2. /\ kept \in Seq(Trees) /\ Len(kept) <= Len(wanted)
        /\ \A t \in Trees : Copies(kept, t) <= CopyLimit
    BY <1>e, <2>1, KeptOK
  <2> QED BY <1>e, <2>2
<1> HIDE DEF kept
<1>1. n \in Nat /\ n + Len(kept) = PopulationSize
  <2> DEFINE b == Len(kept)
  <2>1. b \in Nat /\ b <= PopulationSize /\ PopulationSize \in Nat
    BY <1>f, VariationAssumption
  <2>2. n = PopulationSize - b
    OBVIOUS
  <2> HIDE DEF b, n
  <2>3. n \in Nat /\ n + b = PopulationSize
    BY <2>1, <2>2
  <2> QED BY <2>3 DEF b
<1>g. Moved(s, base.s)
  <2> DEFINE r == s.rng + missing
  <2>1. r \in Nat
    BY <1>b, <1>c
  <2> HIDE DEF r, s
  <2>2. Moved(s, [s EXCEPT !.rng = r])
    BY <1>b, <2>1, MovedRng
  <2>3. base.s = [s EXCEPT !.rng = r]
    BY DEF r
  <2> QED BY <2>2, <2>3
<1>h. base = [f \in {"found", "s", "trees"} |-> base[f]] /\ base.trees = kept
  OBVIOUS
<1> HIDE DEF n, base, Step, s
<1> DEFINE Gives(f, m) == f = [k \in 0 .. m |-> IF k = 0 THEN base ELSE Step(f[k - 1])]
           Can == {m \in 0 .. n : \E f : Gives(f, m)}
<1>2. 0 \in Can
  <2>1. Gives([k \in {0} |-> base], 0)
    OBVIOUS
  <2>2. \E f : Gives(f, 0)
    BY <2>1
  <2> HIDE DEF Gives
  <2> QED BY <1>1, <2>2
<1>3. ASSUME NEW m \in 1 .. n, m - 1 \in Can PROVE m \in Can
  <2>1. PICK f : Gives(f, m - 1)
    BY <1>3
  <2> DEFINE h == [k \in 0 .. m |-> IF k = m THEN Step(f[m - 1]) ELSE f[k]]
  <2>2. m \in Nat /\ m # 0 /\ m - 1 \in 0 .. m /\ m \in 0 .. m /\ m - 1 # m
    BY <1>1
  <2>3. ASSUME NEW k \in 0 .. m PROVE h[k] = IF k = 0 THEN base ELSE Step(h[k - 1])
    <3>1. CASE k = m
      BY <2>2, <3>1
    <3>2. CASE k # m
      <4>1. k \in 0 .. m - 1 /\ h[k] = f[k]
        BY <2>2, <3>2
      <4>2. k # 0 => h[k - 1] = f[k - 1]
        BY <2>2, <3>2
      <4>3. f[k] = IF k = 0 THEN base ELSE Step(f[k - 1])
        BY <2>1, <4>1
      <4> QED BY <4>1, <4>2, <4>3
    <3> QED BY <3>1, <3>2
  <2>4. h = [k \in 0 .. m |-> h[k]]
    OBVIOUS
  <2> HIDE DEF h
  <2>5. Gives(h, m)
    BY <2>3, <2>4
  <2>6. \E f_ : Gives(f_, m)
    BY <2>5
  <2> HIDE DEF Gives
  <2> QED BY <1>1, <2>6
<1>4. n \in Can
  <2> HIDE DEF Can
  <2>1. 0 .. n \subseteq Can
    BY <1>1, <1>2, <1>3, UpToN
  <2> QED BY <1>1, <2>1
<1> DEFINE more == CHOOSE f : f = [k \in 0 .. n |-> IF k = 0 THEN base ELSE Step(f[k - 1])]
<1>5. more = [k \in 0 .. n |-> IF k = 0 THEN base ELSE Step(more[k - 1])]
  BY <1>4
<1>6. InitialTrees(s, <<>>) = more[n]
  BY <1>a
<1> HIDE DEF more
<1> DEFINE Holds(m, x) == /\ x = [f \in {"found", "s", "trees"} |-> x[f]]
                          /\ Moved(s, x.s) /\ x.trees \in Seq(Trees)
                          /\ \A t \in Trees : Copies(x.trees, t) <= CopyLimit
                          /\ x.found => Len(x.trees) = Len(kept) + m
           Fine == {m \in 0 .. n : Holds(m, more[m])}
<1>7. 0 \in Fine
  <2>1. more[0] = base
    BY <1>1, <1>5
  <2>2. Len(base.trees) = Len(kept) + 0
    BY <1>f, <1>h
  <2>3. Holds(0, base)
    BY <1>f, <1>g, <1>h, <2>2
  <2> QED BY <1>1, <2>1, <2>3
<1>8. ASSUME NEW m \in 1 .. n, m - 1 \in Fine PROVE m \in Fine
  <2> DEFINE x == more[m - 1]
             y == more[m]
             new == Immigrant(x.s, CountsOf(x.trees))
  <2>1. more[m] = Step(more[m - 1])
    BY <1>1, <1>5
  <2>2. y = IF ~x.found THEN x
            ELSE IF ~new.found THEN [x EXCEPT !.found = FALSE]
            ELSE [x EXCEPT !.s = new.s, !.trees = Append(x.trees, new.tree)]
    BY <2>1 DEF Step
  <2>3. Holds(m - 1, x)
    BY <1>8
  <2> HIDE DEF x, y
  <2>4. /\ Moved(s, x.s) /\ x.trees \in Seq(Trees) /\ x = [f \in {"found", "s", "trees"} |-> x[f]]
        /\ \A t \in Trees : Copies(x.trees, t) <= CopyLimit
        /\ x.found => Len(x.trees) = Len(kept) + (m - 1)
    BY <2>3
  <2>5. Sane(x.s)
    BY <1>b, <2>4, MovedOn
  <2>6. new.found => /\ Moved(x.s, new.s) /\ new.tree \in Trees
                     /\ CountsOf(x.trees)[new.tree] < CopyLimit
    BY <2>5, ImmigrantOK
  <2> HIDE DEF new
  <2>7. CASE ~x.found
    <3>1. y = x
      BY <2>2, <2>7
    <3>2. Holds(m, y)
      BY <2>3, <2>7, <3>1
    <3> QED BY <3>2 DEF y
  <2>8. CASE x.found /\ ~new.found
    <3>1. /\ y = [f \in {"found", "s", "trees"} |-> y[f]] /\ y.s = x.s /\ y.trees = x.trees
          /\ ~y.found
      BY <2>2, <2>4, <2>8
    <3>2. Holds(m, y)
      BY <2>4, <3>1
    <3> QED BY <3>2 DEF y
  <2>9. CASE x.found /\ new.found
    <3> DEFINE more_ == Append(x.trees, new.tree)
    <3>1. /\ y = [f \in {"found", "s", "trees"} |-> y[f]] /\ y.s = new.s /\ y.trees = more_
      BY <2>2, <2>4, <2>9
    <3>2. Moved(s, y.s)
      BY <1>b, <2>4, <2>6, <2>9, <3>1, MovedOn
    <3>3. more_ \in Seq(Trees) /\ Len(more_) = Len(x.trees) + 1
      BY <2>4, <2>6, <2>9
    <3>4. ASSUME NEW t \in Trees PROVE Copies(more_, t) <= CopyLimit
      <4>1. IsList(x.trees)
        BY <2>4, SeqIsList
      <4>2. Copies(more_, t) = Copies(x.trees, t) + (IF new.tree = t THEN 1 ELSE 0)
        BY <4>1, CopiesAppended
      <4>3. Copies(x.trees, t) \in Nat /\ CopyLimit \in Nat
        BY <4>1, CopiesNumber, VariationAssumption
      <4>4. Copies(x.trees, new.tree) < CopyLimit
        BY <2>6, <2>9, CountsAre
      <4> HIDE DEF more_
      <4>5. Copies(x.trees, t) <= CopyLimit
        BY <2>4
      <4>6. CASE new.tree = t
        BY <4>2, <4>3, <4>4, <4>6
      <4>7. CASE new.tree # t
        BY <4>2, <4>3, <4>5, <4>7
      <4> QED BY <4>6, <4>7
    <3>5. Len(more_) = Len(kept) + m
      <4> DEFINE b == Len(kept)
                 c == Len(x.trees)
                 d == Len(more_)
      <4>1. b \in Nat /\ c = b + (m - 1) /\ d = c + 1
        BY <1>f, <2>4, <2>9, <3>3
      <4> HIDE DEF b, c, d
      <4>2. d = b + m
        BY <1>1, <4>1
      <4> QED BY <4>2 DEF b, d
    <3> HIDE DEF more_
    <3>6. Holds(m, y)
      BY <3>1, <3>2, <3>3, <3>4, <3>5
    <3> QED BY <3>6 DEF y
  <2> QED BY <2>7, <2>8, <2>9
<1>9. Holds(n, more[n])
  <2> HIDE DEF Fine, Holds
  <2>1. 0 .. n \subseteq Fine
    BY <1>1, <1>7, <1>8, UpToN
  <2>2. n \in Fine
    BY <1>1, <2>1
  <2> QED BY <2>2 DEF Fine
<1>10. Len(kept) + n = PopulationSize
  BY <1>1, <1>f
<1> QED BY <1>6, <1>9, <1>10 DEF FirstTreesOK, s

LEMMA PeopledOK ==
    ASSUME NEW s, Sane(s), NEW trees \in Seq(Trees), NEW a \in Numbering,
           NEW u, u = Peopled(s, trees, a)
    PROVE  /\ Sane(u) /\ u.generation = s.generation /\ u.prior = s.prior
           /\ u.cache = ScoredTogether(s.cache, Range(trees), a)
           /\ Len(u.population) = Len(trees) /\ Bodies(u.population) = trees
           /\ Fits(u.population, u.cache)
<1> DEFINE T == Range(trees)
           w == Scored(s, T, a)
           pop == [i \in DOMAIN trees |->
                     [tree |-> trees[i], fitness |-> w.cache[trees[i]], birth |-> 0,
                      stones |-> {}]]
<1>1. u = [w EXCEPT !.population = pop]
  BY DEF Peopled
<1>2. T \in SUBSET Trees /\ IsFiniteSet(T)
  BY RangeFinite
<1>3. \A i \in DOMAIN trees : trees[i] \in Trees /\ trees[i] \in T
  BY DEF Range
<1> HIDE DEF T
<1>4. Wider(s, w, T) /\ w.cache = ScoredTogether(s.cache, T, a)
  BY <1>2, ScoredOK
<1> HIDE DEF w
<1>5. /\ Sane(w) /\ w.generation = s.generation /\ w.prior = s.prior
      /\ \A t \in T : w.cache[t] \in Nat
  BY <1>4 DEF Wider
<1>6. /\ w = [f \in SearchFields |-> w[f]] /\ w.generation \in Nat /\ w.prior \in Nat
      /\ CacheOK(w.cache)
  BY <1>5, SaneFields
<1>7. ASSUME NEW i \in DOMAIN trees
      PROVE  pop[i] \in Individual /\ pop[i].tree = trees[i]
             /\ pop[i].fitness = w.cache[trees[i]]
  <2> DEFINE n == w.cache[trees[i]]
             t == trees[i]
  <2>1. n \in Nat /\ t \in Trees
    BY <1>3, <1>5
  <2>2. pop[i] = [tree |-> t, fitness |-> n, birth |-> 0, stones |-> {}]
    OBVIOUS
  <2> HIDE DEF n, t, pop
  <2>3. pop[i] \in Individual /\ pop[i].tree = t /\ pop[i].fitness = n
    BY <2>1, <2>2 DEF Individual
  <2> QED BY <2>3 DEF n, t
<1>8. DOMAIN trees = 1 .. Len(trees) /\ Len(trees) \in Nat
  OBVIOUS
<1>9. DOMAIN pop = DOMAIN trees /\ pop = [i \in 1 .. Len(trees) |-> pop[i]]
  BY <1>8
<1> HIDE DEF pop
<1>10. pop \in Seq(Individual) /\ Len(pop) = Len(trees)
  BY <1>7, <1>8, <1>9, ListMade
<1>11. /\ u = [f \in SearchFields |-> u[f]] /\ u.population = pop /\ u.cache = w.cache
       /\ u.generation = w.generation /\ u.prior = w.prior
  BY <1>1, <1>6 DEF SearchFields
<1>12. SameSearch(w, u)
  BY <1>1, <1>6 DEF SearchFields, SameSearch
<1>13. Sane(u)
  BY <1>5, <1>6, <1>10, <1>11, <1>12, SaneAgain
<1>14. Bodies(pop) = trees
  <2>1. trees = [i \in DOMAIN trees |-> trees[i]]
    OBVIOUS
  <2> QED BY <1>7, <1>9, <2>1 DEF Bodies
<1>15. Fits(pop, w.cache)
  BY <1>7, <1>9 DEF Fits
<1> QED BY <1>4, <1>5, <1>10, <1>11, <1>13, <1>14, <1>15 DEF T

LEMMA InitializedOK ==
    ASSUME OperationsGiveTrees, InitialTrees(NewSearch, <<>>).found, NEW a \in Numbering,
           NEW u, u = Initialized(a)
    PROVE  /\ Sane(u) /\ Sized(u) /\ Limited(u) /\ u.generation = 0
           /\ Exact(u, a)
<1> DEFINE first == InitialTrees(NewSearch, <<>>)
           p == Peopled(first.s, first.trees, a)
           v == [p EXCEPT !.pending = Unseen(Defaults, p.cache)]
<1>1. u = Recorded(v, TRUE)
  BY DEF Initialized
<1>2. FirstTreesOK(first) /\ first.found
  BY InitialTreesOK
<1> HIDE DEF first
<1>3. /\ Moved(NewSearch, first.s) /\ first.trees \in Seq(Trees)
      /\ \A t \in Trees : Copies(first.trees, t) <= CopyLimit
      /\ Len(first.trees) = PopulationSize
  BY <1>2 DEF FirstTreesOK
<1>4. Sane(first.s) /\ first.s.cache = <<>> /\ first.s.prior = 0 /\ first.s.generation = 0
  BY <1>3, NewSearchOK, MovedOn DEF Moved
<1>5. /\ Sane(p) /\ p.generation = 0 /\ p.prior = 0
      /\ p.cache = ScoredTogether(<<>>, Range(first.trees), a)
      /\ Len(p.population) = PopulationSize /\ Bodies(p.population) = first.trees
      /\ Fits(p.population, p.cache)
  <2> DEFINE z == first.s
  <2>1. p = Peopled(z, first.trees, a) /\ z.cache = <<>> /\ z.prior = 0 /\ z.generation = 0
        /\ Sane(z)
    BY <1>4
  <2> HIDE DEF p, z
  <2> QED BY <1>3, <2>1, PeopledOK
<1> HIDE DEF p
<1>6. /\ p = [f \in SearchFields |-> p[f]] /\ CacheOK(p.cache) /\ p.population \in Seq(Individual)
  BY <1>5, SaneFields
<1> DEFINE d == Unseen(Defaults, p.cache)
<1>7. d \in Seq(Trees)
  BY UnseenOK, VariationAssumption
<1> HIDE DEF d
<1>8. Moved(p, [p EXCEPT !.pending = d])
  BY <1>5, <1>7, MovedPending
<1>9. v = [p EXCEPT !.pending = d]
  BY DEF d
<1> HIDE DEF v
<1>10. Sane(v) /\ v.population = p.population /\ v.cache = p.cache /\ v.prior = 0
       /\ v.generation = 0
  BY <1>5, <1>8, <1>9, MovedOn DEF Moved
<1>11. /\ Sane(u) /\ u.population = p.population /\ u.cache = p.cache /\ u.prior = 0
       /\ u.generation = 0
  <2>1. Kept(v, u) /\ Sane(u)
    BY <1>1, <1>10, RecordedOK
  <2>2. u.population = v.population /\ u.cache = v.cache /\ u.prior = v.prior
        /\ u.generation = v.generation
    BY <2>1 DEF Kept
  <2> QED BY <1>10, <2>1, <2>2
<1>12. Sized(u) /\ Limited(u)
  <2>1. Bodies(u.population) = first.trees /\ Len(u.population) = PopulationSize
    BY <1>5, <1>11
  <2> QED BY <1>3, <2>1 DEF Sized, Limited
<1>13. Exact(u, a)
  <2>1. DOMAIN u.cache = Range(first.trees)
        /\ \A t \in DOMAIN u.cache : u.cache[t] = a[t]
    BY <1>5, <1>11 DEF ScoredTogether
  <2>2. ASSUME NEW i \in Places(u) PROVE TreeAt(u, i) \in DOMAIN u.cache
    <3>1. i \in DOMAIN u.population
      BY <1>11, MembersOK
    <3>2. u.population[i].tree = first.trees[i] /\ i \in DOMAIN first.trees
      BY <1>5, <1>11, <3>1 DEF Bodies
    <3> QED BY <2>1, <3>2 DEF TreeAt, Range
  <2>3. Fits(u.population, u.cache)
    BY <1>5, <1>11
  <2>4. Given(u.cache, {a})
    BY <2>1 DEF Given
  <2> QED BY <1>11, <2>2, <2>3, <2>4 DEF Exact, ScoredBy, Cached
<1> QED BY <1>11, <1>12, <1>13

-----------------------------------------------------------------------------
(* A session's search.                                                       *)
AskFields == {"step", "target", "measure", "rescore", "seeds", "stop"}
AskSteps == {"idle", "waiting", "loaded", "seeding", "running"}

AskOK(a) ==
    /\ a = [f \in AskFields |-> a[f]] /\ a.step \in AskSteps
    /\ a.target \in 0 .. MaxGenerations /\ a.measure \in Measures
    /\ a.rescore \in BOOLEAN /\ a.seeds \in Seq(Trees)

(* The search that a checkpoint has, with scores and earlier trials given.   *)
AsSearch(c, cache, prior) ==
    [generation |-> c.generation, rng |-> c.rng, population |-> c.population,
     cache |-> cache, prior |-> prior, pending |-> c.pending, beam |-> c.beam,
     frontier |-> c.frontier, lane |-> c.lane, guide |-> c.guide, best |-> c.best,
     stale |-> c.stale]

(* A whole population, of a generation that a session may have.              *)
Whole(s) == Sane(s) /\ Sized(s) /\ s.generation \in 0 .. MaxGenerations

(* The numbers that one evaluator gives, under whatever measure.             *)
Numbers(kernel) == {Score[measure][kernel] : measure \in Measures}

CheckpointOK(c) ==
    /\ Whole(AsSearch(c, c.cache, 0)) /\ c.trials \in Nat /\ c.measure \in Measures
    /\ c.kernel \in Kernels /\ ScoredBy(AsSearch(c, c.cache, 0), Numbers(c.kernel))

GPFields ==
    {"step", "s", "measure", "kernel", "stale", "before", "bred", "todo", "staged"}

(* What a search is at, or goes back to when its generation is cancelled.    *)
Base(h) == IF h.step = "scoring" THEN h.before ELSE h.s

HeldOK(h) ==
    /\ h = [f \in GPFields |-> h[f]]
    /\ h.step \in {"empty", "ready", "outdated", "scoring"} /\ h.measure \in Measures
    /\ h.kernel \in Kernels
    /\ h.stale \in SUBSET Trees /\ IsFiniteSet(h.stale)
    /\ h.step # "empty" => Whole(Base(h))
    /\ h.step \in {"ready", "scoring"} => ScoredBy(Base(h), Numbers(h.kernel))
    /\ h.step = "scoring" =>
          /\ h.bred = Variation(h.before) /\ ~h.bred.stuck /\ h.s = h.bred.s
          /\ h.before.generation < MaxGenerations

(* Which parts of a search a request finds.                                  *)
StepsOK(step, at) ==
    /\ step \in {"idle", "waiting"} => at = "none"
    /\ step \in {"loaded", "seeding"} => at \in {"empty", "ready", "outdated"}
    /\ step = "running" => at \in {"empty", "ready", "outdated", "scoring"}

(* A search that nobody interrupted, of a generation and an evaluator.       *)
Unbroken(z, kernel) ==
    /\ z = Straight[z.generation][kernel] /\ Whole(z) /\ Limited(z)
    /\ Exact(z, Score[FirstMeasure][kernel])

(* Nothing that scores depend on was changed.                                *)
Unaltered ==
    /\ settings = FirstMeasure /\ ask.measure = FirstMeasure /\ ~ask.rescore
    /\ gp.step # "none" => gp.measure = FirstMeasure
    /\ gp.step \in {"ready", "scoring"} => Unbroken(Base(gp), gp.kernel)
    /\ checkpoint # NoCheckpoint =>
          /\ Unbroken(AsSearch(checkpoint, checkpoint.cache, 0), checkpoint.kernel)
          /\ checkpoint.trials = Trials(AsSearch(checkpoint, checkpoint.cache, 0))

SearchInv ==
    /\ settings \in Measures /\ process \in Kernels /\ altered \in BOOLEAN
    /\ AskOK(ask) /\ StepsOK(ask.step, gp.step)
    /\ gp = NoGP \/ HeldOK(gp)
    /\ checkpoint # NoCheckpoint => CheckpointOK(checkpoint)
    /\ gp.step = "empty" => checkpoint = NoCheckpoint /\ gp.s = NewSearch
    /\ checkpoint # NoCheckpoint /\ gp.step \in {"ready", "outdated", "scoring"} =>
          Trials(Base(gp)) >= checkpoint.trials
    /\ ~altered => Unaltered

LEMMA NumbersOK ==
    ASSUME NEW measure \in Measures, NEW kernel \in Kernels
    PROVE  Score[measure][kernel] \in Numbering /\ Score[measure][kernel] \in Numbers(kernel)
<1>1. Score[measure] \in [Kernels -> [Trees -> Nat]]
  BY SearchAssumption
<1>2. Score[measure][kernel] \in [Trees -> Nat]
  BY <1>1
<1> QED BY <1>2 DEF Numbering, Numbers

(* What follows a generation, for each of the evaluators.                    *)
Followed(x) ==
    [kernel \in Kernels |-> Committed(x[kernel].population, Variation(x[kernel]),
                                      Score[FirstMeasure][kernel])]
StraightStart == [kernel \in Kernels |-> Initialized(Score[FirstMeasure][kernel])]

LEMMA StraightIs ==
    /\ Straight[0] = StraightStart
    /\ \A k \in 0 .. MaxGenerations - 1 : Straight[k + 1] = Followed(Straight[k])
<1> DEFINE n == MaxGenerations
           base == StraightStart
           Step(x) == Followed(x)
<1>1. n \in Nat
  BY SearchAssumption
<1>0. Straight = CHOOSE f : f = [k \in 0 .. n |-> IF k = 0 THEN base ELSE Step(f[k - 1])]
  BY DEF Straight, StraightStart, Followed
<1> HIDE DEF n, base, Step
<1> DEFINE Gives(f, m) == f = [k \in 0 .. m |-> IF k = 0 THEN base ELSE Step(f[k - 1])]
           Can == {m \in 0 .. n : \E f : Gives(f, m)}
<1>2. 0 \in Can
  <2>1. Gives([k \in {0} |-> base], 0)
    OBVIOUS
  <2>2. \E f : Gives(f, 0)
    BY <2>1
  <2> HIDE DEF Gives
  <2> QED BY <1>1, <2>2
<1>3. ASSUME NEW m \in 1 .. n, m - 1 \in Can PROVE m \in Can
  <2>1. PICK f : Gives(f, m - 1)
    BY <1>3
  <2> DEFINE h == [k \in 0 .. m |-> IF k = m THEN Step(f[m - 1]) ELSE f[k]]
  <2>2. m \in Nat /\ m # 0 /\ m - 1 \in 0 .. m /\ m \in 0 .. m /\ m - 1 # m
    BY <1>1
  <2>3. ASSUME NEW k \in 0 .. m PROVE h[k] = IF k = 0 THEN base ELSE Step(h[k - 1])
    <3>1. CASE k = m
      BY <2>2, <3>1
    <3>2. CASE k # m
      <4>1. k \in 0 .. m - 1 /\ h[k] = f[k]
        BY <2>2, <3>2
      <4>2. k # 0 => h[k - 1] = f[k - 1]
        BY <2>2, <3>2
      <4>3. f[k] = IF k = 0 THEN base ELSE Step(f[k - 1])
        BY <2>1, <4>1
      <4> QED BY <4>1, <4>2, <4>3
    <3> QED BY <3>1, <3>2
  <2>4. h = [k \in 0 .. m |-> h[k]]
    OBVIOUS
  <2> HIDE DEF h
  <2>5. Gives(h, m)
    BY <2>3, <2>4
  <2>6. \E f_ : Gives(f_, m)
    BY <2>5
  <2> HIDE DEF Gives
  <2> QED BY <1>1, <2>6
<1>4. n \in Can
  <2> HIDE DEF Can
  <2>1. 0 .. n \subseteq Can
    BY <1>1, <1>2, <1>3, UpToN
  <2> QED BY <1>1, <2>1
<1> DEFINE run == CHOOSE f : f = [k \in 0 .. n |-> IF k = 0 THEN base ELSE Step(f[k - 1])]
<1>5. run = [k \in 0 .. n |-> IF k = 0 THEN base ELSE Step(run[k - 1])]
  BY <1>4
<1>6. Straight = run
  BY <1>0
<1> HIDE DEF run
<1>7. Straight[0] = base
  BY <1>1, <1>5, <1>6
<1>8. ASSUME NEW k \in 0 .. n - 1 PROVE Straight[k + 1] = Step(Straight[k])
  <2>1. k + 1 \in 0 .. n /\ k + 1 # 0 /\ (k + 1) - 1 = k
    BY <1>1
  <2> QED BY <1>5, <1>6, <2>1
<1> QED BY <1>7, <1>8 DEF n, base, Step

LEMMA SearchFacts ==
    ASSUME SearchInv
    PROVE  /\ NoGP.step = "none"
           /\ gp.step # "none" => HeldOK(gp)
           /\ gp.step = "none" => gp = NoGP
<1>1. NoGP.step = "none"
  BY DEF NoGP
<1>2. HeldOK(gp) => gp.step # "none"
  BY DEF HeldOK
<1> QED BY <1>1, <1>2 DEF SearchInv

LEMMA NoAskOK ==
    AskOK(NoAsk) /\ NoAsk.step = "idle" /\ NoAsk.measure = FirstMeasure /\ ~NoAsk.rescore
    /\ StepsOK("idle", "none")
<1>1. <<>> \in Seq(Trees) /\ 0 \in 0 .. MaxGenerations /\ FirstMeasure \in Measures
  BY SearchAssumption
<1>2. /\ NoAsk = [f \in AskFields |-> NoAsk[f]]
      /\ NoAsk.step = "idle" /\ NoAsk.target = 0 /\ NoAsk.measure = FirstMeasure
      /\ NoAsk.rescore = FALSE /\ NoAsk.seeds = <<>>
  BY DEF NoAsk, AskFields
<1>3. AskOK(NoAsk)
  BY <1>1, <1>2 DEF AskOK, AskSteps
<1>4. StepsOK("idle", "none")
  BY DEF StepsOK
<1> QED BY <1>2, <1>3, <1>4

LEMMA SearchStart == Init => SearchInv
<1> SUFFICES ASSUME SearchInit PROVE SearchInv
  BY DEF Init
<1>1. /\ gp = NoGP /\ checkpoint = NoCheckpoint /\ settings = FirstMeasure /\ process \in Kernels
      /\ ask = NoAsk /\ altered = FALSE
  BY DEF SearchInit
<1>2. gp.step = "none"
  BY <1>1 DEF NoGP
<1>3. FirstMeasure \in Measures
  BY SearchAssumption
<1>4. Unaltered
  BY <1>1, <1>2, NoAskOK DEF Unaltered
<1> QED BY <1>1, <1>2, <1>3, <1>4, NoAskOK DEF SearchInv

(* The search is dropped from memory, and what is on disk stays.             *)
LEMMA GoneOK ==
    ASSUME SearchInv, Gone, UNCHANGED <<checkpoint, settings, altered>>, process' \in Kernels
    PROVE  SearchInv'
<1>1. gp' = NoGP /\ ask' = NoAsk /\ gp'.step = "none" /\ ask'.step = "idle"
      /\ ask'.measure = FirstMeasure /\ ~ask'.rescore
  BY NoAskOK DEF Gone, NoGP
<1>2. AskOK(ask') /\ StepsOK(ask'.step, gp'.step)
  BY <1>1, NoAskOK
<1>3. Unaltered => Unaltered'
  BY <1>1 DEF Unaltered
<1> QED BY <1>1, <1>2, <1>3 DEF SearchInv

LEMMA PatchMeasureOK ==
    ASSUME SearchInv, NEW measure \in Measures, PatchMeasure(measure)
    PROVE  SearchInv'
  BY DEF SearchInv, PatchMeasure

LEMMA StopSearchOK ==
    ASSUME SearchInv, NEW why, StopSearch(why)
    PROVE  SearchInv'
<1>1. ask' = [ask EXCEPT !.stop = why] /\ UNCHANGED <<gp, checkpoint, settings, process, altered>>
  BY DEF StopSearch
<1>2. AskOK(ask)
  BY DEF SearchInv
<1>3. /\ ask' = [f \in AskFields |-> ask'[f]] /\ ask'.step = ask.step
      /\ ask'.target = ask.target /\ ask'.measure = ask.measure
      /\ ask'.rescore = ask.rescore /\ ask'.seeds = ask.seeds
  BY <1>1, <1>2 DEF AskOK, AskFields
<1>4. AskOK(ask')
  BY <1>2, <1>3 DEF AskOK
<1>5. Unaltered => Unaltered'
  BY <1>1, <1>3 DEF Unaltered
<1> QED BY <1>1, <1>3, <1>4, <1>5 DEF SearchInv

LEMMA ContinueOK ==
    ASSUME SearchInv, NEW measure \in Measures, NEW more \in Nat, NEW seeds \in Seq(Trees),
           Continue(measure, more, seeds)
    PROVE  SearchInv'
<1> DEFINE done == IF checkpoint = NoCheckpoint THEN 0 ELSE checkpoint.generation
           again == measure # settings
           target == done + more
<1>1. /\ ask.step = "idle" /\ target <= MaxGenerations
      /\ ask' = [step |-> "waiting", target |-> target, measure |-> measure,
                 rescore |-> again, seeds |-> seeds, stop |-> "no"]
      /\ settings' = measure /\ altered' = (altered \/ again)
      /\ UNCHANGED <<gp, checkpoint, process>>
  BY DEF Continue
<1>2. gp.step = "none"
  BY <1>1 DEF SearchInv, StepsOK
<1>3. target \in 0 .. MaxGenerations
  <2>1. checkpoint # NoCheckpoint => checkpoint.generation \in Nat
    BY DEF SearchInv, CheckpointOK, Whole, AsSearch
  <2>2. done \in Nat
    BY <2>1
  <2> QED BY <1>1, <2>2, SearchAssumption
<1>4. again \in BOOLEAN
  OBVIOUS
<1> HIDE DEF target, again
<1>5. /\ ask' = [f \in AskFields |-> ask'[f]] /\ ask'.step = "waiting"
      /\ ask'.target = target /\ ask'.measure = measure
      /\ ask'.rescore = again /\ ask'.seeds = seeds
  BY <1>1 DEF AskFields
<1>6. AskOK(ask')
  BY <1>3, <1>4, <1>5 DEF AskOK, AskSteps
<1>7. StepsOK(ask'.step, gp'.step)
  BY <1>1, <1>2, <1>5 DEF StepsOK
<1>8. ~altered' => Unaltered'
  <2>1. ~altered' => ~altered /\ ~again /\ measure = FirstMeasure
    BY <1>1 DEF SearchInv, Unaltered, again
  <2> QED BY <1>1, <1>2, <1>5, <2>1 DEF SearchInv, Unaltered
<1>9. settings' \in Measures /\ altered' \in BOOLEAN
  BY <1>1, <1>4 DEF SearchInv
<1> QED BY <1>1, <1>6, <1>7, <1>8, <1>9 DEF SearchInv

LEMMA AskMoves ==
    ASSUME AskOK(ask), NEW step \in AskSteps, ask' = [ask EXCEPT !.step = step]
    PROVE  /\ AskOK(ask') /\ ask'.step = step /\ ask'.measure = ask.measure
           /\ ask'.rescore = ask.rescore /\ ask'.seeds = ask.seeds
<1>1. /\ ask' = [f \in AskFields |-> ask'[f]] /\ ask'.step = step
      /\ ask'.target = ask.target /\ ask'.measure = ask.measure
      /\ ask'.rescore = ask.rescore /\ ask'.seeds = ask.seeds
  BY DEF AskOK, AskFields
<1> QED BY <1>1 DEF AskOK

LEMMA MaxZero ==
    ASSUME NEW n \in Int
    PROVE  Max({0, n}) = (IF n > 0 THEN n ELSE 0) /\ Max({0, n}) \in Nat
<1> DEFINE S == {0, n}
           m == IF n > 0 THEN n ELSE 0
<1>1. m \in S /\ \A x \in S : m >= x
  OBVIOUS
<1>2. \A y \in S : (\A x \in S : y >= x) => y = m
  BY <1>1
<1> HIDE DEF S, m
<1>3. Max(S) = m
  BY <1>1, <1>2 DEF Max
<1> QED BY <1>3 DEF S, m

LEMMA AsSearchFields ==
    ASSUME NEW c, NEW d, NEW p, NEW s, s = AsSearch(c, d, p)
    PROVE  /\ s = [f \in SearchFields |-> s[f]]
           /\ s.generation = c.generation /\ s.rng = c.rng /\ s.population = c.population
           /\ s.cache = d /\ s.prior = p /\ s.pending = c.pending /\ s.beam = c.beam
           /\ s.frontier = c.frontier /\ s.lane = c.lane /\ s.guide = c.guide
           /\ s.best = c.best /\ s.stale = c.stale
  BY DEF AsSearch, SearchFields

LEMMA AsSearchOK ==
    ASSUME NEW c, Whole(AsSearch(c, c.cache, 0)), NEW d, CacheOK(d), NEW p \in Nat
    PROVE  /\ Whole(AsSearch(c, d, p)) /\ CacheOK(c.cache)
           /\ Trials(AsSearch(c, d, p)) = p + Cardinality(DOMAIN d)
           /\ c.generation \in 0 .. MaxGenerations /\ Len(c.population) = PopulationSize
<1> DEFINE a == AsSearch(c, c.cache, 0)
           b == AsSearch(c, d, p)
<1>1. Sane(a) /\ Sized(a) /\ a.generation \in 0 .. MaxGenerations
  BY DEF Whole
<1>2. /\ b = [f \in SearchFields |-> b[f]] /\ b.cache = d /\ b.prior = p
      /\ b.generation = a.generation /\ b.population = a.population
      /\ a.generation = c.generation /\ a.population = c.population /\ a.cache = c.cache
  BY AsSearchFields
<1>3. SameSearch(a, b)
  BY AsSearchFields DEF SameSearch
<1> HIDE DEF a, b
<1>4. a.generation \in Nat /\ a.population \in Seq(Individual) /\ CacheOK(a.cache)
  BY <1>1, SaneFields
<1>5. Sane(b)
  BY <1>1, <1>2, <1>3, <1>4, SaneAgain
<1>6. Whole(b)
  BY <1>1, <1>2, <1>5 DEF Whole, Sized
<1>7. Trials(b) = p + Cardinality(DOMAIN d)
  BY <1>2 DEF Trials
<1> QED BY <1>1, <1>2, <1>4, <1>6, <1>7 DEF a, b, Sized

LEMMA HeldFields ==
    ASSUME NEW s, NEW m, NEW k, NEW h, h = Held(s, m, k)
    PROVE  /\ h = [f \in GPFields |-> h[f]]
           /\ h.step = "ready" /\ h.s = s /\ h.measure = m /\ h.kernel = k /\ h.stale = {}
  BY DEF Held, GPFields

LEMMA EmptyCacheOK == CacheOK(<<>>) /\ Cardinality(DOMAIN <<>>) = 0
<1>1. CacheOK(NewSearch.cache) /\ NewSearch.cache = <<>>
  BY NewSearchOK, SaneFields
<1>2. DOMAIN <<>> = {}
  OBVIOUS
<1> QED BY <1>1, <1>2, FS_EmptySet

(* What a checkpoint becomes in memory.                                      *)
LEMMA RestoredIs ==
    ASSUME NEW c, CheckpointOK(c), NEW kernel, NEW h, h = Restored(c, kernel)
    PROVE  /\ h = [f \in GPFields |-> h[f]] /\ h.stale \in SUBSET Trees /\ IsFiniteSet(h.stale)
           /\ Whole(h.s) /\ Trials(h.s) >= c.trials /\ CacheOK(c.cache)
           /\ h.kernel = kernel
           /\ \/ /\ h.step = "ready" /\ c.kernel = kernel
                 /\ h.s = AsSearch(c, c.cache, Max({0, c.trials - Cardinality(DOMAIN c.cache)}))
              \/ h.step = "outdated"
<1> DEFINE same == c.kernel = kernel
           n == Cardinality(DOMAIN c.cache)
           cache == IF same THEN c.cache ELSE <<>>
           prior == IF same THEN Max({0, c.trials - n}) ELSE c.trials
           s == AsSearch(c, cache, prior)
           held == Held(s, c.measure, kernel)
<1>1. h = [held EXCEPT !.stale = IF same THEN {} ELSE DOMAIN c.cache,
                       !.step = IF same THEN "ready" ELSE "outdated"]
  BY DEF Restored, AsSearch
<1>2. Whole(AsSearch(c, c.cache, 0)) /\ c.trials \in Nat
  BY DEF CheckpointOK
<1>3. CacheOK(c.cache) /\ CacheOK(<<>>)
  <2>1. Sane(AsSearch(c, c.cache, 0)) /\ AsSearch(c, c.cache, 0).cache = c.cache
    BY <1>2, AsSearchFields DEF Whole
  <2> QED BY <2>1, SaneFields, EmptyCacheOK
<1>4. n \in Nat
  BY <1>3, FS_CardinalityType DEF CacheOK
<1> HIDE DEF n
<1>5. /\ Max({0, c.trials - n}) \in Nat /\ Max({0, c.trials - n}) + n >= c.trials
  <2>1. c.trials - n \in Int
    BY <1>2, <1>4
  <2>2. Max({0, c.trials - n}) = (IF c.trials - n > 0 THEN c.trials - n ELSE 0)
        /\ Max({0, c.trials - n}) \in Nat
    BY <2>1, MaxZero
  <2> QED BY <1>2, <1>4, <2>2
<1>6. CacheOK(cache) /\ prior \in Nat
  BY <1>2, <1>3, <1>5
<1>7. prior + Cardinality(DOMAIN cache) >= c.trials
  BY <1>2, <1>5, EmptyCacheOK DEF n
<1>8. cache = (IF same THEN c.cache ELSE <<>>)
      /\ prior = (IF same THEN Max({0, c.trials - n}) ELSE c.trials)
  OBVIOUS
<1> HIDE DEF cache, prior
<1>9. Whole(s) /\ Trials(s) >= c.trials
  BY <1>2, <1>6, <1>7, AsSearchOK
<1> HIDE DEF s
<1>10. held = [f \in GPFields |-> held[f]] /\ held.s = s
       /\ held.kernel = kernel
  BY HeldFields
<1> HIDE DEF held
<1>11. /\ h = [f \in GPFields |-> h[f]] /\ h.s = s /\ h.kernel = kernel
       /\ h.step = (IF same THEN "ready" ELSE "outdated")
       /\ h.stale = (IF same THEN {} ELSE DOMAIN c.cache)
  BY <1>1, <1>10 DEF GPFields
<1>12. h.stale \in SUBSET Trees /\ IsFiniteSet(h.stale)
  BY <1>3, <1>11, FS_EmptySet DEF CacheOK
<1>13. CASE same
  BY <1>3, <1>8, <1>9, <1>11, <1>12, <1>13 DEF s, n
<1>14. CASE ~same
  BY <1>3, <1>9, <1>11, <1>12, <1>14
<1> QED BY <1>13, <1>14

LEMMA LoadSearchOK ==
    ASSUME SearchInv, LoadSearch
    PROVE  SearchInv'
<1>1. /\ ask.step = "waiting" /\ ask' = [ask EXCEPT !.step = "loaded"]
      /\ UNCHANGED <<checkpoint, settings, process, altered>>
  BY DEF LoadSearch
<1>2. AskOK(ask) /\ (checkpoint # NoCheckpoint => CheckpointOK(checkpoint))
  BY DEF SearchInv
<1>3. /\ AskOK(ask') /\ ask'.step = "loaded" /\ ask'.measure = ask.measure
      /\ ask'.rescore = ask.rescore
  BY <1>1, <1>2, AskMoves DEF AskSteps
<1>4. ask.measure \in Measures
  BY <1>2 DEF AskOK
<1>5. CASE checkpoint = NoCheckpoint
  <2> DEFINE h == Held(NewSearch, ask.measure, KernelFor(process, ask.measure))
  <2>1. gp' = [h EXCEPT !.step = "empty"]
    BY <1>5 DEF LoadSearch
  <2>2. h = [f \in GPFields |-> h[f]] /\ h.s = NewSearch /\ h.measure = ask.measure
        /\ h.stale = {} /\ h.kernel = KernelFor(process, ask.measure)
    BY HeldFields
  <2> HIDE DEF h
  <2>3. /\ gp' = [f \in GPFields |-> gp'[f]] /\ gp'.step = "empty" /\ gp'.s = NewSearch
        /\ gp'.measure = ask.measure /\ gp'.stale = {} /\ gp'.kernel \in Kernels
    BY <1>4, <2>1, <2>2, SearchAssumption DEF GPFields, SearchInv
  <2>4. HeldOK(gp')
    BY <1>4, <2>3, FS_EmptySet DEF HeldOK
  <2>5. StepsOK(ask'.step, gp'.step)
    BY <1>3, <2>3 DEF StepsOK
  <2>6. Unaltered => Unaltered'
    BY <1>1, <1>3, <1>5, <2>3 DEF Unaltered
  <2> QED BY <1>1, <1>3, <1>5, <2>3, <2>4, <2>5, <2>6 DEF SearchInv
<1>6. CASE checkpoint # NoCheckpoint
  <2> DEFINE c == checkpoint
             kernel == KernelFor(process, c.measure)
             h == Restored(c, kernel)
             z == AsSearch(c, c.cache, 0)
             n == Cardinality(DOMAIN c.cache)
  <2>1. gp' = [h EXCEPT !.measure = ask.measure]
    BY <1>6 DEF LoadSearch
  <2>2. CheckpointOK(c)
    BY <1>2, <1>6
  <2>3. /\ h = [f \in GPFields |-> h[f]] /\ h.stale \in SUBSET Trees /\ IsFiniteSet(h.stale)
        /\ Whole(h.s) /\ Trials(h.s) >= c.trials /\ CacheOK(c.cache) /\ h.kernel = kernel
        /\ \/ /\ h.step = "ready" /\ c.kernel = kernel
              /\ h.s = AsSearch(c, c.cache, Max({0, c.trials - n}))
           \/ h.step = "outdated"
    <3> HIDE DEF c, kernel
    <3> QED BY <2>2, RestoredIs
  <2>k. kernel \in Kernels
    BY <2>2, SearchAssumption DEF CheckpointOK, SearchInv
  <2> HIDE DEF h, kernel
  <2>4. /\ gp' = [f \in GPFields |-> gp'[f]] /\ gp'.step = h.step /\ gp'.s = h.s
        /\ gp'.measure = ask.measure /\ gp'.stale = h.stale /\ gp'.kernel = kernel
    BY <2>1, <2>3 DEF GPFields
  <2>5. gp'.step \in {"ready", "outdated"} /\ Base(gp') = h.s
    BY <2>3, <2>4 DEF Base
  <2>s. ASSUME gp'.step = "ready" PROVE ScoredBy(h.s, Numbers(kernel))
    <3>1. c.kernel = kernel /\ h.s = AsSearch(c, c.cache, Max({0, c.trials - n}))
      BY <2>3, <2>4, <2>s
    <3>2. ScoredBy(z, Numbers(kernel))
      BY <2>2, <3>1 DEF CheckpointOK
    <3>3. h.s.cache = z.cache /\ h.s.population = z.population
      BY <3>1, AsSearchFields
    <3> QED BY <3>2, <3>3, ScoredByAgain
  <2>6. HeldOK(gp')
    BY <1>4, <2>3, <2>4, <2>5, <2>k, <2>s DEF HeldOK
  <2>7. StepsOK(ask'.step, gp'.step)
    BY <1>3, <2>5 DEF StepsOK
  <2>8. ASSUME Unaltered PROVE Unaltered'
    <3>1. Unbroken(z, c.kernel) /\ c.trials = Trials(z) /\ ask.measure = FirstMeasure
      BY <1>6, <2>8 DEF Unaltered
    <3>2. /\ z = [f \in SearchFields |-> z[f]]
          /\ z.generation = c.generation /\ z.cache = c.cache /\ z.prior = 0
      BY AsSearchFields
    <3>3. n \in Nat /\ c.trials = n
      <4>1. Trials(z) = 0 + n
        BY <3>2 DEF Trials
      <4>2. n \in Nat
        BY <2>3, FS_CardinalityType DEF CacheOK
      <4> QED BY <3>1, <4>1, <4>2
    <3>4. CASE h.step = "ready"
      <4>1. Max({0, c.trials - n}) = 0
        <5>1. c.trials - n = 0
          BY <3>3
        <5> QED BY <5>1, MaxZero
      <4>2. h.s = z
        BY <2>3, <3>4, <4>1
      <4>3. Unbroken(Base(gp'), gp'.kernel) /\ gp'.step = "ready"
        BY <2>3, <2>4, <2>5, <3>1, <3>4, <4>2
      <4> QED BY <1>1, <1>3, <2>4, <2>8, <3>1, <4>3 DEF Unaltered
    <3>5. CASE h.step = "outdated"
      BY <1>1, <1>3, <2>3, <2>4, <2>8, <3>1, <3>5 DEF Unaltered
    <3> QED BY <2>3, <3>4, <3>5
  <2>9. Trials(Base(gp')) >= checkpoint'.trials
    BY <1>1, <2>3, <2>5
  <2> QED BY <1>1, <1>3, <1>6, <2>2, <2>5, <2>6, <2>7, <2>8, <2>9 DEF SearchInv
<1> QED BY <1>5, <1>6

LEMMA KeepScoresOK ==
    ASSUME SearchInv, KeepScores
    PROVE  SearchInv'
<1>1. /\ ask.step = "loaded" /\ ask' = [ask EXCEPT !.step = "seeding"]
      /\ UNCHANGED <<gp, checkpoint, settings, process, altered>>
  BY DEF KeepScores
<1>2. /\ AskOK(ask') /\ ask'.step = "seeding" /\ ask'.measure = ask.measure
      /\ ask'.rescore = ask.rescore
  BY <1>1, AskMoves DEF AskSteps, SearchInv
<1>3. StepsOK(ask'.step, gp'.step)
  BY <1>1, <1>2 DEF StepsOK, SearchInv
<1>4. Unaltered => Unaltered'
  BY <1>1, <1>2 DEF Unaltered
<1> QED BY <1>1, <1>2, <1>3, <1>4 DEF SearchInv

(* What changes is the search itself, and it is still whole.                 *)
LEMMA HeldGoesOn ==
    ASSUME SearchInv, gp.step # "none", UNCHANGED <<checkpoint, settings, process, altered>>,
           AskOK(ask'), ask'.measure = ask.measure, ask'.rescore = ask.rescore,
           StepsOK(ask'.step, gp'.step),
           HeldOK(gp'), gp'.step # "empty", gp'.measure = gp.measure,
           checkpoint # NoCheckpoint =>
              /\ gp.step # "empty"
              /\ Trials(Base(gp)) >= checkpoint.trials => Trials(Base(gp')) >= checkpoint.trials,
           Unaltered => (gp'.step \in {"ready", "scoring"} => Unbroken(Base(gp'), gp'.kernel))
    PROVE  SearchInv'
<1>1. HeldOK(gp)
  BY SearchFacts
<1>2. checkpoint # NoCheckpoint => Trials(Base(gp)) >= checkpoint.trials
  BY <1>1 DEF SearchInv, HeldOK
<1>3. Unaltered => Unaltered'
  BY DEF Unaltered
<1> QED BY <1>2, <1>3 DEF SearchInv

LEMMA InitializeOK ==
    ASSUME OperationsGiveTrees, SearchInv, Initialize
    PROVE  SearchInv'
<1> DEFINE a == GPScore
           u == Initialized(a)
<1>1. /\ ask.step = "running" /\ gp.step = "empty" /\ InitialTrees(NewSearch, <<>>).found
      /\ gp' = [gp EXCEPT !.step = "ready", !.s = u]
      /\ UNCHANGED <<checkpoint, settings, process, ask, altered>>
  BY DEF Initialize
<1>2. HeldOK(gp) /\ checkpoint = NoCheckpoint /\ AskOK(ask)
  BY <1>1, SearchFacts DEF SearchInv
<1>3. gp.measure \in Measures /\ gp.kernel \in Kernels /\ gp = [f \in GPFields |-> gp[f]]
      /\ gp.stale \in SUBSET Trees /\ IsFiniteSet(gp.stale)
  BY <1>2 DEF HeldOK
<1>4. /\ u = Initialized(a) /\ a = Score[gp.measure][gp.kernel]
      /\ a \in Numbering /\ a \in Numbers(gp.kernel)
  BY <1>3, NumbersOK DEF GPScore
<1> HIDE DEF a, u
<1>5. /\ Sane(u) /\ Sized(u) /\ Limited(u) /\ u.generation = 0
      /\ Exact(u, a)
  BY <1>1, <1>4, InitializedOK
<1>6. /\ gp' = [f \in GPFields |-> gp'[f]] /\ gp'.step = "ready" /\ gp'.s = u
      /\ gp'.measure = gp.measure /\ gp'.stale = gp.stale /\ gp'.kernel = gp.kernel
  BY <1>1, <1>3 DEF GPFields
<1>7. Whole(u)
  BY <1>5, SearchAssumption DEF Whole
<1>8. Base(gp') = u
  BY <1>6 DEF Base
<1>s. ScoredBy(u, Numbers(gp.kernel))
  BY <1>4, <1>5, ScoredByMore DEF Exact
<1>9. HeldOK(gp')
  BY <1>3, <1>6, <1>7, <1>8, <1>s DEF HeldOK
<1>10. StepsOK(ask'.step, gp'.step)
  BY <1>1, <1>6 DEF StepsOK
<1>11. ASSUME Unaltered PROVE Unbroken(u, gp.kernel)
  <2>1. gp.measure = FirstMeasure
    BY <1>1, <1>11 DEF Unaltered
  <2>2. u = Straight[0][gp.kernel]
    BY <1>3, <1>4, <2>1, StraightIs DEF StraightStart
  <2> QED BY <1>4, <1>5, <1>7, <2>1, <2>2 DEF Unbroken
<1> QED BY <1>1, <1>2, <1>6, <1>8, <1>9, <1>10, <1>11, HeldGoesOn

LEMMA PopulationThere ==
    ASSUME NEW s, Whole(s)
    PROVE  Sane(s) /\ s.population # <<>>
<1>1. Len(s.population) = PopulationSize /\ PopulationSize # 0 /\ Sane(s)
  BY VariationAssumption DEF Whole, Sized
<1> QED BY <1>1

LEMMA BreedGenerationOK ==
    ASSUME SearchInv, BreedGeneration
    PROVE  SearchInv'
<1> DEFINE g == Variation(gp.s)
           todo == SetToSeq({g.offspring[k].tree : k \in DOMAIN g.offspring} \ DOMAIN gp.s.cache)
<1>1. /\ ask.step = "running" /\ gp.step = "ready" /\ gp.s.generation < ask.target /\ ~g.stuck
      /\ gp' = [gp EXCEPT !.step = "scoring", !.s = g.s, !.before = gp.s, !.bred = g,
                          !.todo = todo, !.staged = {}]
      /\ UNCHANGED <<checkpoint, settings, process, ask, altered>>
  BY DEF BreedGeneration
<1>2. HeldOK(gp) /\ AskOK(ask)
  BY <1>1, SearchFacts DEF SearchInv
<1>3. /\ gp.measure \in Measures /\ gp.kernel \in Kernels
      /\ ScoredBy(gp.s, Numbers(gp.kernel))
      /\ gp = [f \in GPFields |-> gp[f]] /\ Base(gp) = gp.s
      /\ gp.stale \in SUBSET Trees /\ IsFiniteSet(gp.stale) /\ Whole(gp.s)
  BY <1>1, <1>2 DEF HeldOK, Base
<1>4. g = Variation(gp.s)
  OBVIOUS
<1> HIDE DEF g, todo
<1>5. /\ gp' = [f \in GPFields |-> gp'[f]] /\ gp'.step = "scoring" /\ gp'.s = g.s
      /\ gp'.before = gp.s /\ gp'.bred = g
      /\ gp'.measure = gp.measure /\ gp'.stale = gp.stale /\ gp'.kernel = gp.kernel
  BY <1>1, <1>3 DEF GPFields
<1>6. Base(gp') = gp.s
  BY <1>5 DEF Base
<1>7. gp.s.generation < MaxGenerations
  <2>1. ask.target \in 0 .. MaxGenerations /\ gp.s.generation \in Nat
    BY <1>2, <1>3 DEF AskOK, Whole
  <2> QED BY <1>1, <2>1, SearchAssumption
<1>8. HeldOK(gp')
  BY <1>1, <1>3, <1>4, <1>5, <1>6, <1>7 DEF HeldOK
<1>9. StepsOK(ask'.step, gp'.step)
  BY <1>1, <1>5 DEF StepsOK
<1>10. Unaltered => Unbroken(Base(gp'), gp'.kernel)
  BY <1>1, <1>3, <1>5, <1>6 DEF Unaltered
<1> QED BY <1>1, <1>2, <1>3, <1>5, <1>6, <1>8, <1>9, <1>10, HeldGoesOn

LEMMA ScoreChunkOK ==
    ASSUME SearchInv, ScoreChunk
    PROVE  SearchInv'
<1> DEFINE n == Least(ChunkSize, Len(gp.todo))
           staged == gp.staged \cup Range(SubSeq(gp.todo, 1, n))
           todo == SubSeq(gp.todo, n + 1, Len(gp.todo))
<1>1. /\ gp.step = "scoring" /\ gp' = [gp EXCEPT !.staged = staged, !.todo = todo]
      /\ UNCHANGED <<checkpoint, settings, process, ask, altered>>
  BY DEF ScoreChunk
<1> HIDE DEF n, staged, todo
<1>2. HeldOK(gp) /\ AskOK(ask) /\ StepsOK(ask.step, gp.step)
  BY <1>1, SearchFacts DEF SearchInv
<1>3. gp = [f \in GPFields |-> gp[f]]
  BY <1>2 DEF HeldOK
<1>4. /\ gp' = [f \in GPFields |-> gp'[f]] /\ gp'.step = gp.step /\ gp'.s = gp.s
      /\ gp'.before = gp.before /\ gp'.bred = gp.bred
      /\ gp'.measure = gp.measure /\ gp'.stale = gp.stale /\ gp'.kernel = gp.kernel
  BY <1>1, <1>3 DEF GPFields
<1>5. Base(gp') = Base(gp)
  BY <1>4 DEF Base
<1>6. HeldOK(gp')
  BY <1>2, <1>4, <1>5 DEF HeldOK
<1>7. Unaltered => Unbroken(Base(gp'), gp'.kernel)
  BY <1>1, <1>4, <1>5 DEF Unaltered
<1> QED BY <1>1, <1>2, <1>4, <1>5, <1>6, <1>7, HeldGoesOn

LEMMA CheckpointNumber ==
    ASSUME SearchInv, checkpoint # NoCheckpoint
    PROVE  checkpoint.trials \in Nat
  BY DEF SearchInv, CheckpointOK

(* A generation under way was bred from a whole population.                  *)
LEMMA ScoringFacts ==
    ASSUME OperationsGiveTrees, SearchInv, gp.step = "scoring"
    PROVE  /\ HeldOK(gp) /\ gp = [f \in GPFields |-> gp[f]] /\ gp.measure \in Measures
           /\ gp.kernel \in Kernels /\ ScoredBy(gp.before, Numbers(gp.kernel))
           /\ gp.stale \in SUBSET Trees /\ IsFiniteSet(gp.stale)
           /\ Whole(gp.before) /\ Base(gp) = gp.before /\ gp.before.generation < MaxGenerations
           /\ gp.bred = Variation(gp.before) /\ BreedingOK(gp.before, gp.bred)
           /\ Len(gp.bred.elite) + Len(gp.bred.stones) + Len(gp.bred.offspring) = PopulationSize
           /\ gp.s = gp.bred.s /\ Moved(gp.before, gp.s) /\ StepsOK(ask.step, "scoring")
           /\ AskOK(ask) /\ ask.step = "running"
<1>1. HeldOK(gp) /\ AskOK(ask) /\ StepsOK(ask.step, gp.step)
  BY SearchFacts DEF SearchInv
<1>2. /\ gp = [f \in GPFields |-> gp[f]] /\ gp.measure \in Measures
      /\ gp.kernel \in Kernels /\ ScoredBy(gp.before, Numbers(gp.kernel))
      /\ gp.stale \in SUBSET Trees /\ IsFiniteSet(gp.stale)
      /\ Whole(gp.before) /\ Base(gp) = gp.before /\ gp.before.generation < MaxGenerations
      /\ gp.bred = Variation(gp.before) /\ ~gp.bred.stuck /\ gp.s = gp.bred.s
  BY <1>1 DEF HeldOK, Base
<1>3. Sane(gp.before) /\ gp.before.population # <<>>
  BY <1>2, PopulationThere
<1>4. /\ BreedingOK(gp.before, gp.bred)
      /\ Len(gp.bred.elite) + Len(gp.bred.stones) + Len(gp.bred.offspring) = PopulationSize
  <2> DEFINE b == gp.before
             g == gp.bred
  <2>1. g = Variation(b) /\ ~g.stuck /\ Sane(b) /\ b.population # <<>>
    BY <1>2, <1>3
  <2> HIDE DEF b, g
  <2>2. BreedingOK(b, g) /\ Len(g.elite) + Len(g.stones) + Len(g.offspring) = PopulationSize
    BY <2>1, VariationOK
  <2> QED BY <2>2 DEF b, g
<1>5. Moved(gp.before, gp.s)
  BY <1>2, <1>4 DEF BreedingOK
<1>6. ask.step = "running"
  BY <1>1 DEF StepsOK, AskOK, AskSteps
<1> QED BY <1>1, <1>2, <1>4, <1>5, <1>6

LEMMA CommitGenerationOK ==
    ASSUME OperationsGiveTrees, SearchInv, CommitGeneration
    PROVE  SearchInv'
<1> DEFINE b == gp.before
           a == GPScore
           u == Committed(gp.s.population, gp.bred, a)
<1>1. /\ gp.step = "scoring"
      /\ gp' = [gp EXCEPT !.step = "ready", !.before = <<>>, !.bred = <<>>, !.staged = {},
                          !.s = u]
      /\ UNCHANGED <<checkpoint, settings, process, ask, altered>>
  BY DEF CommitGeneration
<1>2. /\ HeldOK(gp) /\ gp = [f \in GPFields |-> gp[f]] /\ gp.measure \in Measures
      /\ gp.kernel \in Kernels /\ ScoredBy(b, Numbers(gp.kernel))
      /\ gp.stale \in SUBSET Trees /\ IsFiniteSet(gp.stale)
      /\ Whole(b) /\ Base(gp) = b /\ b.generation < MaxGenerations
      /\ gp.bred = Variation(b) /\ BreedingOK(b, gp.bred)
      /\ Len(gp.bred.elite) + Len(gp.bred.stones) + Len(gp.bred.offspring) = PopulationSize
      /\ Moved(b, gp.s) /\ AskOK(ask) /\ ask.step = "running"
  BY <1>1, ScoringFacts
<1>3. /\ u = Committed(b.population, gp.bred, a) /\ a = Score[gp.measure][gp.kernel]
      /\ a \in Numbering /\ a \in Numbers(gp.kernel)
  BY <1>2, NumbersOK DEF Moved, GPScore
<1>4. Sane(b) /\ b.generation \in 0 .. MaxGenerations
  BY <1>2 DEF Whole
<1> HIDE DEF b, u, a
<1>5. /\ Sane(u) /\ Sized(u) /\ Limited(u) /\ u.generation = b.generation + 1
      /\ Trials(u) >= Trials(b) /\ u.prior = b.prior
      /\ \A V : a \in V /\ ScoredBy(b, V) => ScoredBy(u, V)
  <2> DEFINE g == gp.bred
  <2>1. /\ u = Committed(b.population, g, a) /\ Sane(b) /\ BreedingOK(b, g)
        /\ Len(g.elite) + Len(g.stones) + Len(g.offspring) = PopulationSize
    BY <1>2, <1>3, <1>4
  <2> HIDE DEF g
  <2>2. Succeeds(b, a, u)
    BY <1>3, <2>1, CommittedOK
  <2> QED BY <2>2 DEF Succeeds
<1>6. /\ gp' = [f \in GPFields |-> gp'[f]] /\ gp'.step = "ready" /\ gp'.s = u
      /\ gp'.measure = gp.measure /\ gp'.stale = gp.stale /\ gp'.kernel = gp.kernel
  BY <1>1, <1>2 DEF GPFields
<1>7. b.generation + 1 \in 0 .. MaxGenerations /\ b.generation \in 0 .. MaxGenerations - 1
  BY <1>2, <1>4, SearchAssumption
<1>8. Whole(u) /\ Base(gp') = u
  BY <1>5, <1>6, <1>7 DEF Whole, Base
<1>s. ScoredBy(u, Numbers(gp.kernel))
  BY <1>2, <1>3, <1>5
<1>9. HeldOK(gp')
  BY <1>2, <1>6, <1>8, <1>s DEF HeldOK
<1>10. StepsOK(ask'.step, gp'.step)
  BY <1>1, <1>2, <1>6 DEF StepsOK
<1>11. ASSUME Unaltered PROVE Unbroken(u, gp.kernel)
  <2>1. Unbroken(b, gp.kernel) /\ gp.measure = FirstMeasure
    BY <1>1, <1>2, <1>11 DEF Unaltered
  <2>2. b = Straight[b.generation][gp.kernel]
    BY <2>1 DEF Unbroken
  <2>3. u = Straight[b.generation + 1][gp.kernel]
    <3> DEFINE k == b.generation
    <3>1. k \in 0 .. MaxGenerations - 1 /\ b = Straight[k][gp.kernel]
      BY <1>7, <2>2
    <3> HIDE DEF k
    <3>2. Straight[k + 1] = Followed(Straight[k])
      BY <3>1, StraightIs
    <3>4. Straight[k + 1][gp.kernel] =
             Committed(Straight[k][gp.kernel].population, Variation(Straight[k][gp.kernel]),
                       Score[FirstMeasure][gp.kernel])
      BY <1>2, <3>2 DEF Followed
    <3>3. Straight[k + 1][gp.kernel] = u
      BY <1>2, <1>3, <2>1, <3>1, <3>4
    <3> QED BY <3>3 DEF k
  <2>4. Exact(u, a)
    <3>1. b.prior = 0 /\ ScoredBy(b, {a})
      BY <1>3, <2>1 DEF Unbroken, Exact
    <3> QED BY <1>5, <3>1 DEF Exact
  <2> QED BY <1>3, <1>5, <1>8, <2>1, <2>3, <2>4 DEF Unbroken
<1>12. checkpoint # NoCheckpoint /\ Trials(Base(gp)) >= checkpoint.trials =>
          Trials(Base(gp')) >= checkpoint.trials
  <2>1. Trials(b) \in Nat /\ Trials(u) \in Nat
    BY <1>4, <1>5, TrialsOK
  <2> QED BY <1>2, <1>5, <1>8, <2>1, CheckpointNumber
<1> QED BY <1>1, <1>2, <1>6, <1>8, <1>9, <1>10, <1>11, <1>12, HeldGoesOn

LEMMA CancelGenerationOK ==
    ASSUME OperationsGiveTrees, SearchInv, CancelGeneration
    PROVE  SearchInv'
<1> DEFINE b == gp.before
           s == gp.s
           u == [s EXCEPT !.rng = b.rng, !.pending = b.pending, !.beam = b.beam,
                          !.frontier = b.frontier, !.lane = b.lane, !.guide = b.guide]
<1>1. /\ gp.step = "scoring"
      /\ gp' = [gp EXCEPT !.step = "ready", !.before = <<>>, !.bred = <<>>, !.todo = <<>>,
                          !.staged = {}, !.s = u]
      /\ UNCHANGED <<checkpoint, settings, process, ask, altered>>
  BY DEF CancelGeneration
<1>2. /\ HeldOK(gp) /\ gp = [f \in GPFields |-> gp[f]] /\ gp.measure \in Measures
      /\ gp.kernel \in Kernels /\ ScoredBy(b, Numbers(gp.kernel))
      /\ gp.stale \in SUBSET Trees /\ IsFiniteSet(gp.stale)
      /\ Whole(b) /\ Base(gp) = b /\ Moved(b, s) /\ AskOK(ask) /\ ask.step = "running"
  BY <1>1, ScoringFacts
<1> HIDE DEF b, s
<1>3. /\ b = [f \in SearchFields |-> b[f]] /\ s = [f \in SearchFields |-> s[f]]
      /\ s.generation = b.generation /\ s.population = b.population /\ s.cache = b.cache
      /\ s.prior = b.prior /\ s.best = b.best /\ s.stale = b.stale
  BY <1>2 DEF Whole, Sane, Moved, Placed
<1>4. /\ u = [f \in SearchFields |-> u[f]]
      /\ u.generation = b.generation /\ u.population = b.population /\ u.cache = b.cache
      /\ u.prior = b.prior /\ u.best = b.best /\ u.stale = b.stale
      /\ u.rng = b.rng /\ u.pending = b.pending /\ u.beam = b.beam
      /\ u.frontier = b.frontier /\ u.lane = b.lane /\ u.guide = b.guide
  BY <1>3 DEF SearchFields
<1> HIDE DEF u
<1>5. \A f \in SearchFields : u[f] = b[f]
  BY <1>4 DEF SearchFields
<1>6. u = b
  BY <1>3, <1>4, <1>5
<1>7. /\ gp' = [f \in GPFields |-> gp'[f]] /\ gp'.step = "ready" /\ gp'.s = b
      /\ gp'.measure = gp.measure /\ gp'.stale = gp.stale /\ gp'.kernel = gp.kernel
  BY <1>1, <1>2, <1>6 DEF GPFields
<1>8. Base(gp') = b
  BY <1>7 DEF Base
<1>9. HeldOK(gp')
  BY <1>2, <1>7, <1>8 DEF HeldOK
<1>10. StepsOK(ask'.step, gp'.step)
  BY <1>1, <1>2, <1>7 DEF StepsOK
<1>11. Unaltered => Unbroken(Base(gp'), gp'.kernel)
  BY <1>1, <1>2, <1>7, <1>8 DEF Unaltered
<1> QED BY <1>1, <1>2, <1>7, <1>8, <1>9, <1>10, <1>11, HeldGoesOn

(* The scores that are dropped have been counted.                            *)
Forgotten(s, n, u) ==
    /\ Whole(u) /\ Trials(u) = n /\ u.cache = <<>> /\ u.prior = n
    /\ u.generation = s.generation /\ u.population = s.population
    /\ u.best = s.best /\ u.stale = s.stale /\ SameSearch(s, u)

LEMMA ForgottenOK ==
    ASSUME NEW s, Whole(s), NEW n \in Nat, NEW u, u = [s EXCEPT !.prior = n, !.cache = <<>>]
    PROVE  Forgotten(s, n, u)
<1>1. Sane(s) /\ Sized(s) /\ s.generation \in 0 .. MaxGenerations
  BY DEF Whole
<1>2. s = [f \in SearchFields |-> s[f]] /\ s.generation \in Nat
      /\ s.population \in Seq(Individual)
  BY <1>1, SaneFields
<1>3. /\ u = [f \in SearchFields |-> u[f]] /\ u.cache = <<>> /\ u.prior = n
      /\ u.generation = s.generation /\ u.population = s.population
      /\ u.best = s.best /\ u.stale = s.stale
  BY <1>2 DEF SearchFields
<1>4. SameSearch(s, u)
  BY <1>2 DEF SameSearch, SearchFields
<1>5. Sane(u)
  BY <1>1, <1>2, <1>3, <1>4, SaneAgain, EmptyCacheOK
<1>6. Whole(u)
  BY <1>1, <1>3, <1>5 DEF Whole, Sized
<1>7. Trials(u) = n
  BY <1>3, EmptyCacheOK DEF Trials
<1> QED BY <1>3, <1>4, <1>6, <1>7 DEF Forgotten

LEMMA RescorePopulationOK ==
    ASSUME SearchInv, RescorePopulation
    PROVE  SearchInv'
<1> DEFINE s == gp.s
           w == [s EXCEPT !.prior = Trials(s), !.cache = <<>>]
           a == GPScore
           u == Rescored(w, a)
<1>1. /\ ask.step = "loaded" /\ gp.step \in {"ready", "outdated"} /\ ask.rescore
      /\ gp' = [gp EXCEPT !.s = u] /\ ask' = [ask EXCEPT !.step = "seeding"]
      /\ UNCHANGED <<checkpoint, settings, process, altered>>
  BY DEF RescorePopulation
<1>2. HeldOK(gp) /\ AskOK(ask)
  BY <1>1, SearchFacts DEF SearchInv
<1>3. /\ gp.measure \in Measures /\ gp.kernel \in Kernels
      /\ gp = [f \in GPFields |-> gp[f]] /\ Base(gp) = s
      /\ gp.stale \in SUBSET Trees /\ IsFiniteSet(gp.stale) /\ Whole(s)
  BY <1>1, <1>2 DEF HeldOK, Base
<1>4. Trials(s) \in Nat
  BY <1>3, TrialsOK DEF Whole
<1>5. /\ Whole(w) /\ Trials(w) = Trials(s) /\ w.cache = <<>>
  <2> DEFINE n == Trials(s)
  <2>1. w = [s EXCEPT !.prior = n, !.cache = <<>>] /\ n \in Nat /\ Whole(s)
    BY <1>3, <1>4
  <2> HIDE DEF w, n, s
  <2>2. Forgotten(s, n, w)
    BY <2>1, ForgottenOK
  <2> QED BY <2>2 DEF n, Forgotten
<1>6. w.generation \in 0 .. MaxGenerations /\ Sane(w) /\ Len(w.population) = PopulationSize
  BY <1>5 DEF Whole, Sized
<1>a. a \in Numbering /\ a \in Numbers(gp.kernel)
  BY <1>3, NumbersOK DEF GPScore
<1> HIDE DEF w, a
<1>7. /\ Sane(u) /\ u.generation = w.generation /\ Len(u.population) = Len(w.population)
      /\ Trials(u) >= Trials(w)
  BY <1>6, <1>a, RescoredOK
<1>s. ScoredBy(u, Numbers(gp.kernel))
  <2>1. \A V : Given(w.cache, V)
    BY <1>5 DEF Given
  <2>2. u = Rescored(w, a)
    OBVIOUS
  <2> HIDE DEF u
  <2> QED BY <1>6, <1>a, <2>1, <2>2, RescoredBy
<1> HIDE DEF u
<1>8. Whole(u)
  BY <1>6, <1>7 DEF Whole, Sized
<1>9. /\ gp' = [f \in GPFields |-> gp'[f]] /\ gp'.step = gp.step /\ gp'.s = u
      /\ gp'.measure = gp.measure /\ gp'.stale = gp.stale /\ gp'.kernel = gp.kernel
  BY <1>1, <1>3 DEF GPFields
<1>10. Base(gp') = u
  BY <1>1, <1>9 DEF Base
<1>11. HeldOK(gp')
  BY <1>1, <1>3, <1>8, <1>9, <1>10, <1>s DEF HeldOK
<1>12. /\ AskOK(ask') /\ ask'.step = "seeding" /\ ask'.measure = ask.measure
       /\ ask'.rescore = ask.rescore
  BY <1>1, <1>2, AskMoves DEF AskSteps
<1>13. StepsOK(ask'.step, gp'.step)
  BY <1>1, <1>9, <1>12 DEF StepsOK
<1>14. ~Unaltered
  BY <1>1 DEF Unaltered
<1>15. checkpoint # NoCheckpoint /\ Trials(Base(gp)) >= checkpoint.trials =>
          Trials(Base(gp')) >= checkpoint.trials
  <2>1. Trials(u) \in Nat
    BY <1>7, TrialsOK
  <2> QED BY <1>3, <1>4, <1>5, <1>7, <1>10, <2>1, CheckpointNumber
<1> QED BY <1>1, <1>9, <1>11, <1>12, <1>13, <1>14, <1>15, HeldGoesOn

(* Some places are taken by seeds, as they would be born.                    *)
Seeded(s, seeds, cache, place) ==
    [i \in DOMAIN s.population |->
        IF place[i] \notin DOMAIN seeds THEN s.population[i]
        ELSE [tree |-> seeds[place[i]], fitness |-> cache[seeds[place[i]]],
              birth |-> s.generation, stones |-> {}]]

LEMMA SeededOK ==
    ASSUME NEW s, Sane(s), NEW seeds \in Seq(Trees), NEW cache,
           \A t \in Range(seeds) : cache[t] \in Nat, NEW place
    PROVE  /\ Seeded(s, seeds, cache, place) \in Seq(Individual)
           /\ Len(Seeded(s, seeds, cache, place)) = Len(s.population)
<1> DEFINE pop == Seeded(s, seeds, cache, place)
<1>1. /\ DOMAIN s.population = 1 .. Len(s.population) /\ Len(s.population) \in Nat
      /\ \A i \in 1 .. Len(s.population) : s.population[i] \in Individual
  BY MembersOK DEF Places
<1>2. \A k \in DOMAIN seeds : seeds[k] \in Trees /\ cache[seeds[k]] \in Nat
  BY DEF Range
<1>3. s.generation \in Nat
  BY SaneFields
<1>4. ASSUME NEW i \in 1 .. Len(s.population) PROVE pop[i] \in Individual
  <2>1. CASE place[i] \notin DOMAIN seeds
    BY <1>1, <2>1 DEF Seeded
  <2>2. CASE place[i] \in DOMAIN seeds
    <3>1. pop[i] = [tree |-> seeds[place[i]], fitness |-> cache[seeds[place[i]]],
                    birth |-> s.generation, stones |-> {}]
      BY <1>1, <2>2 DEF Seeded
    <3> QED BY <1>2, <1>3, <2>2, <3>1 DEF Individual
  <2> QED BY <2>1, <2>2
<1>5. pop = [i \in 1 .. Len(s.population) |-> pop[i]]
  BY <1>1 DEF Seeded
<1> HIDE DEF pop
<1>6. pop \in Seq(Individual) /\ Len(pop) = Len(s.population)
  BY <1>1, <1>4, <1>5, ListMade
<1> QED BY <1>6 DEF pop

LEMMA Repopulated ==
    ASSUME NEW w, Sane(w), NEW pop \in Seq(Individual)
    PROVE  LET u == [w EXCEPT !.population = pop]
           IN  /\ Sane(u) /\ u.population = pop /\ u.cache = w.cache
               /\ u.generation = w.generation /\ u.prior = w.prior
<1> DEFINE u == [w EXCEPT !.population = pop]
<1>1. w = [f \in SearchFields |-> w[f]] /\ CacheOK(w.cache)
      /\ w.generation \in Nat /\ w.prior \in Nat
  BY SaneFields
<1>2. /\ u = [f \in SearchFields |-> u[f]] /\ u.cache = w.cache /\ u.population = pop
      /\ u.generation = w.generation /\ u.prior = w.prior
  BY <1>1 DEF SearchFields
<1>3. SameSearch(w, u)
  BY <1>1 DEF SameSearch, SearchFields
<1> HIDE DEF u
<1>4. Sane(u)
  BY <1>1, <1>2, <1>3, SaneAgain
<1> QED BY <1>2, <1>4 DEF u

Injects(s, a, u) ==
    /\ Whole(u) /\ Trials(u) >= Trials(s)
    /\ \A V : a \in V /\ ScoredBy(s, V) => ScoredBy(u, V)

LEMMA InjectedOK ==
    ASSUME NEW s, Whole(s), NEW seeds \in Seq(Trees), NEW a \in Numbering, NEW place,
           NEW w, w = Scored(s, Range(seeds), a),
           NEW u, u = [w EXCEPT !.population = Seeded(w, seeds, w.cache, place)]
    PROVE  Injects(s, a, u)
<1> DEFINE T == Range(seeds)
           pop == Seeded(w, seeds, w.cache, place)
<1>1. T \in SUBSET Trees /\ IsFiniteSet(T)
  BY RangeFinite
<1>2. Sane(s) /\ Len(s.population) = PopulationSize /\ s.generation \in 0 .. MaxGenerations
  BY DEF Whole, Sized
<1> HIDE DEF T
<1>3. Wider(s, w, T) /\ w.cache = ScoredTogether(s.cache, T, a)
  <2>1. w = Scored(s, T, a)
    BY DEF T
  <2>2. Wider(s, Scored(s, T, a), T) /\ Scored(s, T, a).cache = ScoredTogether(s.cache, T, a)
    BY <1>1, <1>2, ScoredOK
  <2> QED BY <2>1, <2>2
<1>4. /\ Sane(w) /\ SameSearch(s, w) /\ w.generation = s.generation /\ w.prior = s.prior
      /\ w.population = s.population /\ Trials(w) >= Trials(s)
      /\ \A t \in T : w.cache[t] \in Nat
  BY <1>3 DEF Wider
<1>5. pop \in Seq(Individual) /\ Len(pop) = Len(w.population)
  <2> DEFINE c == w.cache
  <2>1. \A t \in Range(seeds) : c[t] \in Nat
    BY <1>4 DEF T
  <2> HIDE DEF c
  <2>2. /\ Seeded(w, seeds, c, place) \in Seq(Individual)
        /\ Len(Seeded(w, seeds, c, place)) = Len(w.population)
    BY <1>4, <2>1, SeededOK
  <2> QED BY <2>2 DEF c
<1>p. /\ DOMAIN pop = DOMAIN w.population
      /\ \A i \in DOMAIN pop :
            \/ pop[i] = w.population[i]
            \/ /\ pop[i].tree \in T
               /\ pop[i].fitness = w.cache[pop[i].tree]
  BY DEF Seeded, T, Range
<1> HIDE DEF pop
<1>6. u = [w EXCEPT !.population = pop]
  BY DEF pop
<1> DEFINE v == [w EXCEPT !.population = pop]
<1>7. /\ Sane(u) /\ u.population = pop /\ u.cache = w.cache
      /\ u.generation = w.generation /\ u.prior = w.prior
  <2>1. Sane(w) /\ pop \in Seq(Individual)
    BY <1>4, <1>5
  <2>2. /\ Sane(v) /\ v.population = pop /\ v.cache = w.cache
        /\ v.generation = w.generation /\ v.prior = w.prior
    BY <2>1, Repopulated
  <2> HIDE DEF v
  <2>3. u = v
    BY <1>6 DEF v
  <2> QED BY <2>2, <2>3
<1>8. Whole(u)
  BY <1>2, <1>4, <1>5, <1>7 DEF Whole, Sized
<1>9. Trials(u) >= Trials(s)
  BY <1>4, <1>7 DEF Trials
<1>10. ASSUME NEW V, a \in V, ScoredBy(s, V) PROVE ScoredBy(u, V)
  <2>1. Given(u.cache, V)
    BY <1>3, <1>7, <1>10, GivenTogether DEF ScoredBy
  <2>2. /\ DOMAIN u.cache = DOMAIN s.cache \cup T
        /\ \A t \in DOMAIN s.cache : u.cache[t] = s.cache[t]
    BY <1>3, <1>7 DEF ScoredTogether
  <2>3. DOMAIN s.population = Places(s) /\ DOMAIN u.population = Places(u)
    BY <1>2, <1>7, MembersOK
  <2>4. ASSUME NEW i \in DOMAIN u.population
        PROVE  /\ u.population[i].tree \in DOMAIN u.cache
               /\ u.population[i].fitness = u.cache[u.population[i].tree]
    <3>1. i \in DOMAIN s.population /\ i \in Places(s)
      BY <1>4, <1>7, <1>p, <2>3
    <3>2. CASE pop[i] = w.population[i]
      <4>1. u.population[i] = s.population[i]
        BY <1>4, <1>7, <3>2
      <4>2. /\ s.population[i].tree \in DOMAIN s.cache
            /\ s.population[i].fitness = s.cache[s.population[i].tree]
        BY <1>10, <3>1 DEF ScoredBy, Cached, Fits, TreeAt
      <4> QED BY <2>2, <4>1, <4>2
    <3>3. CASE /\ pop[i].tree \in T
               /\ pop[i].fitness = w.cache[pop[i].tree]
      BY <1>7, <2>2, <3>3
    <3> QED BY <1>7, <1>p, <3>2, <3>3
  <2> QED BY <2>1, <2>3, <2>4 DEF ScoredBy, Cached, Fits, TreeAt
<1> QED BY <1>8, <1>9, <1>10 DEF Injects

LEMMA LeastPart ==
    ASSUME NEW a \in Nat, NEW b \in Nat
    PROVE  1 .. Least(a, b) \subseteq 1 .. a
  BY DEF Least

LEMMA InjectSeedsOK ==
    ASSUME SearchInv, InjectSeeds
    PROVE  SearchInv'
<1>1. /\ ask.step = "seeding" /\ ask' = [ask EXCEPT !.step = "running"]
      /\ altered' = (altered \/ ask.seeds # <<>>)
      /\ UNCHANGED <<checkpoint, settings, process>>
  BY DEF InjectSeeds
<1>2. AskOK(ask) /\ StepsOK(ask.step, gp.step)
  BY DEF SearchInv
<1>3. /\ AskOK(ask') /\ ask'.step = "running" /\ ask'.measure = ask.measure
      /\ ask'.rescore = ask.rescore
  BY <1>1, <1>2, AskMoves DEF AskSteps
<1>4. gp.step \in {"empty", "ready", "outdated"}
  BY <1>1, <1>2 DEF StepsOK
<1>5. CASE ask.seeds = <<>> \/ gp.step = "empty"
  <2>1. gp' = gp
    BY <1>5 DEF InjectSeeds
  <2>2. StepsOK(ask'.step, gp'.step)
    BY <1>3, <1>4, <2>1 DEF StepsOK
  <2>3. Unaltered => Unaltered'
    BY <1>1, <1>3, <2>1 DEF Unaltered
  <2>4. altered' \in BOOLEAN /\ (~altered' => ~altered)
    BY <1>1 DEF SearchInv
  <2> QED BY <1>1, <1>3, <2>1, <2>2, <2>3, <2>4 DEF SearchInv
<1>6. CASE ~(ask.seeds = <<>> \/ gp.step = "empty")
  <2> DEFINE s == gp.s
             all == DOMAIN s.population
             Below(i, j) == \/ FitnessAt(s, i) < FitnessAt(s, j)
                            \/ FitnessAt(s, i) = FitnessAt(s, j) /\ i < j
             last == InOrder(all, {p \in all \X all : Below(p[1], p[2])})
             a == GPScore
             w == Scored(s, Range(ask.seeds), a)
             Taking(i) == {k \in 1 .. Least(Len(ask.seeds), Len(last)) : last[k] = i}
             place == [i \in all |-> IF Taking(i) = {} THEN 0 ELSE CHOOSE k \in Taking(i) : TRUE]
             u == [w EXCEPT !.population = Seeded(w, ask.seeds, w.cache, place)]
  <2>1. gp' = [gp EXCEPT !.s = [w EXCEPT !.population =
                  [i \in DOMAIN w.population |->
                      IF Taking(i) = {} THEN w.population[i]
                      ELSE [tree |-> ask.seeds[CHOOSE k \in Taking(i) : TRUE],
                            fitness |-> w.cache[ask.seeds[CHOOSE k \in Taking(i) : TRUE]],
                            birth |-> w.generation, stones |-> {}]]]]
    BY <1>6 DEF InjectSeeds
  <2>2. HeldOK(gp) /\ gp.step \in {"ready", "outdated"} /\ altered' = TRUE
    BY <1>1, <1>4, <1>6, SearchFacts
  <2>3. /\ gp.measure \in Measures /\ gp.kernel \in Kernels
        /\ (gp.step = "ready" => ScoredBy(s, Numbers(gp.kernel)))
        /\ gp = [f \in GPFields |-> gp[f]] /\ Base(gp) = s
        /\ gp.stale \in SUBSET Trees /\ IsFiniteSet(gp.stale) /\ Whole(s)
    BY <2>2 DEF HeldOK, Base
  <2>a. a \in Numbering /\ a \in Numbers(gp.kernel)
    BY <2>3, NumbersOK DEF GPScore
  <2> HIDE DEF a
  <2>4. ask.seeds \in Seq(Trees)
    BY <1>2 DEF AskOK
  <2>5. Len(last) \in Nat
    <3>1. all = Places(s) /\ Sane(s)
      BY <2>3, MembersOK DEF Whole
    <3>2. Cardinality(all) \in Nat
      BY <3>1, PlacesFinite, MembersOK
    <3> DEFINE S == all
               R == {p \in all \X all : Below(p[1], p[2])}
    <3>3. last = InOrder(S, R) /\ IsFiniteSet(S) /\ Cardinality(S) \in Nat
      BY <3>1, <3>2, PlacesFinite
    <3> HIDE DEF S, R, last
    <3>4. Len(InOrder(S, R)) = Cardinality(S)
      BY <3>3, InOrderIsList
    <3> QED BY <3>3, <3>4
  <2> HIDE DEF last
  <2>6. \A i : Taking(i) \subseteq DOMAIN ask.seeds
    <3>1. DOMAIN ask.seeds = 1 .. Len(ask.seeds) /\ Len(ask.seeds) \in Nat
      BY <2>4
    <3> QED BY <2>5, <3>1, LeastPart
  <2>7. 0 \notin DOMAIN ask.seeds
    BY <2>4
  <2> HIDE DEF Taking
  <2>8. \A i \in all : place[i] \in DOMAIN ask.seeds <=> Taking(i) # {}
    BY <2>6, <2>7
  <2>9. \A i \in all : Taking(i) # {} => place[i] = CHOOSE k \in Taking(i) : TRUE
    OBVIOUS
  <2>10. DOMAIN w.population = all
    <3>1. w.population = s.population
      <4>1. Range(ask.seeds) \in SUBSET Trees /\ IsFiniteSet(Range(ask.seeds)) /\ Sane(s)
        BY <2>3, <2>4, RangeFinite DEF Whole
      <4>2. Wider(s, w, Range(ask.seeds))
        BY <2>a, <4>1, ScoredOK
      <4> QED BY <4>2 DEF Wider
    <3> QED BY <3>1
  <2> HIDE DEF w, all, place
  <2>11. [i \in DOMAIN w.population |->
                      IF Taking(i) = {} THEN w.population[i]
                      ELSE [tree |-> ask.seeds[CHOOSE k \in Taking(i) : TRUE],
                            fitness |-> w.cache[ask.seeds[CHOOSE k \in Taking(i) : TRUE]],
                            birth |-> w.generation, stones |-> {}]]
        = Seeded(w, ask.seeds, w.cache, place)
    BY <2>8, <2>9, <2>10 DEF Seeded
  <2>12. gp' = [gp EXCEPT !.s = u]
    BY <2>1, <2>11
  <2>13. Injects(s, a, u)
    <3> DEFINE seeds == ask.seeds
    <3>1. /\ w = Scored(s, Range(seeds), a) /\ Whole(s) /\ seeds \in Seq(Trees)
          /\ u = [w EXCEPT !.population = Seeded(w, seeds, w.cache, place)]
      BY <2>3, <2>4 DEF w
    <3> HIDE DEF s, seeds, u
    <3> QED BY <2>a, <3>1, InjectedOK
  <2> HIDE DEF u
  <2>14. Whole(u) /\ Trials(u) >= Trials(s)
    BY <2>13 DEF Injects
  <2>15. /\ gp' = [f \in GPFields |-> gp'[f]] /\ gp'.step = gp.step /\ gp'.s = u
         /\ gp'.measure = gp.measure /\ gp'.stale = gp.stale /\ gp'.kernel = gp.kernel
    BY <2>3, <2>12 DEF GPFields
  <2>16. Base(gp') = u
    BY <2>2, <2>15 DEF Base
  <2>s. gp.step = "ready" => ScoredBy(u, Numbers(gp.kernel))
    BY <2>3, <2>13, <2>a DEF Injects
  <2>17. HeldOK(gp')
    BY <2>2, <2>3, <2>14, <2>15, <2>16, <2>s DEF HeldOK
  <2>18. StepsOK(ask'.step, gp'.step)
    BY <1>3, <2>2, <2>15 DEF StepsOK
  <2>19. checkpoint # NoCheckpoint => Trials(Base(gp')) >= checkpoint.trials
    <3>1. checkpoint # NoCheckpoint => Trials(s) >= checkpoint.trials
      BY <2>2, <2>3 DEF SearchInv
    <3>2. Trials(u) \in Nat /\ Trials(s) \in Nat
      BY <2>3, <2>14, TrialsOK DEF Whole
    <3> QED BY <2>14, <2>16, <3>1, <3>2, CheckpointNumber
  <2> QED BY <1>1, <1>3, <2>2, <2>15, <2>17, <2>18, <2>19 DEF SearchInv
<1> QED BY <1>5, <1>6

(* All but the scores and the count of earlier trials.                       *)
SameBut(s, u) ==
    /\ SameSearch(s, u) /\ u.generation = s.generation /\ u.population = s.population
    /\ u.best = s.best /\ u.stale = s.stale

LEMMA CountedOK ==
    ASSUME NEW s, Whole(s), NEW n \in Nat, NEW u, u = [s EXCEPT !.prior = n]
    PROVE  /\ Whole(u) /\ Trials(u) = n + Cardinality(DOMAIN s.cache)
           /\ u.cache = s.cache /\ u.prior = n /\ SameBut(s, u)
<1>1. Sane(s) /\ Sized(s) /\ s.generation \in 0 .. MaxGenerations
  BY DEF Whole
<1>2. s = [f \in SearchFields |-> s[f]] /\ s.generation \in Nat
      /\ s.population \in Seq(Individual) /\ CacheOK(s.cache)
  BY <1>1, SaneFields
<1>3. /\ u = [f \in SearchFields |-> u[f]] /\ u.cache = s.cache /\ u.prior = n
      /\ u.generation = s.generation /\ u.population = s.population
      /\ u.best = s.best /\ u.stale = s.stale
  BY <1>2 DEF SearchFields
<1>4. SameSearch(s, u)
  BY <1>2 DEF SameSearch, SearchFields
<1>5. Sane(u)
  BY <1>1, <1>2, <1>3, <1>4, SaneAgain
<1>6. Whole(u)
  BY <1>1, <1>3, <1>5 DEF Whole, Sized
<1>7. Trials(u) = n + Cardinality(DOMAIN s.cache)
  BY <1>3 DEF Trials
<1> QED BY <1>3, <1>4, <1>6, <1>7 DEF SameBut

LEMMA SameAll ==
    ASSUME NEW s, NEW u, s = [f \in SearchFields |-> s[f]], u = [f \in SearchFields |-> u[f]],
           SameBut(s, u), u.cache = s.cache, u.prior = s.prior
    PROVE  u = s
<1>1. \A f \in SearchFields : u[f] = s[f]
  BY DEF SameBut, SameSearch, SearchFields
<1> QED BY <1>1

Uncounted(s) == [s EXCEPT !.cache = <<>>, !.prior = 0]

(* Everything searched is scored again: the count is no less than before.    *)
Upgraded(s, T, a) ==
    LET again == Rescored(Scored(Uncounted(s), T, a), a)
    IN  [again EXCEPT !.prior = Max({0, Trials(s) - Cardinality(DOMAIN again.cache)})]

Upgrades(s, a, u) ==
    Whole(u) /\ Trials(u) >= Trials(s) /\ \A V : a \in V => ScoredBy(u, V)

LEMMA UncountedOK ==
    ASSUME NEW s, Whole(s)
    PROVE  Forgotten(s, 0, Uncounted(s))
<1> DEFINE u == Uncounted(s)
<1>1. u = [s EXCEPT !.prior = 0, !.cache = <<>>]
  <2>1. s = [f \in SearchFields |-> s[f]]
    BY SaneFields DEF Whole
  <2> QED BY <2>1 DEF Uncounted, SearchFields
<1> HIDE DEF u
<1>2. Forgotten(s, 0, u)
  <2> DEFINE n == 0
  <2>1. n \in Nat /\ u = [s EXCEPT !.prior = n, !.cache = <<>>]
    BY <1>1
  <2> HIDE DEF n
  <2>2. Forgotten(s, n, u)
    BY <2>1, ForgottenOK
  <2> QED BY <2>2 DEF n
<1> QED BY <1>2 DEF u

LEMMA UpgradedOK ==
    ASSUME NEW s, Whole(s), NEW T \in SUBSET Trees, IsFiniteSet(T), NEW b \in Numbering
    PROVE  Upgrades(s, b, Upgraded(s, T, b))
<1> DEFINE w == Uncounted(s)
           v == Scored(w, T, b)
           a == Rescored(v, b)
           n == Cardinality(DOMAIN a.cache)
           k == Max({0, Trials(s) - n})
           u == Upgraded(s, T, b)
<1>1. u = [a EXCEPT !.prior = k]
  BY DEF Upgraded
<1>2. Whole(w)
  BY UncountedOK DEF Forgotten
<1>3. Sane(w) /\ Len(w.population) = PopulationSize /\ w.generation \in 0 .. MaxGenerations
  BY <1>2 DEF Whole, Sized
<1>c. w.cache = <<>>
  BY UncountedOK DEF Forgotten
<1> HIDE DEF u, w
<1>4. Wider(w, v, T) /\ v.cache = ScoredTogether(w.cache, T, b)
  BY <1>3, ScoredOK
<1>5. Sane(v) /\ v.generation = w.generation /\ v.population = w.population
  BY <1>4 DEF Wider
<1> HIDE DEF v
<1>6. Sane(a) /\ a.generation = v.generation /\ Len(a.population) = Len(v.population)
  BY <1>5, RescoredOK
<1>s. ASSUME NEW V, b \in V PROVE ScoredBy(a, V)
  <2>1. Given(w.cache, V)
    BY <1>c DEF Given
  <2>2. Given(v.cache, V)
    BY <1>4, <1>s, <2>1, GivenTogether
  <2>3. a = Rescored(v, b)
    OBVIOUS
  <2> HIDE DEF a
  <2> QED BY <1>5, <1>s, <2>2, <2>3, RescoredBy
<1> HIDE DEF a
<1>7. Whole(a)
  BY <1>3, <1>5, <1>6 DEF Whole, Sized
<1>8. Trials(s) \in Nat /\ n \in Nat
  BY <1>6, TrialsOK DEF Whole
<1> DEFINE x == Trials(s)
<1> HIDE DEF n
<1>9. k \in Nat /\ k + n >= x
  <2>1. x \in Nat /\ k = Max({0, x - n})
    BY <1>8
  <2> HIDE DEF x, k
  <2>2. x - n \in Int
    BY <1>8, <2>1
  <2>3. k = (IF x - n > 0 THEN x - n ELSE 0) /\ k \in Nat
    BY <2>1, <2>2, MaxZero
  <2> QED BY <1>8, <2>1, <2>3
<1> HIDE DEF k, x
<1>10. Whole(u) /\ Trials(u) = k + n
  BY <1>1, <1>7, <1>9, CountedOK DEF n
<1>11. Trials(u) >= Trials(s)
  BY <1>9, <1>10 DEF x
<1>12. ASSUME NEW V, b \in V PROVE ScoredBy(u, V)
  <2>1. u.cache = a.cache /\ u.population = a.population
    BY <1>1, <1>7, <1>9, CountedOK DEF SameBut
  <2> QED BY <1>s, <1>12, <2>1, ScoredByAgain
<1> QED BY <1>7, <1>10, <1>11, <1>12 DEF u, Upgrades

LEMMA RescoreUpgradedOK ==
    ASSUME SearchInv, RescoreUpgraded
    PROVE  SearchInv'
<1> DEFINE s == gp.s
           a == GPScore
           T == gp.stale
           u == Upgraded(s, T, a)
<1>1. /\ ask.step = "running" /\ gp.step = "outdated"
      /\ gp' = [gp EXCEPT !.step = "ready", !.stale = {}, !.s = u]
      /\ altered' = TRUE /\ UNCHANGED <<checkpoint, settings, process, ask>>
  BY DEF RescoreUpgraded, Upgraded, Uncounted
<1>2. HeldOK(gp) /\ AskOK(ask)
  BY <1>1, SearchFacts DEF SearchInv
<1>3. /\ gp.measure \in Measures /\ gp.kernel \in Kernels
      /\ gp = [f \in GPFields |-> gp[f]] /\ Base(gp) = s
      /\ T \in SUBSET Trees /\ IsFiniteSet(T) /\ Whole(s)
  BY <1>1, <1>2 DEF HeldOK, Base
<1>4. a \in Numbering /\ a \in Numbers(gp.kernel)
  BY <1>3, NumbersOK DEF GPScore
<1> HIDE DEF s, a, T
<1>5. Upgrades(s, a, u)
  BY <1>3, <1>4, UpgradedOK
<1> HIDE DEF u
<1>6. Whole(u) /\ Trials(u) >= Trials(s) /\ ScoredBy(u, Numbers(gp.kernel))
  BY <1>4, <1>5 DEF Upgrades
<1>7. /\ gp' = [f \in GPFields |-> gp'[f]] /\ gp'.step = "ready" /\ gp'.s = u
      /\ gp'.measure = gp.measure /\ gp'.stale = {} /\ gp'.kernel = gp.kernel
  BY <1>1, <1>3 DEF GPFields
<1>8. Base(gp') = u
  BY <1>7 DEF Base
<1>9. HeldOK(gp')
  BY <1>3, <1>6, <1>7, <1>8, FS_EmptySet DEF HeldOK
<1>10. StepsOK(ask'.step, gp'.step)
  BY <1>1, <1>7 DEF StepsOK
<1>11. checkpoint # NoCheckpoint => Trials(Base(gp')) >= checkpoint.trials
  <2>1. checkpoint # NoCheckpoint => Trials(s) >= checkpoint.trials
    BY <1>1, <1>3 DEF SearchInv
  <2>2. Trials(u) \in Nat /\ Trials(s) \in Nat
    BY <1>3, <1>6, TrialsOK DEF Whole
  <2> QED BY <1>6, <1>8, <2>1, <2>2, CheckpointNumber
<1> QED BY <1>1, <1>2, <1>7, <1>9, <1>10, <1>11 DEF SearchInv

(* What a checkpoint keeps of a search.                                      *)
LEMMA CheckpointIs ==
    ASSUME NEW s, Whole(s), NEW m \in Measures, NEW kernel \in Kernels, NEW c,
           ScoredBy(s, Numbers(kernel)),
           c.generation = s.generation, c.rng = s.rng, c.population = s.population,
           c.cache = s.cache, c.trials = Trials(s), c.pending = s.pending, c.beam = s.beam,
           c.frontier = s.frontier, c.lane = s.lane, c.guide = s.guide, c.best = s.best,
           c.stale = s.stale, c.measure = m, c.kernel = kernel
    PROVE  /\ CheckpointOK(c)
           /\ Unbroken(s, kernel) => /\ Unbroken(AsSearch(c, c.cache, 0), kernel)
                                     /\ c.trials = Trials(AsSearch(c, c.cache, 0))
<1> DEFINE a == AsSearch(c, c.cache, 0)
<1>1. /\ a = [f \in SearchFields |-> a[f]]
      /\ a.generation = c.generation /\ a.rng = c.rng /\ a.population = c.population
      /\ a.cache = c.cache /\ a.prior = 0 /\ a.pending = c.pending /\ a.beam = c.beam
      /\ a.frontier = c.frontier /\ a.lane = c.lane /\ a.guide = c.guide
      /\ a.best = c.best /\ a.stale = c.stale
  BY AsSearchFields
<1> HIDE DEF a
<1>2. SameBut(s, a) /\ a.cache = s.cache
  BY <1>1 DEF SameBut, SameSearch
<1>3. Sane(s) /\ Sized(s) /\ s.generation \in 0 .. MaxGenerations
  BY DEF Whole
<1>4. s = [f \in SearchFields |-> s[f]] /\ s.generation \in Nat
      /\ s.population \in Seq(Individual) /\ CacheOK(s.cache)
  BY <1>3, SaneFields
<1>5. SameSearch(s, a) /\ a.generation \in Nat /\ a.prior \in Nat
      /\ a.population \in Seq(Individual) /\ CacheOK(a.cache)
  BY <1>1, <1>2, <1>4 DEF SameBut
<1>6. Sane(a)
  BY <1>1, <1>3, <1>5, SaneAgain
<1>7. Whole(a)
  BY <1>2, <1>3, <1>6 DEF Whole, Sized, SameBut
<1>8. c.trials \in Nat
  BY <1>3, TrialsOK
<1>s. ScoredBy(a, Numbers(kernel))
  BY <1>2, ScoredByAgain DEF SameBut
<1>9. CheckpointOK(c)
  BY <1>7, <1>8, <1>s DEF CheckpointOK, a
<1>10. ASSUME Unbroken(s, kernel) PROVE Unbroken(a, kernel) /\ c.trials = Trials(a)
  <2>1. s.prior = 0
    BY <1>10 DEF Unbroken, Exact
  <2>2. a = s
    BY <1>1, <1>2, <1>4, <2>1, SameAll
  <2> QED BY <1>10, <2>2
<1> QED BY <1>9, <1>10 DEF a

LEMMA SaveCheckpointOK ==
    ASSUME SearchInv, SaveCheckpoint
    PROVE  SearchInv'
<1> DEFINE s == gp.s
           m == gp.measure
           kernel == gp.kernel
           c == [generation |-> s.generation, rng |-> s.rng, population |-> s.population,
                 cache |-> s.cache, trials |-> Trials(s), pending |-> s.pending,
                 beam |-> s.beam, frontier |-> s.frontier, lane |-> s.lane,
                 guide |-> s.guide, best |-> s.best, stale |-> s.stale,
                 measure |-> m, kernel |-> kernel]
<1>1. /\ gp.step = "ready" /\ checkpoint' = c /\ Gone
      /\ UNCHANGED <<settings, process, altered>>
  BY DEF SaveCheckpoint
<1>2. HeldOK(gp)
  BY <1>1, SearchFacts
<1>3. /\ m \in Measures /\ kernel \in Kernels /\ Whole(s) /\ Base(gp) = s
      /\ ScoredBy(s, Numbers(kernel))
  BY <1>1, <1>2 DEF HeldOK, Base
<1>4. /\ c.generation = s.generation /\ c.rng = s.rng /\ c.population = s.population
      /\ c.cache = s.cache /\ c.trials = Trials(s) /\ c.pending = s.pending
      /\ c.beam = s.beam /\ c.frontier = s.frontier /\ c.lane = s.lane
      /\ c.guide = s.guide /\ c.best = s.best /\ c.stale = s.stale /\ c.measure = m
      /\ c.kernel = kernel
  OBVIOUS
<1>5. Unaltered => Unbroken(s, kernel)
  BY <1>1, <1>3 DEF Unaltered
<1> HIDE DEF c, s, m, kernel
<1>6. /\ CheckpointOK(c)
      /\ Unbroken(s, kernel) => /\ Unbroken(AsSearch(c, c.cache, 0), kernel)
                                /\ c.trials = Trials(AsSearch(c, c.cache, 0))
  BY <1>3, <1>4, CheckpointIs
<1>7. gp' = NoGP /\ ask' = NoAsk /\ gp'.step = "none" /\ ask'.step = "idle"
      /\ ask'.measure = FirstMeasure /\ ~ask'.rescore
  BY <1>1, NoAskOK DEF Gone, NoGP
<1>8. AskOK(ask') /\ StepsOK(ask'.step, gp'.step)
  BY <1>7, NoAskOK
<1>9. Unaltered => Unaltered'
  BY <1>1, <1>4, <1>5, <1>6, <1>7 DEF Unaltered
<1> QED BY <1>1, <1>6, <1>7, <1>8, <1>9 DEF SearchInv

LEMMA SearchStepOK ==
    ASSUME OperationsGiveTrees, SearchInv, SearchStep
    PROVE  SearchInv'
<1>1. process \in Kernels
  BY DEF SearchInv
<1>2. CASE LeaveQueue \/ SearchFails \/ AbandonScoring
  <2>1. Gone /\ UNCHANGED <<checkpoint, settings, process, altered>>
    BY <1>2 DEF LeaveQueue, SearchFails, AbandonScoring
  <2> QED BY <1>1, <2>1, GoneOK
<1>3. CASE LoadSearch
  BY <1>3, LoadSearchOK
<1>4. CASE RescorePopulation
  BY <1>4, RescorePopulationOK
<1>5. CASE KeepScores
  BY <1>5, KeepScoresOK
<1>6. CASE InjectSeeds
  BY <1>6, InjectSeedsOK
<1>7. CASE RescoreUpgraded
  BY <1>7, RescoreUpgradedOK
<1>8. CASE Initialize
  BY <1>8, InitializeOK
<1>9. CASE BreedGeneration
  BY <1>9, BreedGenerationOK
<1>10. CASE ScoreChunk
  BY <1>10, ScoreChunkOK
<1>11. CASE CommitGeneration
  BY <1>11, CommitGenerationOK
<1>12. CASE CancelGeneration
  BY <1>12, CancelGenerationOK
<1>13. CASE SaveCheckpoint
  BY <1>13, SaveCheckpointOK
<1> QED
  BY <1>2, <1>3, <1>4, <1>5, <1>6, <1>7, <1>8, <1>9, <1>10, <1>11, <1>12, <1>13
  DEF SearchStep

(* What is asked of the search, and by whom.                                 *)
LEMMA SearchSteps ==
    ASSUME [Next]_researchVars
    PROVE  \/ UNCHANGED searchVars
           \/ \E measure \in Measures : PatchMeasure(measure)
           \/ \E more \in 1 .. 2 : Continue(settings, more, <<>>)
           \/ \E measure \in Measures : Continue(measure, 1, <<>>)
           \/ \E t \in Trees : Continue(settings, 1, <<t>>)
           \/ \E why : StopSearch(why)
           \/ ExitSearch
           \/ SearchStep
<1>1. ASSUME NEW d \in Desks, DeskRequest(d) PROVE UNCHANGED searchVars
  BY <1>1 DEF DeskRequest, DeskAlone
<1>2. ASSUME NEW d \in Desks, DeskStep(d)
      PROVE  UNCHANGED searchVars \/ \E measure \in Measures : PatchMeasure(measure)
  BY <1>2 DEF DeskStep
<1>3. ASSUME SegmentStep \/ TunerStep \/ EvidenceRequest \/ EvidenceStep
             \/ UNCHANGED researchVars
      PROVE  UNCHANGED searchVars
  BY <1>3 DEF SegmentStep, TunerStep, EvidenceRequest, EvidenceStep, DeskAlone, TunerAlone,
     ValidationAlone, researchVars
<1>4. GenerationStep => SearchStep
  BY DEF GenerationStep
<1>5. ASSUME SearchRequest
      PROVE  \/ \E more \in 1 .. 2 : Continue(settings, more, <<>>)
             \/ \E measure \in Measures : Continue(measure, 1, <<>>)
             \/ \E t \in Trees : Continue(settings, 1, <<t>>)
             \/ \E why : StopSearch(why)
             \/ ExitSearch
  BY <1>5 DEF SearchRequest
<1> QED BY <1>1, <1>2, <1>3, <1>4, <1>5 DEF Next

LEMMA SearchKept ==
    ASSUME OperationsGiveTrees, SearchInv, [Next]_researchVars
    PROVE  SearchInv'
<1>1. CASE UNCHANGED searchVars
  BY <1>1 DEF searchVars, SearchInv, Unaltered
<1>2. ASSUME NEW measure \in Measures, PatchMeasure(measure) PROVE SearchInv'
  BY <1>2, PatchMeasureOK
<1>3. ASSUME NEW measure \in Measures, NEW more \in {1, 2}, NEW seeds \in Seq(Trees),
             Continue(measure, more, seeds)
      PROVE  SearchInv'
  <2>1. more \in Nat
    OBVIOUS
  <2> QED BY <1>3, <2>1, ContinueOK
<1>4. \A X : <<>> \in Seq(X)
  OBVIOUS
<1>5. settings \in Measures
  BY DEF SearchInv
<1>6. ASSUME NEW more \in 1 .. 2, Continue(settings, more, <<>>) PROVE SearchInv'
  <2>1. more \in {1, 2}
    OBVIOUS
  <2> QED BY <1>3, <1>4, <1>5, <1>6, <2>1
<1>7. ASSUME NEW measure \in Measures, Continue(measure, 1, <<>>) PROVE SearchInv'
  BY <1>3, <1>4, <1>7
<1>8. ASSUME NEW t \in Trees, Continue(settings, 1, <<t>>) PROVE SearchInv'
  <2>1. <<t>> \in Seq(Trees)
    OBVIOUS
  <2> QED BY <1>3, <1>5, <1>8, <2>1
<1>9. ASSUME NEW why, StopSearch(why) PROVE SearchInv'
  BY <1>9, StopSearchOK
<1>10. CASE ExitSearch
  BY <1>10, GoneOK DEF ExitSearch
<1>11. CASE SearchStep
  BY <1>11, SearchStepOK
<1> QED BY <1>1, <1>2, <1>6, <1>7, <1>8, <1>9, <1>10, <1>11, SearchSteps

LEMMA SearchInvariant ==
    ASSUME OperationsGiveTrees
    PROVE  Spec => []SearchInv
<1>1. Init => SearchInv
  BY SearchStart
<1>2. SearchInv /\ [Next]_researchVars => SearchInv'
  BY SearchKept
<1> QED BY <1>1, <1>2, PTL DEF Spec

-----------------------------------------------------------------------------
(* What follows.                                                             *)

LEMMA TrialsStep ==
    ASSUME SearchInv, [Next]_researchVars
    PROVE  [checkpoint # NoCheckpoint => checkpoint'.trials >= checkpoint.trials]_checkpoint
<1>1. CASE UNCHANGED checkpoint
  BY <1>1
<1>2. CASE SaveCheckpoint
  <2>1. /\ gp.step = "ready" /\ checkpoint'.trials = Trials(gp.s)
    BY <1>2 DEF SaveCheckpoint
  <2>2. Base(gp) = gp.s
    BY <2>1 DEF Base
  <2>3. checkpoint # NoCheckpoint => Trials(gp.s) >= checkpoint.trials
    BY <2>1, <2>2 DEF SearchInv
  <2> QED BY <2>1, <2>3
<1>3. ASSUME NEW measure, NEW more, NEW seeds,
             PatchMeasure(measure) \/ Continue(measure, more, seeds)
      PROVE  UNCHANGED checkpoint
  BY <1>3 DEF PatchMeasure, Continue
<1>4. ASSUME NEW why, StopSearch(why) PROVE UNCHANGED checkpoint
  BY <1>4 DEF StopSearch
<1>5. ASSUME UNCHANGED searchVars \/ ExitSearch PROVE UNCHANGED checkpoint
  BY <1>5 DEF searchVars, ExitSearch
<1>6. ASSUME SearchStep PROVE SaveCheckpoint \/ UNCHANGED checkpoint
  BY <1>6 DEF SearchStep, LeaveQueue, LoadSearch, SearchFails, RescorePopulation, KeepScores,
     InjectSeeds, RescoreUpgraded, AbandonScoring, Initialize, BreedGeneration, ScoreChunk,
     CommitGeneration, CancelGeneration
<1> QED BY <1>1, <1>2, <1>3, <1>4, <1>5, <1>6, SearchSteps

(* No checkpoint of a session counts fewer trials than the one it replaces,  *)
(* whatever was scored again, seeded, cancelled or evaluated otherwise (GPRun*)
(* counts in gp.py what it drops).                                           *)
THEOREM TrialsCorrect ==
    ASSUME OperationsGiveTrees
    PROVE  Spec => TrialsNeverShrink
<1>1. SearchInv /\ [Next]_researchVars =>
          [checkpoint # NoCheckpoint => checkpoint'.trials >= checkpoint.trials]_checkpoint
  BY TrialsStep
<1> QED BY <1>1, SearchInvariant, PTL DEF Spec, TrialsNeverShrink

LEMMA Reproduces ==
    ASSUME SearchInv
    PROVE  ResumeReproducesRun
<1> SUFFICES ASSUME checkpoint # NoCheckpoint, ~altered
             PROVE  LET straight == Straight[checkpoint.generation][checkpoint.kernel]
                    IN  /\ \A f \in (DOMAIN straight) \ {"prior"} : checkpoint[f] = straight[f]
                        /\ checkpoint.trials = Trials(straight)
  BY DEF ResumeReproducesRun
<1> DEFINE c == checkpoint
           a == AsSearch(c, c.cache, 0)
           straight == Straight[c.generation][c.kernel]
<1>1. Unbroken(a, c.kernel) /\ c.trials = Trials(a)
  BY DEF SearchInv, Unaltered
<1>2. /\ a = [f \in SearchFields |-> a[f]]
      /\ a.generation = c.generation /\ a.rng = c.rng /\ a.population = c.population
      /\ a.cache = c.cache /\ a.pending = c.pending /\ a.beam = c.beam
      /\ a.frontier = c.frontier /\ a.lane = c.lane /\ a.guide = c.guide
      /\ a.best = c.best /\ a.stale = c.stale
  BY AsSearchFields
<1> HIDE DEF a
<1>3. a = straight
  BY <1>1, <1>2 DEF Unbroken
<1> HIDE DEF straight, c
<1>4. DOMAIN straight = SearchFields
  BY <1>2, <1>3
<1>5. \A f \in SearchFields \ {"prior"} : c[f] = straight[f]
  BY <1>2, <1>3 DEF SearchFields
<1> QED BY <1>1, <1>3, <1>4, <1>5 DEF c, straight

LEMMA Separate ==
    ASSUME SearchInv
    PROVE  KernelsDoNotMix
<1> SUFFICES ASSUME checkpoint # NoCheckpoint
             PROVE  /\ \A t \in DOMAIN checkpoint.cache :
                          \E m \in Measures :
                             checkpoint.cache[t] = Score[m][checkpoint.kernel][t]
                    /\ \A i \in DOMAIN checkpoint.population :
                          FitnessAt(checkpoint, i) = checkpoint.cache[TreeAt(checkpoint, i)]
  BY DEF KernelsDoNotMix
<1> DEFINE c == checkpoint
           a == AsSearch(c, c.cache, 0)
<1>1. ScoredBy(a, Numbers(c.kernel)) /\ Whole(a)
  BY DEF SearchInv, CheckpointOK
<1>2. a.population = c.population /\ a.cache = c.cache
  BY AsSearchFields
<1> HIDE DEF a, c
<1>3. ASSUME NEW t \in DOMAIN c.cache
      PROVE  \E m \in Measures : c.cache[t] = Score[m][c.kernel][t]
  <2>1. PICK b \in Numbers(c.kernel) : c.cache[t] = b[t]
    BY <1>1, <1>2, <1>3 DEF ScoredBy, Given
  <2>2. PICK m \in Measures : b = Score[m][c.kernel]
    BY <2>1 DEF Numbers
  <2> QED BY <2>1, <2>2
<1>4. ASSUME NEW i \in DOMAIN c.population
      PROVE  FitnessAt(c, i) = c.cache[TreeAt(c, i)]
  BY <1>1, <1>2, <1>4 DEF ScoredBy, Cached, Fits, FitnessAt, TreeAt
<1> QED BY <1>3, <1>4 DEF c

(* "so one run cannot mix score kernels" (gp.py 73): whatever evaluators the *)
(* processes of a session come up with, and whatever numbers these give, the *)
(* scores in a checkpoint are all of the one evaluator it names.             *)
THEOREM KernelsCorrect ==
    ASSUME OperationsGiveTrees
    PROVE  Spec => []KernelsDoNotMix
<1>1. SearchInv => KernelsDoNotMix
  BY Separate
<1> QED BY <1>1, SearchInvariant, PTL

(* "Thus cancellation cannot leave a half-generation counted as searched"    *)
(* (gp.py 921-922), and a checkpoint is an exact resume (sessions.py 9): for *)
(* any settings, operations on trees and scores, a session that was stopped, *)
(* failed, saved and resumed any number of times, with one measure, one      *)
(* evaluator and no seeds put in, reaches, of each generation, what an       *)
(* uninterrupted search by that evaluator reaches.                           *)
THEOREM ResumeCorrect ==
    ASSUME OperationsGiveTrees
    PROVE  Spec => []ResumeReproducesRun
<1>1. SearchInv => ResumeReproducesRun
  BY Reproduces
<1> QED BY <1>1, SearchInvariant, PTL

LEMMA SearchTyped ==
    ASSUME SearchInv
    PROVE  SearchTypeOK
<1>1. ask.step \in {"idle", "waiting", "loaded", "seeding", "running"}
  BY DEF SearchInv, AskOK, AskSteps
<1>2. gp.step \in {"none", "empty", "outdated", "ready", "scoring"}
  BY DEF SearchInv, NoGP, HeldOK
<1>3. settings \in Measures /\ process \in Kernels
  BY DEF SearchInv
<1>4. ASSUME checkpoint # NoCheckpoint
      PROVE  /\ Len(checkpoint.population) = PopulationSize
             /\ ~altered => \A t \in Trees :
                   Copies([i \in 1 .. PopulationSize |-> TreeAt(checkpoint, i)], t) <= CopyLimit
             /\ checkpoint.generation \in 0 .. MaxGenerations
  <2> DEFINE c == checkpoint
             a == AsSearch(c, c.cache, 0)
  <2>1. Whole(a) /\ (~altered => Limited(a))
    BY <1>4 DEF SearchInv, CheckpointOK, Unaltered, Unbroken
  <2>2. a.generation = c.generation /\ a.population = c.population
    BY AsSearchFields
  <2> HIDE DEF a
  <2>3. Len(c.population) = PopulationSize /\ c.generation \in 0 .. MaxGenerations
        /\ Sane(a)
    BY <2>1, <2>2 DEF Whole, Sized
  <2>4. DOMAIN c.population = 1 .. PopulationSize
    <3>1. a.population \in Seq(Individual)
      BY <2>3, SaneFields
    <3> QED BY <2>2, <2>3, <3>1
  <2> HIDE DEF c
  <2>5. Bodies(c.population) = [i \in 1 .. PopulationSize |-> TreeAt(c, i)]
    BY <2>4 DEF Bodies, TreeAt
  <2>6. ASSUME ~altered, NEW t \in Trees
        PROVE  Copies([i \in 1 .. PopulationSize |-> TreeAt(c, i)], t) <= CopyLimit
    <3>1. Copies(Bodies(c.population), t) <= CopyLimit
      BY <2>1, <2>2, <2>6 DEF Limited
    <3> QED BY <2>5, <3>1
  <2> QED BY <2>3, <2>6 DEF c
<1> QED BY <1>1, <1>2, <1>3, <1>4 DEF SearchTypeOK

(* A checkpoint has a whole population, of a generation the session may have,*)
(* and, where nothing but the search changed it, no tree more often than its *)
(* copies are limited to (breed and initialize of gp.py).                    *)
THEOREM SearchTypesCorrect ==
    ASSUME OperationsGiveTrees
    PROVE  Spec => []SearchTypeOK
<1>1. SearchInv => SearchTypeOK
  BY SearchTyped
<1> QED BY <1>1, SearchInvariant, PTL

(* Every part of a session's research keeps to its types, together.          *)
THEOREM ResearchTypesCorrect ==
    ASSUME OperationsGiveTrees
    PROVE  Spec => []ResearchTypeOK
<1>1. DeskTypeOK /\ SearchTypeOK /\ TunerTypeOK /\ ValidationTypeOK => ResearchTypeOK
  BY DEF ResearchTypeOK
<1> QED
  BY <1>1, DeskTypesCorrect, SearchTypesCorrect, TunerTypesCorrect, EvidenceTypesCorrect, PTL
=============================================================================
