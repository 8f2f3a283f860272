--------------------------- MODULE Amounts_proofs ---------------------------
(***************************************************************************)
(* Proofs about the two computations on amounts: the merge of a deposit,   *)
(* for any finite wallets and any amounts, and the split of a redirect,    *)
(* for every amount below 2^31.                                            *)
(***************************************************************************)
EXTENDS RedirectAmounts, DepositMerge, FiniteSetTheorems, WellFoundedInduction, TLAPS

-----------------------------------------------------------------------------
(* Sums over finite sets.  A sum is the value of a recursive function, so  *)
(* what is known of it is shown for a smallest set on which it would fail. *)

\* A set of subsets of a finite set has a member that contains no other.
LEMMA Smallest ==
    ASSUME NEW A, IsFiniteSet(A), NEW T, T \subseteq SUBSET A, T # {}
    PROVE  \E m \in T : \A y \in T : y \subseteq m => y = m
  <1>1. IsWellFoundedOn(StrictSubsetOrdering(A), SUBSET A)
    BY FS_StrictSubsetOrderingWellFounded, FS_FiniteSubsetsOfFinite
  <1>2. \E m \in T : \A y \in T : ~(<<y, m>> \in StrictSubsetOrdering(A))
    <2> HIDE DEF StrictSubsetOrdering
    <2> QED
      BY <1>1, WFMin
  <1> QED
    BY <1>2 DEF StrictSubsetOrdering

\* The element that a fold takes first.
Some(s) == CHOOSE x \in s : TRUE

\* g maps every subset of A to the sum of v over it.
IsSum(g, v, A) ==
    g = [s \in SUBSET A |-> IF s = {} THEN 0 ELSE v[Some(s)] + g[s \ {Some(s)}]]

\* The sum of v over A.
SumOf(v, A) == (CHOOSE g : IsSum(g, v, A))[A]

\* One step of the recursion.
LEMMA SumStep ==
    ASSUME NEW g, NEW v, NEW A, IsSum(g, v, A), NEW s, s \subseteq A, s # {}
    PROVE  Some(s) \in s /\ g[s] = v[Some(s)] + g[s \ {Some(s)}]
  <1>1. Some(s) \in s
    BY DEF Some
  <1>2. g[s] = IF s = {} THEN 0 ELSE v[Some(s)] + g[s \ {Some(s)}]
    BY DEF IsSum
  <1> QED
    BY <1>1, <1>2

\* Its end.
LEMMA SumBase ==
    ASSUME NEW g, NEW v, NEW A, IsSum(g, v, A)
    PROVE  g[{}] = 0
  <1>1. g[{}] = IF {} = {} THEN 0 ELSE v[Some({})] + g[{} \ {Some({})}]
    BY DEF IsSum
  <1> QED
    BY <1>1

\* The sum over a set depends on nothing but the values of its elements.
LEMMA SumUnique ==
    ASSUME NEW A, IsFiniteSet(A), NEW B, NEW v, NEW w, NEW g, NEW h,
           IsSum(g, v, A), IsSum(h, w, B),
           NEW s, s \subseteq A, s \subseteq B, \A x \in s : v[x] = w[x]
    PROVE  g[s] = h[s]
  <1> DEFINE Bad == { u \in SUBSET s : g[u] # h[u] }
  <1>1. SUFFICES ASSUME Bad # {} PROVE FALSE
    OBVIOUS
  <1>2. PICK m \in Bad : \A y \in Bad : y \subseteq m => y = m
    <2>1. Bad \subseteq SUBSET A
      OBVIOUS
    <2> HIDE DEF Bad
    <2> QED
      BY <1>1, <2>1, Smallest
  <1>3. m # {} /\ m \subseteq A /\ m \subseteq B
    BY SumBase
  <1>4. Some(m) \in m /\ g[m] = v[Some(m)] + g[m \ {Some(m)}]
    <2> HIDE DEF Bad
    <2> QED
      BY <1>3, SumStep
  <1>5. h[m] = w[Some(m)] + h[m \ {Some(m)}]
    BY <1>3, SumStep
  <1>6. g[m \ {Some(m)}] = h[m \ {Some(m)}]
    BY <1>2, <1>4
  <1>7. g[m] # h[m] /\ v[Some(m)] = w[Some(m)]
    BY <1>4
  <1> QED
    BY <1>4, <1>5, <1>6, <1>7, Zenon

\* There is such a function.
LEMMA SumExists ==
    ASSUME NEW A, IsFiniteSet(A), NEW v
    PROVE  \E g : IsSum(g, v, A)
  <1> DEFINE Bad == { u \in SUBSET A : ~\E g : IsSum(g, v, u) }
             F(u) == CHOOSE g : IsSum(g, v, u)
  <1>1. SUFFICES ASSUME Bad # {} PROVE FALSE
    OBVIOUS
  <1>2. PICK m \in Bad : \A y \in Bad : y \subseteq m => y = m
    <2>1. Bad \subseteq SUBSET A
      OBVIOUS
    <2> HIDE DEF Bad
    <2> QED
      BY <1>1, <2>1, Smallest
  <1>3. \A u : u \subseteq m /\ u # m => IsSum(F(u), v, u) /\ IsFiniteSet(u)
    <2> SUFFICES ASSUME NEW u, u \subseteq m, u # m
                 PROVE  IsSum(F(u), v, u) /\ IsFiniteSet(u)
      OBVIOUS
    <2>1. u \in SUBSET A /\ u \notin Bad
      BY <1>2
    <2>2. \E g : IsSum(g, v, u)
      BY <2>1
    <2> QED
      BY <2>1, <2>2, FS_Subset
  <1> HIDE DEF F
  <1> DEFINE G == [s \in SUBSET m |-> IF s = {} THEN 0
                     ELSE v[Some(s)] + F(s \ {Some(s)})[s \ {Some(s)}]]
  <1>4. \A s : s \subseteq m /\ s # {} => G[s \ {Some(s)}] = F(s \ {Some(s)})[s \ {Some(s)}]
    <2> SUFFICES ASSUME NEW s, s \subseteq m, s # {}
                 PROVE  G[s \ {Some(s)}] = F(s \ {Some(s)})[s \ {Some(s)}]
      OBVIOUS
    <2>1. Some(s) \in s
      BY DEF Some
    <2> DEFINE u == s \ {Some(s)}
    <2>2. u \subseteq m /\ u # m
      BY <2>1
    <2>3. G[u] = IF u = {} THEN 0 ELSE v[Some(u)] + F(u \ {Some(u)})[u \ {Some(u)}]
      BY <2>2
    <2> HIDE DEF u, G
    <2>4. CASE u = {}
      <3>1. F(u)[u] = 0
        BY <1>3, <2>2, <2>4, SumBase
      <3>2. G[u] = 0
        BY <2>3, <2>4
      <3> QED
        BY <3>1, <3>2 DEF u
    <2>5. CASE u # {}
      <3>1. Some(u) \in u /\ F(u)[u] = v[Some(u)] + F(u)[u \ {Some(u)}]
        BY <1>3, <2>2, <2>5, SumStep
      <3> DEFINE t == u \ {Some(u)}
      <3>2. t \subseteq m /\ t # m /\ t \subseteq u
        BY <2>2
      <3> HIDE DEF t
      <3>3. F(u)[t] = F(t)[t]
        BY <1>3, <2>2, <3>2, SumUnique
      <3>4. F(u)[u] = v[Some(u)] + F(t)[t]
        BY <3>1, <3>3 DEF t
      <3>5. G[u] = v[Some(u)] + F(t)[t]
        BY <2>3, <2>5 DEF t
      <3> QED
        BY <3>4, <3>5 DEF u
    <2> QED
      BY <2>4, <2>5
  <1>5. IsSum(G, v, m)
    BY <1>4 DEF IsSum
  <1> QED
    BY <1>2, <1>5

\* Every sum over A gives the sums over the subsets of A.
LEMMA SumOfSubset ==
    ASSUME NEW A, IsFiniteSet(A), NEW v, NEW w, NEW g, IsSum(g, v, A),
           NEW s, s \subseteq A, \A x \in s : v[x] = w[x]
    PROVE  g[s] = SumOf(w, s)
  <1>1. IsFiniteSet(s)
    BY FS_Subset
  <1> DEFINE h == CHOOSE h : IsSum(h, w, s)
  <1>2. IsSum(h, w, s)
    BY <1>1, SumExists
  <1> HIDE DEF h
  <1>3. g[s] = h[s]
    BY <1>2, SumUnique
  <1> QED
    BY <1>3 DEF h, SumOf

\* A sum of integers is one, and adds them in any order.
LEMMA SumProps ==
    ASSUME NEW A, IsFiniteSet(A), NEW v, \A x \in A : v[x] \in Int
    PROVE  /\ SumOf(v, {}) = 0
           /\ \A s \in SUBSET A : SumOf(v, s) \in Int
           /\ \A s \in SUBSET A : \A x \in s : SumOf(v, s) = v[x] + SumOf(v, s \ {x})
  <1>1. PICK g : IsSum(g, v, A)
    BY SumExists
  <1>2. \A s \in SUBSET A : g[s] = SumOf(v, s)
    BY <1>1, SumOfSubset
  <1>3. g[{}] = 0
    BY <1>1, SumBase
  <1>4. \A s \in SUBSET A : g[s] \in Int
    <2> DEFINE Bad == { s \in SUBSET A : g[s] \notin Int }
    <2>1. SUFFICES ASSUME Bad # {} PROVE FALSE
      OBVIOUS
    <2>2. PICK m \in Bad : \A y \in Bad : y \subseteq m => y = m
      <3>1. Bad \subseteq SUBSET A
        OBVIOUS
      <3> HIDE DEF Bad
      <3> QED
        BY <2>1, <3>1, Smallest
    <2>3. m # {}
      BY <1>3
    <2>4. Some(m) \in m /\ g[m] = v[Some(m)] + g[m \ {Some(m)}]
      BY <1>1, <2>3, SumStep
    <2>5. g[m \ {Some(m)}] \in Int
      BY <2>2, <2>4
    <2> QED
      BY <2>4, <2>5
  <1>5. \A s \in SUBSET A : \A x \in s : g[s] = v[x] + g[s \ {x}]
    <2> DEFINE Bad == { s \in SUBSET A : \E x \in s : g[s] # v[x] + g[s \ {x}] }
    <2>1. SUFFICES ASSUME Bad # {} PROVE FALSE
      OBVIOUS
    <2>2. PICK m \in Bad : \A y \in Bad : y \subseteq m => y = m
      <3>1. Bad \subseteq SUBSET A
        OBVIOUS
      <3> HIDE DEF Bad
      <3> QED
        BY <2>1, <3>1, Smallest
    <2>3. PICK x \in m : g[m] # v[x] + g[m \ {x}]
      OBVIOUS
    <2> DEFINE y == Some(m)
    <2>4. y \in m /\ g[m] = v[y] + g[m \ {y}]
      BY <1>1, SumStep
    <2> HIDE DEF y
    <2>5. x # y
      BY <2>3, <2>4
    <2>6. g[m \ {y}] = v[x] + g[(m \ {y}) \ {x}]
      BY <2>2, <2>4, <2>5
    <2>7. g[m \ {x}] = v[y] + g[(m \ {x}) \ {y}]
      BY <2>2, <2>4, <2>5
    <2>8. (m \ {y}) \ {x} = (m \ {x}) \ {y}
      OBVIOUS
    <2>9. g[(m \ {x}) \ {y}] \in Int /\ v[x] \in Int /\ v[y] \in Int
      BY <1>4, <2>4
    <2>10. g[m] = v[y] + (v[x] + g[(m \ {x}) \ {y}])
      BY <2>4, <2>6, <2>8
    <2>11. g[m] = v[x] + (v[y] + g[(m \ {x}) \ {y}])
      BY <2>9, <2>10
    <2> QED
      BY <2>3, <2>7, <2>11
  <1>6. {} \in SUBSET A
    OBVIOUS
  <1>7. \A s \in SUBSET A : \A x \in s : SumOf(v, s \ {x}) = g[s \ {x}]
    BY <1>2
  <1> QED
    BY <1>2, <1>3, <1>4, <1>5, <1>6, <1>7

\* The sum over two disjoint sets is the sum of theirs.
LEMMA SumUnion ==
    ASSUME NEW A, IsFiniteSet(A), NEW v, \A x \in A : v[x] \in Int,
           NEW s \in SUBSET A, NEW t \in SUBSET A, s \cap t = {}
    PROVE  SumOf(v, s \cup t) = SumOf(v, s) + SumOf(v, t)
  <1> DEFINE Bad == { u \in SUBSET t : SumOf(v, s \cup u) # SumOf(v, s) + SumOf(v, u) }
  <1>1. SUFFICES ASSUME Bad # {} PROVE FALSE
    OBVIOUS
  <1>2. PICK m \in Bad : \A y \in Bad : y \subseteq m => y = m
    <2>1. Bad \subseteq SUBSET A
      OBVIOUS
    <2> HIDE DEF Bad
    <2> QED
      BY <1>1, <2>1, Smallest
  <1>3. m # {}
    <2>1. SumOf(v, {}) = 0 /\ SumOf(v, s) \in Int
      BY SumProps
    <2>2. SumOf(v, s \cup {}) = SumOf(v, s) + SumOf(v, {})
      <3>1. s \cup {} = s
        OBVIOUS
      <3> QED
        BY <2>1, <3>1
    <2>3. SumOf(v, s \cup m) # SumOf(v, s) + SumOf(v, m)
      OBVIOUS
    <2> QED
      BY <2>2, <2>3
  <1>4. PICK x \in m : TRUE
    BY <1>3
  <1>0. \A z \in SUBSET A : \A q \in z : SumOf(v, z) = v[q] + SumOf(v, z \ {q})
    <2> SUFFICES ASSUME NEW z \in SUBSET A, NEW q \in z
                 PROVE  SumOf(v, z) = v[q] + SumOf(v, z \ {q})
      OBVIOUS
    <2> HIDE DEF Bad
    <2> QED
      BY SumProps
  <1>5. SumOf(v, s \cup (m \ {x})) = SumOf(v, s) + SumOf(v, m \ {x})
    BY <1>2, <1>4
  <1>6. SumOf(v, m) = v[x] + SumOf(v, m \ {x})
    BY <1>0, <1>4
  <1>7. SumOf(v, s \cup m) = v[x] + SumOf(v, s \cup (m \ {x}))
    <2>1. s \cup m \in SUBSET A /\ x \in s \cup m /\ (s \cup m) \ {x} = s \cup (m \ {x})
      BY <1>4
    <2> QED
      BY <1>0, <2>1
  <1>8. SumOf(v, s) \in Int /\ SumOf(v, m \ {x}) \in Int /\ v[x] \in Int
    BY SumProps
  <1>9. SumOf(v, s \cup m) # SumOf(v, s) + SumOf(v, m)
    OBVIOUS
  <1> HIDE DEF Bad
  <1> QED
    BY <1>5, <1>6, <1>7, <1>8, <1>9

-----------------------------------------------------------------------------
(* Sorting a finite set.  The position of an element in the sorted         *)
(* sequence is the number of elements that come before it.                 *)

\* R orders S totally, t follows it, and the number of elements before x.
StrictTotal(R, S) ==
    /\ \A a \in S : <<a, a>> \notin R
    /\ \A a, b \in S : a = b \/ <<a, b>> \in R \/ <<b, a>> \in R
    /\ \A a, b, c \in S : <<a, b>> \in R /\ <<b, c>> \in R => <<a, c>> \in R

SortedBy(R, t) == \A i, j \in DOMAIN t : i < j => <<t[i], t[j]>> \in R

Rank(R, S, x) == Cardinality({ y \in S : <<y, x>> \in R })

\* 1 .. n has n elements.
LEMMA Count ==
    ASSUME NEW n \in Nat
    PROVE  IsFiniteSet(1 .. n) /\ Cardinality(1 .. n) = n
  <1>1. 1 \in Int /\ n \in Int
    OBVIOUS
  <1>2. IsFiniteSet(1 .. n) /\ Cardinality(1 .. n) = IF 1 > n THEN 0 ELSE n - 1 + 1
    BY <1>1, FS_Interval
  <1> QED
    BY <1>2

\* Disjoint sets are counted apart.
LEMMA DisjointUnion ==
    ASSUME NEW S, NEW T, IsFiniteSet(S), IsFiniteSet(T), S \cap T = {}
    PROVE  /\ IsFiniteSet(S \cup T)
           /\ Cardinality(S \cup T) = Cardinality(S) + Cardinality(T)
  <1>1. Cardinality(S \cup T) = Cardinality(S) + Cardinality(T) - Cardinality(S \cap T)
    BY FS_Union
  <1>2. Cardinality(S \cap T) = 0 /\ Cardinality(S) \in Nat /\ Cardinality(T) \in Nat
    BY FS_EmptySet, FS_CardinalityType
  <1> QED
    BY <1>1, <1>2, FS_Union

\* A sequence of a set has its elements, each once.
LEMMA SeqOfSet ==
    ASSUME NEW S, IsFiniteSet(S), NEW t \in SetToSeqs(S)
    PROVE  /\ Cardinality(S) \in Nat
           /\ t \in [1 .. Cardinality(S) -> S] /\ t \in Seq(S)
           /\ Len(t) = Cardinality(S) /\ DOMAIN t = 1 .. Cardinality(S)
           /\ \A i, j \in 1 .. Cardinality(S) : t[i] = t[j] => i = j
           /\ \A x \in S : \E i \in 1 .. Cardinality(S) : t[i] = x
           /\ ToSet(t) = S
  <1> DEFINE n == Cardinality(S)
  <1>1. n \in Nat
    BY FS_CardinalityType
  <1>2. t \in [1 .. n -> S] /\ \A i, j \in 1 .. n : i # j => t[i] # t[j]
    BY DEF SetToSeqs
  <1> HIDE DEF n
  <1>3. t \in Seq(S) /\ Len(t) = n /\ DOMAIN t = 1 .. n
    BY <1>1, <1>2
  <1>4. t \in Injection(1 .. n, S)
    BY <1>2 DEF Injection, IsInjective
  <1>5. Cardinality(1 .. n) = n
    BY <1>1, Count
  <1>6. t \in Surjection(1 .. n, S)
    BY <1>4, <1>5, FS_Injection DEF n
  <1>7. \A x \in S : \E i \in 1 .. n : t[i] = x
    BY <1>6 DEF Surjection
  <1>8. ToSet(t) = S
    BY <1>2, <1>3, <1>7 DEF ToSet
  <1> QED
    BY <1>1, <1>2, <1>3, <1>7, <1>8 DEF n

\* Ranks are below the number of elements, and differ as the elements do.
LEMMA Ranks ==
    ASSUME NEW S, IsFiniteSet(S), NEW R, StrictTotal(R, S)
    PROVE  /\ \A x \in S : Rank(R, S, x) \in 0 .. Cardinality(S) - 1
           /\ \A x, y \in S : <<x, y>> \in R => Rank(R, S, x) < Rank(R, S, y)
  <1> DEFINE Below(x) == { y \in S : <<y, x>> \in R }
  <1>1. \A x : IsFiniteSet(Below(x)) /\ Cardinality(Below(x)) \in Nat
    <2> TAKE x
    <2>1. Below(x) \in SUBSET S
      OBVIOUS
    <2> HIDE DEF Below
    <2> QED
      BY <2>1, FS_Subset, FS_CardinalityType
  <1>2. ASSUME NEW x \in S
        PROVE  Cardinality(Below(x)) < Cardinality(S)
    <2>1. Below(x) \in SUBSET S /\ Below(x) # S
      BY DEF StrictTotal
    <2> HIDE DEF Below
    <2> QED
      BY <1>1, <2>1, FS_Subset, FS_CardinalityType
  <1>3. ASSUME NEW x \in S, NEW y \in S, <<x, y>> \in R
        PROVE  Cardinality(Below(x)) < Cardinality(Below(y))
    <2>1. Below(x) \in SUBSET Below(y) /\ x \in Below(y) /\ x \notin Below(x)
      BY <1>3 DEF StrictTotal
    <2> HIDE DEF Below
    <2> QED
      BY <1>1, <2>1, FS_Subset
  <1>4. Cardinality(S) \in Nat
    BY FS_CardinalityType
  <1>5. \A x \in S : Rank(R, S, x) \in 0 .. Cardinality(S) - 1
    <2> SUFFICES ASSUME NEW x \in S
                 PROVE  Cardinality(Below(x)) \in 0 .. Cardinality(S) - 1
      BY DEF Rank
    <2> HIDE DEF Below
    <2> QED
      BY <1>1, <1>2, <1>4
  <1>6. \A x, y \in S : <<x, y>> \in R => Rank(R, S, x) < Rank(R, S, y)
    BY <1>3 DEF Rank
  <1> QED
    BY <1>5, <1>6

\* Every sequence of the set can be brought into order.
LEMMA SortExists ==
    ASSUME NEW S, IsFiniteSet(S), NEW R, StrictTotal(R, S), NEW s \in SetToSeqs(S)
    PROVE  \E p \in SetToSeqs(1 .. Cardinality(S)) :
              \A i, j \in 1 .. Cardinality(S) : i < j => <<s[p[i]], s[p[j]]>> \in R
  <1> DEFINE n == Cardinality(S)
             f == [i \in 1 .. n |-> Rank(R, S, s[i]) + 1]
             p == [k \in 1 .. n |-> CHOOSE i \in 1 .. n : f[i] = k]
  <1>1. n \in Nat /\ s \in [1 .. n -> S] /\ \A i, j \in 1 .. n : s[i] = s[j] => i = j
    BY SeqOfSet
  <1>2. Cardinality(1 .. n) = n /\ IsFiniteSet(1 .. n)
    BY <1>1, Count
  <1> HIDE DEF n
  <1>3. f \in [1 .. n -> 1 .. n]
    <2>1. \A i \in 1 .. n : Rank(R, S, s[i]) \in 0 .. n - 1
      BY <1>1, Ranks DEF n
    <2> QED
      BY <1>1, <2>1
  <1>4. \A i, j \in 1 .. n : <<s[i], s[j]>> \in R => f[i] < f[j]
    <2>1. \A i, j \in 1 .. n : <<s[i], s[j]>> \in R => Rank(R, S, s[i]) < Rank(R, S, s[j])
      BY <1>1, Ranks
    <2>2. \A i \in 1 .. n : Rank(R, S, s[i]) \in 0 .. n - 1
      BY <1>1, Ranks DEF n
    <2> QED
      BY <1>1, <2>1, <2>2
  <1>5. \A i, j \in 1 .. n : s[i] = s[j] \/ <<s[i], s[j]>> \in R \/ <<s[j], s[i]>> \in R
    BY <1>1 DEF StrictTotal
  <1> HIDE DEF f
  <1>6. \A i, j \in 1 .. n : f[i] = f[j] => i = j
    <2> TAKE i, j \in 1 .. n
    <2>1. f[i] \in Int /\ f[j] \in Int
      BY <1>1, <1>3
    <2>2. s[i] = s[j] \/ f[i] < f[j] \/ f[j] < f[i]
      BY <1>4, <1>5
    <2>3. s[i] = s[j] => i = j
      BY <1>1
    <2> QED
      BY <2>1, <2>2, <2>3
  <1>7. \A k \in 1 .. n : \E i \in 1 .. n : f[i] = k
    <2>1. f \in Injection(1 .. n, 1 .. n)
      BY <1>3, <1>6 DEF Injection, IsInjective
    <2>2. f \in Surjection(1 .. n, 1 .. n)
      BY <1>2, <2>1, FS_Injection
    <2> QED
      BY <2>2 DEF Surjection
  <1>8. \A k \in 1 .. n : p[k] \in 1 .. n /\ f[p[k]] = k
    BY <1>7
  <1>9. p \in [1 .. n -> 1 .. n]
    BY <1>8
  <1> HIDE DEF p
  <1>10. p \in SetToSeqs(1 .. n)
    BY <1>2, <1>8, <1>9 DEF SetToSeqs
  <1>11. ASSUME NEW i \in 1 .. n, NEW j \in 1 .. n, i < j
         PROVE  <<s[p[i]], s[p[j]]>> \in R
    <2>1. p[i] \in 1 .. n /\ p[j] \in 1 .. n /\ f[p[i]] = i /\ f[p[j]] = j
      BY <1>8
    <2>2. ~(f[p[j]] < f[p[i]]) /\ f[p[j]] # f[p[i]]
      BY <1>1, <1>11, <2>1
    <2>3. s[p[i]] # s[p[j]]
      BY <1>1, <2>1, <2>2
    <2> QED
      BY <1>4, <1>5, <2>1, <2>2, <2>3
  <1> QED
    BY <1>10, <1>11 DEF n

\* In one way only.
LEMMA SortUnique ==
    ASSUME NEW S, IsFiniteSet(S), NEW R, StrictTotal(R, S),
           NEW t \in SetToSeqs(S), NEW u \in SetToSeqs(S), SortedBy(R, t), SortedBy(R, u)
    PROVE  t = u
  <1> DEFINE n == Cardinality(S)
  <1>1. ASSUME NEW w \in SetToSeqs(S), SortedBy(R, w)
        PROVE  \A i \in 1 .. n : w[i] \in S /\ Rank(R, S, w[i]) = i - 1
    <2>1. /\ n \in Nat /\ w \in [1 .. n -> S] /\ DOMAIN w = 1 .. n
          /\ \A i, j \in 1 .. n : w[i] = w[j] => i = j
          /\ \A x \in S : \E i \in 1 .. n : w[i] = x
      BY SeqOfSet
    <2> HIDE DEF n
    <2> TAKE i \in 1 .. n
    <2> DEFINE Below == { y \in S : <<y, w[i]>> \in R }
               first == [j \in 1 .. i - 1 |-> w[j]]
    <2>2. \A j \in 1 .. n : <<w[j], w[i]>> \in R <=> j < i
      <3> TAKE j \in 1 .. n
      <3>1. CASE j < i
        BY <1>1, <2>1, <3>1 DEF SortedBy
      <3>2. CASE j = i
        BY <2>1, <3>2 DEF StrictTotal
      <3>3. CASE j > i
        <4>1. <<w[i], w[j]>> \in R
          BY <1>1, <2>1, <3>3 DEF SortedBy
        <4>2. <<w[j], w[i]>> \notin R
          BY <2>1, <4>1 DEF StrictTotal
        <4> QED
          BY <2>1, <3>3, <4>2
      <3> QED
        BY <2>1, <3>1, <3>2, <3>3
    <2>3. first \in [1 .. i - 1 -> Below]
      BY <2>1, <2>2
    <2>4. \A y \in Below : \E j \in 1 .. i - 1 : first[j] = y
      BY <2>1, <2>2
    <2>5. \A j, k \in 1 .. i - 1 : first[j] = first[k] => j = k
      BY <2>1
    <2> HIDE DEF first, Below
    <2>6. first \in Bijection(1 .. i - 1, Below)
      BY <2>3, <2>4, <2>5 DEF Bijection, Injection, Surjection, IsInjective
    <2>7. Cardinality(Below) = i - 1
      <3>1. i - 1 \in Nat
        BY <2>1
      <3>2. ExistsBijection(1 .. i - 1, Below)
        BY <2>6 DEF ExistsBijection
      <3> QED
        BY <3>1, <3>2, FS_CountingElements
    <2> QED
      BY <2>1, <2>7 DEF Rank, Below
  <1>2. \A i \in 1 .. n : t[i] \in S /\ u[i] \in S /\ Rank(R, S, t[i]) = Rank(R, S, u[i])
    BY <1>1
  <1>3. \A i \in 1 .. n : t[i] = u[i]
    <2> TAKE i \in 1 .. n
    <2>1. \A x, y \in S : <<x, y>> \in R => Rank(R, S, x) < Rank(R, S, y)
      BY Ranks
    <2>2. t[i] = u[i] \/ <<t[i], u[i]>> \in R \/ <<u[i], t[i]>> \in R
      BY <1>2 DEF StrictTotal
    <2>3. Rank(R, S, t[i]) \in Int
      BY <1>2, Ranks
    <2> QED
      BY <1>2, <2>1, <2>2, <2>3
  <1>4. t \in [1 .. n -> S] /\ u \in [1 .. n -> S]
    BY SeqOfSet
  <1> HIDE DEF n
  <1>5. t = [i \in 1 .. n |-> t[i]] /\ u = [i \in 1 .. n |-> u[i]]
    BY <1>4
  <1> QED
    BY <1>3, <1>5, Zenon

\* Elements taken in an order without inversions are the sorted sequence.
LEMMA SortedSeq ==
    ASSUME NEW S, IsFiniteSet(S), NEW R, StrictTotal(R, S), NEW s \in SetToSeqs(S),
           NEW p \in SetToSeqs(1 .. Len(s)),
           \A i, j \in 1 .. Len(s) : i < j =>
              \/ <<s[p[i]], s[p[j]]>> \in R
              \/ <<s[p[j]], s[p[i]]>> \notin R
    PROVE  /\ [i \in 1 .. Len(s) |-> s[p[i]]] \in SetToSeqs(S)
           /\ SortedBy(R, [i \in 1 .. Len(s) |-> s[p[i]]])
  <1> DEFINE n == Cardinality(S)
             t == [i \in 1 .. n |-> s[p[i]]]
  <1>1. /\ n \in Nat /\ s \in [1 .. n -> S] /\ Len(s) = n
        /\ \A i, j \in 1 .. n : s[i] = s[j] => i = j
    BY SeqOfSet
  <1>2. IsFiniteSet(1 .. n) /\ Cardinality(1 .. n) = n
    BY <1>1, Count
  <1>3. p \in [1 .. n -> 1 .. n] /\ \A i, j \in 1 .. n : i # j => p[i] # p[j]
    BY <1>1, <1>2 DEF SetToSeqs
  <1>4. t \in [1 .. n -> S] /\ \A i, j \in 1 .. n : i # j => t[i] # t[j]
    <2> HIDE DEF n
    <2> QED
      BY <1>1, <1>3
  <1>5. t \in SetToSeqs(S)
    BY <1>4 DEF SetToSeqs
  <1>6. ASSUME NEW i \in 1 .. n, NEW j \in 1 .. n, i < j
        PROVE  <<t[i], t[j]>> \in R
    <2>1. t[i] = s[p[i]] /\ t[j] = s[p[j]] /\ t[i] \in S /\ t[j] \in S
      BY <1>4
    <2> HIDE DEF t, n
    <2>2. t[i] # t[j]
      BY <1>1, <1>4, <1>6
    <2>3. <<t[i], t[j]>> \in R \/ <<t[j], t[i]>> \notin R
      BY <1>1, <1>6, <2>1
    <2> QED
      BY <2>1, <2>2, <2>3 DEF StrictTotal
  <1>7. SortedBy(R, t)
    BY <1>4, <1>6 DEF SortedBy
  <1> QED
    BY <1>1, <1>5, <1>7

-----------------------------------------------------------------------------
(* What merge and sort do to the coins and outputs of a deposit.           *)

\* The coins of both traders, and the order of their outpoints.
AllCoins == Coins["Seller"] \cup Coins["Buyer"]
InputOrder == { ab \in AllCoins \X AllCoins : Before(ab[1], ab[2]) }

\* Outputs of different scripts.
Distinct(outs) ==
    /\ IsFiniteSet(outs)
    /\ \A o \in outs : o.script \in DepositScripts /\ o.value \in Int
    /\ \A o, q \in outs : o.script = q.script => o = q
\* The order of their scripts.
OutputOrder(outs) == { ab \in outs \X outs : Before(ab[1].script, ab[2].script) }

\* The inputs are brought into the order of their outpoints.
LEMMA InputsSorted ==
    ASSUME NEW ins \in SUBSET AllCoins, IsFiniteSet(ins), NEW s \in SetToSeqs(ins)
    PROVE  /\ SortedInputs(s) \in SetToSeqs(ins)
           /\ StrictTotal(InputOrder, ins) /\ SortedBy(InputOrder, SortedInputs(s))
  <1>1. StrictTotal(InputOrder, ins)
    BY OrderAssumption DEF StrictTotal, InputOrder, AllCoins
  <1> DEFINE Ordered(p) == \A i, j \in 1 .. Len(s) : i < j =>
                              \/ Before(s[p[i]], s[p[j]])
                              \/ ~Before(s[p[j]], s[p[i]]) /\ p[i] < p[j]
             p == CHOOSE p \in SetToSeqs(1 .. Len(s)) : Ordered(p)
  <1>2. Len(s) = Cardinality(ins)
    BY SeqOfSet
  <1>3. \E q \in SetToSeqs(1 .. Len(s)) : Ordered(q)
    <2>1. PICK q \in SetToSeqs(1 .. Len(s)) :
             \A i, j \in 1 .. Len(s) : i < j => <<s[q[i]], s[q[j]]>> \in InputOrder
      BY <1>1, <1>2, SortExists
    <2>2. Ordered(q)
      BY <2>1 DEF InputOrder
    <2> QED
      BY <2>2
  <1> HIDE DEF Ordered
  <1>4. p \in SetToSeqs(1 .. Len(s)) /\ Ordered(p)
    BY <1>3
  <1>5. SortedInputs(s) = [i \in 1 .. Len(s) |-> s[p[i]]]
    BY DEF SortedInputs, SortBy, Ordered
  <1> HIDE DEF p
  <1>6. \A i, j \in 1 .. Len(s) : i < j =>
           \/ <<s[p[i]], s[p[j]]>> \in InputOrder
           \/ <<s[p[j]], s[p[i]]>> \notin InputOrder
    <2> TAKE i, j \in 1 .. Len(s)
    <2> HAVE i < j
    <2>1. s[p[i]] \in AllCoins /\ s[p[j]] \in AllCoins
      <3>1. s \in [1 .. Len(s) -> ins]
        BY <1>2, SeqOfSet
      <3>2. p \in [1 .. Cardinality(1 .. Len(s)) -> 1 .. Len(s)]
        BY <1>4 DEF SetToSeqs
      <3>3. Cardinality(1 .. Len(s)) = Len(s)
        <4>1. Len(s) \in Nat
          BY <1>2, SeqOfSet
        <4> QED
          BY <4>1, Count
      <3> QED
        BY <3>1, <3>2, <3>3
    <2>2. Before(s[p[i]], s[p[j]]) \/ ~Before(s[p[j]], s[p[i]])
      BY <1>4 DEF Ordered
    <2> QED
      BY <2>1, <2>2 DEF InputOrder
  <1> QED
    BY <1>1, <1>4, <1>5, <1>6, SortedSeq

\* The outputs are brought into the order of their scripts.
LEMMA OutputsSorted ==
    ASSUME NEW outs, Distinct(outs), NEW s \in SetToSeqs(outs)
    PROVE  /\ SortedOutputs(s) \in SetToSeqs(outs)
           /\ StrictTotal(OutputOrder(outs), outs)
           /\ SortedBy(OutputOrder(outs), SortedOutputs(s))
  <1> DEFINE R == OutputOrder(outs)
  <1>1. StrictTotal(R, outs) /\ IsFiniteSet(outs)
    BY OrderAssumption DEF StrictTotal, OutputOrder, Distinct
  <1> DEFINE key == [i \in 1 .. Len(s) |-> s[i].script]
             Ordered(p) == \A i, j \in 1 .. Len(s) : i < j =>
                              \/ Before(key[p[i]], key[p[j]])
                              \/ ~Before(key[p[j]], key[p[i]]) /\ p[i] < p[j]
             p == CHOOSE p \in SetToSeqs(1 .. Len(s)) : Ordered(p)
  <1>2. Len(s) = Cardinality(outs)
    BY <1>1, SeqOfSet
  <1>3. \A q \in SetToSeqs(1 .. Len(s)), i \in 1 .. Len(s) :
           q[i] \in 1 .. Len(s) /\ s[q[i]] \in outs /\ key[q[i]] = s[q[i]].script
    <2> SUFFICES ASSUME NEW q \in SetToSeqs(1 .. Len(s)), NEW i \in 1 .. Len(s)
                 PROVE  q[i] \in 1 .. Len(s) /\ s[q[i]] \in outs /\ key[q[i]] = s[q[i]].script
      OBVIOUS
    <2>1. s \in [1 .. Len(s) -> outs]
      BY <1>1, <1>2, SeqOfSet
    <2>2. q \in [1 .. Cardinality(1 .. Len(s)) -> 1 .. Len(s)]
      BY DEF SetToSeqs
    <2>3. Cardinality(1 .. Len(s)) = Len(s)
      <3>1. Len(s) \in Nat
        BY <1>1, <1>2, SeqOfSet
      <3> QED
        BY <3>1, Count
    <2>4. q[i] \in 1 .. Len(s)
      BY <2>2, <2>3
    <2> QED
      BY <2>1, <2>4
  <1> HIDE DEF key
  <1>4. \E q \in SetToSeqs(1 .. Len(s)) : Ordered(q)
    <2>1. PICK q \in SetToSeqs(1 .. Len(s)) :
             \A i, j \in 1 .. Len(s) : i < j => <<s[q[i]], s[q[j]]>> \in R
      <3> HIDE DEF R
      <3> QED
        BY <1>1, <1>2, SortExists
    <2>2. Ordered(q)
      BY <1>3, <2>1 DEF OutputOrder
    <2> QED
      BY <2>2
  <1> HIDE DEF Ordered
  <1>5. p \in SetToSeqs(1 .. Len(s)) /\ Ordered(p)
    BY <1>4
  <1>6. SortedOutputs(s) = [i \in 1 .. Len(s) |-> s[p[i]]]
    BY DEF SortedOutputs, SortBy, Ordered, key
  <1> HIDE DEF p
  <1>7. \A i, j \in 1 .. Len(s) : i < j =>
           \/ <<s[p[i]], s[p[j]]>> \in R
           \/ <<s[p[j]], s[p[i]]>> \notin R
    <2> TAKE i, j \in 1 .. Len(s)
    <2> HAVE i < j
    <2>1. /\ s[p[i]] \in outs /\ key[p[i]] = s[p[i]].script
          /\ s[p[j]] \in outs /\ key[p[j]] = s[p[j]].script
      BY <1>3, <1>5
    <2>2. Before(key[p[i]], key[p[j]]) \/ ~Before(key[p[j]], key[p[i]])
      BY <1>5 DEF Ordered
    <2> QED
      BY <2>1, <2>2 DEF OutputOrder
  <1> HIDE DEF R
  <1>8. /\ [i \in 1 .. Len(s) |-> s[p[i]]] \in SetToSeqs(outs)
        /\ SortedBy(R, [i \in 1 .. Len(s) |-> s[p[i]]])
    BY <1>1, <1>5, <1>7, SortedSeq
  <1> QED
    BY <1>1, <1>6, <1>8 DEF R

\* The sums of the model are sums.
LEMMA InputSums ==
    /\ \A ins \in SUBSET AllCoins : InputSum(ins) \in Int /\ IsFiniteSet(ins)
    /\ \A s, t \in SUBSET AllCoins :
         s \cap t = {} => InputSum(s \cup t) = InputSum(s) + InputSum(t)
  <1>1. \A ins : InputSum(ins) = SumOf(ValueOf, ins)
    BY DEF InputSum, MapThenSumSet, MapThenFoldSet, SumOf, IsSum, Some
  <1>2. IsFiniteSet(AllCoins) /\ \A c \in AllCoins : ValueOf[c] \in Int
    <2>1. IsFiniteSet(Coins["Seller"]) /\ IsFiniteSet(Coins["Buyer"])
      BY CoinsAssumption DEF Role
    <2>2. IsFiniteSet(AllCoins)
      BY <2>1, FS_Union DEF AllCoins
    <2>3. \A c \in AllCoins : ValueOf[c] \in Int
      BY CoinsAssumption DEF AllCoins
    <2> QED
      BY <2>2, <2>3
  <1>3. ASSUME NEW ins \in SUBSET AllCoins
        PROVE  InputSum(ins) \in Int /\ IsFiniteSet(ins)
    BY <1>1, <1>2, SumProps, FS_Subset
  <1>4. ASSUME NEW s \in SUBSET AllCoins, NEW t \in SUBSET AllCoins, s \cap t = {}
        PROVE  InputSum(s \cup t) = InputSum(s) + InputSum(t)
    BY <1>1, <1>2, <1>4, SumUnion
  <1> QED
    BY <1>3, <1>4

\* So are those over outputs.
LEMMA OutputSumIs == \A outs : OutputSum(outs) = SumOf([o \in outs |-> o.value], outs)
  BY Zenon DEF OutputSum, MapThenSumSet, MapThenFoldSet, SumOf, IsSum, Some

\* The sum over none and over one.
LEMMA OutputSums ==
    /\ OutputSum({}) = 0
    /\ \A o : o.value \in Int => OutputSum({o}) = o.value
  <1>1. \A outs : OutputSum(outs) = SumOf([o \in outs |-> o.value], outs)
    BY OutputSumIs, Zenon
  <1>2. OutputSum({}) = 0
    <2> DEFINE v == [o \in {} |-> o.value]
    <2>1. IsFiniteSet({}) /\ \A o \in {} : v[o] \in Int
      BY FS_EmptySet
    <2> HIDE DEF v
    <2>2. SumOf(v, {}) = 0
      BY <2>1, SumProps
    <2> QED
      BY <1>1, <2>2 DEF v
  <1>3. ASSUME NEW o, o.value \in Int
        PROVE  OutputSum({o}) = o.value
    <2> DEFINE v == [q \in {o} |-> q.value]
    <2>1. v[o] = o.value /\ v[o] \in Int
      BY <1>3
    <2>2. \A x \in {o} : v[x] \in Int
      BY <2>1
    <2>3. IsFiniteSet({o}) /\ {o} \in SUBSET {o} /\ {o} \ {o} = {}
      BY FS_Singleton
    <2>4. OutputSum({o}) = SumOf(v, {o})
      BY <1>1
    <2> HIDE DEF v
    <2>5. SumOf(v, {o}) = v[o] + SumOf(v, {o} \ {o}) /\ SumOf(v, {}) = 0
      BY <2>2, <2>3, SumProps
    <2>6. SumOf(v, {o}) = v[o] + 0
      BY <2>3, <2>5
    <2> QED
      BY <2>1, <2>4, <2>6
  <1> QED
    BY <1>2, <1>3

\* And they add up.
LEMMA OutputUnion ==
    ASSUME NEW s, NEW t, IsFiniteSet(s), IsFiniteSet(t), s \cap t = {},
           \A o \in s \cup t : o.value \in Int
    PROVE  /\ OutputSum(s \cup t) = OutputSum(s) + OutputSum(t)
           /\ OutputSum(s) \in Int /\ OutputSum(t) \in Int
  <1> DEFINE A == s \cup t
             v == [o \in A |-> o.value]
  <1>1. IsFiniteSet(A)
    BY FS_Union
  <1>2. \A x \in A : v[x] \in Int
    OBVIOUS
  <1>3. ASSUME NEW outs \in SUBSET A
        PROVE  OutputSum(outs) = SumOf(v, outs)
    <2>1. OutputSum(outs) = SumOf([o \in outs |-> o.value], outs)
      BY OutputSumIs, Zenon
    <2>2. \A x \in outs : v[x] = [o \in outs |-> o.value][x]
      OBVIOUS
    <2> HIDE DEF v, A
    <2>3. PICK g : IsSum(g, v, A)
      BY <1>1, SumExists
    <2>4. g[outs] = SumOf([o \in outs |-> o.value], outs)
      BY <1>1, <2>2, <2>3, SumOfSubset
    <2>5. g[outs] = SumOf(v, outs)
      BY <1>1, <2>3, SumOfSubset
    <2> QED
      BY <2>1, <2>4, <2>5
  <1>4. s \in SUBSET A /\ t \in SUBSET A /\ A \in SUBSET A
    OBVIOUS
  <1> HIDE DEF v, A
  <1>5. SumOf(v, s \cup t) = SumOf(v, s) + SumOf(v, t)
    BY <1>1, <1>2, <1>4, SumUnion
  <1>6. SumOf(v, s) \in Int /\ SumOf(v, t) \in Int
    BY <1>1, <1>2, <1>4, SumProps
  <1> QED
    BY <1>3, <1>4, <1>5, <1>6 DEF A

-----------------------------------------------------------------------------
(* The inductive invariant: where the two transactions come from.          *)

\* The half of r that ins fund.
Half(r, ins) == Psbt(ins, {Out(PointOf(r), FundedByMe(r))} \cup ChangeOf(r, ins))

\* Each half was funded by a selection of its trader's coins.
HalvesInv ==
    /\ part = [r \in Role |-> part[r]]
    /\ \A r \in Role : Built(part[r]) => \E ins \in Selections(r) : part[r] = Half(r, ins)

\* What r merged is made of two halves that were complete, and of r's terms.
MergedFrom(r) ==
    /\ Built(part["Seller"]) /\ Built(part["Buyer"])
    /\ \/ merged[r] = Failed /\ ~Finishes(r)
       \/ /\ Finishes(r)
          /\ \E ins \in SetToSeqs(AllInputs), outs \in SetToSeqs(AllOutputs(r) \cup Drained(r)) :
                merged[r] = Psbt(SortedInputs(ins), SortedOutputs(outs))
WholesInv ==
    /\ merged = [r \in Role |-> merged[r]]
    /\ \A r \in Role : merged[r] # None => MergedFrom(r)

\* The inductive invariant of the merge.
MergeInv == terms \in TermsChoices /\ HalvesInv /\ WholesInv

\* It holds of every deposit.
LEMMA MergeInvariant == MergeSpec => []MergeInv
  <1>1. MergeInit => MergeInv
    BY DEF MergeInit, MergeInv, HalvesInv, WholesInv, Built, None
  <1>2. MergeInv /\ [MergeNext]_dvars => MergeInv'
    <2> SUFFICES ASSUME MergeInv, [MergeNext]_dvars PROVE MergeInv'
      OBVIOUS
    <2> USE DEF MergeInv
    <2>1. ASSUME UNCHANGED <<terms, part>>, NEW r \in Role
          PROVE  /\ Finishes(r)' <=> Finishes(r)
                 /\ AllInputs' = AllInputs
                 /\ (AllOutputs(r) \cup Drained(r))' = AllOutputs(r) \cup Drained(r)
      BY <2>1 DEF Finishes, Total, AllInputs, AllOutputs, Drained, Copied
    <2>2. ASSUME UNCHANGED <<terms, part>>, NEW r \in Role, merged'[r] = merged[r], MergedFrom(r)
          PROVE  MergedFrom(r)'
      BY <2>1, <2>2 DEF MergedFrom
    <2>3. ASSUME UNCHANGED <<terms, part>> PROVE HalvesInv'
      BY <2>3 DEF HalvesInv, Half, FundedByMe, ChangeOf, LeftOf, Selections
    <2>4. ASSUME UNCHANGED terms, NEW r \in Role, part[r] = None,
                 NEW half, part' = [part EXCEPT ![r] = half],
                 Built(half) => \E ins \in Selections(r) : half = Half(r, ins),
                 UNCHANGED merged
          PROVE  MergeInv'
      <3>1. part' = [q \in Role |-> part'[q]]
        BY <2>4 DEF HalvesInv
      <3>2. part'[r] = half /\ \A q \in Role \ {r} : part'[q] = part[q]
        BY <2>4 DEF HalvesInv
      <3>3. \A q \in Role : \A ins : Half(q, ins)' = Half(q, ins) /\ Selections(q)' = Selections(q)
        BY <2>4 DEF Half, FundedByMe, ChangeOf, LeftOf, Selections
      <3>4. \A q \in Role : Built(part'[q]) => \E ins \in Selections(q) : part'[q] = Half(q, ins)
        BY <2>4, <3>2 DEF HalvesInv
      <3>5. HalvesInv'
        BY <3>1, <3>3, <3>4 DEF HalvesInv
      <3>6. \A q \in Role : merged[q] = None
        <4>1. r = "Seller" \/ r = "Buyer"
          BY DEF Role
        <4>2. ~Built(part[r])
          BY <2>4 DEF Built, None
        <4> QED
          BY <4>1, <4>2 DEF WholesInv, MergedFrom
      <3>7. WholesInv'
        BY <2>4, <3>6 DEF WholesInv
      <3> QED
        BY <2>4, <3>5, <3>7
    <2>5. ASSUME NEW r \in Role, GeneratePart(r)
          PROVE  MergeInv'
      <3>1. PICK ins \in Selections(r) : part' = [part EXCEPT ![r] = Half(r, ins)]
        BY <2>5 DEF GeneratePart, Half
      <3> QED
        BY <2>4, <2>5, <3>1 DEF GeneratePart
    <2>6. ASSUME NEW r \in Role, GeneratePartFails(r)
          PROVE  MergeInv'
      <3>1. ~Built(Failed)
        BY DEF Built, Failed
      <3> QED
        BY <2>4, <2>6, <3>1 DEF GeneratePartFails
    <2>7. ASSUME UNCHANGED <<terms, part>>, NEW r \in Role,
                 NEW whole, merged' = [merged EXCEPT ![r] = whole],
                 Built(part["Seller"]) /\ Built(part["Buyer"]),
                 \/ whole = Failed /\ ~Finishes(r)
                 \/ /\ Finishes(r)
                    /\ \E ins \in SetToSeqs(AllInputs),
                          outs \in SetToSeqs(AllOutputs(r) \cup Drained(r)) :
                          whole = Psbt(SortedInputs(ins), SortedOutputs(outs))
          PROVE  MergeInv'
      <3>1. merged' = [q \in Role |-> merged'[q]] /\ merged'[r] = whole
        BY <2>7 DEF WholesInv
      <3>2. \A q \in Role \ {r} : merged'[q] = merged[q]
        BY <2>7 DEF WholesInv
      <3>3. MergedFrom(r)'
        <4>1. (Built(part["Seller"]) /\ Built(part["Buyer"]))'
          BY <2>7
        <4>2. CASE whole = Failed /\ ~Finishes(r)
          BY <2>1, <2>7, <3>1, <4>1, <4>2 DEF MergedFrom
        <4>3. CASE /\ Finishes(r)
                   /\ \E ins \in SetToSeqs(AllInputs),
                         outs \in SetToSeqs(AllOutputs(r) \cup Drained(r)) :
                         whole = Psbt(SortedInputs(ins), SortedOutputs(outs))
          BY <2>1, <2>7, <3>1, <4>1, <4>3 DEF MergedFrom
        <4> QED
          BY <2>7, <4>2, <4>3
      <3>4. \A q \in Role : merged'[q] # None => MergedFrom(q)'
        BY <2>2, <2>7, <3>2, <3>3 DEF WholesInv
      <3>5. WholesInv'
        BY <3>1, <3>4 DEF WholesInv
      <3> QED
        BY <2>3, <2>7, <3>5
    <2>8. ASSUME NEW r \in Role, BuildAndMerge(r)
          PROVE  MergeInv'
      <3>1. PICK ins \in SetToSeqs(AllInputs), outs \in SetToSeqs(AllOutputs(r) \cup Drained(r)) :
               merged' = [merged EXCEPT ![r] = Psbt(SortedInputs(ins), SortedOutputs(outs))]
        BY <2>8 DEF BuildAndMerge
      <3>2. Built(part["Seller"]) /\ Built(part["Buyer"])
        BY <2>8 DEF BuildAndMerge, Other, Role
      <3> QED
        BY <2>7, <2>8, <3>1, <3>2 DEF BuildAndMerge
    <2>9. ASSUME NEW r \in Role, BuildAndMergeFails(r)
          PROVE  MergeInv'
      <3>1. Built(part["Seller"]) /\ Built(part["Buyer"])
        BY <2>9 DEF BuildAndMergeFails, Other, Role
      <3> QED
        BY <2>7, <2>9, <3>1 DEF BuildAndMergeFails
    <2>10. CASE UNCHANGED dvars
      <3>1. \A q \in Role : merged'[q] # None => MergedFrom(q)'
        BY <2>2, <2>10 DEF WholesInv, dvars
      <3>2. WholesInv'
        BY <2>10, <3>1 DEF WholesInv, dvars
      <3> QED
        BY <2>3, <2>10, <3>2 DEF dvars
    <2> QED
      BY <2>5, <2>6, <2>8, <2>9, <2>10 DEF MergeNext
  <1> QED
    BY <1>1, <1>2, PTL DEF MergeSpec

-----------------------------------------------------------------------------
(* What a deposit is made of, and what remains of its money.               *)

\* A half pays its recipient, its fee, its change, and at most a change that
\* is not worth an output besides.
LEMMA HalfPays ==
    ASSUME terms \in TermsChoices, NEW r \in Role, NEW ins \in Selections(r)
    PROVE  LET outs  == ChangeOf(r, ins)
               extra == InputSum(ins) - FundedByMe(r) - OutputSum(outs)
                          - FEE_RATE * VSize(Cardinality(ins), 1 + Cardinality(outs))
           IN  /\ extra \in Int /\ extra >= 0 /\ extra < FEE_RATE * OUTPUT + DUST
               /\ IsFiniteSet(outs) /\ Cardinality(outs) \in {0, 1}
               /\ OutputSum(outs) \in Int /\ InputSum(ins) \in Int
               /\ Cardinality(ins) \in Nat /\ IsFiniteSet(ins)
               /\ FundedByMe(r) \in Int /\ FundedByMe(r) >= DUST
               /\ outs = {} \/ \E v \in Int : v >= DUST /\ outs = {Out(Change(r), v)}
  <1> DEFINE left == LeftOf(r, ins)
             change == left - FEE_RATE * OUTPUT
             outs == ChangeOf(r, ins)
  <1>1. ins \in SUBSET AllCoins /\ left >= 0 /\ FundedByMe(r) >= DUST
    BY DEF Selections, AllCoins, Role
  <1>2. InputSum(ins) \in Int /\ IsFiniteSet(ins)
    BY <1>1, InputSums
  <1>3. Cardinality(ins) \in Nat
    BY <1>2, FS_CardinalityType
  <1>4. FundedByMe(r) \in Int
    BY TermsAssumption DEF FundedByMe
  <1>5. /\ left = InputSum(ins) - FundedByMe(r) - 20 * (11 + 58 * Cardinality(ins) + 43)
        /\ left \in Int /\ change = left - 860 /\ change \in Int
    BY <1>2, <1>3, <1>4 DEF LeftOf, FEE_RATE, VSize, BASE, INPUT, OUTPUT
  <1>6. outs = IF change >= 330 THEN {Out(Change(r), change)} ELSE {}
    BY DEF ChangeOf, DUST
  <1> HIDE DEF left, change, outs
  <1>7. CASE change >= 330
    <2>1. outs = {Out(Change(r), change)}
      BY <1>6, <1>7
    <2>2. IsFiniteSet(outs) /\ Cardinality(outs) = 1
      BY <2>1, FS_Singleton
    <2>3. Out(Change(r), change).value = change
      BY DEF Out
    <2>4. OutputSum(outs) = change
      BY <1>5, <2>1, <2>3, OutputSums
    <2>5. InputSum(ins) - FundedByMe(r) - OutputSum(outs) - 20 * (11 + 58 * Cardinality(ins) + 43 * (1 + 1)) = 0
      BY <1>2, <1>3, <1>4, <1>5, <2>4
    <2> QED
      BY <1>1, <1>2, <1>3, <1>4, <1>5, <1>7, <2>1, <2>2, <2>4, <2>5
      DEF FEE_RATE, VSize, BASE, INPUT, OUTPUT, DUST, outs
  <1>8. CASE ~(change >= 330)
    <2>1. outs = {}
      BY <1>6, <1>8
    <2>2. IsFiniteSet(outs) /\ Cardinality(outs) = 0 /\ OutputSum(outs) = 0
      BY <2>1, FS_EmptySet, OutputSums
    <2>3. InputSum(ins) - FundedByMe(r) - OutputSum(outs) - 20 * (11 + 58 * Cardinality(ins) + 43 * (1 + 0)) = left
      BY <1>2, <1>3, <1>4, <1>5, <2>2
    <2>4. left < 1190
      BY <1>5, <1>8
    <2> QED
      BY <1>1, <1>2, <1>3, <1>4, <1>5, <2>1, <2>2, <2>3, <2>4
      DEF FEE_RATE, VSize, BASE, INPUT, OUTPUT, DUST, outs, left
  <1> QED
    BY <1>7, <1>8

\* The selections that funded the two halves.
From(si, bi) ==
    /\ si \in Selections("Seller") /\ bi \in Selections("Buyer")
    /\ part["Seller"] = Half("Seller", si) /\ part["Buyer"] = Half("Buyer", bi)

\* Whoever has merged holds a half that each of the two funded.
LEMMA Halves ==
    ASSUME MergeInv, Built(part["Seller"]), Built(part["Buyer"])
    PROVE  \E si, bi : From(si, bi)
  <1>1. PICK si \in Selections("Seller") : part["Seller"] = Half("Seller", si)
    BY DEF MergeInv, HalvesInv, Role
  <1>2. PICK bi \in Selections("Buyer") : part["Buyer"] = Half("Buyer", bi)
    BY DEF MergeInv, HalvesInv, Role
  <1> QED
    BY <1>1, <1>2 DEF From

\* Each builds the deposit of both coins and both changes, and the fee is what
\* the halves did not spend, so that nothing is left for another change.
LEMMA Balance ==
    ASSUME MergeInv, NEW si, NEW bi, From(si, bi), NEW r \in Role
    PROVE  LET sc == ChangeOf("Seller", si)
               bc == ChangeOf("Buyer", bi)
               sa == terms[r].seller_amount
               ba == terms[r].buyer_amount
           IN  /\ AllInputs = si \cup bi /\ AllInputs \in SUBSET AllCoins
               /\ InputSum(AllInputs) = InputSum(si) + InputSum(bi)
               /\ AllOutputs(r) = {Out(P_AGG, sa), Out(Q_AGG, ba)} \cup sc \cup bc
               /\ Distinct(AllOutputs(r)) /\ Drained(r) = {}
               /\ Cardinality(AllOutputs(r)) = 2 + Cardinality(sc) + Cardinality(bc)
               /\ Total(r) = InputSum(si) + InputSum(bi) - sa - ba - OutputSum(sc) - OutputSum(bc)
               /\ OutputSum(AllOutputs(r)) = sa + ba + OutputSum(sc) + OutputSum(bc)
               /\ sa \in Int /\ ba \in Int /\ Total(r) \in Int
  <1> DEFINE sc == ChangeOf("Seller", si)
             bc == ChangeOf("Buyer", bi)
             sa == terms[r].seller_amount
             ba == terms[r].buyer_amount
             p == Out(P_AGG, sa)
             q == Out(Q_AGG, ba)
  <1>1. sa \in Int /\ ba \in Int
    BY TermsAssumption DEF MergeInv
  <1>2. /\ si \in SUBSET AllCoins /\ bi \in SUBSET AllCoins /\ si \cap bi = {}
        /\ AllInputs = si \cup bi /\ AllInputs \in SUBSET AllCoins
    BY CoinsAssumption DEF From, Half, Psbt, AllInputs, Selections, AllCoins
  <1>3. InputSum(AllInputs) = InputSum(si) + InputSum(bi)
    BY <1>2, InputSums
  <1>4. /\ InputSum(si) \in Int /\ OutputSum(sc) \in Int
        /\ IsFiniteSet(sc) /\ Cardinality(sc) \in {0, 1}
        /\ sc = {} \/ \E v \in Int : v >= DUST /\ sc = {Out(Change("Seller"), v)}
    BY HalfPays DEF MergeInv, From, Role
  <1>5. /\ InputSum(bi) \in Int /\ OutputSum(bc) \in Int
        /\ IsFiniteSet(bc) /\ Cardinality(bc) \in {0, 1}
        /\ bc = {} \/ \E v \in Int : v >= DUST /\ bc = {Out(Change("Buyer"), v)}
    BY HalfPays DEF MergeInv, From, Role
  <1>6. Copied(part["Seller"]) = sc /\ Copied(part["Buyer"]) = bc
    <2> HIDE DEF sc, bc
    <2>1. part["Seller"].outs = {Out(PointOf("Seller"), FundedByMe("Seller"))} \cup sc
      BY DEF From, Half, Psbt, sc
    <2>2. part["Buyer"].outs = {Out(PointOf("Buyer"), FundedByMe("Buyer"))} \cup bc
      BY DEF From, Half, Psbt, bc
    <2>3. \A o \in sc \cup bc : o.script \notin DisregardScripts
      BY <1>4, <1>5 DEF DisregardScripts, Out, Change, PointOf, P_AGG, Q_AGG
    <2>4. \A v : \A x \in Role : Out(PointOf(x), v).script \in DisregardScripts
      BY DEF DisregardScripts, Out, Role
    <2> QED
      BY <2>1, <2>2, <2>3, <2>4 DEF Copied, Role
  <1>7. AllOutputs(r) = {p, q} \cup sc \cup bc
    BY <1>6 DEF AllOutputs
  <1>8. /\ p.script = P_AGG /\ q.script = Q_AGG /\ p.value = sa /\ q.value = ba
        /\ \A o \in sc : o.script = Change("Seller") /\ o.value \in Int
        /\ \A o \in bc : o.script = Change("Buyer") /\ o.value \in Int
        /\ \A o, u \in sc : o = u
        /\ \A o, u \in bc : o = u
    <2> HIDE DEF sc, bc, sa, ba
    <2> QED
      BY <1>4, <1>5 DEF Out
  <1> HIDE DEF sc, bc, p, q, sa, ba
  <1>9. /\ P_AGG # Q_AGG /\ Change("Seller") # Change("Buyer")
        /\ \A x \in Role : Change(x) # P_AGG /\ Change(x) # Q_AGG
    BY DEF P_AGG, Q_AGG, Change, Role
  <1>10. p # q /\ {p, q} \cap sc = {} /\ ({p, q} \cup sc) \cap bc = {}
    BY <1>8, <1>9 DEF Role
  <1>11. IsFiniteSet({p}) /\ IsFiniteSet({q}) /\ {p} \cap {q} = {} /\ {p, q} = {p} \cup {q}
    BY <1>10, FS_Singleton
  <1>12. /\ OutputSum({p, q}) = sa + ba /\ OutputSum({p, q}) \in Int
         /\ IsFiniteSet({p, q}) /\ Cardinality({p, q}) = 2
    <2>1. OutputSum({p}) = sa /\ OutputSum({q}) = ba
      BY <1>1, <1>8, OutputSums
    <2>2. OutputSum({p} \cup {q}) = OutputSum({p}) + OutputSum({q})
      BY <1>1, <1>8, <1>11, OutputUnion
    <2>3. IsFiniteSet({p} \cup {q}) /\ Cardinality({p} \cup {q}) = 1 + 1
      <3>1. Cardinality({p}) = 1 /\ Cardinality({q}) = 1
        BY FS_Singleton, Zenon
      <3>2. /\ IsFiniteSet({p} \cup {q})
            /\ Cardinality({p} \cup {q}) = Cardinality({p}) + Cardinality({q})
        BY <1>11, DisjointUnion, Zenon
      <3> QED
        BY <3>1, <3>2, Zenon
    <2> QED
      BY <1>1, <1>11, <2>1, <2>2, <2>3
  <1>13. /\ OutputSum({p, q} \cup sc) = sa + ba + OutputSum(sc)
         /\ IsFiniteSet({p, q} \cup sc)
         /\ Cardinality({p, q} \cup sc) = 2 + Cardinality(sc)
    <2>1. \A o \in {p, q} \cup sc : o.value \in Int
      BY <1>1, <1>8
    <2>2. OutputSum({p, q} \cup sc) = OutputSum({p, q}) + OutputSum(sc)
      BY <1>4, <1>10, <1>12, <2>1, OutputUnion
    <2>3. IsFiniteSet({p, q} \cup sc) /\ Cardinality({p, q} \cup sc) = 2 + Cardinality(sc)
      BY <1>4, <1>10, <1>12, DisjointUnion
    <2> QED
      BY <1>4, <1>12, <2>2, <2>3
  <1>14. /\ OutputSum({p, q} \cup sc \cup bc) = sa + ba + OutputSum(sc) + OutputSum(bc)
         /\ IsFiniteSet({p, q} \cup sc \cup bc)
         /\ Cardinality({p, q} \cup sc \cup bc) = 2 + Cardinality(sc) + Cardinality(bc)
    <2>1. \A o \in ({p, q} \cup sc) \cup bc : o.value \in Int
      BY <1>1, <1>8
    <2>2. OutputSum(({p, q} \cup sc) \cup bc) = OutputSum({p, q} \cup sc) + OutputSum(bc)
      BY <1>5, <1>10, <1>13, <2>1, OutputUnion
    <2>3. /\ IsFiniteSet(({p, q} \cup sc) \cup bc)
          /\ Cardinality(({p, q} \cup sc) \cup bc) = 2 + Cardinality(sc) + Cardinality(bc)
      BY <1>5, <1>10, <1>13, DisjointUnion
    <2> QED
      BY <1>4, <1>5, <1>13, <2>2, <2>3
  <1>15. Distinct(AllOutputs(r))
    <2>1. \A o \in AllOutputs(r) : o.script \in DepositScripts /\ o.value \in Int
      BY <1>1, <1>7, <1>8 DEF DepositScripts
    <2>2. \A o, u \in AllOutputs(r) : o.script = u.script => o = u
      BY <1>7, <1>8, <1>9 DEF Role
    <2> QED
      BY <1>7, <1>14, <2>1, <2>2 DEF Distinct
  <1>16. Total(r) = InputSum(si) + InputSum(bi) - sa - ba - OutputSum(sc) - OutputSum(bc)
    <2>1. Total(r) = InputSum(AllInputs) - sa - ba
                       - OutputSum(Copied(part["Seller"])) - OutputSum(Copied(part["Buyer"]))
      BY DEF Total, sa, ba
    <2> HIDE DEF Total
    <2> QED
      BY <1>1, <1>3, <1>4, <1>5, <1>6, <2>1
  <1>17. Total(r) \in Int
    BY <1>1, <1>4, <1>5, <1>16
  <1>18. Drained(r) = {}
    <2>1. InputSum(AllInputs) - OutputSum(AllOutputs(r)) - Total(r) = 0
      BY <1>1, <1>3, <1>4, <1>5, <1>7, <1>14, <1>16
    <2> QED
      BY <2>1 DEF Drained, DUST
  <1> QED
    BY <1>1, <1>2, <1>3, <1>7, <1>14, <1>15, <1>16, <1>17, <1>18 DEF sc, bc, sa, ba, p, q

-----------------------------------------------------------------------------
(* The theorems.                                                           *)

\* A built deposit holds the coins and the outputs in their order.
LEMMA BuiltFrom ==
    ASSUME MergeInv, NEW r \in Role, Built(merged[r])
    PROVE  /\ Finishes(r) /\ \E si, bi : From(si, bi)
           /\ merged[r] = Psbt(merged[r].ins, merged[r].outs)
           /\ merged[r].ins \in SetToSeqs(AllInputs)
           /\ SortedBy(InputOrder, merged[r].ins)
           /\ merged[r].outs \in SetToSeqs(AllOutputs(r))
           /\ SortedBy(OutputOrder(AllOutputs(r)), merged[r].outs)
  <1>1. MergedFrom(r)
    BY DEF MergeInv, WholesInv, Built, None
  <1>2. PICK si, bi : From(si, bi)
    BY <1>1, Halves DEF MergedFrom
  <1>3. merged[r] # Failed
    BY DEF Built, Failed
  <1>4. PICK ins \in SetToSeqs(AllInputs), outs \in SetToSeqs(AllOutputs(r) \cup Drained(r)) :
           merged[r] = Psbt(SortedInputs(ins), SortedOutputs(outs))
    BY <1>1, <1>3 DEF MergedFrom
  <1>5. merged[r].ins = SortedInputs(ins) /\ merged[r].outs = SortedOutputs(outs)
    BY <1>4 DEF Psbt
  <1>6. /\ AllInputs \in SUBSET AllCoins /\ IsFiniteSet(AllInputs)
        /\ Distinct(AllOutputs(r)) /\ Drained(r) = {}
    BY <1>2, Balance, InputSums
  <1>7. outs \in SetToSeqs(AllOutputs(r))
    <2>1. AllOutputs(r) \cup Drained(r) = AllOutputs(r)
      BY <1>6
    <2> QED
      BY <1>4, <2>1
  <1>8. SortedInputs(ins) \in SetToSeqs(AllInputs) /\ SortedBy(InputOrder, SortedInputs(ins))
    BY <1>4, <1>6, InputsSorted
  <1>9. /\ SortedOutputs(outs) \in SetToSeqs(AllOutputs(r))
        /\ SortedBy(OutputOrder(AllOutputs(r)), SortedOutputs(outs))
    BY <1>6, <1>7, OutputsSorted
  <1> QED
    BY <1>1, <1>2, <1>3, <1>4, <1>5, <1>8, <1>9 DEF MergedFrom

\* Its sets, and what is left for the fee.
LEMMA BuiltSums ==
    ASSUME MergeInv, NEW r \in Role, Built(merged[r])
    PROVE  /\ ToSet(merged[r].ins) = AllInputs /\ ToSet(merged[r].outs) = AllOutputs(r)
           /\ Len(merged[r].ins) = Cardinality(AllInputs)
           /\ Len(merged[r].outs) = Cardinality(AllOutputs(r))
           /\ FeeOf(merged[r]) = Total(r)
  <1>1. PICK si, bi : From(si, bi)
    BY BuiltFrom
  <1>2. IsFiniteSet(AllInputs) /\ IsFiniteSet(AllOutputs(r))
    BY <1>1, Balance, InputSums DEF Distinct
  <1>3. /\ ToSet(merged[r].ins) = AllInputs /\ Len(merged[r].ins) = Cardinality(AllInputs)
        /\ ToSet(merged[r].outs) = AllOutputs(r) /\ Len(merged[r].outs) = Cardinality(AllOutputs(r))
    BY <1>2, BuiltFrom, SeqOfSet
  <1>4. FeeOf(merged[r]) = InputSum(AllInputs) - OutputSum(AllOutputs(r))
    BY <1>3 DEF FeeOf
  <1> DEFINE sc == ChangeOf("Seller", si)
             bc == ChangeOf("Buyer", bi)
             sa == terms[r].seller_amount
             ba == terms[r].buyer_amount
  <1>5. /\ InputSum(AllInputs) = InputSum(si) + InputSum(bi)
        /\ Total(r) = InputSum(si) + InputSum(bi) - sa - ba - OutputSum(sc) - OutputSum(bc)
        /\ OutputSum(AllOutputs(r)) = sa + ba + OutputSum(sc) + OutputSum(bc)
        /\ sa \in Int /\ ba \in Int
    BY <1>1, Balance
  <1>6. InputSum(si) \in Int /\ OutputSum(sc) \in Int
    BY <1>1, HalfPays DEF MergeInv, From, Role
  <1>7. InputSum(bi) \in Int /\ OutputSum(bc) \in Int
    BY <1>1, HalfPays DEF MergeInv, From, Role
  <1> HIDE DEF sc, bc, sa, ba
  <1>8. FeeOf(merged[r]) = Total(r)
    BY <1>4, <1>5, <1>6, <1>7
  <1> QED
    BY <1>3, <1>8

\* Traders who were told the same want the same, and it can be built.
LEMMA SameTerms ==
    ASSUME MergeInv, terms["Seller"] = terms["Buyer"], NEW si, NEW bi, From(si, bi)
    PROVE  /\ AllOutputs("Seller") = AllOutputs("Buyer")
           /\ \A r \in Role :
                /\ Finishes(r)
                /\ Total(r) >= FEE_RATE * VSize(Cardinality(AllInputs),
                                                Cardinality(AllOutputs(r)))
  <1>1. AllOutputs("Seller") = AllOutputs("Buyer")
    BY DEF AllOutputs
  <1>2. ASSUME NEW r \in Role
        PROVE  /\ Finishes(r)
               /\ Total(r) >= FEE_RATE * VSize(Cardinality(AllInputs), Cardinality(AllOutputs(r)))
    <2> DEFINE sc == ChangeOf("Seller", si)
               bc == ChangeOf("Buyer", bi)
               sa == terms[r].seller_amount
               ba == terms[r].buyer_amount
    <2>1. /\ AllInputs = si \cup bi
          /\ InputSum(AllInputs) = InputSum(si) + InputSum(bi)
          /\ AllOutputs(r) = {Out(P_AGG, sa), Out(Q_AGG, ba)} \cup sc \cup bc
          /\ Cardinality(AllOutputs(r)) = 2 + Cardinality(sc) + Cardinality(bc)
          /\ Total(r) = InputSum(si) + InputSum(bi) - sa - ba - OutputSum(sc) - OutputSum(bc)
          /\ OutputSum(AllOutputs(r)) = sa + ba + OutputSum(sc) + OutputSum(bc)
          /\ sa \in Int /\ ba \in Int
      BY Balance
    <2>2. sa = FundedByMe("Seller") /\ ba = FundedByMe("Buyer")
      BY DEF FundedByMe, Role
    <2>3. /\ InputSum(si) - sa - OutputSum(sc) - 20 * (11 + 58 * Cardinality(si) + 43 * (1 + Cardinality(sc))) >= 0
          /\ OutputSum(sc) \in Int /\ InputSum(si) \in Int /\ Cardinality(si) \in Nat
          /\ IsFiniteSet(si) /\ Cardinality(sc) \in {0, 1} /\ sa >= 330
          /\ sc = {} \/ \E v \in Int : v >= DUST /\ sc = {Out(Change("Seller"), v)}
      BY <2>2, HalfPays DEF MergeInv, From, Role, FEE_RATE, VSize, BASE, INPUT, OUTPUT, DUST
    <2>4. /\ InputSum(bi) - ba - OutputSum(bc) - 20 * (11 + 58 * Cardinality(bi) + 43 * (1 + Cardinality(bc))) >= 0
          /\ OutputSum(bc) \in Int /\ InputSum(bi) \in Int /\ Cardinality(bi) \in Nat
          /\ IsFiniteSet(bi) /\ Cardinality(bc) \in {0, 1} /\ ba >= 330
          /\ bc = {} \/ \E v \in Int : v >= DUST /\ bc = {Out(Change("Buyer"), v)}
      BY <2>2, HalfPays DEF MergeInv, From, Role, FEE_RATE, VSize, BASE, INPUT, OUTPUT, DUST
    <2>5. Cardinality(AllInputs) = Cardinality(si) + Cardinality(bi)
      <3>1. si \cap bi = {}
        BY CoinsAssumption DEF From, Selections
      <3> QED
        BY <2>1, <2>3, <2>4, <3>1, DisjointUnion
    <2>6. \A o \in AllOutputs(r) : o.value >= DUST
      <3> HIDE DEF sc, bc, sa, ba
      <3> QED
        BY <2>1, <2>3, <2>4 DEF Out, DUST
    <2> HIDE DEF sc, bc, sa, ba
    <2>7. Total(r) >= 20 * (11 + 58 * Cardinality(AllInputs) + 43 * Cardinality(AllOutputs(r)))
      BY <2>1, <2>3, <2>4, <2>5
    <2>8. Total(r) >= 0
      BY <2>1, <2>3, <2>4, <2>5, <2>7
    <2>9. OutputSum(AllOutputs(r)) + Total(r) <= InputSum(AllInputs)
      BY <2>1, <2>3, <2>4
    <2> QED
      BY <2>6, <2>7, <2>8, <2>9 DEF Finishes, FEE_RATE, VSize, BASE, INPUT, OUTPUT
  <1> QED
    BY <1>1, <1>2

\* Both build the same DepositTx, inputs, outputs and their order, exactly if
\* they were told the same amounts: whatever coins the wallets select, however
\* they shuffle, and whatever the amounts are.
THEOREM MergeIsSame == MergeSpec => []BothMergeTheSame
  <1>1. MergeInv => BothMergeTheSame
    <2> SUFFICES ASSUME MergeInv, \A r \in Role : merged[r] # None
                 PROVE  Built(merged["Seller"]) /\ merged["Seller"] = merged["Buyer"]
                          <=> terms["Seller"] = terms["Buyer"]
      BY DEF BothMergeTheSame
    <2>1. \A r \in Role : MergedFrom(r)
      BY DEF MergeInv, WholesInv
    <2>2. PICK si, bi : From(si, bi)
      BY <2>1, Halves DEF MergedFrom, Role
    <2>3. ASSUME terms["Seller"] = terms["Buyer"]
          PROVE  Built(merged["Seller"]) /\ merged["Seller"] = merged["Buyer"]
      <3>1. \A r \in Role : Finishes(r)
        BY <2>2, <2>3, SameTerms
      <3>2. \A r \in Role : Built(merged[r])
        <4> SUFFICES ASSUME NEW r \in Role PROVE Built(merged[r])
          OBVIOUS
        <4>1. \E ins, outs : merged[r] = Psbt(ins, outs)
          BY <2>1, <3>1 DEF MergedFrom
        <4> QED
          BY <4>1 DEF Built, Psbt
      <3>3. /\ AllInputs \in SUBSET AllCoins /\ IsFiniteSet(AllInputs)
            /\ Distinct(AllOutputs("Seller"))
        BY <2>2, Balance, InputSums DEF Role
      <3>4. StrictTotal(InputOrder, AllInputs)
        BY <3>3, OrderAssumption DEF StrictTotal, InputOrder, AllCoins
      <3>5. /\ StrictTotal(OutputOrder(AllOutputs("Seller")), AllOutputs("Seller"))
            /\ IsFiniteSet(AllOutputs("Seller"))
        BY <3>3, OrderAssumption DEF StrictTotal, OutputOrder, Distinct
      <3>6. merged["Seller"].ins = merged["Buyer"].ins
        <4>1. \A r \in Role : /\ merged[r].ins \in SetToSeqs(AllInputs)
                              /\ SortedBy(InputOrder, merged[r].ins)
          BY <3>2, BuiltFrom
        <4> QED
          BY <3>3, <3>4, <4>1, SortUnique DEF Role
      <3>7. merged["Seller"].outs = merged["Buyer"].outs
        <4>1. AllOutputs("Seller") = AllOutputs("Buyer")
          BY <2>2, <2>3, SameTerms
        <4>2. \A r \in Role : /\ merged[r].outs \in SetToSeqs(AllOutputs("Seller"))
                              /\ SortedBy(OutputOrder(AllOutputs("Seller")), merged[r].outs)
          BY <3>2, <4>1, BuiltFrom DEF Role
        <4> QED
          BY <3>5, <4>2, SortUnique DEF Role
      <3>8. \A r \in Role : merged[r] = Psbt(merged[r].ins, merged[r].outs)
        BY <3>2, BuiltFrom
      <3> QED
        BY <3>2, <3>6, <3>7, <3>8 DEF Role
    <2>4. ASSUME Built(merged["Seller"]), merged["Seller"] = merged["Buyer"]
          PROVE  terms["Seller"] = terms["Buyer"]
      <3>1. AllOutputs("Seller") = AllOutputs("Buyer")
        BY <2>4, BuiltSums DEF Role
      <3>2. Distinct(AllOutputs("Seller"))
        BY <2>2, Balance DEF Role
      <3>3. \A r \in Role : /\ Out(P_AGG, terms[r].seller_amount) \in AllOutputs("Seller")
                            /\ Out(Q_AGG, terms[r].buyer_amount) \in AllOutputs("Seller")
        BY <3>1 DEF AllOutputs, Role
      <3>4. /\ terms["Seller"].seller_amount = terms["Buyer"].seller_amount
            /\ terms["Seller"].buyer_amount = terms["Buyer"].buyer_amount
        BY <3>2, <3>3 DEF Distinct, Out, Role
      <3>5. \A r \in Role : terms[r] \in [seller_amount : Nat, buyer_amount : Nat]
        BY TermsAssumption DEF MergeInv
      <3> QED
        BY <3>4, <3>5 DEF Role
    <2> QED
      BY <2>3, <2>4
  <1> QED
    BY <1>1, MergeInvariant, PTL

\* A deposit between traders who were told the same pays the fee rate of the
\* halves.
THEOREM MergePaysFeeRate == MergeSpec => []MergedFeeRate
  <1>1. MergeInv => MergedFeeRate
    <2> SUFFICES ASSUME MergeInv, terms["Seller"] = terms["Buyer"],
                        NEW r \in Role, Built(merged[r])
                 PROVE  FeeOf(merged[r]) >= FEE_RATE * VSize(Len(merged[r].ins), Len(merged[r].outs))
      BY DEF MergedFeeRate
    <2>1. PICK si, bi : From(si, bi)
      BY BuiltFrom
    <2>2. Total(r) >= FEE_RATE * VSize(Cardinality(AllInputs), Cardinality(AllOutputs(r)))
      BY <2>1, SameTerms
    <2> QED
      BY <2>2, BuiltSums
  <1> QED
    BY <1>1, MergeInvariant, PTL

\* In a deposit that both built each trader pays his own amount, the fee of
\* what he added, and less than a change besides; neither pays for the other.
THEOREM MergeIsFair == MergeSpec => []EachPaysHisShare
  <1>1. MergeInv => EachPaysHisShare
    <2> SUFFICES ASSUME MergeInv, Built(merged["Seller"]), merged["Seller"] = merged["Buyer"],
                        NEW r \in Role
                 PROVE  LET mine  == Cardinality(Coins[r] \cap ToSet(merged[r].ins))
                            outs  == Cardinality({ o \in ToSet(merged[r].outs) : o.script = Change(r) })
                            share == IF r = "Seller" THEN terms[r].seller_amount
                                                     ELSE terms[r].buyer_amount
                            extra == PaidBy(r, merged[r]) - share - FEE_RATE * VSize(mine, 1 + outs)
                        IN  extra >= 0 /\ extra < FEE_RATE * OUTPUT + DUST
      BY DEF EachPaysHisShare
    <2>1. Built(merged[r])
      BY DEF Role
    <2>2. PICK si, bi : From(si, bi)
      BY <2>1, BuiltFrom
    <2> DEFINE ins == IF r = "Seller" THEN si ELSE bi
               change == ChangeOf(r, ins)
    <2>3. ins \in Selections(r)
      BY <2>2 DEF From, Role
    <2>4. Coins[r] \cap ToSet(merged[r].ins) = ins
      <3>1. ToSet(merged[r].ins) = si \cup bi
        BY <2>1, <2>2, BuiltSums, Balance
      <3> QED
        BY <2>2, <3>1, CoinsAssumption DEF From, Selections, Role
    <2>5. { o \in ToSet(merged[r].outs) : o.script = Change(r) } = change
      <3> DEFINE sc == ChangeOf("Seller", si)
                 bc == ChangeOf("Buyer", bi)
                 p == Out(P_AGG, terms[r].seller_amount)
                 q == Out(Q_AGG, terms[r].buyer_amount)
      <3>1. ToSet(merged[r].outs) = {p, q} \cup sc \cup bc
        BY <2>1, <2>2, BuiltSums, Balance
      <3>2. p.script # Change(r) /\ q.script # Change(r)
        BY DEF Out, P_AGG, Q_AGG, Change, Role
      <3>3. sc = {} \/ \E v \in Int : v >= DUST /\ sc = {Out(Change("Seller"), v)}
        BY <2>2, HalfPays DEF MergeInv, From, Role
      <3>4. bc = {} \/ \E v \in Int : v >= DUST /\ bc = {Out(Change("Buyer"), v)}
        BY <2>2, HalfPays DEF MergeInv, From, Role
      <3>5. change = IF r = "Seller" THEN sc ELSE bc
        <4>1. CASE r = "Seller"
          BY <4>1
        <4>2. CASE r # "Seller"
          <5>1. r = "Buyer"
            BY <4>2 DEF Role
          <5> QED
            BY <5>1
        <4> QED
          BY <4>1, <4>2
      <3> HIDE DEF sc, bc, p, q, change
      <3>6. (\A o \in sc : o.script = Change("Seller")) /\ (\A o \in bc : o.script = Change("Buyer"))
        BY <3>3, <3>4 DEF Out
      <3>7. Change("Seller") # Change("Buyer")
        BY DEF Change
      <3> QED
        BY <3>1, <3>2, <3>5, <3>6, <3>7 DEF Role
    <2>6. FundedByMe(r) = IF r = "Seller" THEN terms[r].seller_amount ELSE terms[r].buyer_amount
      BY DEF FundedByMe
    <2>7. PaidBy(r, merged[r]) = InputSum(ins) - OutputSum(change)
      BY <2>4, <2>5 DEF PaidBy
    <2> HIDE DEF ins, change
    <2>8. LET extra == InputSum(ins) - FundedByMe(r) - OutputSum(change)
                         - FEE_RATE * VSize(Cardinality(ins), 1 + Cardinality(change))
          IN  /\ extra \in Int /\ extra >= 0 /\ extra < FEE_RATE * OUTPUT + DUST
              /\ InputSum(ins) \in Int /\ OutputSum(change) \in Int /\ FundedByMe(r) \in Int
      BY <2>3, HalfPays DEF MergeInv, change
    <2> HIDE DEF change
    <2>9. PaidBy(r, merged[r]) - FundedByMe(r) = InputSum(ins) - FundedByMe(r) - OutputSum(change)
      BY <2>7, <2>8
    <2> QED
      BY <2>4, <2>5, <2>6, <2>8, <2>9
  <1> QED
    BY <1>1, MergeInvariant, PTL


-----------------------------------------------------------------------------
(* The split of a redirect.  Each of its three operations rounds: the      *)
(* conversion to f32, the product and the truncation.                      *)

\* The powers of two that the conversion uses: the provers evaluate 2^k for a
\* literal k only, so there is a step for each.
Pow(k) == 2^k

\* Their values.
LEMMA Powers ==
    /\ \A k \in 0 .. 31 : Pow(k) \in Nat /\ Pow(k) >= 1
    /\ \A k \in 0 .. 30 : Pow(k + 1) = 2 * Pow(k)
    /\ Pow(0) = 1 /\ Pow(1) = 2 /\ Pow(2) = 4 /\ Pow(3) = 8
    /\ Pow(4) = 16 /\ Pow(5) = 32 /\ Pow(6) = 64 /\ Pow(7) = 128
    /\ Pow(8) = 256 /\ Pow(9) = 512 /\ Pow(10) = 1024 /\ Pow(11) = 2048
    /\ Pow(12) = 4096 /\ Pow(13) = 8192 /\ Pow(14) = 16384 /\ Pow(15) = 32768
    /\ Pow(16) = 65536 /\ Pow(17) = 131072 /\ Pow(18) = 262144 /\ Pow(19) = 524288
    /\ Pow(20) = 1048576 /\ Pow(21) = 2097152 /\ Pow(22) = 4194304 /\ Pow(23) = 8388608
    /\ Pow(24) = 16777216 /\ Pow(25) = 33554432 /\ Pow(26) = 67108864 /\ Pow(27) = 134217728
    /\ Pow(28) = 268435456 /\ Pow(29) = 536870912 /\ Pow(30) = 1073741824 /\ Pow(31) = 2147483648
  <1>1. Pow(0) = 1
    BY SMT DEF Pow
  <1>2. Pow(1) = 2
    BY SMT DEF Pow
  <1>3. Pow(2) = 4
    BY SMT DEF Pow
  <1>4. Pow(3) = 8
    BY SMT DEF Pow
  <1>5. Pow(4) = 16
    BY SMT DEF Pow
  <1>6. Pow(5) = 32
    BY SMT DEF Pow
  <1>7. Pow(6) = 64
    BY SMT DEF Pow
  <1>8. Pow(7) = 128
    BY SMT DEF Pow
  <1>9. Pow(8) = 256
    BY SMT DEF Pow
  <1>10. Pow(9) = 512
    BY SMT DEF Pow
  <1>11. Pow(10) = 1024
    BY SMT DEF Pow
  <1>12. Pow(11) = 2048
    BY SMT DEF Pow
  <1>13. Pow(12) = 4096
    BY SMT DEF Pow
  <1>14. Pow(13) = 8192
    BY SMT DEF Pow
  <1>15. Pow(14) = 16384
    BY SMT DEF Pow
  <1>16. Pow(15) = 32768
    BY SMT DEF Pow
  <1>17. Pow(16) = 65536
    BY SMT DEF Pow
  <1>18. Pow(17) = 131072
    BY SMT DEF Pow
  <1>19. Pow(18) = 262144
    BY SMT DEF Pow
  <1>20. Pow(19) = 524288
    BY SMT DEF Pow
  <1>21. Pow(20) = 1048576
    BY SMT DEF Pow
  <1>22. Pow(21) = 2097152
    BY SMT DEF Pow
  <1>23. Pow(22) = 4194304
    BY SMT DEF Pow
  <1>24. Pow(23) = 8388608
    BY SMT DEF Pow
  <1>25. Pow(24) = 16777216
    BY SMT DEF Pow
  <1>26. Pow(25) = 33554432
    BY SMT DEF Pow
  <1>27. Pow(26) = 67108864
    BY SMT DEF Pow
  <1>28. Pow(27) = 134217728
    BY SMT DEF Pow
  <1>29. Pow(28) = 268435456
    BY SMT DEF Pow
  <1>30. Pow(29) = 536870912
    BY SMT DEF Pow
  <1>31. Pow(30) = 1073741824
    BY SMT DEF Pow
  <1>32. Pow(31) = 2147483648
    BY SMT DEF Pow
  <1>33. \A k \in 0 .. 31 : Pow(k) \in Nat /\ Pow(k) >= 1
    BY <1>1, <1>2, <1>3, <1>4, <1>5, <1>6, <1>7, <1>8, <1>9, <1>10, <1>11,
       <1>12, <1>13, <1>14, <1>15, <1>16, <1>17, <1>18, <1>19, <1>20, <1>21,
       <1>22, <1>23, <1>24, <1>25, <1>26, <1>27, <1>28, <1>29, <1>30, <1>31,
       <1>32, SMT
  <1>34. \A k \in 0 .. 30 : Pow(k + 1) = 2 * Pow(k)
    BY <1>1, <1>2, <1>3, <1>4, <1>5, <1>6, <1>7, <1>8, <1>9, <1>10, <1>11,
       <1>12, <1>13, <1>14, <1>15, <1>16, <1>17, <1>18, <1>19, <1>20, <1>21,
       <1>22, <1>23, <1>24, <1>25, <1>26, <1>27, <1>28, <1>29, <1>30, <1>31,
       <1>32, SMT
  <1> QED
    BY <1>33, <1>34, <1>1, <1>2, <1>3, <1>4, <1>5, <1>6, <1>7, <1>8, <1>9, <1>10, <1>11,
       <1>12, <1>13, <1>14, <1>15, <1>16, <1>17, <1>18, <1>19, <1>20, <1>21,
       <1>22, <1>23, <1>24, <1>25, <1>26, <1>27, <1>28, <1>29, <1>30, <1>31,
       <1>32, SMT

\* The amounts that F32 can convert, and the mantissas of 24 bits.  (The provers
\* fail on the literals wherever they are visible, hence the operators.)
IsAmount(n) == n \in Nat /\ 1 <= n /\ n < 2147483648
IsMantissa(m) == m \in Nat /\ 8388608 <= m /\ m <= 16777216

\* Products preserve an order.
LEMMA Times ==
    ASSUME NEW u \in Nat, NEW a \in Int, NEW b \in Int, a <= b
    PROVE  u * a <= u * b
  BY SMT

\* a and b differ by half of u at most, as a number and its rounding to units do.
Near(a, b, u) == 2 * (a - b) <= u /\ 2 * (b - a) <= u

\* p is the product of the mantissas m and Ratio[i].m without its last s bits.
Rounded(m, p, i, s) ==
    /\ s = 24 => Near(p * 16777216, m * Ratio[i].m, 16777216)
    /\ s = 23 => Near(p * 8388608, m * Ratio[i].m, 8388608)
    /\ s = 23 => m * Ratio[i].m < 140737488355328

\* The product of an f32 and a ratio keeps all but the last 23 or 24 bits of 48.
LEMMA MulBy ==
    ASSUME NEW m, IsMantissa(m), NEW e \in Int,
           NEW i \in 1 .. 2
    PROVE  \E p \in Nat, s \in {23, 24} :
             /\ MulF32([m |-> m, e |-> e], Ratio[i]) = [m |-> p, e |-> e + Ratio[i].e + s]
             /\ Rounded(m, p, i, s)
  <1> DEFINE h == m \div 4096
             l == m % 4096
  <1>0. m \in Nat /\ 8388608 <= m /\ m <= 16777216
    BY SMT DEF IsMantissa
  <1>1. h \in Nat /\ l \in 0 .. 4095 /\ m = (4096 * h) + l
    BY <1>0, SMT
  <1> HIDE DEF h, l
  <1>2. ASSUME NEW c \in {10066330, 13421773}, NEW f \in Int
        PROVE  \E p \in Nat, s \in {23, 24} :
             /\ MulF32([m |-> m, e |-> e], [m |-> c, e |-> f]) = [m |-> p, e |-> e + f + s]
             /\ s = 24 => Near(p * 16777216, m * c, 16777216)
             /\ s = 23 => Near(p * 8388608, m * c, 8388608)
             /\ s = 23 => m * c < 140737488355328
    <2> DEFINE ch == c \div 4096
               cl == c % 4096
               mid == h * cl + l * ch + ((l * cl) \div 4096)
               high == h * ch + (mid \div 4096)
               low == ((mid % 4096) * 4096) + ((l * cl) % 4096)
    <2>1. high \in Nat /\ low \in Nat /\ low < 16777216 /\ (high * 16777216) + low = m * c
      <3>1. CASE c = 10066330
        <4>1. ch = 2457 /\ cl = 2458
          BY <3>1, SMT
        <4> HIDE DEF ch, cl
        <4>2. mid \in Nat /\ mid = (2458 * h) + (2457 * l) + ((2458 * l) \div 4096)
          BY <1>1, <4>1, SMT
        <4>3. high = (2457 * h) + (mid \div 4096)
          BY <1>1, <4>1, SMT
        <4>4. low = ((mid % 4096) * 4096) + ((2458 * l) % 4096)
          BY <1>1, <4>1, SMT
        <4> HIDE DEF mid, high, low
        <4>5. high \in Nat /\ low \in Nat /\ low < 16777216
          BY <1>1, <4>2, <4>3, <4>4, SMT
        <4>6. (high * 16777216) + low
                = (2457 * h * 16777216) + (mid * 4096) + ((2458 * l) % 4096)
          BY <1>1, <4>2, <4>3, <4>4, SMT
        <4>7. m * c = (2457 * h * 16777216) + (2458 * h * 4096) + (2457 * l * 4096) + (2458 * l)
          BY <1>1, <3>1, SMT
        <4> QED
          BY <1>1, <4>2, <4>5, <4>6, <4>7, SMT
      <3>2. CASE c = 13421773
        <4>1. ch = 3276 /\ cl = 3277
          BY <3>2, SMT
        <4> QED
          BY <1>1, <3>2, <4>1, SMT
      <3> QED
        BY <3>1, <3>2, SMT
    <2>2. 2^12 = 4096 /\ 2^23 = 8388608 /\ 2^24 = 16777216
      BY SMT
    <2>3. MulF32([m |-> m, e |-> e], [m |-> c, e |-> f])
            = IF high >= 8388608
              THEN [m |-> RoundEven(high, low, 16777216), e |-> e + f + 24]
              ELSE [m |-> RoundEven(2 * high + (low \div 8388608), low % 8388608, 8388608),
                    e |-> e + f + 23]
      BY <2>2, SMT DEF MulF32, Mantissa, h, l
    <2> HIDE DEF high, low
    <2>4. CASE high >= 8388608
      BY <1>0, <2>1, <2>3, <2>4, SMT DEF RoundEven, Near
    <2>5. CASE ~(high >= 8388608)
      BY <1>0, <2>1, <2>3, <2>5, SMT DEF RoundEven, Near
    <2> QED
      BY <2>4, <2>5, SMT
  <1>3. CASE i = 1
    <2>1. Ratio[i] = [m |-> 10066330, e |-> -24] /\ Ratio[i].m = 10066330 /\ Ratio[i].e = -24
      BY <1>3, SMT DEF Ratio
    <2> QED
      BY <1>2, <2>1, SMT DEF Rounded
  <1>4. CASE i = 2
    <2>1. Ratio[i] = [m |-> 13421773, e |-> -25] /\ Ratio[i].m = 13421773 /\ Ratio[i].e = -25
      BY <1>4, SMT DEF Ratio
    <2> QED
      BY <1>2, <2>1, SMT DEF Rounded
  <1> QED
    BY <1>3, <1>4, SMT

\* Every amount has an exponent: the least k with n < 2^(k + 1), less 23.
LEMMA ExponentOf ==
    ASSUME NEW n, IsAmount(n)
    PROVE  /\ Exponent(n) \in -23 .. 7
           /\ Pow(23 + Exponent(n)) <= n /\ n < 2 * Pow(23 + Exponent(n))
  <1>0. n \in Nat /\ 1 <= n /\ n < 2 * Pow(30)
    BY Powers, SMT DEF IsAmount
  <1> DEFINE K == { k \in 0 .. 30 : n < 2 * Pow(k) }
  <1>1. K \subseteq Nat /\ 30 \in K
    BY <1>0, SMT
  <1>2. PICK k \in K : \A j \in K : ~(j < k)
    <2> HIDE DEF K
    <2>1. \E k \in K : \A j \in K : ~(<<j, k>> \in OpToRel(<, Nat))
      BY <1>1, NatLessThanWellFounded, WFMin, Zenon
    <2>2. PICK k \in K : \A j \in K : ~(<<j, k>> \in OpToRel(<, Nat))
      BY <2>1, Zenon
    <2>3. ASSUME NEW j \in K, j < k
          PROVE  <<j, k>> \in OpToRel(<, Nat)
      BY <1>1, <2>3, SMT DEF OpToRel
    <2> QED
      BY <2>2, <2>3, Zenon
  <1>3. Pow(k) <= n
    <2>1. CASE k = 0
      BY <1>0, <2>1, Powers, SMT
    <2>2. CASE k # 0
      <3>1. k - 1 \in 0 .. 30 /\ k - 1 \notin K
        BY <1>2, <2>2, SMT
      <3>2. n >= 2 * Pow(k - 1)
        BY <1>0, <3>1, Powers, SMT
      <3>3. Pow(k - 1 + 1) = 2 * Pow(k - 1)
        BY <3>1, Powers, SMT
      <3>4. k - 1 + 1 = k
        BY <1>2, SMT
      <3> QED
        BY <3>2, <3>3, <3>4, SMT
    <2> QED
      BY <2>1, <2>2
  <1> DEFINE Fits(e) == n >= 2^(23 + e) /\ n \div 2 < 2^(23 + e)
  <1>4. \A e \in -23 .. 7 : Fits(e) <=> Pow(23 + e) <= n /\ n < 2 * Pow(23 + e)
    <2>1. \A e \in -23 .. 7 : Pow(23 + e) \in Nat
      BY Powers, SMT
    <2> QED
      BY <1>0, <2>1, SMT DEF Pow
  <1>5. k - 23 \in -23 .. 7 /\ Fits(k - 23)
    <2>1. k - 23 \in -23 .. 7 /\ 23 + (k - 23) = k
      BY <1>2, SMT
    <2> HIDE DEF Fits
    <2> QED
      BY <1>2, <1>3, <1>4, <2>1, SMT
  <1>6. Exponent(n) = CHOOSE e \in -23 .. 7 : Fits(e)
    BY DEF Exponent
  <1> HIDE DEF Fits
  <1>7. Exponent(n) \in -23 .. 7 /\ Fits(Exponent(n))
    BY <1>5, <1>6, Zenon
  <1> QED
    BY <1>4, <1>7, SMT

\* 2^(-e) * 2^(23 + e) is 2^23, and 2^(23 + e) for e of 0 and more is 2^23 * 2^e.
LEMMA Shift ==
    /\ \A e \in -23 .. -1 : Pow(-e) * Pow(23 + e) = 8388608 /\ 2 * Pow(23 + e) <= 8388608
    /\ \A e \in 0 .. 7 : Pow(23 + e) = 8388608 * Pow(e)
  <1>1. \A e \in -23 .. -1 : Pow(-e) * Pow(23 + e) = 8388608 /\ 2 * Pow(23 + e) <= 8388608
    BY Powers, SMTT(30)
  <1>2. \A e \in 0 .. 7 : Pow(23 + e) = 8388608 * Pow(e)
    BY Powers, SMTT(30)
  <1> QED
    BY <1>1, <1>2, SMT

\* Division by a number that is not a literal.
LEMMA DivMod ==
    ASSUME NEW n \in Nat, NEW u \in Nat, u >= 1
    PROVE  n \div u \in Nat /\ n % u \in Nat /\ n % u < u /\ n = (u * (n \div u)) + (n % u)
  BY SMT

\* The conversion keeps 24 bits: it is exact below 2^23, and rounds to a
\* multiple of 2^e otherwise.
Converts(n, m, e) ==
    /\ ToF32(n) = [m |-> m, e |-> e] /\ IsMantissa(m)
    /\ e < 0 => n < 8388608 /\ m = n * Pow(-e)
    /\ e >= 0 => 8388608 * Pow(e) <= n /\ Near(m * Pow(e), n, Pow(e))

LEMMA Converted ==
    ASSUME NEW n, IsAmount(n)
    PROVE  \E m \in Nat, e \in -23 .. 7 : Converts(n, m, e)
  <1> DEFINE e == Exponent(n)
  <1>0. n \in Nat /\ 1 <= n
    BY SMT DEF IsAmount
  <1>1. e \in -23 .. 7 /\ Pow(23 + e) <= n /\ n < 2 * Pow(23 + e)
    BY ExponentOf, SMT
  <1>2. ToF32(n) = [m |-> IF e < 0 THEN n * Pow(-e)
                          ELSE RoundEven(n \div Pow(e), n % Pow(e), Pow(e)),
                    e |-> e]
    BY SMT DEF ToF32, Pow
  <1> HIDE DEF e
  <1>3. CASE e < 0
    <2>1. e \in -23 .. -1 /\ -e \in 0 .. 31 /\ 23 + e \in 0 .. 31
      BY <1>1, <1>3, SMT
    <2>2. PICK s \in Nat, t \in Nat :
            s = Pow(-e) /\ t = Pow(23 + e) /\ s * t = 8388608 /\ 2 * t <= 8388608
      <3>1. Pow(-e) \in Nat /\ Pow(23 + e) \in Nat
        BY <2>1, Powers, SMT
      <3>2. Pow(-e) * Pow(23 + e) = 8388608 /\ 2 * Pow(23 + e) <= 8388608
        BY <2>1, Shift, SMT
      <3> QED
        BY <3>1, <3>2, SMT
    <2>3. s * t <= s * n /\ s * n <= s * (2 * t)
      BY <1>0, <1>1, <2>2, Times, SMT
    <2>4. 8388608 <= n * s /\ n * s <= 16777216 /\ n < 8388608 /\ n * s \in Nat
      BY <1>0, <1>1, <2>2, <2>3, SMT
    <2>5. ToF32(n) = [m |-> n * s, e |-> e] /\ IsMantissa(n * s)
      BY <1>2, <1>3, <2>2, <2>4, SMT DEF IsMantissa
    <2>6. n * s \in Nat /\ ~(e >= 0)
      BY <1>3, <2>1, <2>4, SMT
    <2>7. Converts(n, n * s, e)
      BY <2>2, <2>4, <2>5, <2>6, SMT DEF Converts
    <2> QED
      BY <1>1, <2>4, <2>7, SMT
  <1>4. CASE e >= 0
    <2>0. e \in 0 .. 7
      BY <1>1, <1>4, SMT
    <2>1. PICK u \in Nat : u = Pow(e) /\ u >= 1 /\ Pow(23 + e) = 8388608 * u
      <3>1. Pow(e) \in Nat /\ Pow(e) >= 1
        BY <2>0, Powers, SMT
      <3>2. Pow(23 + e) = 8388608 * Pow(e)
        BY <2>0, Shift, SMT
      <3> QED
        BY <3>1, <3>2, SMT
    <2>2. n >= 8388608 * u /\ n < 16777216 * u
      BY <1>0, <1>1, <2>1, SMT
    <2> DEFINE q == n \div u
               r == n % u
               m == RoundEven(q, r, u)
    <2>3. q \in Nat /\ r \in Nat /\ r < u /\ n = (u * q) + r
      <3>1. u \in Nat /\ u >= 1 /\ n \in Nat
        BY <1>0, <2>1, SMT
      <3> QED
        BY <3>1, DivMod, Zenon
    <2>9. ToF32(n) = [m |-> m, e |-> e]
      <3>1. ~(e < 0)
        BY <2>0, SMT
      <3> QED
        BY <1>2, <2>1, <3>1, SMT
    <2> HIDE DEF q, r
    <2>4. q >= 8388608 /\ q <= 16777215
      <3>1. CASE q <= 8388607
        <4>1. u * q <= u * 8388607
          BY <2>1, <2>3, <3>1, Times, SMT
        <4> QED
          BY <2>1, <2>2, <2>3, <4>1, SMT
      <3>2. CASE q >= 16777216
        <4>1. u * 16777216 <= u * q
          BY <2>1, <2>3, <3>2, Times, SMT
        <4> QED
          BY <2>1, <2>2, <2>3, <4>1, SMT
      <3> QED
        BY <2>3, <3>1, <3>2, SMT
    <2>5. (m = q /\ 2 * r <= u) \/ (m = q + 1 /\ 2 * r >= u)
      BY <2>1, <2>3, SMT DEF RoundEven
    <2>6. m * u = (u * q) \/ m * u = (u * q) + u
      BY <2>1, <2>3, <2>5, SMT
    <2>7. Near(m * u, n, u)
      <3>1. CASE m = q /\ 2 * r <= u
        <4>1. m * u = u * q /\ u * q \in Nat
          BY <2>1, <2>3, <3>1, SMT
        <4> QED
          BY <2>1, <2>3, <3>1, <4>1, SMT DEF Near
      <3>2. CASE m = q + 1 /\ 2 * r >= u
        <4>1. m * u = (u * q) + u /\ u * q \in Nat
          BY <2>1, <2>3, <3>2, SMT
        <4> QED
          BY <2>1, <2>3, <3>2, <4>1, SMT DEF Near
      <3> QED
        BY <2>5, <3>1, <3>2, SMT
    <2>8. IsMantissa(m)
      BY <2>3, <2>4, <2>5, SMT DEF IsMantissa
    <2> HIDE DEF m
    <2>10. m \in Nat
      BY <2>8, SMT DEF IsMantissa
    <2>11. ~(e < 0)
      BY <2>0, SMT
    <2>12. Converts(n, m, e)
      BY <2>1, <2>2, <2>7, <2>8, <2>9, <2>11, SMT DEF Converts
    <2> QED
      BY <1>1, <2>10, <2>12, SMT
  <1>5. e < 0 \/ e >= 0
    BY <1>1, SMT
  <1> QED
    BY <1>3, <1>4, <1>5, SMT

\* The power of two between the product of two mantissas, rounded to 24 bits by
\* dropping s of them, and the share in whole satoshi: the ratio of contributor i
\* has the exponent -24 or -25.
Places(i, s) == IF i = 1 THEN 24 - s ELSE 25 - s

\* The share d of an amount that f32 holds exactly, m = n * u.
Exactly(n, m, p, u, w, d) ==
    n < 8388608 /\ m = n * u /\ w * (u * d) <= p /\ p < w * (u * d) + w * u

\* The share d of an amount that f32 rounds to a multiple of u.
Coarsely(n, m, p, u, w, d) ==
    /\ u <= 128 /\ 8388608 * u <= n /\ Near(m * u, n, u)
    /\ w * d <= p * u /\ p * u < (w * d) + w

\* The powers of two on both sides of a truncation.
LEMMA Scales ==
    ASSUME NEW e \in -23 .. 7, NEW k \in 0 .. 2
    PROVE  /\ e < 0 => Pow(k - e) = Pow(k) * Pow(-e)
           /\ e >= k => Pow(e) = Pow(k) * Pow(e - k)
           /\ 0 <= e /\ e < k => Pow(k - e) * Pow(e) = Pow(k)
           /\ 0 <= e => Pow(e) <= 128
           /\ Pow(k) \in Nat /\ Pow(k) >= 1
  <1>1. e < 0 => Pow(k - e) = Pow(k) * Pow(-e)
    BY Powers, SMTT(30)
  <1>2. e >= k => Pow(e) = Pow(k) * Pow(e - k)
    BY Powers, SMTT(30)
  <1>3. 0 <= e /\ e < k => Pow(k - e) * Pow(e) = Pow(k)
    BY Powers, SMTT(30)
  <1>4. (0 <= e => Pow(e) <= 128) /\ Pow(k) \in Nat /\ Pow(k) >= 1
    BY Powers, SMTT(30)
  <1> QED
    BY <1>1, <1>2, <1>3, <1>4, SMT

\* d is what is left of p * 2^(e - k) without its fraction, in units of u = 2^|e|.
Truncates(p, e, k, d, u) ==
    /\ e < 0 => u = Pow(-e) /\ Pow(k) * (u * d) <= p /\ p < Pow(k) * (u * d) + Pow(k) * u
    /\ e >= 0 => u = Pow(e) /\ Pow(k) * d <= p * u /\ p * u < (Pow(k) * d) + Pow(k)

\* Truncation of p * 2^(e - k), with the units of both sides made explicit.
LEMMA Truncated ==
    ASSUME NEW p \in Nat, NEW e \in -23 .. 7, NEW k \in 0 .. 2, NEW x,
           x = e - k
    PROVE  \E d \in Nat, u \in Nat :
             ToInt([m |-> p, e |-> x]) = d /\ u >= 1 /\ Truncates(p, e, k, d, u)
  <1> DEFINE w == Pow(k)
             d == ToInt([m |-> p, e |-> x])
  <1>1. d = IF x >= 0 THEN p * Pow(x) ELSE p \div Pow(-x)
    BY SMT DEF ToInt, Pow
  <1>0. /\ e < 0 => Pow(k - e) = w * Pow(-e)
        /\ e >= k => Pow(e) = w * Pow(e - k)
        /\ 0 <= e /\ e < k => Pow(k - e) * Pow(e) = w
    BY Scales, Zenon
  <1>2. w \in Nat /\ w >= 1
    BY Scales, Zenon
  <1> HIDE DEF d, w
  <1>3. CASE e < 0
    <2>1. -x = k - e /\ ~(x >= 0) /\ -x \in 0 .. 31 /\ -e \in 0 .. 31
      BY <1>3, SMT
    <2>2. PICK u \in Nat : u = Pow(-e) /\ u >= 1
      BY <2>1, Powers, SMT
    <2>3. PICK t \in Nat : t = Pow(-x) /\ t >= 1
      BY <2>1, Powers, SMT
    <2>4. t = w * u
      BY <1>3, <2>1, <2>2, <2>3, <1>0, SMT
    <2>5. d = p \div t /\ d \in Nat
      BY <1>1, <2>1, <2>3, DivMod, SMT
    <2>6. t * d <= p /\ p < (t * d) + t
      <3>1. p = (t * (p \div t)) + (p % t) /\ p % t \in Nat /\ p % t < t
        BY <2>3, DivMod, Zenon
      <3>2. PICK r \in Nat : p = (t * d) + r /\ r < t
        BY <2>5, <3>1, Zenon
      <3> QED
        BY <2>3, <2>5, <3>2, SMT
    <2>7. t * d = w * (u * d)
      BY <1>2, <2>2, <2>4, <2>5, SMT
    <2>8. Truncates(p, e, k, d, u)
      BY <2>1, <1>3, <2>2, <2>4, <2>6, <2>7, SMT DEF Truncates, w
    <2> QED
      BY <2>2, <2>5, <2>8, SMT DEF d
  <1>4. CASE e >= 0 /\ e >= k
    <2>1. x >= 0 /\ x \in 0 .. 31 /\ e \in 0 .. 31
      BY <1>4, SMT
    <2>2. PICK u \in Nat : u = Pow(e) /\ u >= 1
      BY <2>1, Powers, SMT
    <2>3. PICK t \in Nat : t = Pow(x)
      BY <2>1, Powers, SMT
    <2>4. u = w * t
      BY <1>4, <2>2, <2>3, <1>0, SMT
    <2>5. d = p * t /\ d \in Nat
      BY <1>1, <2>1, <2>3, SMT
    <2>6. w * d = p * u
      BY <1>2, <2>3, <2>4, <2>5, SMT
    <2>7. w * d \in Nat
      BY <1>2, <2>5, SMT
    <2>8. Truncates(p, e, k, d, u)
      BY <1>2, <1>4, <2>2, <2>6, <2>7, SMT DEF Truncates, w
    <2> QED
      BY <2>2, <2>5, <2>8, SMT DEF d
  <1>5. CASE e >= 0 /\ ~(e >= k)
    <2>1. -x = k - e /\ ~(x >= 0) /\ -x \in 0 .. 31 /\ e \in 0 .. 31
      BY <1>5, SMT
    <2>2. PICK u \in Nat : u = Pow(e) /\ u >= 1
      BY <2>1, Powers, SMT
    <2>3. PICK t \in Nat : t = Pow(-x) /\ t >= 1
      BY <2>1, Powers, SMT
    <2>4. t * u = w
      BY <1>5, <2>1, <2>2, <2>3, <1>0, SMT
    <2>5. d = p \div t /\ d \in Nat
      BY <1>1, <2>1, <2>3, DivMod, SMT
    <2>6. t * d <= p /\ p < (t * d) + t
      <3>1. p = (t * (p \div t)) + (p % t) /\ p % t \in Nat /\ p % t < t
        BY <2>3, DivMod, Zenon
      <3>2. PICK r \in Nat : p = (t * d) + r /\ r < t
        BY <2>5, <3>1, Zenon
      <3> QED
        BY <2>3, <2>5, <3>2, SMT
    <2>7. w * d = u * (t * d) /\ u * t = w /\ t * d \in Nat
      BY <1>2, <2>2, <2>3, <2>4, <2>5, SMT
    <2>8. u * (t * d) <= u * p /\ u * p < u * ((t * d) + t)
      BY <2>2, <2>6, <2>7, SMT
    <2>9. w * d <= p * u /\ p * u < (w * d) + w
      BY <2>2, <2>7, <2>8, SMT
    <2>10. Truncates(p, e, k, d, u)
      BY <1>5, <2>2, <2>9, SMT DEF Truncates, w
    <2> QED
      BY <2>2, <2>5, <2>10, SMT DEF d
  <1> QED
    BY <1>3, <1>4, <1>5, SMT

\* An amount's share, with the rounding of each of the three operations.
LEMMA ShareOf ==
    ASSUME NEW n, IsAmount(n), NEW i \in 1 .. 2
    PROVE  \E m, p, u, d \in Nat, s \in {23, 24} :
             /\ DaoShare(n, i) = d /\ u >= 1
             /\ IsMantissa(m) /\ Rounded(m, p, i, s)
             /\ \/ Exactly(n, m, p, u, Pow(Places(i, s)), d)
                \/ Coarsely(n, m, p, u, Pow(Places(i, s)), d)
  <1>1. PICK m \in Nat, e \in -23 .. 7 : Converts(n, m, e)
    BY Converted, SMT
  <1>2. IsMantissa(m) /\ e \in Int /\ ToF32(n) = [m |-> m, e |-> e]
    BY <1>1, SMT DEF Converts
  <1>3. PICK p \in Nat, s \in {23, 24} :
          /\ MulF32([m |-> m, e |-> e], Ratio[i]) = [m |-> p, e |-> e + Ratio[i].e + s]
          /\ Rounded(m, p, i, s)
    BY <1>2, MulBy, SMT
  <1> DEFINE k == Places(i, s)
  <1>4. k \in 0 .. 2 /\ e + Ratio[i].e + s = e - k
    <2>1. CASE i = 1
      <3>1. Ratio[i].e = -24
        BY <2>1, SMT DEF Ratio
      <3> QED
        BY <2>1, <3>1, SMT DEF Places
    <2>2. CASE i = 2
      <3>1. Ratio[i].e = -25
        BY <2>2, SMT DEF Ratio
      <3> QED
        BY <2>2, <3>1, SMT DEF Places
    <2> QED
      BY <2>1, <2>2, SMT
  <1> HIDE DEF k
  <1>5. PICK d \in Nat, u \in Nat :
          ToInt([m |-> p, e |-> e + Ratio[i].e + s]) = d /\ u >= 1 /\ Truncates(p, e, k, d, u)
    BY <1>4, Truncated, Zenon
  <1>6. DaoShare(n, i) = d
    <2>1. n # 0
      BY SMT DEF IsAmount
    <2> QED
      BY <1>2, <1>3, <1>5, <2>1, SMT DEF DaoShare
  <1>7. CASE e < 0
    <2>1. Exactly(n, m, p, u, Pow(k), d)
      BY <1>1, <1>5, <1>7, SMT DEF Converts, Truncates, Exactly
    <2> QED
      BY <1>2, <1>3, <1>5, <1>6, <2>1, SMT DEF k
  <1>8. CASE e >= 0
    <2>1. Pow(e) <= 128
      BY <1>4, <1>8, Powers, SMT
    <2>2. Coarsely(n, m, p, u, Pow(k), d)
      BY <1>1, <1>5, <1>8, <2>1, SMT DEF Converts, Truncates, Coarsely
    <2> QED
      BY <1>2, <1>3, <1>5, <1>6, <2>2, SMT DEF k
  <1> QED
    BY <1>7, <1>8, SMT

\* A common factor can be dropped.
LEMMA Factor ==
    ASSUME NEW u \in Nat, u >= 1, NEW a \in Int, NEW b \in Int, u * a <= u * b
    PROVE  a <= b
  BY SMT

\* What an exact amount's share can be off by, in tenths: nothing but the
\* truncation and the error of the ratio.
LEMMA ExactBounds ==
    ASSUME NEW n \in Nat, NEW m \in Nat, NEW p \in Nat, NEW u \in Nat, u >= 1, NEW d \in Nat,
           NEW i \in 1 .. 2, NEW s \in {23, 24},
           Rounded(m, p, i, s), Exactly(n, m, p, u, Pow(Places(i, s)), d)
    PROVE  /\ i = 1 => (10 * d) - (6 * n) <= 7 /\ (10 * d) - (6 * n) >= -15
           /\ i = 2 => (10 * d) - (4 * n) <= 7 /\ (10 * d) - (4 * n) >= -15
  <1>0. PICK T \in {4, 6} : (i = 1 => T = 6) /\ (i = 2 => T = 4)
    BY SMT
  <1>1. PICK y \in Nat : y = u * d /\ m = n * u
    BY SMT DEF Exactly
  <1>2. PICK z \in Int : z = (10 * d) - (T * n)
    <2>1. (10 * d) - (T * n) \in Int
      BY SMT
    <2> QED
      BY <2>1, Zenon
  <1>3. u * z = (10 * y) - (T * m)
    <2>1. CASE i = 1
      BY <1>0, <1>1, <1>2, <2>1, SMT
    <2>2. CASE i = 2
      BY <1>0, <1>1, <1>2, <2>2, SMT
    <2> QED
      BY <2>1, <2>2, SMT
  <1>4. m <= 8388608 * u
    <2>1. n <= 8388608
      BY SMT DEF Exactly
    <2> QED
      BY <1>1, <2>1, Times, SMT
  <1>5. PICK Z \in Int : Z = u * z
    BY SMT
  <1>6. Z = (10 * y) - (T * m)
    BY <1>3, <1>5, SMT
  <1>7. Z <= 7 * u /\ Z >= -15 * u
    <2>1. CASE i = 1 /\ s = 24
      <3>1. Pow(Places(i, s)) = 1 /\ Ratio[i].m = 10066330
        BY <2>1, Powers, SMT DEF Places, Ratio
      <3>2. y <= p /\ p < y + u
        BY <1>1, <3>1, SMT DEF Exactly
      <3>3. Near(p * 16777216, m * 10066330, 16777216)
        BY <2>1, <3>1, SMT DEF Rounded
      <3> QED
        BY <1>0, <1>4, <1>6, <2>1, <3>2, <3>3, SMT DEF Near
    <2>2. CASE i = 1 /\ s = 23
      <3>1. Pow(Places(i, s)) = 2 /\ Ratio[i].m = 10066330
        BY <2>2, Powers, SMT DEF Places, Ratio
      <3>2. 2 * y <= p /\ p < 2 * y + 2 * u
        BY <1>1, <3>1, SMT DEF Exactly
      <3>3. Near(p * 8388608, m * 10066330, 8388608)
        BY <2>2, <3>1, SMT DEF Rounded
      <3> QED
        BY <1>0, <1>4, <1>6, <2>2, <3>2, <3>3, SMT DEF Near
    <2>3. CASE i = 2 /\ s = 24
      <3>1. Pow(Places(i, s)) = 2 /\ Ratio[i].m = 13421773
        BY <2>3, Powers, SMT DEF Places, Ratio
      <3>2. 2 * y <= p /\ p < 2 * y + 2 * u
        BY <1>1, <3>1, SMT DEF Exactly
      <3>3. Near(p * 16777216, m * 13421773, 16777216)
        BY <2>3, <3>1, SMT DEF Rounded
      <3> QED
        BY <1>0, <1>4, <1>6, <2>3, <3>2, <3>3, SMT DEF Near
    <2>4. CASE i = 2 /\ s = 23
      <3>1. Pow(Places(i, s)) = 4 /\ Ratio[i].m = 13421773
        BY <2>4, Powers, SMT DEF Places, Ratio
      <3>2. 4 * y <= p /\ p < 4 * y + 4 * u
        BY <1>1, <3>1, SMT DEF Exactly
      <3>3. Near(p * 8388608, m * 13421773, 8388608)
        BY <2>4, <3>1, SMT DEF Rounded
      <3> QED
        BY <1>0, <1>4, <1>6, <2>4, <3>2, <3>3, SMT DEF Near
    <2> QED
      BY <2>1, <2>2, <2>3, <2>4, SMT
  <1>8. z <= 7
    <2>1. u * z <= u * 7
      BY <1>5, <1>7, SMT
    <2> QED
      BY <2>1, Factor, SMT
  <1>9. z >= -15
    <2>1. u * (-15) <= u * z
      BY <1>5, <1>7, SMT
    <2> QED
      BY <2>1, Factor, SMT
  <1> QED
    BY <1>0, <1>2, <1>8, <1>9, SMT

\* r is the number of whole units of 2^23 in n.
Resolves(n, r) == 8388608 * r <= n /\ n < (8388608 * r) + 8388608

\* What a rounded amount's share can be off by, in tenths: little more than the
\* resolution of f32.
LEMMA CoarseBounds ==
    ASSUME NEW n \in Nat, NEW m \in Nat, NEW p \in Nat, NEW u \in Nat, u >= 1, NEW d \in Nat,
           NEW i \in 1 .. 2, NEW s \in {23, 24}, IsMantissa(m),
           Rounded(m, p, i, s), Coarsely(n, m, p, u, Pow(Places(i, s)), d),
           NEW r \in Nat, Resolves(n, r)
    PROVE  /\ i = 1 => /\ (10 * d) - (6 * n) <= (10 * r) + 10
                       /\ (10 * d) - (6 * n) >= -((10 * r) + 19)
                       /\ (10 * d) - (6 * n) <= 11 * u
           /\ i = 2 => /\ (10 * d) - (4 * n) <= (10 * r) + 10
                       /\ (10 * d) - (4 * n) >= -((10 * r) + 19)
                       /\ (10 * d) - (4 * n) <= 5 * u
           /\ u <= 128
  <1>1. PICK q \in Nat, v \in Nat : q = p * u /\ v = m * u
    BY SMT
  <1>2. u <= 128 /\ u <= r /\ 2 * (v - n) <= u /\ 2 * (n - v) <= u
    BY <1>1, SMT DEF Coarsely, Near, Resolves
  <1>3. m \in Nat /\ m <= 16777216
    BY SMT DEF IsMantissa
  <1>4. CASE i = 1 /\ s = 24
    <2>1. Pow(Places(i, s)) = 1 /\ Ratio[i].m = 10066330
      BY <1>4, Powers, SMT DEF Places, Ratio
    <2>2. d <= q /\ q < d + 1
      BY <1>1, <2>1, SMT DEF Coarsely
    <2>3. Near(p * 16777216, m * 10066330, 16777216)
      BY <1>4, <2>1, SMT DEF Rounded
    <2>4. /\ 2 * ((q * 16777216) - (v * 10066330)) <= 16777216 * u
          /\ 2 * ((v * 10066330) - (q * 16777216)) <= 16777216 * u
      <3>1. u * (2 * ((p * 16777216) - (m * 10066330))) <= u * 16777216
        BY <2>3, Times, SMT DEF Near
      <3>2. u * (2 * ((m * 10066330) - (p * 16777216))) <= u * 16777216
        BY <2>3, Times, SMT DEF Near
      <3> QED
        BY <1>1, <3>1, <3>2, SMT
    <2>5. 5 * q <= (3 * v) + (4 * u)
      <3>1. 5 * p <= (3 * m) + 4
        BY <1>3, <2>3, SMT DEF Near
      <3>2. u * (5 * p) <= u * ((3 * m) + 4)
        BY <3>1, Times, SMT
      <3> QED
        BY <1>1, <3>2, SMT
    <2> QED
      BY <1>2, <1>4, <2>2, <2>4, <2>5, SMT DEF Resolves
  <1>5. CASE i = 1 /\ s = 23
    <2>1. Pow(Places(i, s)) = 2 /\ Ratio[i].m = 10066330
      BY <1>5, Powers, SMT DEF Places, Ratio
    <2>2. 2 * d <= q /\ q < (2 * d) + 2
      BY <1>1, <2>1, SMT DEF Coarsely
    <2>3. Near(p * 8388608, m * 10066330, 8388608)
      BY <1>5, <2>1, SMT DEF Rounded
    <2>4. /\ 2 * ((q * 8388608) - (v * 10066330)) <= 8388608 * u
          /\ 2 * ((v * 10066330) - (q * 8388608)) <= 8388608 * u
      <3>1. u * (2 * ((p * 8388608) - (m * 10066330))) <= u * 8388608
        BY <2>3, Times, SMT DEF Near
      <3>2. u * (2 * ((m * 10066330) - (p * 8388608))) <= u * 8388608
        BY <2>3, Times, SMT DEF Near
      <3> QED
        BY <1>1, <3>1, <3>2, SMT
    <2>5. m * 10066330 < 140737488355328
      BY <1>5, <2>1, SMT DEF Rounded
    <2>6. 5 * q <= (6 * v) + (5 * u)
      <3>1. 5 * p <= (6 * m) + 5
        BY <1>3, <2>3, <2>5, SMT DEF Near
      <3>2. u * (5 * p) <= u * ((6 * m) + 5)
        BY <3>1, Times, SMT
      <3> QED
        BY <1>1, <3>2, SMT
    <2> QED
      BY <1>2, <1>5, <2>2, <2>4, <2>6, SMT DEF Resolves
  <1>6. CASE i = 2 /\ s = 24
    <2>1. Pow(Places(i, s)) = 2 /\ Ratio[i].m = 13421773
      BY <1>6, Powers, SMT DEF Places, Ratio
    <2>2. 2 * d <= q /\ q < (2 * d) + 2
      BY <1>1, <2>1, SMT DEF Coarsely
    <2>3. Near(p * 16777216, m * 13421773, 16777216)
      BY <1>6, <2>1, SMT DEF Rounded
    <2>4. /\ 2 * ((q * 16777216) - (v * 13421773)) <= 16777216 * u
          /\ 2 * ((v * 13421773) - (q * 16777216)) <= 16777216 * u
      <3>1. u * (2 * ((p * 16777216) - (m * 13421773))) <= u * 16777216
        BY <2>3, Times, SMT DEF Near
      <3>2. u * (2 * ((m * 13421773) - (p * 16777216))) <= u * 16777216
        BY <2>3, Times, SMT DEF Near
      <3> QED
        BY <1>1, <3>1, <3>2, SMT
    <2>5. 5 * q <= (4 * v) + (3 * u)
      <3>1. 5 * p <= (4 * m) + 3
        BY <1>3, <2>3, SMT DEF Near
      <3>2. u * (5 * p) <= u * ((4 * m) + 3)
        BY <3>1, Times, SMT
      <3> QED
        BY <1>1, <3>2, SMT
    <2> QED
      BY <1>2, <1>6, <2>2, <2>4, <2>5, SMT DEF Resolves
  <1>7. CASE i = 2 /\ s = 23
    <2>1. Pow(Places(i, s)) = 4 /\ Ratio[i].m = 13421773
      BY <1>7, Powers, SMT DEF Places, Ratio
    <2>2. 4 * d <= q /\ q < (4 * d) + 4
      BY <1>1, <2>1, SMT DEF Coarsely
    <2>3. Near(p * 8388608, m * 13421773, 8388608)
      BY <1>7, <2>1, SMT DEF Rounded
    <2>4. /\ 2 * ((q * 8388608) - (v * 13421773)) <= 8388608 * u
          /\ 2 * ((v * 13421773) - (q * 8388608)) <= 8388608 * u
      <3>1. u * (2 * ((p * 8388608) - (m * 13421773))) <= u * 8388608
        BY <2>3, Times, SMT DEF Near
      <3>2. u * (2 * ((m * 13421773) - (p * 8388608))) <= u * 8388608
        BY <2>3, Times, SMT DEF Near
      <3> QED
        BY <1>1, <3>1, <3>2, SMT
    <2>5. m * 13421773 < 140737488355328
      BY <1>7, <2>1, SMT DEF Rounded
    <2>6. 5 * q <= (8 * v) + (3 * u)
      <3>1. 5 * p <= (8 * m) + 3
        BY <1>3, <2>3, <2>5, SMT DEF Near
      <3>2. u * (5 * p) <= u * ((8 * m) + 3)
        BY <3>1, Times, SMT
      <3> QED
        BY <1>1, <3>2, SMT
    <2> QED
      BY <1>2, <1>7, <2>2, <2>4, <2>6, SMT DEF Resolves
  <1> QED
    BY <1>4, <1>5, <1>6, <1>7, SMT
\* A share of t tenths, in tenths of a satoshi, is off by little more than r + 1
\* satoshi, to which f32 resolves the amount.
Accurate(n, r, d, t) ==
    (10 * d) - (t * n) <= (10 * r) + 10 /\ (10 * d) - (t * n) >= -((10 * r) + 19)

\* Both shares are accurate, and exceed the exact ones by 204.8 satoshi at most.
LEMMA ShareBounds ==
    ASSUME NEW n, IsAmount(n), NEW r \in Nat, Resolves(n, r)
    PROVE  \E a, b \in Nat :
             /\ DaoShare(n, 1) = a /\ DaoShare(n, 2) = b
             /\ Accurate(n, r, a, 6) /\ Accurate(n, r, b, 4)
             /\ (10 * a) - (6 * n) <= 1408 /\ (10 * b) - (4 * n) <= 640
  <1>1. n \in Nat
    BY SMT DEF IsAmount
  <1>2. PICK a \in Nat : DaoShare(n, 1) = a /\ Accurate(n, r, a, 6) /\ (10 * a) - (6 * n) <= 1408
    <2>1. PICK m, p, u, d \in Nat, s \in {23, 24} :
             /\ DaoShare(n, 1) = d /\ u >= 1
             /\ IsMantissa(m) /\ Rounded(m, p, 1, s)
             /\ \/ Exactly(n, m, p, u, Pow(Places(1, s)), d)
                \/ Coarsely(n, m, p, u, Pow(Places(1, s)), d)
      BY ShareOf, SMT
    <2>2. Accurate(n, r, d, 6) /\ (10 * d) - (6 * n) <= 1408
      <3>1. CASE Exactly(n, m, p, u, Pow(Places(1, s)), d)
        <4>1. (10 * d) - (6 * n) <= 7 /\ (10 * d) - (6 * n) >= -15
          BY <1>1, <2>1, <3>1, ExactBounds, SMT
        <4> QED
          BY <1>1, <4>1, SMT DEF Accurate
      <3>2. CASE Coarsely(n, m, p, u, Pow(Places(1, s)), d)
        <4>1. /\ (10 * d) - (6 * n) <= (10 * r) + 10
              /\ (10 * d) - (6 * n) >= -((10 * r) + 19)
              /\ (10 * d) - (6 * n) <= 11 * u /\ u <= 128
          BY <1>1, <2>1, <3>2, CoarseBounds, SMT
        <4> QED
          BY <1>1, <2>1, <4>1, SMT DEF Accurate
      <3> QED
        BY <2>1, <3>1, <3>2, SMT
    <2> QED
      BY <2>1, <2>2, SMT
  <1>3. PICK b \in Nat : DaoShare(n, 2) = b /\ Accurate(n, r, b, 4) /\ (10 * b) - (4 * n) <= 640
    <2>1. PICK m, p, u, d \in Nat, s \in {23, 24} :
             /\ DaoShare(n, 2) = d /\ u >= 1
             /\ IsMantissa(m) /\ Rounded(m, p, 2, s)
             /\ \/ Exactly(n, m, p, u, Pow(Places(2, s)), d)
                \/ Coarsely(n, m, p, u, Pow(Places(2, s)), d)
      BY ShareOf, SMT
    <2>2. Accurate(n, r, d, 4) /\ (10 * d) - (4 * n) <= 640
      <3>1. CASE Exactly(n, m, p, u, Pow(Places(2, s)), d)
        <4>1. (10 * d) - (4 * n) <= 7 /\ (10 * d) - (4 * n) >= -15
          BY <1>1, <2>1, <3>1, ExactBounds, SMT
        <4> QED
          BY <1>1, <4>1, SMT DEF Accurate
      <3>2. CASE Coarsely(n, m, p, u, Pow(Places(2, s)), d)
        <4>1. /\ (10 * d) - (4 * n) <= (10 * r) + 10
              /\ (10 * d) - (4 * n) >= -((10 * r) + 19)
              /\ (10 * d) - (4 * n) <= 5 * u /\ u <= 128
          BY <1>1, <2>1, <3>2, CoarseBounds, SMT
        <4> QED
          BY <1>1, <2>1, <4>1, SMT DEF Accurate
      <3> QED
        BY <2>1, <3>1, <3>2, SMT
    <2> QED
      BY <2>1, <2>2, SMT
  <1> QED
    BY <1>2, <1>3, SMT

\* The state: an amount that F32 can represent.
AmountsInv == base \in Windows /\ amount \in Nat /\ base <= amount /\ amount <= base + Width

\* Every amount that is split lies in a window.
LEMMA AmountsInvariant == SplitSpec => []AmountsInv
  <1>1. SplitInit => AmountsInv
    BY WindowAssumption, SMT DEF SplitInit, AmountsInv
  <1>2. AmountsInv /\ [SplitNext]_avars => AmountsInv'
    BY WindowAssumption, SMT DEF AmountsInv, SplitNext, avars
  <1> QED
    BY <1>1, <1>2, PTL DEF SplitSpec

\* WindowAssumption keeps the windows in the range of F32.
LEMMA AmountFits ==
    ASSUME AmountsInv
    PROVE  IsAmount(amount)
  BY WindowAssumption, SMT DEF AmountsInv, IsAmount

\* The exact share in tenths of a satoshi, before it is rounded down.
LEMMA ExactShareOf ==
    ASSUME NEW n \in Nat
    PROVE  \E a, b \in Nat :
             /\ ExactShare(n, 1) = a /\ 10 * a <= 6 * n /\ 6 * n <= (10 * a) + 9
             /\ ExactShare(n, 2) = b /\ 10 * b <= 4 * n /\ 4 * n <= (10 * b) + 9
  <1> DEFINE h == n \div 10
             l == n % 10
  <1>1. h \in Nat /\ l \in 0 .. 9 /\ n = (10 * h) + l
    BY SMT
  <1>2. ExactShare(n, 1) = (h * 6) + ((l * 6) \div 10) /\ ExactShare(n, 2) = (h * 4) + ((l * 4) \div 10)
    BY SMT DEF ExactShare
  <1> HIDE DEF h, l
  <1>3. PICK a \in Nat : a = (h * 6) + ((l * 6) \div 10) /\ 10 * a <= 6 * n /\ 6 * n <= (10 * a) + 9
    <2>1. (h * 6) + ((l * 6) \div 10) \in Nat
      BY <1>1, SMT
    <2> QED
      BY <1>1, <2>1, SMT
  <1>4. PICK b \in Nat : b = (h * 4) + ((l * 4) \div 10) /\ 10 * b <= 4 * n /\ 4 * n <= (10 * b) + 9
    <2>1. (h * 4) + ((l * 4) \div 10) \in Nat
      BY <1>1, SMT
    <2> QED
      BY <1>1, <2>1, SMT
  <1> QED
    BY <1>2, <1>3, <1>4, SMT

\* Resolution counts the whole units of 2^23, and one more.
LEMMA ResolutionOf ==
    ASSUME NEW n \in Nat
    PROVE  \E r \in Nat : Resolution(n) = r + 1 /\ Resolves(n, r)
  <1>1. 2^23 = 8388608
    BY SMT
  <1>2. n \div 8388608 \in Nat /\ Resolves(n, n \div 8388608)
    BY SMT DEF Resolves
  <1>3. Resolution(n) = (n \div 8388608) + 1
    BY <1>1, SMT DEF Resolution
  <1> QED
    BY <1>2, <1>3, SMT

\* RedirectTx::build (transaction.rs) divides a warning's funds in f32: for every
\* amount below 2^31 satoshi each share differs from the exact one by no more
\* than f32 resolves that amount to, which is one satoshi below 2^23.
THEOREM RedirectSplitsAccurately == SplitSpec => []SharesAccurate
  <1>1. ASSUME AmountsInv
        PROVE  SharesAccurate
    <2> DEFINE n == amount
    <2>1. n \in Nat /\ IsAmount(n)
      BY <1>1, AmountFits, SMT DEF AmountsInv
    <2> HIDE DEF n
    <2>2. PICK r \in Nat : Resolution(n) = r + 1 /\ Resolves(n, r)
      BY <2>1, ResolutionOf, SMT
    <2>3. PICK a, b \in Nat : /\ DaoShare(n, 1) = a /\ DaoShare(n, 2) = b
                              /\ Accurate(n, r, a, 6) /\ Accurate(n, r, b, 4)
      BY <2>1, <2>2, ShareBounds, SMT
    <2>4. PICK x, y \in Nat :
             /\ ExactShare(n, 1) = x /\ 10 * x <= 6 * n /\ 6 * n <= (10 * x) + 9
             /\ ExactShare(n, 2) = y /\ 10 * y <= 4 * n /\ 4 * n <= (10 * y) + 9
      BY <2>1, ExactShareOf, SMT
    <2>5. a - x <= r + 1 /\ x - a <= r + 1 /\ b - y <= r + 1 /\ y - b <= r + 1
      BY <2>1, <2>3, <2>4, SMT DEF Accurate
    <2> QED
      BY <2>2, <2>3, <2>4, <2>5, SMT DEF SharesAccurate, n
  <1> QED
    BY <1>1, AmountsInvariant, PTL

\* Together the shares exceed the amount by 204 units at most.
LEMMA ExcessOf ==
    ASSUME AmountsInv
    PROVE  \E x \in Int : x <= 204 /\ Excess = x * Unit
  <1> DEFINE n == amount
  <1>1. n \in Nat /\ IsAmount(n)
    BY AmountFits, SMT DEF AmountsInv
  <1> HIDE DEF n
  <1>2. PICK r \in Nat : Resolves(n, r)
    BY <1>1, ResolutionOf, SMT
  <1>3. PICK a, b \in Nat : /\ DaoShare(n, 1) = a /\ DaoShare(n, 2) = b
                            /\ (10 * a) - (6 * n) <= 1408 /\ (10 * b) - (4 * n) <= 640
    BY <1>1, <1>2, ShareBounds, SMT
  <1>4. a - n + b \in Int /\ a - n + b <= 204
    BY <1>1, <1>3, SMT
  <1>5. Excess = (a - n + b) * Unit
    BY <1>3, SMT DEF Excess, n
  <1> QED
    BY <1>4, <1>5, SMT

\* The two shares together, which RedirectTx::build lets exceed the amount they
\* divide by what f32 loses, leave at least 450 of the 1000 satoshi set aside for
\* the fee: for every amount below 2^31 satoshi, counted in satoshi.
THEOREM RedirectLeavesFee ==
    ASSUME Unit = 1
    PROVE  SplitSpec => []RedirectPaysFee
  <1>1. ASSUME AmountsInv
        PROVE  RedirectPaysFee
    <2>1. PICK x \in Int : x <= 204 /\ Excess = x * Unit
      BY <1>1, ExcessOf, SMT
    <2> QED
      BY <2>1, SMT DEF RedirectPaysFee
  <1> QED
    BY <1>1, AmountsInvariant, PTL

\* The outputs of RedirectTx::build never exceed its input below 2^32 satoshi,
\* counted in two: the amounts of the run amounts_large lie above.
THEOREM RedirectStaysAffordable ==
    ASSUME Unit \in {1, 2}
    PROVE  SplitSpec => []RedirectAffordable
  <1>1. ASSUME AmountsInv
        PROVE  RedirectAffordable
    <2>1. PICK x \in Int : x <= 204 /\ Excess = x * Unit
      BY <1>1, ExcessOf, SMT
    <2>2. CASE Unit = 1
      BY <2>1, <2>2, SMT DEF RedirectAffordable
    <2>3. CASE Unit = 2
      BY <2>1, <2>3, SMT DEF RedirectAffordable
    <2> QED
      BY <2>2, <2>3
  <1> QED
    BY <1>1, AmountsInvariant, PTL
=============================================================================
