---------------------------- MODULE SumTheorems ----------------------------
(***************************************************************************)
(* Facts about SumFunctionOnSet, the sum of the values of a function on a  *)
(* finite set, and about the least and the greatest element of one.        *)
(***************************************************************************)
EXTENDS FiniteSetsExt, FiniteSetTheorems, TLAPS

\* The element the sum takes first, and the partial sums over the subsets of S.
First(s) == CHOOSE x \in s : TRUE
PartialSums(f, S, g) ==
  g = [s \in SUBSET S |-> IF s = {} THEN 0 ELSE f[First(s)] + g[s \ {First(s)}]]

LEMMA SumIsPartialSum ==
  ASSUME NEW f, NEW S
  PROVE  SumFunctionOnSet(f, S) = (CHOOSE g : PartialSums(f, S, g))[S]
  BY DEF SumFunctionOnSet, FoldFunctionOnSet, MapThenFoldSet, PartialSums, First

\* The least set: a property of finite sets that fails somewhere fails at a set
\* all of whose proper subsets have it.
LEMMA LeastFiniteSet ==
  ASSUME NEW S, IsFiniteSet(S), NEW Bad, Bad \subseteq SUBSET S, Bad # {}
  PROVE  \E T \in Bad : \A U \in Bad : ~(U \subseteq T /\ U # T)
<1>1. IsWellFoundedOn(StrictSubsetOrdering(S), SUBSET S)
  BY FS_StrictSubsetOrderingWellFounded, FS_FiniteSubsetsOfFinite
<1>2. PICK T \in Bad : \A U \in Bad : <<U, T>> \notin StrictSubsetOrdering(S)
  BY <1>1, WFMin
<1>. QED
  BY <1>2 DEF StrictSubsetOrdering

LEMMA FirstIsElement ==
  ASSUME NEW s, s # {}
  PROVE  First(s) \in s
  BY DEF First

\* Two tables of partial sums agree wherever both are defined.
LEMMA PartialSumsAgree ==
  ASSUME NEW f, NEW S, NEW T, NEW g, NEW h, NEW U, U \subseteq S, U \subseteq T,
         IsFiniteSet(U), PartialSums(f, S, g), PartialSums(f, T, h)
  PROVE  g[U] = h[U]
<1> DEFINE Bad == {s \in SUBSET U : g[s] # h[s]}
<1> SUFFICES ASSUME Bad # {} PROVE FALSE
  OBVIOUS
<1>0. Bad \subseteq SUBSET U
  OBVIOUS
<1> HIDE DEF Bad
<1>1. PICK s \in Bad : \A r \in Bad : ~(r \subseteq s /\ r # s)
  BY <1>0, LeastFiniteSet
<1> USE DEF Bad
<1>2. g[s] = IF s = {} THEN 0 ELSE f[First(s)] + g[s \ {First(s)}]
  BY DEF PartialSums
<1>3. h[s] = IF s = {} THEN 0 ELSE f[First(s)] + h[s \ {First(s)}]
  BY DEF PartialSums
<1>4. s # {} => g[s \ {First(s)}] = h[s \ {First(s)}]
  <2> SUFFICES ASSUME s # {} PROVE s \ {First(s)} \notin Bad
    OBVIOUS
  <2>. QED
    BY <1>1, FirstIsElement
<1>. QED
  BY <1>2, <1>3, <1>4

\* A finite set has a table of partial sums.
LEMMA PartialSumsExist ==
  ASSUME NEW f, NEW S, IsFiniteSet(S)
  PROVE  \E g : PartialSums(f, S, g)
<1> DEFINE Bad == {T \in SUBSET S : ~ \E g : PartialSums(f, T, g)}
<1> SUFFICES ASSUME Bad # {} PROVE FALSE
  OBVIOUS
<1>0. Bad \subseteq SUBSET S
  OBVIOUS
<1> HIDE DEF Bad
<1>1. PICK T \in Bad : \A r \in Bad : ~(r \subseteq T /\ r # T)
  BY <1>0, LeastFiniteSet
<1> USE DEF Bad
<1> DEFINE Table(s) == CHOOSE g : PartialSums(f, s, g)
           Rest(s) == s \ {First(s)}
           h == [s \in SUBSET T |-> IF s = {} THEN 0 ELSE f[First(s)] + Table(Rest(s))[Rest(s)]]
<1>2. ASSUME NEW s \in SUBSET T, s # T PROVE PartialSums(f, s, Table(s))
  BY <1>1, <1>2
<1>3. ASSUME NEW s \in SUBSET T, s # {}
      PROVE  Rest(s) \in SUBSET T /\ Rest(s) # T /\ Rest(s) \subseteq s
  BY <1>3, FirstIsElement
<1>4. ASSUME NEW s \in SUBSET T, s # T PROVE h[s] = Table(s)[s]
  <2>1. Table(s)[s] = IF s = {} THEN 0 ELSE f[First(s)] + Table(s)[Rest(s)]
    <3>1. PartialSums(f, s, Table(s))
      BY <1>2, <1>4
    <3> HIDE DEF Table
    <3>. QED
      BY <3>1 DEF PartialSums
  <2>2. CASE s = {}
    BY <2>1, <2>2
  <2>3. CASE s # {}
    <3>1. IsFiniteSet(Rest(s))
      BY FS_Subset
    <3>2. Table(s)[Rest(s)] = Table(Rest(s))[Rest(s)]
      <4>1. PartialSums(f, s, Table(s)) /\ PartialSums(f, Rest(s), Table(Rest(s)))
        BY <1>2, <1>3, <1>4, <2>3
      <4>. HIDE DEF Table, Rest
      <4>. QED
        BY <4>1, <3>1, <1>3, <2>3, PartialSumsAgree
    <3>. QED
      BY <2>1, <2>3, <3>2
  <2>. QED
    BY <2>2, <2>3
<1>5. PartialSums(f, T, h)
  <2>1. ASSUME NEW s \in SUBSET T, s # {} PROVE h[Rest(s)] = Table(Rest(s))[Rest(s)]
    <3>1. Rest(s) \in SUBSET T /\ Rest(s) # T
      BY <1>3, <2>1
    <3> HIDE DEF Table, Rest, h
    <3>. QED
      BY <1>4, <3>1
  <2>2. h = [s \in SUBSET T |-> IF s = {} THEN 0 ELSE f[First(s)] + h[Rest(s)]]
    <3> DEFINE k == [s \in SUBSET T |-> IF s = {} THEN 0 ELSE f[First(s)] + h[Rest(s)]]
    <3>1. ASSUME NEW s \in SUBSET T PROVE h[s] = k[s]
      <4>1. h[s] = IF s = {} THEN 0 ELSE f[First(s)] + Table(Rest(s))[Rest(s)]
        OBVIOUS
      <4>2. k[s] = IF s = {} THEN 0 ELSE f[First(s)] + h[Rest(s)]
        OBVIOUS
      <4> HIDE DEF Table, Rest, h, k
      <4>. QED
        BY <2>1, <4>1, <4>2
    <3>2. DOMAIN h = SUBSET T /\ DOMAIN k = SUBSET T
      OBVIOUS
    <3>3. h = [s \in DOMAIN h |-> h[s]] /\ k = [s \in DOMAIN k |-> k[s]]
      OBVIOUS
    <3> HIDE DEF h, k
    <3>4. h = k
      BY <3>1, <3>2, <3>3
    <3>. QED
      BY <3>4 DEF k
  <2> HIDE DEF h
  <2>. QED
    BY <2>2 DEF PartialSums
<1>. QED
  BY <1>1, <1>5

LEMMA SumTable ==
  ASSUME NEW f, NEW S, IsFiniteSet(S)
  PROVE  \E g : PartialSums(f, S, g) /\ \A T \in SUBSET S : SumFunctionOnSet(f, T) = g[T]
<1> DEFINE Table(s) == CHOOSE g : PartialSums(f, s, g)
<1>1. ASSUME NEW T \in SUBSET S PROVE PartialSums(f, T, Table(T)) /\ IsFiniteSet(T)
  BY PartialSumsExist, FS_Subset
<1>2. ASSUME NEW T \in SUBSET S PROVE SumFunctionOnSet(f, T) = Table(T)[T]
  BY SumIsPartialSum
<1> HIDE DEF Table
<1>3. ASSUME NEW T \in SUBSET S PROVE SumFunctionOnSet(f, T) = Table(S)[T]
  BY <1>1, <1>2, PartialSumsAgree
<1>. QED
  BY <1>1, <1>3

\* The sum over the empty set, and over a set with its first element apart.
LEMMA SumEmpty ==
  ASSUME NEW f
  PROVE  SumFunctionOnSet(f, {}) = 0
<1>1. PICK g : PartialSums(f, {}, g) /\ \A T \in SUBSET {} : SumFunctionOnSet(f, T) = g[T]
  BY SumTable, FS_EmptySet
<1>. QED
  BY <1>1 DEF PartialSums

LEMMA SumFirst ==
  ASSUME NEW f, NEW S, IsFiniteSet(S), S # {}
  PROVE  SumFunctionOnSet(f, S) = f[First(S)] + SumFunctionOnSet(f, S \ {First(S)})
<1>1. PICK g : PartialSums(f, S, g) /\ \A T \in SUBSET S : SumFunctionOnSet(f, T) = g[T]
  BY SumTable
<1>2. g[S] = f[First(S)] + g[S \ {First(S)}]
  BY <1>1 DEF PartialSums
<1>. QED
  BY <1>1, <1>2

\* The sum of natural numbers is a natural number.
LEMMA SumType ==
  ASSUME NEW f, NEW S, IsFiniteSet(S), \A x \in S : f[x] \in Nat
  PROVE  SumFunctionOnSet(f, S) \in Nat
<1> DEFINE Bad == {T \in SUBSET S : SumFunctionOnSet(f, T) \notin Nat}
<1> SUFFICES ASSUME Bad # {} PROVE FALSE
  OBVIOUS
<1>0. Bad \subseteq SUBSET S
  OBVIOUS
<1> HIDE DEF Bad
<1>1. PICK T \in Bad : \A r \in Bad : ~(r \subseteq T /\ r # T)
  BY <1>0, LeastFiniteSet
<1> USE DEF Bad
<1>2. IsFiniteSet(T)
  BY FS_Subset
<1>3. T # {}
  BY SumEmpty
<1>4. First(T) \in T /\ T \ {First(T)} \notin Bad
  BY <1>1, <1>3, FirstIsElement
<1>. QED
  BY <1>2, <1>3, <1>4, SumFirst

\* Any element can be taken out of a sum.
LEMMA SumElement ==
  ASSUME NEW f, NEW S, IsFiniteSet(S), \A y \in S : f[y] \in Nat, NEW x \in S
  PROVE  SumFunctionOnSet(f, S) = f[x] + SumFunctionOnSet(f, S \ {x})
<1> DEFINE Sum(T) == SumFunctionOnSet(f, T)
           Bad == {T \in SUBSET S : \E z \in T : Sum(T) # f[z] + Sum(T \ {z})}
<1> SUFFICES ASSUME Bad # {} PROVE FALSE
  OBVIOUS
<1>0. Bad \subseteq SUBSET S
  OBVIOUS
<1> HIDE DEF Bad
<1>1. PICK T \in Bad : \A r \in Bad : ~(r \subseteq T /\ r # T)
  BY <1>0, LeastFiniteSet
<1> USE DEF Bad
<1>2. PICK z \in T : Sum(T) # f[z] + Sum(T \ {z})
  OBVIOUS
<1> DEFINE p == First(T)
<1>3. p \in T
  BY FirstIsElement
<1>4. ASSUME NEW U \in SUBSET T PROVE IsFiniteSet(U) /\ Sum(U) \in Nat
  BY FS_Subset, SumType
<1>5. Sum(T) = f[p] + Sum(T \ {p})
  BY <1>2, <1>4, SumFirst
<1>6. p # z
  BY <1>2, <1>5
<1>7. Sum(T \ {p}) = f[z] + Sum((T \ {p}) \ {z})
  <2>1. T \ {p} \notin Bad /\ T \ {p} \in SUBSET S /\ z \in T \ {p}
    BY <1>1, <1>3, <1>6
  <2> HIDE DEF Sum, p
  <2>. QED
    BY <2>1
<1>8. Sum(T \ {z}) = f[p] + Sum((T \ {z}) \ {p})
  <2>1. T \ {z} \notin Bad /\ T \ {z} \in SUBSET S /\ p \in T \ {z}
    BY <1>1, <1>3, <1>6
  <2> HIDE DEF Sum, p
  <2>. QED
    BY <2>1
<1>9. (T \ {p}) \ {z} = (T \ {z}) \ {p}
  OBVIOUS
<1>10. /\ f[p] \in Nat /\ f[z] \in Nat /\ Sum((T \ {z}) \ {p}) \in Nat
  BY <1>3, <1>4
<1> HIDE DEF Sum
<1>. QED
  BY <1>2, <1>5, <1>7, <1>8, <1>9, <1>10

\* The sum depends on the values of the function on the set only.
LEMMA SumAgree ==
  ASSUME NEW f, NEW g, NEW S, IsFiniteSet(S), \A x \in S : f[x] = g[x]
  PROVE  SumFunctionOnSet(f, S) = SumFunctionOnSet(g, S)
<1> DEFINE Bad == {T \in SUBSET S : SumFunctionOnSet(f, T) # SumFunctionOnSet(g, T)}
<1> SUFFICES ASSUME Bad # {} PROVE FALSE
  OBVIOUS
<1>0. Bad \subseteq SUBSET S
  OBVIOUS
<1> HIDE DEF Bad
<1>1. PICK T \in Bad : \A r \in Bad : ~(r \subseteq T /\ r # T)
  BY <1>0, LeastFiniteSet
<1> USE DEF Bad
<1>2. IsFiniteSet(T)
  BY FS_Subset
<1>3. T # {}
  BY SumEmpty
<1>4. First(T) \in T /\ T \ {First(T)} \notin Bad
  BY <1>1, <1>3, FirstIsElement
<1>. QED
  BY <1>2, <1>3, <1>4, SumFirst
\* The sum over two sets that have nothing in common.
LEMMA SumUnion ==
  ASSUME NEW f, NEW S, NEW T, IsFiniteSet(S), IsFiniteSet(T), S \cap T = {},
         \A x \in S \cup T : f[x] \in Nat
  PROVE  SumFunctionOnSet(f, S \cup T) = SumFunctionOnSet(f, S) + SumFunctionOnSet(f, T)
<1> DEFINE Sum(U) == SumFunctionOnSet(f, U)
           Bad == {U \in SUBSET S : Sum(U \cup T) # Sum(U) + Sum(T)}
<1> SUFFICES ASSUME Bad # {} PROVE FALSE
  OBVIOUS
<1>0. Bad \subseteq SUBSET S
  OBVIOUS
<1> HIDE DEF Bad
<1>1. PICK U \in Bad : \A V \in Bad : ~(V \subseteq U /\ V # U)
  BY <1>0, LeastFiniteSet
<1> USE DEF Bad
<1>2. ASSUME NEW V \in SUBSET (S \cup T) PROVE IsFiniteSet(V) /\ Sum(V) \in Nat
  <2>1. IsFiniteSet(V)
    BY FS_Union, FS_Subset
  <2>. QED
    BY <2>1, SumType
<1>3. U # {}
  <2> SUFFICES ASSUME U = {} PROVE FALSE
    OBVIOUS
  <2>1. Sum({}) = 0 /\ {} \cup T = T /\ Sum(T) \in Nat
    BY SumEmpty, <1>2
  <2>2. Sum({} \cup T) # Sum({}) + Sum(T)
    OBVIOUS
  <2> HIDE DEF Sum
  <2>. QED
    BY <2>1, <2>2
<1>4. PICK x \in U : TRUE
  BY <1>3
<1> DEFINE V == U \ {x}
<1>5. Sum(V \cup T) = Sum(V) + Sum(T)
  <2>1. V \in SUBSET S /\ V \subseteq U /\ V # U
    BY <1>4
  <2> HIDE DEF Sum, V
  <2>. QED
    BY <1>1, <2>1
<1>6. Sum(U) = f[x] + Sum(V)
  BY <1>2, SumElement
<1>7. Sum(U \cup T) = f[x] + Sum(V \cup T)
  <2>1. (U \cup T) \ {x} = V \cup T
    OBVIOUS
  <2>2. IsFiniteSet(U \cup T) /\ x \in U \cup T /\ \A y \in U \cup T : f[y] \in Nat
    BY <1>2
  <2>. QED
    BY <2>1, <2>2, SumElement
<1>8. f[x] \in Nat /\ Sum(V) \in Nat /\ Sum(T) \in Nat
  BY <1>2
<1>9. Sum(U \cup T) # Sum(U) + Sum(T)
  OBVIOUS
<1> HIDE DEF Sum, V
<1>. QED
  BY <1>5, <1>6, <1>7, <1>8, <1>9
\* A finite set of numbers that is not empty has a least and a greatest element.
LEMMA FiniteSetBounds ==
  ASSUME NEW S, IsFiniteSet(S), \A y \in S : y \in Int, S # {}
  PROVE  /\ Min(S) \in S /\ \A y \in S : Min(S) <= y
         /\ Max(S) \in S /\ \A y \in S : y <= Max(S)
<1> DEFINE HasMin(T) == \E x \in T : \A y \in T : x <= y
           HasMax(T) == \E x \in T : \A y \in T : x >= y
           Bad == {T \in SUBSET S : T # {} /\ ~(HasMin(T) /\ HasMax(T))}
<1>1. HasMin(S) /\ HasMax(S)
  <2> SUFFICES ASSUME Bad # {} PROVE FALSE
    OBVIOUS
  <2>1. Bad \subseteq SUBSET S
    OBVIOUS
  <2> HIDE DEF Bad
  <2>2. PICK T \in Bad : \A U \in Bad : ~(U \subseteq T /\ U # T)
    BY <2>1, LeastFiniteSet
  <2> USE DEF Bad
  <2>3. PICK x \in T : TRUE
    OBVIOUS
  <2> DEFINE U == T \ {x}
  <2>4. T \subseteq Int /\ x \in Int /\ T = U \cup {x} /\ U \notin Bad
    BY <2>2, <2>3
  <2>5. CASE U = {}
    BY <2>4, <2>5
  <2>6. CASE U # {}
    <3>1. HasMin(U) /\ HasMax(U)
      BY <2>4, <2>6
    <3>2. PICK a \in U : \A y \in U : a <= y
      BY <3>1
    <3>3. PICK b \in U : \A y \in U : b >= y
      BY <3>1
    <3> HIDE DEF U
    <3>4. a \in Int /\ b \in Int
      BY <2>4
    <3>5. HasMin(T)
      BY <2>4, <3>2, <3>4
    <3>6. HasMax(T)
      BY <2>4, <3>3, <3>4
    <3>. QED
      BY <3>5, <3>6
  <2>. QED
    BY <2>5, <2>6
<1>2. Min(S) \in S /\ \A y \in S : Min(S) <= y
  BY <1>1 DEF Min
<1>3. Max(S) \in S /\ \A y \in S : Max(S) >= y
  BY <1>1 DEF Max
<1>. QED
  BY <1>2, <1>3
=============================================================================
