---------------------------- MODULE ReportsProofs ----------------------------
(***************************************************************************)
(* The reports agree, add up and keep to themselves, whatever is checked   *)
(* in: theorems about Reports, for any log of any submissions at finitely  *)
(* many locations.                                                         *)
(*                                                                         *)
(* COUNT and SUM range over sets of rows, and what they add up to is       *)
(* proved by induction: a smallest set of rows for which it fails          *)
(* (SmallestSet) cannot be empty, nor have one row more than one for which *)
(* it holds.                                                               *)
(***************************************************************************)
EXTENDS Reports, FiniteSetTheorems, TLAPS

----------------------------------------------------------------------------
(* Sums of columns. *)

\* An element of S is summed first: which, is for CHOOSE to say.
Pick(S) == CHOOSE x \in S : TRUE

\* g tells the sum of column over each subset of S.
IsSum(g, column, S) ==
    g = [T \in SUBSET S |-> IF T = {} THEN 0 ELSE column[Pick(T)] + g[T \ {Pick(T)}]]

\* The sum of column over the rows S.
Sum(column, S) == FoldFunctionOnSet(+, 0, column, S)

\* The fold of the library, unfolded.
LEMMA SumIsRecursive ==
    ASSUME NEW column, NEW S
    PROVE  Sum(column, S) = (CHOOSE g : IsSum(g, column, S))[S]
BY DEF Sum, FoldFunctionOnSet, MapThenFoldSet, IsSum, Pick

\* A total is the sum over all rows of the column.
LEMMA TotalIsSum == ASSUME NEW column PROVE Total(column) = Sum(column, DOMAIN column)
BY DEF Total, FoldFunction, Sum

\* Pick picks one of them.
LEMMA PickInSet == ASSUME NEW S, S # {} PROVE Pick(S) \in S
BY DEF Pick

\* Induction: of the subsets of a finite set with some property, one has none below it.
LEMMA SmallestSet ==
    ASSUME NEW S, IsFiniteSet(S), NEW Bad \in SUBSET SUBSET S, Bad # {}
    PROVE  \E T \in Bad : \A U \in SUBSET T : U # T => U \notin Bad
<1>1. IsWellFoundedOn(StrictSubsetOrdering(S), SUBSET S)
  BY FS_StrictSubsetOrderingWellFounded, FS_FiniteSubsetsOfFinite
<1>2. PICK T \in Bad : \A U \in Bad : <<U, T>> \notin StrictSubsetOrdering(S)
  BY <1>1, WFMin
<1>3. ASSUME NEW U \in SUBSET T, U # T, U \in Bad PROVE FALSE
  BY <1>2, <1>3 DEF StrictSubsetOrdering
<1> QED
  BY <1>3

\* Two tables of sums agree wherever both are defined.
LEMMA SumsAgree ==
    ASSUME NEW column, NEW S, NEW R, IsFiniteSet(S),
           NEW g, IsSum(g, column, S), NEW h, IsSum(h, column, R)
    PROVE  \A T \in SUBSET (S \cap R) : g[T] = h[T]
<1> DEFINE Bad == {T \in SUBSET (S \cap R) : g[T] # h[T]}
<1> SUFFICES ASSUME Bad # {} PROVE FALSE
  OBVIOUS
<1>1. PICK T \in Bad : \A U \in SUBSET T : U # T => U \notin Bad
  <2>1. Bad \in SUBSET SUBSET S
    OBVIOUS
  <2> HIDE DEF Bad
  <2> QED
    BY <2>1, SmallestSet
<1>2. g[T] = IF T = {} THEN 0 ELSE column[Pick(T)] + g[T \ {Pick(T)}]
  BY DEF IsSum
<1>3. h[T] = IF T = {} THEN 0 ELSE column[Pick(T)] + h[T \ {Pick(T)}]
  BY DEF IsSum
<1>4. T # {}
  BY <1>2, <1>3 
<1>5. g[T \ {Pick(T)}] = h[T \ {Pick(T)}]
  BY <1>1, <1>4, PickInSet
<1> QED
  BY <1>2, <1>3, <1>5

\* Each finite set has a table of its sums.
LEMMA SumDefined ==
    ASSUME NEW column, NEW S, IsFiniteSet(S)
    PROVE  \E g : IsSum(g, column, S)
<1> DEFINE Bad == {T \in SUBSET S : ~ \E g : IsSum(g, column, T)}
<1> SUFFICES ASSUME Bad # {} PROVE FALSE
  OBVIOUS
<1>1. PICK T \in Bad : \A U \in SUBSET T : U # T => U \notin Bad
  <2>1. Bad \in SUBSET SUBSET S
    OBVIOUS
  <2> HIDE DEF Bad
  <2> QED
    BY <2>1, SmallestSet
<1> DEFINE s(U) == (CHOOSE g : IsSum(g, column, U))[U]
           g == [U \in SUBSET T |-> IF U = {} THEN 0 ELSE column[Pick(U)] + s(U \ {Pick(U)})]
<1>2. ASSUME NEW U \in SUBSET T, U # T PROVE s(U) = g[U]
  <2>1. PICK k : k = CHOOSE h : IsSum(h, column, U)
    OBVIOUS
  <2>2. IsSum(k, column, U)
    <3>1. U \in SUBSET S /\ U \notin Bad
      BY <1>1, <1>2
    <3>2. \E h : IsSum(h, column, U)
      BY <3>1
    <3> QED
      BY <2>1, <3>2
  <2>3. k[U] = IF U = {} THEN 0 ELSE column[Pick(U)] + k[U \ {Pick(U)}]
    BY <2>2 DEF IsSum
  <2>4. CASE U = {}
    BY <2>1, <2>3, <2>4
  <2>5. CASE U # {}
    <3> DEFINE V == U \ {Pick(U)}
    <3>1. V \in SUBSET U /\ V # U /\ V \in SUBSET T /\ V # T /\ V \in SUBSET S
      BY <2>5, <1>2, PickInSet
    <3>2. PICK j : j = CHOOSE h : IsSum(h, column, V)
      OBVIOUS
    <3>3. IsSum(j, column, V)
      <4>1. \E h : IsSum(h, column, V)
        BY <1>1, <3>1
      <4> QED
        BY <3>2, <4>1
    <3>4. IsFiniteSet(V)
      BY <3>1, FS_Subset
    <3>5. k[V] = j[V]
      <4> HIDE DEF V
      <4>1. \A W \in SUBSET (V \cap U) : j[W] = k[W]
        BY <2>2, <3>3, <3>4, SumsAgree
      <4> QED
        BY <4>1, <3>1
    <3>6. k[U] = column[Pick(U)] + s(V)
      BY <2>3, <2>5, <3>2, <3>5
    <3> QED
      BY <2>1, <2>5, <3>6, <1>2
  <2> QED
    BY <2>4, <2>5
<1>3. ASSUME NEW U \in SUBSET T, U # {} PROVE s(U \ {Pick(U)}) = g[U \ {Pick(U)}]
  <2> DEFINE V == U \ {Pick(U)}
  <2>1. V \in SUBSET T /\ V # T
    BY <1>3, PickInSet
  <2> HIDE DEF V, s, g
  <2>2. s(V) = g[V]
    BY <1>2, <2>1
  <2> QED
    BY <2>2 DEF V
<1>4. IsSum(g, column, T)
  <2> DEFINE f == [U \in SUBSET T |-> IF U = {} THEN 0 ELSE column[Pick(U)] + g[U \ {Pick(U)}]]
  <2>1. \A U \in SUBSET T : g[U] = f[U]
    <3> TAKE U \in SUBSET T
    <3>1. CASE U = {}
      BY <3>1
    <3>2. CASE U # {}
      <4>1. s(U \ {Pick(U)}) = g[U \ {Pick(U)}]
        BY <1>3, <3>2
      <4>2. g[U] = column[Pick(U)] + s(U \ {Pick(U)})
        BY <3>2
      <4>3. f[U] = column[Pick(U)] + g[U \ {Pick(U)}]
        BY <3>2
      <4> HIDE DEF s, g, f
      <4> QED
        BY <4>1, <4>2, <4>3
    <3> QED
      BY <3>1, <3>2
  <2>2. g = f
    <3>1. DOMAIN g = SUBSET T /\ DOMAIN f = SUBSET T
      OBVIOUS
    <3>2. g = [U \in SUBSET T |-> g[U]] /\ f = [U \in SUBSET T |-> f[U]]
      OBVIOUS
    <3> HIDE DEF s, g, f
    <3> QED
      BY <2>1, <3>2
  <2> HIDE DEF s, g
  <2> QED
    BY <2>2 DEF IsSum
<1> QED
  BY <1>4

\* Nothing adds up to 0.
LEMMA SumEmpty == ASSUME NEW column PROVE Sum(column, {}) = 0
<1>1. PICK g : g = CHOOSE h : IsSum(h, column, {})
  OBVIOUS
<1>2. IsSum(g, column, {})
  BY <1>1, SumDefined, FS_EmptySet
<1> QED
  BY <1>1, <1>2, SumIsRecursive DEF IsSum

\* The recursion of the fold: the element picked, and the sum of the rest.
LEMMA SumPicks ==
    ASSUME NEW column, NEW S, IsFiniteSet(S), S # {}
    PROVE  Sum(column, S) = column[Pick(S)] + Sum(column, S \ {Pick(S)})
<1>1. PICK T : T = S \ {Pick(S)}
  OBVIOUS
<1>2. T \in SUBSET S /\ IsFiniteSet(T)
  BY <1>1, FS_Subset
<1>3. PICK g : g = CHOOSE k : IsSum(k, column, S)
  OBVIOUS
<1>4. PICK h : h = CHOOSE k : IsSum(k, column, T)
  OBVIOUS
<1>5. IsSum(g, column, S) /\ IsSum(h, column, T)
  BY <1>2, <1>3, <1>4, SumDefined
<1>6. g[T] = h[T]
  <2>1. \A U \in SUBSET (S \cap T) : g[U] = h[U]
    BY <1>5, SumsAgree
  <2> QED
    BY <2>1, <1>2
<1>7. g[S] = column[Pick(S)] + g[T]
  BY <1>1, <1>5 DEF IsSum
<1>8. Sum(column, S) = g[S] /\ Sum(column, T) = h[T]
  BY <1>3, <1>4, SumIsRecursive
<1> QED
  BY <1>1, <1>6, <1>7, <1>8

\* The entries of column in the rows S are natural numbers.
Numbers(column, S) == \A x \in S : column[x] \in Nat

\* Numbers add up to a number.
LEMMA SumType ==
    ASSUME NEW column, NEW S, IsFiniteSet(S), Numbers(column, S)
    PROVE  Sum(column, S) \in Nat
<1> DEFINE Bad == {T \in SUBSET S : Sum(column, T) \notin Nat}
<1> SUFFICES ASSUME Bad # {} PROVE FALSE
  BY DEF Bad
<1>1. PICK T \in Bad : \A U \in SUBSET T : U # T => U \notin Bad
  <2>1. Bad \in SUBSET SUBSET S
    OBVIOUS
  <2> HIDE DEF Bad
  <2> QED
    BY <2>1, SmallestSet
<1>2. T \in SUBSET S /\ IsFiniteSet(T) /\ T # {}
  <2>1. Sum(column, {}) \in Nat
    BY SumEmpty
  <2> QED
    BY <2>1, FS_Subset
<1>3. Pick(T) \in T
  BY <1>2, PickInSet
<1>4. Sum(column, T \ {Pick(T)}) \in Nat
  BY <1>1, <1>2, <1>3
<1>5. column[Pick(T)] \in Nat
  BY <1>3 DEF Numbers
<1>6. Sum(column, T) = column[Pick(T)] + Sum(column, T \ {Pick(T)})
  BY <1>2, SumPicks
<1> QED
  BY <1>4, <1>5, <1>6

\* Any element may be taken first.
LEMMA SumRemove ==
    ASSUME NEW column, NEW S, IsFiniteSet(S), Numbers(column, S)
    PROVE  \A x \in S : Sum(column, S) = column[x] + Sum(column, S \ {x})
<1> DEFINE Bad == {T \in SUBSET S :
                       \E x \in T : Sum(column, T) # column[x] + Sum(column, T \ {x})}
<1> SUFFICES ASSUME Bad # {} PROVE FALSE
  OBVIOUS
<1>1. PICK T \in Bad : \A U \in SUBSET T : U # T => U \notin Bad
  <2>1. Bad \in SUBSET SUBSET S
    OBVIOUS
  <2> HIDE DEF Bad
  <2> QED
    BY <2>1, SmallestSet
<1>2. T \in SUBSET S /\ IsFiniteSet(T)
  BY FS_Subset
<1>3. PICK x \in T : Sum(column, T) # column[x] + Sum(column, T \ {x})
  OBVIOUS
<1>4. PICK y : y = Pick(T)
  OBVIOUS
<1>5. y \in T /\ Sum(column, T) = column[y] + Sum(column, T \ {y})
  BY <1>2, <1>3, <1>4, PickInSet, SumPicks
<1>6. y # x
  BY <1>3, <1>5
<1>7. PICK U, V, W : U = T \ {x} /\ V = T \ {y} /\ W = T \ {x, y}
  OBVIOUS
<1>8. /\ U \in SUBSET T /\ U # T /\ y \in U /\ W = U \ {y}
      /\ V \in SUBSET T /\ V # T /\ x \in V /\ W = V \ {x}
      /\ U \in SUBSET S /\ V \in SUBSET S /\ W \in SUBSET S
  BY <1>2, <1>5, <1>6, <1>7
<1>9. /\ \A z \in U : Sum(column, U) = column[z] + Sum(column, U \ {z})
      /\ \A z \in V : Sum(column, V) = column[z] + Sum(column, V \ {z})
  BY <1>1, <1>8
<1>10. Sum(column, U) = column[y] + Sum(column, W) /\ Sum(column, V) = column[x] + Sum(column, W)
  BY <1>8, <1>9
<1>11. Sum(column, W) \in Nat /\ column[x] \in Nat /\ column[y] \in Nat
  <2>1. IsFiniteSet(W) /\ Numbers(column, W)
    BY <1>8, FS_Subset DEF Numbers
  <2> QED
    BY <2>1, <1>2, <1>3, <1>5, SumType DEF Numbers
<1>12. Sum(column, T) = column[y] + (column[x] + Sum(column, W))
  BY <1>5, <1>7, <1>10
<1>13. column[x] + Sum(column, T \ {x}) = column[x] + (column[y] + Sum(column, W))
  BY <1>7, <1>10
<1> QED
  BY <1>3, <1>11, <1>12, <1>13

\* Columns with the same entries in S have the same sum over S.
LEMMA SumSame ==
    ASSUME NEW column, NEW other, NEW S, IsFiniteSet(S), \A x \in S : column[x] = other[x]
    PROVE  Sum(column, S) = Sum(other, S)
<1> DEFINE Bad == {T \in SUBSET S : Sum(column, T) # Sum(other, T)}
<1> SUFFICES ASSUME Bad # {} PROVE FALSE
  BY DEF Bad
<1>1. PICK T \in Bad : \A U \in SUBSET T : U # T => U \notin Bad
  <2>1. Bad \in SUBSET SUBSET S
    OBVIOUS
  <2> HIDE DEF Bad
  <2> QED
    BY <2>1, SmallestSet
<1>2. T # {} /\ IsFiniteSet(T) /\ T \in SUBSET S
  BY SumEmpty, FS_Subset
<1>3. PICK y : y = Pick(T)
  OBVIOUS
<1>4. /\ y \in T /\ Sum(column, T) = column[y] + Sum(column, T \ {y})
      /\ Sum(other, T) = other[y] + Sum(other, T \ {y})
  BY <1>2, <1>3, PickInSet, SumPicks
<1>5. Sum(column, T \ {y}) = Sum(other, T \ {y})
  BY <1>1, <1>2, <1>4
<1> QED
  BY <1>2, <1>4, <1>5

\* The sums over two disjoint sets of rows are together the sum over both.
LEMMA SumUnion ==
    ASSUME NEW column, NEW S, NEW R, IsFiniteSet(S), IsFiniteSet(R), S \cap R = {},
           Numbers(column, S \cup R)
    PROVE  Sum(column, S \cup R) = Sum(column, S) + Sum(column, R)
<1> DEFINE Bad == {T \in SUBSET S : Sum(column, T \cup R) # Sum(column, T) + Sum(column, R)}
<1> SUFFICES ASSUME Bad # {} PROVE FALSE
  BY DEF Bad
<1>1. PICK T \in Bad : \A U \in SUBSET T : U # T => U \notin Bad
  <2>1. Bad \in SUBSET SUBSET S
    OBVIOUS
  <2> HIDE DEF Bad
  <2> QED
    BY <2>1, SmallestSet
<1>2. T \in SUBSET S /\ IsFiniteSet(T) /\ IsFiniteSet(T \cup R)
  BY FS_Subset, FS_Union
<1>3. Numbers(column, T) /\ Numbers(column, T \cup R) /\ Numbers(column, R)
  BY <1>2 DEF Numbers
<1>4. T # {}
  <2>1. Sum(column, R) \in Nat
    BY <1>3, SumType
  <2>2. CASE T = {}
    <3>1. T \cup R = R
      BY <2>2
    <3>2. Sum(column, T \cup R) = Sum(column, R) /\ Sum(column, T) = 0
      BY <2>2, <3>1, SumEmpty
    <3> QED
      BY <2>1, <3>2
  <2> QED
    BY <2>2
<1>5. PICK y : y \in T
  BY <1>4
<1>6. PICK U : U = T \ {y}
  OBVIOUS
<1>7. U \in SUBSET T /\ U # T /\ (T \cup R) \ {y} = U \cup R /\ U \in SUBSET S
  BY <1>2, <1>5, <1>6
<1>8. Sum(column, U \cup R) = Sum(column, U) + Sum(column, R)
  BY <1>1, <1>7
<1>9. /\ Sum(column, T) = column[y] + Sum(column, U)
      /\ Sum(column, T \cup R) = column[y] + Sum(column, U \cup R)
  BY <1>2, <1>3, <1>5, <1>6, <1>7, SumRemove
<1>10. column[y] \in Nat /\ Sum(column, U) \in Nat /\ Sum(column, R) \in Nat
  <2>1. IsFiniteSet(U) /\ Numbers(column, U)
    BY <1>3, <1>7, <1>2, FS_Subset DEF Numbers
  <2> QED
    BY <2>1, <1>3, <1>5, SumType DEF Numbers
<1> QED
  BY <1>8, <1>9, <1>10

\* The rows of S whose entry in the column key is one of V.
Among(S, key, V) == {i \in S : key[i] \in V}

\* Rows are counted by the value of a column: the counts of all values add up.
LEMMA SumCounts ==
    ASSUME NEW S, IsFiniteSet(S), NEW Value, IsFiniteSet(Value),
           NEW key, NEW count,
           \A v \in Value : count[v] = Cardinality(Among(S, key, {v}))
    PROVE  Sum(count, Value) = Cardinality(Among(S, key, Value))
<1> DEFINE Bad == {V \in SUBSET Value : Sum(count, V) # Cardinality(Among(S, key, V))}
<1> SUFFICES ASSUME Bad # {} PROVE FALSE
  BY DEF Bad
<1>1. PICK V \in Bad : \A U \in SUBSET V : U # V => U \notin Bad
  <2>1. Bad \in SUBSET SUBSET Value
    OBVIOUS
  <2> HIDE DEF Bad
  <2> QED
    BY <2>1, SmallestSet
<1>2. V \in SUBSET Value /\ IsFiniteSet(V)
  BY FS_Subset
<1>3. \A U : IsFiniteSet(Among(S, key, U)) /\ Cardinality(Among(S, key, U)) \in Nat
  <2>1. \A U : Among(S, key, U) \in SUBSET S
    BY DEF Among
  <2> QED
    BY <2>1, FS_Subset, FS_CardinalityType
<1>4. Numbers(count, V)
  BY <1>2, <1>3 DEF Numbers
<1>5. V # {}
  <2>1. CASE V = {}
    <3>1. Among(S, key, V) = {}
      BY <2>1 DEF Among
    <3>2. Sum(count, V) = 0
      BY <2>1, SumEmpty
    <3> QED
      BY <3>1, <3>2, FS_EmptySet
  <2> QED
    BY <2>1
<1>6. PICK v : v \in V
  BY <1>5
<1>7. PICK U : U = V \ {v}
  OBVIOUS
<1>8. U \in SUBSET V /\ U # V /\ U \in SUBSET Value
  BY <1>2, <1>6, <1>7
<1>9. Sum(count, U) = Cardinality(Among(S, key, U))
  BY <1>1, <1>8
<1>10. Sum(count, V) = Cardinality(Among(S, key, {v})) + Sum(count, U)
  BY <1>2, <1>4, <1>6, <1>7, SumRemove
<1>11. PICK A, B : A = Among(S, key, U) /\ B = Among(S, key, {v})
  OBVIOUS
<1>12. A \cup B = Among(S, key, V) /\ A \cap B = {}
  BY <1>6, <1>7, <1>11 DEF Among
<1>13. /\ IsFiniteSet(A) /\ Cardinality(A) \in Nat /\ IsFiniteSet(B) /\ Cardinality(B) \in Nat
       /\ Cardinality(A \cap B) = 0
  BY <1>3, <1>11, <1>12, FS_EmptySet
<1>14. Cardinality(A \cup B) = Cardinality(B) + Cardinality(A)
  <2>1. Cardinality(A \cup B) = Cardinality(A) + Cardinality(B) - Cardinality(A \cap B)
    BY <1>13, FS_Union
  <2> QED
    BY <2>1, <1>13
<1>15. Sum(count, V) = Cardinality(B) + Cardinality(A)
  BY <1>9, <1>10, <1>11
<1> QED
  BY <1>12, <1>14, <1>15

----------------------------------------------------------------------------
(* Rounding, and the least and the greatest of a set. *)

\* What division leaves.
LEMMA DivisionRounds ==
    ASSUME NEW a \in Nat, NEW d \in Nat \ {0}
    PROVE  LET q == a \div d IN q \in Nat /\ d * q <= a /\ a < d * (q + 1)
OBVIOUS
\* A rounded quotient is within a half of the quotient.
LEMMA RoundedBounds ==
    ASSUME NEW a \in Nat, NEW n \in Nat \ {0}
    PROVE  /\ Rounded(a, n) \in Nat
           /\ 2 * (n * Rounded(a, n)) <= 2 * a + n
           /\ 2 * a + n < 2 * (n * Rounded(a, n)) + 2 * n
<1>1. 2 * a + n \in Nat /\ 2 * n \in Nat \ {0}
  OBVIOUS
<1>2. PICK q : q = Rounded(a, n)
  OBVIOUS
<1>3. q \in Nat /\ (2 * n) * q <= 2 * a + n /\ 2 * a + n < (2 * n) * (q + 1)
  BY <1>1, <1>2, DivisionRounds DEF Rounded
<1>4. (2 * n) * q = 2 * (n * q) /\ (2 * n) * (q + 1) = 2 * (n * q) + 2 * n
  BY <1>3
<1> QED
  BY <1>2, <1>3, <1>4

\* Rounding keeps the order of two quotients.
LEMMA RoundedMonotone ==
    ASSUME NEW a \in Nat, NEW n \in Nat \ {0}, NEW b \in Nat, NEW m \in Nat \ {0},
           a * m <= b * n
    PROVE  Rounded(a, n) <= Rounded(b, m)
<1>1. PICK q, r : q = Rounded(a, n) /\ r = Rounded(b, m)
  OBVIOUS
<1>2. /\ q \in Nat /\ 2 * (n * q) <= 2 * a + n
      /\ r \in Nat /\ 2 * b + m < 2 * (m * r) + 2 * m
  BY <1>1, RoundedBounds
<1> SUFFICES ASSUME q >= r + 1 PROVE FALSE
  BY <1>1, <1>2
<1>3. /\ m * (2 * (n * q)) <= m * (2 * a + n) 
      /\ n * (2 * b + m) < n * (2 * (m * r) + 2 * m)
  BY <1>2
<1>4. n * q >= n * r + n
  BY <1>2
<1>5. m * (n * q) >= m * (n * r + n)
  BY <1>2, <1>4
<1>6. n * (m * r) = m * (n * r) /\ n * m = m * n
  BY <1>2
<1>7. /\ m * (2 * (n * q)) = 2 * (m * (n * q)) /\ m * (2 * a + n) = 2 * (a * m) + m * n
      /\ n * (2 * b + m) = 2 * (b * n) + n * m
      /\ n * (2 * (m * r) + 2 * m) = 2 * (n * (m * r)) + 2 * (n * m)
      /\ m * (n * r + n) = m * (n * r) + m * n
  BY <1>2
<1>8. PICK x, y, z, u, v \in Int :
          /\ x = m * (n * q) /\ y = m * (n * r) /\ z = m * n /\ u = a * m /\ v = b * n
  BY <1>2
<1>9. 2 * x <= 2 * u + z /\ 2 * v + z < 2 * y + 2 * z /\ x >= y + z /\ u <= v
  BY <1>3, <1>5, <1>6, <1>7, <1>8
<1> QED
  BY <1>9

\* A finite set of numbers has a least and a greatest.
LEMMA Extremes ==
    ASSUME NEW S \in SUBSET Int, IsFiniteSet(S), S # {}
    PROVE  /\ \E x \in S : \A y \in S : x <= y
           /\ \E x \in S : \A y \in S : x >= y
<1> DEFINE Bad == {T \in SUBSET S : T # {} /\ ~ (/\ \E x \in T : \A y \in T : x <= y
                                                 /\ \E x \in T : \A y \in T : x >= y)}
<1> SUFFICES ASSUME Bad # {} PROVE FALSE
  OBVIOUS
<1>1. PICK T \in Bad : \A U \in SUBSET T : U # T => U \notin Bad
  <2>1. Bad \in SUBSET SUBSET S
    OBVIOUS
  <2> HIDE DEF Bad
  <2> QED
    BY <2>1, SmallestSet
<1>2. PICK z : z \in T
  OBVIOUS
<1>3. PICK U : U = T \ {z}
  OBVIOUS
<1>4. U \in SUBSET T /\ U # T /\ U \in SUBSET S /\ T \in SUBSET Int /\ z \in Int
  BY <1>2, <1>3
<1>5. CASE U = {}
  BY <1>2, <1>3, <1>4, <1>5
<1>6. CASE U # {}
  <2>1. PICK x, w \in U : \A y \in U : x <= y /\ w >= y
    BY <1>1, <1>4, <1>6
  <2>2. \A y \in T : y = z \/ y \in U
    BY <1>3
  <2>3. /\ \A y \in T : (IF x <= z THEN x ELSE z) <= y
        /\ \A y \in T : (IF w >= z THEN w ELSE z) >= y
    BY <2>1, <2>2, <1>4
  <2> QED
    BY <2>1, <2>3, <1>2, <1>4
<1> QED
  BY <1>5, <1>6

\* Min is the least.
LEMMA MinLeast ==
    ASSUME NEW S \in SUBSET Int, IsFiniteSet(S), S # {}
    PROVE  Min(S) \in S /\ \A y \in S : Min(S) <= y
BY Extremes DEF Min

\* Max is the greatest.
LEMMA MaxGreatest ==
    ASSUME NEW S \in SUBSET Int, IsFiniteSet(S), S # {}
    PROVE  Max(S) \in S /\ \A y \in S : Max(S) >= y
BY Extremes DEF Max

\* The least of the least is the least.
LEMMA MinOfMins ==
    ASSUME NEW S \in SUBSET Int, IsFiniteSet(S), NEW M \in SUBSET S, M # {},
           \A y \in S : \E x \in M : x <= y
    PROVE  Min(M) = Min(S)
<1>1. IsFiniteSet(M) /\ M \in SUBSET Int /\ S # {}
  BY FS_Subset
<1>2. Min(M) \in M /\ \A y \in M : Min(M) <= y
  BY <1>1, MinLeast
<1>3. Min(S) \in S /\ \A y \in S : Min(S) <= y
  BY <1>1, MinLeast
<1>4. PICK x \in M : x <= Min(S)
  BY <1>3
<1>5. Min(M) <= x /\ Min(S) <= Min(M) /\ x \in Int /\ Min(M) \in Int /\ Min(S) \in Int
  BY <1>1, <1>2, <1>3
<1> QED
  BY <1>4, <1>5

\* The greatest of the greatest is the greatest.
LEMMA MaxOfMaxes ==
    ASSUME NEW S \in SUBSET Int, IsFiniteSet(S), NEW M \in SUBSET S, M # {},
           \A y \in S : \E x \in M : x >= y
    PROVE  Max(M) = Max(S)
<1>1. IsFiniteSet(M) /\ M \in SUBSET Int /\ S # {}
  BY FS_Subset
<1>2. Max(M) \in M /\ \A y \in M : Max(M) >= y
  BY <1>1, MaxGreatest
<1>3. Max(S) \in S /\ \A y \in S : Max(S) >= y
  BY <1>1, MaxGreatest
<1>4. PICK x \in M : x >= Max(S)
  BY <1>3
<1>5. Max(M) >= x /\ Max(S) >= Max(M) /\ x \in Int /\ Max(M) \in Int /\ Max(S) \in Int
  BY <1>1, <1>2, <1>3
<1> QED
  BY <1>4, <1>5

\* The lesser of two.
LEMMA MinOfTwo ==
    ASSUME NEW m \in Int, NEW n \in Int
    PROVE  /\ Min({m, n}) \in Int /\ Min({m, n}) <= m /\ Min({m, n}) <= n
           /\ m <= n => Min({m, n}) = m
<1>1. {m, n} = {m} \cup {n}
  OBVIOUS
<1>2. IsFiniteSet({m, n}) /\ {m, n} \in SUBSET Int /\ {m, n} # {}
  <2>1. IsFiniteSet({m})
    BY FS_Singleton
  <2>2. IsFiniteSet({m} \cup {n})
    BY <2>1, FS_AddElement
  <2> QED
    BY <1>1, <2>2
<1>3. Min({m, n}) \in {m, n} /\ \A y \in {m, n} : Min({m, n}) <= y
  BY <1>2, MinLeast
<1> QED
  BY <1>3

\* The entries of a column in finitely many rows are finitely many.
LEMMA EntriesFinite ==
    ASSUME NEW S, IsFiniteSet(S), NEW column
    PROVE  IsFiniteSet({column[i] : i \in S})
<1>1. PICK f, T : f = [i \in S |-> column[i]] /\ T = {column[i] : i \in S}
  OBVIOUS
<1>2. f \in Surjection(S, T)
  BY <1>1 DEF Surjection
<1> QED
  BY <1>1, <1>2, FS_Surjection


----------------------------------------------------------------------------
(* The rows. *)

\* The log holds submissions, and those scored are stored.
LogInv == /\ stored \in [Id -> Submission \cup {None}]
          /\ scored \subseteq Rows

\* What a row holds.
LEMMA RowFacts ==
    ASSUME LogInv, NEW i \in Rows
    PROVE  /\ i \in Id /\ stored[i] \in Submission
           /\ stored[i].user \in User /\ stored[i].loc \in Location
           /\ stored[i].time \in Nat /\ stored[i].score \in Nat /\ stored[i].bucket \in Bucket
           /\ stored[i].download # None => stored[i].download \in Nat
           /\ stored[i].decibels # None => stored[i].decibels \in Nat
           /\ stored[i].crowdedness \in 1..3 /\ stored[i].work \in {"solo", "team", "both"}
<1>1. i \in Id /\ stored[i] \in Submission
  BY DEF LogInv, Rows
<1> QED
  BY <1>1, SubmissionAssumption

\* Rows can be counted.
LEMMA RowsFinite ==
    ASSUME NEW S \in SUBSET Rows
    PROVE  /\ IsFiniteSet(S) /\ Cardinality(S) \in Nat
           /\ Cardinality(S) = 0 <=> S = {}
           /\ S # {} => Cardinality(S) \in Nat \ {0}
<1>1. IsFiniteSet(S)
  BY FiniteAssumption, FS_Subset DEF Rows
<1> QED
  BY <1>1, FS_CardinalityType, FS_EmptySet

\* Those of A with v in some column are no more than those of B.
LEMMA CountsNest ==
    ASSUME NEW S \in SUBSET Rows, NEW T \in SUBSET S
    PROVE  Cardinality(T) <= Cardinality(S)
BY RowsFinite, FS_Subset

\* An average is NULL over no rows, and a rounded quotient over some.
LEMMA AverageFacts ==
    ASSUME NEW column, IsFiniteSet(DOMAIN column), Numbers(column, DOMAIN column)
    PROVE  /\ Average(column) = None <=> DOMAIN column = {}
           /\ DOMAIN column # {} =>
                  Average(column) = Rounded(Sum(column, DOMAIN column), Cardinality(DOMAIN column))
<1>1. CASE DOMAIN column = {}
  BY <1>1 DEF Average
<1>2. CASE DOMAIN column # {}
  <2>1. Average(column) = Rounded(Sum(column, DOMAIN column), Cardinality(DOMAIN column))
    BY <1>2, TotalIsSum DEF Average
  <2>2. Sum(column, DOMAIN column) \in Nat /\ Cardinality(DOMAIN column) \in Nat \ {0}
    BY <1>2, SumType, FS_CardinalityType, FS_EmptySet
  <2>3. Average(column) \in Nat
    BY <2>1, <2>2, RoundedBounds
  <2> QED
    BY <1>2, <2>1, <2>3, NoneAssumption
<1> QED
  BY <1>1, <1>2

\* The column work_score.
Score == [i \in Rows |-> stored[i].score]

\* So is the score: of the scored rows.
LEMMA AverageScoreFacts ==
    ASSUME LogInv, NEW S \in SUBSET Rows
    PROVE  /\ AverageScore(S) = None <=> S \cap scored = {}
           /\ S \cap scored # {} =>
                  AverageScore(S) = Rounded(Sum(Score, S \cap scored), Cardinality(S \cap scored))
<1>1. PICK column : column = [i \in S \cap scored |-> stored[i].score]
  OBVIOUS
<1>2. DOMAIN column = S \cap scored /\ \A i \in S \cap scored : column[i] = stored[i].score
  BY <1>1
<1>3. IsFiniteSet(S \cap scored)
  BY RowsFinite
<1>4. Numbers(column, DOMAIN column)
  BY <1>2, RowFacts DEF Numbers
<1>5. Sum(column, S \cap scored) = Sum(Score, S \cap scored)
  <2>1. \A i \in S \cap scored : column[i] = Score[i]
    BY <1>2 DEF Score
  <2> QED
    BY <2>1, <1>3, SumSame
<1>6. AverageScore(S) = Average(column)
  BY <1>1 DEF AverageScore
<1> QED
  BY <1>2, <1>3, <1>4, <1>5, <1>6, AverageFacts

\* ROUND(100.0 * a / n, 1), in tenths.
Tenths(a, n) == Rounded(1000 * a, n)

\* A percentage in tenths is within a half of the exact one.
LEMMA TenthsBounds ==
    ASSUME NEW a \in Nat, NEW n \in Nat \ {0}
    PROVE  /\ Tenths(a, n) \in Nat
           /\ 2 * (n * Tenths(a, n)) <= 2 * (1000 * a) + n
           /\ 2 * (1000 * a) + n < 2 * (n * Tenths(a, n)) + 2 * n
<1>1. PICK m : m = 1000 * a
  OBVIOUS
<1>2. m \in Nat
  BY <1>1
<1>3. /\ Rounded(m, n) \in Nat
      /\ 2 * (n * Rounded(m, n)) <= 2 * m + n
      /\ 2 * m + n < 2 * (n * Rounded(m, n)) + 2 * n
  BY <1>2, RoundedBounds
<1>4. Tenths(a, n) = Rounded(m, n)
  BY <1>1 DEF Tenths
<1> QED
  BY <1>1, <1>3, <1>4

\* A percentage is a number.
LEMMA TenthsType ==
    ASSUME NEW a \in Nat, NEW n \in Nat \ {0}
    PROVE  Tenths(a, n) \in Nat
BY TenthsBounds

\* A share is NULL of no rows, and a percentage of some.
LEMMA ShareFacts ==
    ASSUME NEW S \in SUBSET Rows, NEW part \in SUBSET S
    PROVE  /\ Share(part, S, 10) = None <=> S = {}
           /\ S # {} => Share(part, S, 10) = Tenths(Cardinality(part), Cardinality(S))
<1>1. CASE S = {}
  BY <1>1 DEF Share
<1>2. CASE S # {}
  <2>1. Share(part, S, 10) = Tenths(Cardinality(part), Cardinality(S))
    BY <1>2 DEF Share, Tenths
  <2>2. PICK a \in Nat, n \in Nat \ {0} : a = Cardinality(part) /\ n = Cardinality(S)
    BY <1>2, RowsFinite
  <2>3. Tenths(a, n) \in Nat
    BY TenthsType
  <2>4. Share(part, S, 10) \in Nat
    BY <2>1, <2>2, <2>3
  <2> QED
    BY <1>2, <2>1, <2>4, NoneAssumption
<1> QED
  BY <1>1, <1>2

\* What is asked of At(l) at l.
LEMMA AtFacts ==
    ASSUME NEW l
    PROVE  /\ At(l) \in SUBSET Rows /\ Recent(l, "today") \in SUBSET At(l)
           /\ \A S : SpeedTests(S) \in SUBSET S /\ NoiseTests(S) \in SUBSET S
           /\ \A S, v : Crowded(S, v) \in SUBSET S /\ WorkType(S, v) \in SUBSET S
BY DEF At, Recent, SpeedTests, NoiseTests, Crowded, WorkType

\* There is a detail just when there are ratings.
LEMMA DetailFacts ==
    ASSUME NEW l \in Location
    PROVE  /\ GetLocationDetail(l).status = "ok" <=> At(l) # {}
           /\ At(l) # {} =>
                  GetLocationDetail(l) =
                      [status |-> "ok",
                       total |-> Cardinality(At(l)), users |-> Cardinality(Users(At(l))),
                       first |-> First(At(l)), last |-> Last(At(l)),
                       decibels |-> AverageDecibels(NoiseTests(At(l))),
                       noiseTests |-> Cardinality(NoiseTests(At(l))),
                       isps |-> isp_speeds(l), ratings |-> ws(l), score |-> score_agg(l)]
<1>1. ws(l).crowdedness[1] = Share(Crowded(At(l), 1), At(l), 10)
  BY DEF ws
<1>2. ws(l).crowdedness[1] = None <=> At(l) = {}
  <2>1. PICK S, T : S = At(l) /\ T = Crowded(At(l), 1)
    OBVIOUS
  <2>2. S \in SUBSET Rows /\ T \in SUBSET S
    BY <2>1, AtFacts
  <2>3. Share(T, S, 10) = None <=> S = {}
    BY <2>2, ShareFacts
  <2> QED
    BY <1>1, <2>1, <2>3
<1>3. CASE At(l) = {}
  <2>1. GetLocationDetail(l) = [status |-> "error"]
    BY <1>2, <1>3, UuidAssumption DEF GetLocationDetail
  <2> QED
    BY <2>1, <1>3
<1>4. CASE At(l) # {}
  <2>1. /\ ~ (l \in Location /\ ws(l).crowdedness[1] = None)
        /\ l \in Uuid /\ l \notin Uuid \ Location
    BY <1>2, <1>4, UuidAssumption
  <2>2. GetLocationDetail(l) =
            [status |-> "ok",
             total |-> Cardinality(At(l)), users |-> Cardinality(Users(At(l))),
             first |-> First(At(l)), last |-> Last(At(l)),
             decibels |-> AverageDecibels(NoiseTests(At(l))),
             noiseTests |-> Cardinality(NoiseTests(At(l))),
             isps |-> isp_speeds(l), ratings |-> ws(l), score |-> score_agg(l)]
    BY <2>1 DEF GetLocationDetail
  <2> QED
    BY <2>2, <1>4
<1> QED
  BY <1>3, <1>4

----------------------------------------------------------------------------
(* Percentages. *)

\* Rounded shares of all are all, within a unit; of a part they are no more than that.
\* Of n rows, a, b and c are of each of three kinds.
Parts(n, a, b, c) == n = a + b + c

\* Three percentages of a whole are 100 within a tenth: each is off by half a tenth at most, and
\* their sum is a whole number of tenths.
LEMMA TenthsAddUp ==
    ASSUME NEW n \in Nat \ {0}, NEW a \in Nat, NEW b \in Nat, NEW c \in Nat, Parts(n, a, b, c)
    PROVE  /\ Tenths(a, n) + Tenths(b, n) + Tenths(c, n) \in 999..1001
           /\ Tenths(a, n) + Tenths(b, n) \in 0..1001
           /\ c = 0 => Tenths(a, n) + Tenths(b, n) \in 999..1001
<1>1. PICK p, q, r \in Nat : p = Tenths(a, n) /\ q = Tenths(b, n) /\ r = Tenths(c, n)
  <2>1. Tenths(a, n) \in Nat /\ Tenths(b, n) \in Nat /\ Tenths(c, n) \in Nat
    BY TenthsType
  <2> QED
    BY <2>1
<1>2. /\ 2 * (n * p) <= 2 * (1000 * a) + n /\ 2 * (1000 * a) + n < 2 * (n * p) + 2 * n
      /\ 2 * (n * q) <= 2 * (1000 * b) + n /\ 2 * (1000 * b) + n < 2 * (n * q) + 2 * n
      /\ 2 * (n * r) <= 2 * (1000 * c) + n /\ 2 * (1000 * c) + n < 2 * (n * r) + 2 * n
  BY <1>1, TenthsBounds
<1>3. PICK x, y, z \in Int : x = n * p /\ y = n * q /\ z = n * r
  BY <1>2
<1>4. n * (p + q) = x + y /\ n * ((p + q) + r) = (x + y) + z
  BY <1>2, <1>3
<1>5. /\ 2 * (x + y) <= 2000 * (a + b) + 2 * n
      /\ 2000 * (a + b) + 2 * n < 2 * (x + y) + 4 * n
      /\ 2 * (x + y + z) <= 2003 * n /\ 2003 * n < 2 * (x + y + z) + 6 * n
  BY <1>2, <1>3 DEF Parts
<1>6. \A k \in Nat : k >= 1002 => n * k >= 1002 * n
  OBVIOUS
<1>7. \A k \in Nat : k <= 998 => n * k <= 998 * n
  OBVIOUS
<1>8. p + q <= 1001
  BY <1>2, <1>4, <1>5, <1>6
<1>9. p + q + r <= 1001 /\ p + q + r >= 999
  <2>1. p + q + r \in Nat /\ n * (p + q + r) = x + y + z
    BY <1>2, <1>3, <1>4
  <2> QED
    BY <2>1, <1>2, <1>3, <1>5, <1>6, <1>7
<1>10. c = 0 => p + q >= 999
  <2>1. p + q \in Nat /\ n * (p + q) = x + y
    BY <1>2, <1>4
  <2>2. c = 0 => 2002 * n < 2 * (x + y) + 4 * n
    BY <1>5 DEF Parts
  <2> QED
    BY <2>1, <2>2, <1>3, <1>7
<1>11. /\ p + q + r \in 999..1001 /\ p + q \in 0..1001
       /\ c = 0 => p + q \in 999..1001
  BY <1>8, <1>9, <1>10
<1> QED
  BY <1>1, <1>11

\* Every row of S is in one of A, B and C.
Sorted(S, A, B, C) == S = A \cup B \cup C /\ A \cap B = {} /\ A \cap C = {} /\ B \cap C = {}

\* The counts of three parts add up.
LEMMA ThreeParts ==
    ASSUME NEW S \in SUBSET Rows, NEW A, NEW B, NEW C, Sorted(S, A, B, C)
    PROVE  /\ Cardinality(A) \in Nat /\ Cardinality(B) \in Nat /\ Cardinality(C) \in Nat
           /\ Cardinality(A) + Cardinality(B) + Cardinality(C) = Cardinality(S)
<1>1. /\ A \in SUBSET Rows /\ B \in SUBSET Rows /\ C \in SUBSET Rows
      /\ A \cap B = {} /\ (A \cup B) \cap C = {} /\ S = (A \cup B) \cup C
  BY DEF Sorted
<1>2. IsFiniteSet(A) /\ IsFiniteSet(B) /\ IsFiniteSet(C)
  BY <1>1, RowsFinite
<1>3. IsFiniteSet(A \cup B) /\ Cardinality(A \cup B) = Cardinality(A) + Cardinality(B) - Cardinality({})
  BY <1>1, <1>2, FS_Union
<1>4. Cardinality((A \cup B) \cup C) = Cardinality(A \cup B) + Cardinality(C) - Cardinality({})
  BY <1>1, <1>2, <1>3, FS_Union
<1>5. Cardinality({}) = 0
  BY FS_EmptySet
<1>6. Cardinality(A) \in Nat /\ Cardinality(B) \in Nat /\ Cardinality(C) \in Nat
  BY <1>1, RowsFinite
<1> QED
  BY <1>1, <1>3, <1>4, <1>5, <1>6

\* The percentages of each rating add up.
LEMMA PercentagesHold == LogInv => PercentagesAddUp
<1> SUFFICES ASSUME LogInv, NEW l \in Location, GetLocationDetail(l).status = "ok"
             PROVE  LET c == ws(l).crowdedness
                        w == ws(l).work
                    IN
                    /\ c[1] + c[2] + c[3] \in 999..1001
                    /\ w["solo"] + w["team"] \in
                           (IF WorkType(At(l), "both") = {} THEN 999 ELSE 0)..1001
  BY DEF PercentagesAddUp
<1>1. PICK S : S = At(l)
  OBVIOUS
<1>2. S \in SUBSET Rows /\ S # {}
  BY <1>1, AtFacts, DetailFacts
<1>3. PICK n \in Nat \ {0} : n = Cardinality(S)
  BY <1>2, RowsFinite
<1>5. PICK c, w : c = ws(l).crowdedness /\ w = ws(l).work
  OBVIOUS
<1>6. /\ c[1] = Share(Crowded(S, 1), S, 10) /\ c[2] = Share(Crowded(S, 2), S, 10)
      /\ c[3] = Share(Crowded(S, 3), S, 10)
      /\ w["solo"] = Share(WorkType(S, "solo"), S, 10)
      /\ w["team"] = Share(WorkType(S, "team"), S, 10)
  BY <1>1, <1>5 DEF ws
<1>7. c[1] + c[2] + c[3] \in 999..1001
  <2>1. PICK A, B, C : A = Crowded(S, 1) /\ B = Crowded(S, 2) /\ C = Crowded(S, 3)
    OBVIOUS
  <2>2. \A i \in S : stored[i].crowdedness \in 1..3
    BY <1>2, RowFacts
  <2>3. Sorted(S, A, B, C) /\ A \in SUBSET S /\ B \in SUBSET S /\ C \in SUBSET S
    BY <2>1, <2>2 DEF Crowded, Sorted
  <2>4. PICK x, y, z \in Nat :
            /\ x = Cardinality(A) /\ y = Cardinality(B) /\ z = Cardinality(C)
            /\ x + y + z = Cardinality(S)
    BY <1>2, <2>3, ThreeParts
  <2>5. Parts(n, x, y, z)
    BY <1>3, <2>4 DEF Parts
  <2>6. /\ c[1] = Tenths(x, n) /\ c[2] = Tenths(y, n)
        /\ c[3] = Tenths(z, n)
    BY <1>2, <1>3, <1>6, <2>1, <2>3, <2>4, ShareFacts
  <2>7. Tenths(x, n) + Tenths(y, n) + Tenths(z, n) \in 999..1001
    BY <2>5, TenthsAddUp
  <2> QED
    BY <2>6, <2>7
<1>8. w["solo"] + w["team"] \in (IF WorkType(S, "both") = {} THEN 999 ELSE 0)..1001
  <2>1. PICK A, B, C : /\ A = WorkType(S, "solo") /\ B = WorkType(S, "team")
                       /\ C = WorkType(S, "both")
    OBVIOUS
  <2>2. \A i \in S : stored[i].work \in {"solo", "team", "both"}
    BY <1>2, RowFacts
  <2>3. Sorted(S, A, B, C) /\ A \in SUBSET S /\ B \in SUBSET S
    BY <2>1, <2>2 DEF WorkType, Sorted
  <2>4. PICK x, y, z \in Nat :
            /\ x = Cardinality(A) /\ y = Cardinality(B) /\ z = Cardinality(C)
            /\ x + y + z = Cardinality(S)
    BY <1>2, <2>3, ThreeParts
  <2>5. Parts(n, x, y, z)
    BY <1>3, <2>4 DEF Parts
  <2>6. w["solo"] = Tenths(x, n) /\ w["team"] = Tenths(y, n)
    BY <1>2, <1>3, <1>6, <2>1, <2>3, <2>4, ShareFacts
  <2>7. /\ Tenths(x, n) + Tenths(y, n) \in 0..1001
        /\ z = 0 => Tenths(x, n) + Tenths(y, n) \in 999..1001
    BY <2>5, TenthsAddUp
  <2>8. C = {} => z = 0
    BY <2>4, FS_EmptySet
  <2> QED
    BY <2>1, <2>6, <2>7, <2>8
<1> QED
  BY <1>1, <1>5, <1>7, <1>8

----------------------------------------------------------------------------
(* Scores. *)

\* The quotient of two sums lies between those of their parts.
LEMMA Mediant ==
    ASSUME NEW t \in Nat, NEW t1 \in Nat, NEW t2 \in Nat, NEW t3 \in Nat, Parts(t, t1, t2, t3),
           NEW n \in Nat \ {0}, NEW n1 \in Nat, NEW n2 \in Nat, NEW n3 \in Nat,
           Parts(n, n1, n2, n3), n1 = 0 => t1 = 0, n2 = 0 => t2 = 0, n3 = 0 => t3 = 0
    PROVE  /\ \/ n1 # 0 /\ t1 * n <= t * n1
              \/ n2 # 0 /\ t2 * n <= t * n2
              \/ n3 # 0 /\ t3 * n <= t * n3
           /\ \/ n1 # 0 /\ t * n1 <= t1 * n
              \/ n2 # 0 /\ t * n2 <= t2 * n
              \/ n3 # 0 /\ t * n3 <= t3 * n
<1>1. PICK x1, x2, x3, y1, y2, y3, z \in Int :
          /\ x1 = t1 * n /\ x2 = t2 * n /\ x3 = t3 * n
          /\ y1 = t * n1 /\ y2 = t * n2 /\ y3 = t * n3
          /\ z = t * n
  OBVIOUS
<1>2. x1 + x2 + x3 = z
  <2>1. (t1 + t2 + t3) * n = t1 * n + t2 * n + t3 * n
    OBVIOUS
  <2> QED
    BY <2>1, <1>1 DEF Parts
<1>3. y1 + y2 + y3 = z
  <2>1. t * (n1 + n2 + n3) = t * n1 + t * n2 + t * n3
    OBVIOUS
  <2> QED
    BY <2>1, <1>1 DEF Parts
<1>4. /\ n1 = 0 => x1 = 0 /\ y1 = 0
      /\ n2 = 0 => x2 = 0 /\ y2 = 0
      /\ n3 = 0 => x3 = 0 /\ y3 = 0
  BY <1>1
<1>5. n1 # 0 \/ n2 # 0 \/ n3 # 0
  BY DEF Parts
<1>6. /\ (n1 # 0 /\ x1 <= y1) \/ (n2 # 0 /\ x2 <= y2) \/ (n3 # 0 /\ x3 <= y3)
      /\ (n1 # 0 /\ y1 <= x1) \/ (n2 # 0 /\ y2 <= x2) \/ (n3 # 0 /\ y3 <= x3)
  BY <1>2, <1>3, <1>4, <1>5
<1> QED
  BY <1>1, <1>6

\* A part of the rows whose average is not above (not below) that of all.
AtMostAverage(P, S) == Sum(Score, P) * Cardinality(S) <= Sum(Score, S) * Cardinality(P)
AtLeastAverage(P, S) == Sum(Score, S) * Cardinality(P) <= Sum(Score, P) * Cardinality(S)

\* A sum of scores is a number.
LEMMA ScoreSum ==
    ASSUME LogInv, NEW S \in SUBSET Rows
    PROVE  Sum(Score, S) \in Nat /\ (S = {} => Sum(Score, S) = 0)
<1>1. Numbers(Score, S)
  BY RowFacts DEF Numbers, Score
<1> QED
  BY <1>1, RowsFinite, SumType, SumEmpty

\* Of the parts of a set, one has an average no more, and one no less, than its own.
LEMMA PartsOfAverage ==
    ASSUME LogInv, NEW S \in SUBSET Rows, S # {}, NEW A, NEW B, NEW C, Sorted(S, A, B, C)
    PROVE  /\ \E P \in {A, B, C} : P # {} /\ AtMostAverage(P, S)
           /\ \E P \in {A, B, C} : P # {} /\ AtLeastAverage(P, S)
<1>1. /\ A \in SUBSET Rows /\ B \in SUBSET Rows /\ C \in SUBSET Rows
      /\ A \cap B = {} /\ (A \cup B) \cap C = {} /\ S = (A \cup B) \cup C
  BY DEF Sorted
<1>2. PICK n1, n2, n3 \in Nat : n1 = Cardinality(A) /\ n2 = Cardinality(B) /\ n3 = Cardinality(C)
  BY <1>1, RowsFinite
<1>3. PICK n \in Nat \ {0} : n = Cardinality(S)
  BY RowsFinite
<1>4. Parts(n, n1, n2, n3)
  <2>1. Cardinality(A) + Cardinality(B) + Cardinality(C) = Cardinality(S)
    BY ThreeParts
  <2> QED
    BY <2>1, <1>2, <1>3 DEF Parts
<1>5. PICK t, t1, t2, t3 \in Nat : /\ t = Sum(Score, S) /\ t1 = Sum(Score, A)
                                   /\ t2 = Sum(Score, B) /\ t3 = Sum(Score, C)
  BY <1>1, ScoreSum
<1>6. Parts(t, t1, t2, t3)
  <2>1. Numbers(Score, S) /\ Numbers(Score, A \cup B)
    BY <1>1, RowFacts DEF Numbers, Score
  <2>2. IsFiniteSet(A) /\ IsFiniteSet(B) /\ IsFiniteSet(C) /\ IsFiniteSet(A \cup B)
    BY <1>1, RowsFinite
  <2>3. Sum(Score, A \cup B) = Sum(Score, A) + Sum(Score, B)
    BY <1>1, <2>1, <2>2, SumUnion
  <2>4. PICK D : D = A \cup B
    OBVIOUS
  <2>5. D \cap C = {} /\ S = D \cup C
    BY <1>1, <2>4
  <2>6. Sum(Score, D \cup C) = Sum(Score, D) + Sum(Score, C)
    BY <2>1, <2>2, <2>4, <2>5, SumUnion
  <2> QED
    BY <2>3, <2>4, <2>5, <2>6, <1>5 DEF Parts
<1>7. /\ n1 = 0 => A = {} /\ t1 = 0
      /\ n2 = 0 => B = {} /\ t2 = 0
      /\ n3 = 0 => C = {} /\ t3 = 0
  BY <1>1, <1>2, <1>5, RowsFinite, ScoreSum
<1>8. A = {} => n1 = 0
  BY <1>2, FS_EmptySet
<1>9. B = {} => n2 = 0
  BY <1>2, FS_EmptySet
<1>10. C = {} => n3 = 0
  BY <1>2, FS_EmptySet
<1>11. /\ \/ n1 # 0 /\ t1 * n <= t * n1
          \/ n2 # 0 /\ t2 * n <= t * n2
          \/ n3 # 0 /\ t3 * n <= t * n3
       /\ \/ n1 # 0 /\ t * n1 <= t1 * n
          \/ n2 # 0 /\ t * n2 <= t2 * n
          \/ n3 # 0 /\ t * n3 <= t3 * n
  BY <1>4, <1>6, <1>7, Mediant
<1>12. /\ AtMostAverage(A, S) <=> t1 * n <= t * n1
       /\ AtMostAverage(B, S) <=> t2 * n <= t * n2
       /\ AtMostAverage(C, S) <=> t3 * n <= t * n3
       /\ AtLeastAverage(A, S) <=> t * n1 <= t1 * n
       /\ AtLeastAverage(B, S) <=> t * n2 <= t2 * n
       /\ AtLeastAverage(C, S) <=> t * n3 <= t3 * n
  BY <1>2, <1>3, <1>5 DEF AtMostAverage, AtLeastAverage
<1> QED
  BY <1>8, <1>9, <1>10, <1>11, <1>12

\* What an average not above another is rounded to is not above it either.
LEMMA RoundedAverages ==
    ASSUME LogInv, NEW P \in SUBSET scored, NEW S \in SUBSET scored, P # {}, S # {}
    PROVE  /\ AtMostAverage(P, S) => AverageScore(P) <= AverageScore(S)
           /\ AtLeastAverage(P, S) => AverageScore(S) <= AverageScore(P)
<1>1. P \in SUBSET Rows /\ S \in SUBSET Rows /\ P \cap scored = P /\ S \cap scored = S
  BY DEF LogInv
<1>2. PICK m, n \in Nat \ {0} : m = Cardinality(P) /\ n = Cardinality(S)
  BY <1>1, RowsFinite
<1>3. PICK s, t \in Nat : s = Sum(Score, P) /\ t = Sum(Score, S)
  BY <1>1, ScoreSum
<1>4. AverageScore(P) = Rounded(s, m) /\ AverageScore(S) = Rounded(t, n)
  BY <1>1, <1>2, <1>3, AverageScoreFacts
<1>5. s * n <= t * m => Rounded(s, m) <= Rounded(t, n)
  BY RoundedMonotone
<1>6. t * m <= s * n => Rounded(t, n) <= Rounded(s, m)
  BY RoundedMonotone
<1> QED
  BY <1>2, <1>3, <1>4, <1>5, <1>6 DEF AtMostAverage, AtLeastAverage

\* The times of day are finitely many.
LEMMA BucketsFinite == ASSUME NEW D \in SUBSET Bucket PROVE IsFiniteSet(D)
<1>1. Bucket = ({"morning"} \cup {"afternoon"}) \cup {"evening"}
  BY DEF Bucket
<1>2. IsFiniteSet({"morning"})
  BY FS_Singleton
<1>3. IsFiniteSet({"morning"} \cup {"afternoon"})
  BY <1>2, FS_AddElement
<1>4. IsFiniteSet(({"morning"} \cup {"afternoon"}) \cup {"evening"})
  BY <1>3, FS_AddElement
<1> QED
  BY <1>1, <1>4, FS_Subset

\* The scores by time of day add up to the score.
LEMMA ScoresHold == LogInv => ScoresAddUp
<1> SUFFICES ASSUME LogInv, NEW l \in Location, GetLocationDetail(l).status = "ok"
             PROVE  LET score == GetLocationDetail(l).score IN
                    /\ Total([b \in DOMAIN score.byTime |-> score.byTime[b].checkIns])
                           = score.scoredCheckIns
                    /\ score.overall = None <=> score.scoredCheckIns = 0
                    /\ score.overall # None =>
                           \E b, c \in DOMAIN score.byTime :
                               /\ score.byTime[b].score <= score.overall
                               /\ score.overall <= score.byTime[c].score
  BY DEF ScoresAddUp
<1>1. PICK score : score = GetLocationDetail(l).score
  OBVIOUS
<1>2. score = score_agg(l)
  BY <1>1, DetailFacts
<1>3. PICK A, S, D : A = At(l) /\ S = A \cap scored /\ D = {c \in Bucket : A \cap In(c) # {}}
  OBVIOUS
<1>4. /\ score.overall = AverageScore(A) /\ score.scoredCheckIns = Cardinality(S)
      /\ DOMAIN score.byTime = D
      /\ \A b \in D : /\ score.byTime[b].score = AverageScore(A \cap In(b))
                      /\ score.byTime[b].checkIns = Cardinality(A \cap In(b))
  BY <1>2, <1>3 DEF score_agg
<1>5. A \in SUBSET Rows /\ S \in SUBSET Rows /\ S \in SUBSET scored /\ D \in SUBSET Bucket
  BY <1>3, AtFacts
<1>6. \A i \in S : stored[i].bucket \in Bucket
  BY <1>5, RowFacts
<1>7. Total([b \in DOMAIN score.byTime |-> score.byTime[b].checkIns]) = score.scoredCheckIns
  <2>1. PICK count, key : /\ count = [b \in DOMAIN score.byTime |-> score.byTime[b].checkIns]
                          /\ key = [i \in Rows |-> stored[i].bucket]
    OBVIOUS
  <2>2. DOMAIN count = D /\ \A b \in D : count[b] = Cardinality(A \cap In(b))
    BY <2>1, <1>4
  <2>3. \A b \in D : A \cap In(b) = Among(S, key, {b})
    BY <2>1, <1>3, <1>5 DEF In, Among
  <2>4. \A b \in D : count[b] = Cardinality(Among(S, key, {b}))
    BY <2>2, <2>3
  <2>5. Sum(count, D) = Cardinality(Among(S, key, D))
    BY <2>4, <1>5, RowsFinite, BucketsFinite, SumCounts
  <2>6. Among(S, key, D) = S
    BY <2>1, <1>3, <1>5, <1>6 DEF In, Among
  <2> QED
    BY <2>1, <2>2, <2>5, <2>6, <1>4, TotalIsSum
<1>8. score.overall = None <=> score.scoredCheckIns = 0
  BY <1>3, <1>4, <1>5, AverageScoreFacts, RowsFinite
<1>9. ASSUME score.overall # None
      PROVE  \E b, c \in DOMAIN score.byTime :
                 score.byTime[b].score <= score.overall /\ score.overall <= score.byTime[c].score
  <2>1. S # {} /\ AverageScore(A) = AverageScore(S)
    <3>1. S # {}
      BY <1>9, <1>3, <1>4, <1>5, AverageScoreFacts
    <3>2. A \cap scored = S \cap scored
      BY <1>3
    <3> QED
      BY <3>1, <3>2 DEF AverageScore
  <2>2. PICK M, N, E : M = A \cap In("morning") /\ N = A \cap In("afternoon") /\ E = A \cap In("evening")
    OBVIOUS
  <2>3. Sorted(S, M, N, E) /\ M \in SUBSET S /\ N \in SUBSET S /\ E \in SUBSET S
    BY <2>2, <1>3, <1>6 DEF In, Bucket, Sorted
  <2>4. \A P \in {M, N, E} : P # {} =>
            \E b \in D : score.byTime[b].score = AverageScore(P)
    BY <2>2, <1>3, <1>4 DEF Bucket
  <2>5. \A P \in {M, N, E} : P # {} =>
            /\ AtMostAverage(P, S) => AverageScore(P) <= AverageScore(S)
            /\ AtLeastAverage(P, S) => AverageScore(S) <= AverageScore(P)
    <3>1. \A P \in {M, N, E} : P \in SUBSET scored
      BY <2>3, <1>5
    <3> QED
      BY <3>1, <2>1, <1>5, RoundedAverages
  <2>6. /\ \E P \in {M, N, E} : P # {} /\ AtMostAverage(P, S)
        /\ \E P \in {M, N, E} : P # {} /\ AtLeastAverage(P, S)
    BY <2>1, <2>3, <1>5, PartsOfAverage
  <2>7. PICK P, Q \in {M, N, E} : /\ P # {} /\ AverageScore(P) <= AverageScore(S)
                                  /\ Q # {} /\ AverageScore(S) <= AverageScore(Q)
    BY <2>5, <2>6
  <2>8. PICK b, c \in D : /\ score.byTime[b].score = AverageScore(P)
                          /\ score.byTime[c].score = AverageScore(Q)
    BY <2>4, <2>7
  <2> QED
    BY <2>1, <2>7, <2>8, <1>4
<1> QED
  BY <1>1, <1>7, <1>8, <1>9

----------------------------------------------------------------------------
(* A location and its visitors. *)

\* More of the same whole is no smaller a percentage.
LEMMA TenthsMonotone ==
    ASSUME NEW n \in Nat \ {0}, NEW a \in Nat, NEW b \in Nat, a <= b
    PROVE  Tenths(a, n) <= Tenths(b, n)
<1>1. PICK x, y \in Nat : x = 1000 * a /\ y = 1000 * b
  OBVIOUS
<1>2. x <= y
  BY <1>1
<1>3. x * n <= y * n
  BY <1>2
<1>4. Rounded(x, n) <= Rounded(y, n)
  BY <1>3, RoundedMonotone
<1> QED
  BY <1>1, <1>4 DEF Tenths

\* The columns of a row of the views.
LEMMA RowOfLocation ==
    ASSUME NEW S
    PROVE  /\ Averages(S).total = Cardinality(S) /\ Averages(S).ratings = Cardinality(S)
           /\ Averages(S).users = Cardinality(Users(S))
           /\ Averages(S).first = First(S) /\ Averages(S).last = Last(S)
           /\ Averages(S).speedTests = Cardinality(SpeedTests(S))
           /\ Averages(S).decibels = AverageDecibels(NoiseTests(S))
           /\ Averages(S).noiseTests = Cardinality(NoiseTests(S))
           /\ Averages(S).commonWork = MostCommon(S)
           /\ Averages(S).score = AverageScore(S)
           /\ Averages(S).byTime = [b \in Bucket |-> AverageScore(S \cap In(b))]
BY DEF Averages

\* Every speed test of l is of one ISP, or of none.
LEMMA SpeedTestsByIsp ==
    ASSUME LogInv, NEW l \in Location
    PROVE  Total([isp \in DOMAIN isp_speeds(l) |-> isp_speeds(l)[isp].tests])
               = Cardinality(SpeedTests(At(l)))
<1>1. PICK S, D, key, count :
          /\ S = SpeedTests(At(l)) /\ D = {stored[i].isp : i \in S}
          /\ key = [i \in Rows |-> stored[i].isp]
          /\ count = [isp \in DOMAIN isp_speeds(l) |-> isp_speeds(l)[isp].tests]
  OBVIOUS
<1>2. S \in SUBSET Rows
  BY <1>1, AtFacts
<1>3. D = {key[i] : i \in S}
  BY <1>1, <1>2
<1>4. IsFiniteSet(S) /\ IsFiniteSet(D)
  BY <1>2, <1>3, RowsFinite, EntriesFinite
<1>5. /\ DOMAIN isp_speeds(l) = D
      /\ \A v \in D : isp_speeds(l)[v].tests = Cardinality({i \in S : stored[i].isp = v})
  BY <1>1 DEF isp_speeds
<1>6. DOMAIN count = D /\ \A v \in D : count[v] = Cardinality({i \in S : stored[i].isp = v})
  BY <1>1, <1>5
<1>7. \A v \in D : {i \in S : stored[i].isp = v} = Among(S, key, {v})
  BY <1>1, <1>2 DEF Among
<1>8. \A v \in D : count[v] = Cardinality(Among(S, key, {v}))
  BY <1>6, <1>7
<1>9. Sum(count, D) = Cardinality(Among(S, key, D))
  BY <1>4, <1>8, SumCounts
<1>10. Among(S, key, D) = S
  BY <1>3 DEF Among
<1> QED
  BY <1>1, <1>6, <1>9, <1>10, TotalIsSum

\* The detail of a location agrees with its row.
LEMMA DetailHolds ==
    ASSUME LogInv, NEW l \in Location
    PROVE  DetailAgrees(l)
<1>1. PICK row, detail, A : /\ row = LocationAverages(l) /\ detail = GetLocationDetail(l)
                            /\ A = At(l)
  OBVIOUS
<1>2. A \in SUBSET Rows
  BY <1>1, AtFacts
<1>3. /\ row.total = Cardinality(A) /\ row.ratings = Cardinality(A)
      /\ row.users = Cardinality(Users(A))
      /\ row.first = First(A) /\ row.last = Last(A)
      /\ row.speedTests = Cardinality(SpeedTests(A))
      /\ row.decibels = AverageDecibels(NoiseTests(A))
      /\ row.noiseTests = Cardinality(NoiseTests(A))
      /\ row.commonWork = MostCommon(A)
      /\ row.score = AverageScore(A)
      /\ row.byTime = [b \in Bucket |-> AverageScore(A \cap In(b))]
  BY <1>1, RowOfLocation DEF LocationAverages
<1>4. detail.status = "ok" <=> row.ratings > 0
  BY <1>1, <1>2, <1>3, DetailFacts, RowsFinite
<1>5. ASSUME detail.status = "ok"
      PROVE  /\ <<detail.total, detail.users, detail.first, detail.last>>
                    = <<row.total, row.users, row.first, row.last>>
             /\ <<detail.decibels, detail.noiseTests>> = <<row.decibels, row.noiseTests>>
             /\ detail.score.overall = row.score
             /\ DOMAIN detail.score.byTime = {b \in Bucket : row.byTime[b] # None}
             /\ \A b \in DOMAIN detail.score.byTime : detail.score.byTime[b].score = row.byTime[b]
             /\ Total([isp \in DOMAIN detail.isps |-> detail.isps[isp].tests]) = row.speedTests
             /\ \A t \in row.commonWork, o \in {"solo", "team"} :
                    detail.ratings.work[o] <= detail.ratings.work[t]
  <2>1. A # {}
    BY <1>1, <1>5, DetailFacts
  <2>2. /\ detail.total = Cardinality(A) /\ detail.users = Cardinality(Users(A))
        /\ detail.first = First(A) /\ detail.last = Last(A)
        /\ detail.decibels = AverageDecibels(NoiseTests(A))
        /\ detail.noiseTests = Cardinality(NoiseTests(A))
        /\ detail.isps = isp_speeds(l) /\ detail.ratings = ws(l) /\ detail.score = score_agg(l)
    BY <1>1, <2>1, DetailFacts
  <2>3. /\ detail.score.overall = AverageScore(A)
        /\ DOMAIN detail.score.byTime = {b \in Bucket : A \cap In(b) # {}}
        /\ \A b \in DOMAIN detail.score.byTime :
               detail.score.byTime[b].score = AverageScore(A \cap In(b))
    BY <1>1, <2>2 DEF score_agg
  <2>4. \A b \in Bucket : AverageScore(A \cap In(b)) = None <=> A \cap In(b) = {}
    <3> TAKE b \in Bucket
    <3>1. PICK B : B = A \cap In(b)
      OBVIOUS
    <3>2. B \in SUBSET Rows /\ B \cap scored = B
      BY <1>2, <3>1 DEF In
    <3> QED
      BY <3>1, <3>2, AverageScoreFacts
  <2>5. DOMAIN detail.score.byTime = {b \in Bucket : row.byTime[b] # None}
    BY <1>3, <2>3, <2>4
  <2>6. \A b \in DOMAIN detail.score.byTime : detail.score.byTime[b].score = row.byTime[b]
    BY <1>3, <2>3
  <2>7. Total([isp \in DOMAIN detail.isps |-> detail.isps[isp].tests]) = row.speedTests
    BY <1>1, <1>3, <2>2, SpeedTestsByIsp
  <2>8. ASSUME NEW t \in row.commonWork, NEW o \in {"solo", "team"}
        PROVE  detail.ratings.work[o] <= detail.ratings.work[t]
    <3>1. t \in {"solo", "team"} /\ Cardinality(WorkType(A, o)) <= Cardinality(WorkType(A, t))
      BY <1>3, <2>8 DEF MostCommon
    <3>2. PICK P, Q : P = WorkType(A, o) /\ Q = WorkType(A, t)
      OBVIOUS
    <3>3. P \in SUBSET A /\ Q \in SUBSET A /\ P \in SUBSET Rows /\ Q \in SUBSET Rows
      BY <1>2, <3>2, AtFacts
    <3>4. detail.ratings.work[o] = Share(P, A, 10) /\ detail.ratings.work[t] = Share(Q, A, 10)
      BY <1>1, <2>2, <3>1, <3>2 DEF ws
    <3>5. PICK a, b \in Nat, n \in Nat \ {0} :
              a = Cardinality(P) /\ b = Cardinality(Q) /\ n = Cardinality(A)
      BY <1>2, <2>1, <3>3, RowsFinite
    <3>6. Share(P, A, 10) = Tenths(a, n) /\ Share(Q, A, 10) = Tenths(b, n)
      BY <1>2, <2>1, <3>3, <3>5, ShareFacts
    <3>7. a <= b
      BY <3>1, <3>2, <3>5
    <3>8. Tenths(a, n) <= Tenths(b, n)
      BY <3>7, TenthsMonotone
    <3> QED
      BY <3>4, <3>6, <3>8
  <2> QED
    BY <1>3, <2>2, <2>3, <2>5, <2>6, <2>7, <2>8
<1> QED
  BY <1>1, <1>4, <1>5 DEF DetailAgrees

----------------------------------------------------------------------------
(* The users' own rows. *)

\* The first and the last of some check-ins.
LEMMA TimesFacts ==
    ASSUME LogInv, NEW S \in SUBSET Rows, S # {}
    PROVE  /\ Times(S) \in SUBSET Int /\ IsFiniteSet(Times(S)) /\ Times(S) # {}
           /\ First(S) = Min(Times(S)) /\ Last(S) = Max(Times(S))
           /\ First(S) \in Times(S) /\ \A i \in S : First(S) <= stored[i].time
           /\ Last(S) \in Times(S) /\ \A i \in S : Last(S) >= stored[i].time
<1>1. PICK time : time = [i \in Rows |-> stored[i].time]
  OBVIOUS
<1>2. Times(S) = {time[i] : i \in S}
  BY <1>1 DEF Times
<1>3. IsFiniteSet(Times(S))
  BY <1>2, RowsFinite, EntriesFinite
<1>4. Times(S) \in SUBSET Int /\ Times(S) # {}
  BY RowFacts DEF Times
<1>5. First(S) = Min(Times(S)) /\ Last(S) = Max(Times(S))
  BY DEF First, Last
<1>6. \A i \in S : stored[i].time \in Times(S)
  BY DEF Times
<1> QED
  BY <1>3, <1>4, <1>5, <1>6, MinLeast, MaxGreatest

Earliest(V, part) == {First(part[u]) : u \in V}
Latest(V, part) == {Last(part[u]) : u \in V}

\* The earliest visits of each visitor hold the earliest of all, and so for the latest.
LEMMA EarliestAndLatest ==
    ASSUME LogInv, NEW A \in SUBSET Rows, NEW V, V # {},
           NEW part, \A u \in V : part[u] \in SUBSET A /\ part[u] # {},
           \A i \in A : \E u \in V : i \in part[u]
    PROVE  Min(Earliest(V, part)) = First(A) /\ Max(Latest(V, part)) = Last(A)
<1>1. A # {}
  OBVIOUS
<1>2. \A u \in V : part[u] \in SUBSET Rows /\ part[u] # {}
  OBVIOUS
<1>3. /\ Times(A) \in SUBSET Int /\ IsFiniteSet(Times(A))
      /\ First(A) = Min(Times(A)) /\ Last(A) = Max(Times(A))
  BY <1>1, TimesFacts
<1>4. \A u \in V : Times(part[u]) \in SUBSET Times(A)
  BY DEF Times
<1>5. \A u \in V : /\ First(part[u]) \in Times(A) /\ Last(part[u]) \in Times(A)
                   /\ \A i \in part[u] : /\ First(part[u]) <= stored[i].time
                                         /\ Last(part[u]) >= stored[i].time
  <2> TAKE u \in V
  <2>1. PICK P : P = part[u]
    OBVIOUS
  <2>2. P \in SUBSET Rows /\ P # {} /\ Times(P) \in SUBSET Times(A)
    BY <1>2, <1>4, <2>1
  <2>3. /\ First(P) \in Times(P) /\ Last(P) \in Times(P)
        /\ \A i \in P : First(P) <= stored[i].time /\ Last(P) >= stored[i].time
    BY <2>2, TimesFacts
  <2> QED
    BY <2>1, <2>2, <2>3
<1>6. PICK F, L : F = Earliest(V, part) /\ L = Latest(V, part)
  OBVIOUS
<1>7. F \in SUBSET Times(A) /\ L \in SUBSET Times(A) /\ F # {} /\ L # {}
  BY <1>5, <1>6 DEF Earliest, Latest
<1>8. \A t \in Times(A) : (\E x \in F : x <= t) /\ (\E x \in L : x >= t)
  BY <1>5, <1>6 DEF Times, Earliest, Latest
<1>9. Min(F) = Min(Times(A))
  BY <1>3, <1>7, <1>8, MinOfMins
<1>10. Max(L) = Max(Times(A))
  BY <1>3, <1>7, <1>8, MaxOfMaxes
<1> QED
  BY <1>3, <1>6, <1>9, <1>10

\* What a user is answered of himself.
LEMMA OwnRows ==
    ASSUME NEW u
    PROVE  GetUserLocations(u, u)
               = [l \in {m \in Location : At(m) \cap Of(u) # {}} |-> Averages(At(l) \cap Of(u))]
BY DEF GetUserLocations

\* The rows of the visitors of a location add up to its row.
LEMMA UserRowsHold ==
    ASSUME LogInv, NEW l \in Location
    PROVE  UserRowsAgree(l)
<1>1. PICK row, A, V, part, own :
          /\ row = LocationAverages(l) /\ A = At(l)
          /\ V = {u \in User : l \in DOMAIN GetUserLocations(u, u)}
          /\ part = [u \in User |-> At(l) \cap Of(u)]
          /\ own = [u \in User |-> GetUserLocations(u, u)[l]]
  OBVIOUS
<1>2. A \in SUBSET Rows
  BY <1>1, AtFacts
<1>3. /\ row.total = Cardinality(A) /\ row.users = Cardinality(Users(A))
      /\ row.first = First(A) /\ row.last = Last(A)
  BY <1>1, RowOfLocation DEF LocationAverages
<1>4. \A u \in User : part[u] = {i \in A : stored[i].user = u}
  BY <1>1, <1>2 DEF Of, Rows
<1>5. V = {u \in User : part[u] # {}}
  <2>1. ASSUME NEW u \in User
        PROVE  l \in DOMAIN GetUserLocations(u, u) <=> part[u] # {}
    <3>1. PICK rows : rows = GetUserLocations(u, u)
      OBVIOUS
    <3>2. DOMAIN rows = {m \in Location : At(m) \cap Of(u) # {}}
      BY <3>1, OwnRows
    <3> QED
      BY <1>1, <3>1, <3>2
  <2> QED
    BY <1>1, <2>1
<1>6. V = Users(A)
  BY <1>2, <1>4, <1>5, RowFacts DEF Users
<1>7. \A u \in V : own[u] = Averages(part[u])
  BY <1>1, <1>5, OwnRows
<1>8. \A u \in V : /\ own[u].total = Cardinality(part[u])
                   /\ own[u].first = First(part[u]) /\ own[u].last = Last(part[u])
  BY <1>7, RowOfLocation
<1>9. PICK count : count = [u \in V |-> own[u].total]
  OBVIOUS
<1>10. Total(count) = row.total
  <2>1. PICK key : key = [i \in Rows |-> stored[i].user]
    OBVIOUS
  <2>2. V = {key[i] : i \in A}
    BY <1>2, <1>6, <2>1 DEF Users
  <2>3. IsFiniteSet(A) /\ IsFiniteSet(V)
    BY <1>2, <2>2, RowsFinite, EntriesFinite
  <2>4. \A u \in V : part[u] = Among(A, key, {u})
    BY <1>2, <1>4, <1>5, <2>1 DEF Among
  <2>5. \A u \in V : count[u] = Cardinality(Among(A, key, {u}))
    BY <1>8, <1>9, <2>4
  <2>6. Sum(count, V) = Cardinality(Among(A, key, V))
    BY <2>3, <2>5, SumCounts
  <2>7. Among(A, key, V) = A
    BY <2>2 DEF Among
  <2> QED
    BY <1>3, <1>9, <2>6, <2>7, TotalIsSum
<1>11. ASSUME V # {}
       PROVE  /\ Min({own[u].first : u \in V}) = row.first
              /\ Max({own[u].last : u \in V}) = row.last
  <2>1. \A u \in V : part[u] \in SUBSET A /\ part[u] # {}
    BY <1>4, <1>5
  <2>2. \A i \in A : \E u \in V : i \in part[u]
    BY <1>2, <1>4, <1>5, RowFacts
  <2>3. Min(Earliest(V, part)) = First(A) /\ Max(Latest(V, part)) = Last(A)
    BY <1>2, <1>11, <2>1, <2>2, EarliestAndLatest
  <2>4. /\ {own[u].first : u \in V} = Earliest(V, part)
        /\ {own[u].last : u \in V} = Latest(V, part)
    BY <1>8 DEF Earliest, Latest
  <2> QED
    BY <1>3, <2>3, <2>4
<1>12. \A u \in V : GetUserLocations(u, u)[l] = own[u]
  BY <1>1
<1>13. /\ count = [u \in V |-> GetUserLocations(u, u)[l].total]
       /\ {own[u].first : u \in V} = {GetUserLocations(u, u)[l].first : u \in V}
       /\ {own[u].last : u \in V} = {GetUserLocations(u, u)[l].last : u \in V}
  BY <1>9, <1>12
<1> QED
  BY <1>1, <1>3, <1>6, <1>9, <1>10, <1>11, <1>13 DEF UserRowsAgree

----------------------------------------------------------------------------
(* Trending. *)

\* Each window starts no later than the one it lies in.
LEMMA SinceFacts ==
    /\ Since("today") \in Int /\ Since("week") \in Int /\ Since("month") \in Int
    /\ Since("month") <= Since("week") /\ Since("week") <= Since("today")
<1>1. Now \in Nat /\ Now % 24 \in 0..23
  BY NowAssumption
<1>2. PICK d \in 0..23 : d = Now % 24
  BY <1>1
<1>3. Since("today") = Now - d
  BY <1>2 DEF Since
<1>4. Since("week") = Now - 168 /\ Since("month") = Now - 720
  BY DEF Since
<1> QED
  BY <1>1, <1>3, <1>4

\* So each counts no more.
LEMMA WindowsHold ==
    ASSUME LogInv, NEW l \in Location
    PROVE  WindowsNest(l)
<1>1. PICK T, W, M : T = Recent(l, "today") /\ W = Recent(l, "week") /\ M = Recent(l, "month")
  OBVIOUS
<1>2. /\ M \in SUBSET At(l) /\ W \in SUBSET At(l) /\ T \in SUBSET At(l) /\ At(l) \in SUBSET Rows
  BY <1>1 DEF Recent, At
<1>3. \A i \in At(l) : stored[i].time \in Nat
  BY <1>2, RowFacts
<1>4. T \in SUBSET W /\ W \in SUBSET M
  BY <1>1, <1>3, SinceFacts DEF Recent
<1>5. /\ Cardinality(T) <= Cardinality(W) /\ Cardinality(W) <= Cardinality(M)
      /\ Cardinality(M) <= Cardinality(At(l))
  BY <1>2, <1>4, CountsNest
<1> QED
  BY <1>1, <1>5, RowOfLocation DEF WindowsNest, LocationAverages

\* A first page, of no more than there is: n of them, and none of the others before one of
\* these.
LEMMA FirstPages ==
    ASSUME NEW found, IsFiniteSet(found), NEW rank, NEW n \in Nat, n <= Cardinality(found),
           NEW page
    PROVE  page \in Pages(found, rank, n, 0) <=>
               /\ page \in SUBSET found /\ Cardinality(page) = n
               /\ \A x \in page, y \in found \ page : ~ Precedes(rank[y], rank[x])
<1>1. PICK c \in Nat : c = Cardinality(found)
  BY FS_CardinalityType
<1>2. Min({0, c}) = 0 /\ Min({n, c}) = n
  <2>1. 0 <= c /\ n <= c /\ 0 \in Int /\ c \in Int /\ n \in Int
    BY <1>1
  <2> QED
    BY <2>1, MinOfTwo
<1>3. c - 0 = c
  BY <1>1
<1>4. ASSUME page \in Pages(found, rank, n, 0)
      PROVE  /\ page \in SUBSET found /\ Cardinality(page) = n
             /\ \A x \in page, y \in found \ page : ~ Precedes(rank[y], rank[x])
  <2>1. PICK skipped \in SUBSET (found \ page) :
            /\ Cardinality(skipped) = Min({0, Cardinality(found)})
            /\ Cardinality(page) = Min({n, Cardinality(found) - Cardinality(skipped)})
            /\ \A x \in page, y \in found \ (skipped \cup page) : ~ Precedes(rank[y], rank[x])
    BY <1>4 DEF Pages
  <2>2. Cardinality(skipped) = 0
    BY <1>1, <1>2, <2>1
  <2>3. skipped = {}
    <3>1. IsFiniteSet(skipped)
      BY FS_Subset
    <3> QED
      BY <2>2, <3>1, FS_EmptySet
  <2>4. Cardinality(page) = n
    BY <1>1, <1>2, <1>3, <2>1, <2>2
  <2>5. page \in SUBSET found
    BY <1>4 DEF Pages
  <2> QED
    BY <2>1, <2>3, <2>4, <2>5
<1>5. ASSUME page \in SUBSET found, Cardinality(page) = n,
             \A x \in page, y \in found \ page : ~ Precedes(rank[y], rank[x])
      PROVE  page \in Pages(found, rank, n, 0)
  <2>1. Cardinality({}) = 0 /\ {} \in SUBSET (found \ page)
    BY FS_EmptySet
  <2>2. Cardinality({}) = Min({0, Cardinality(found)})
    BY <1>1, <1>2, <2>1
  <2>3. Cardinality(page) = Min({n, Cardinality(found) - Cardinality({})})
    BY <1>1, <1>2, <1>3, <1>5, <2>1
  <2>4. \A x \in page, y \in found \ ({} \cup page) : ~ Precedes(rank[y], rank[x])
    BY <1>5
  <2>5. \A x \in {}, y \in found \ {} : ~ Precedes(rank[y], rank[x])
    OBVIOUS
  <2> QED
    BY <1>5, <2>1, <2>2, <2>3, <2>4, <2>5 DEF Pages
<1> QED
  BY <1>4, <1>5

\* The first column decides, when it tells.
LEMMA FirstColumn ==
    ASSUME NEW a, 1 \in DOMAIN a, NEW b, ~ Precedes(a, b)
    PROVE  ~ (a[1] > b[1])
<1>1. \A k \in 1..(1 - 1) : a[k] = b[k]
  OBVIOUS
<1> QED
  BY <1>1 DEF Precedes

\* One column that does not tell.
LEMMA OneColumn ==
    ASSUME NEW x, NEW y, ~ (x > y)
    PROVE  ~ Precedes(<<x>>, <<y>>)
<1>1. PICK a, b : a = <<x>> /\ b = <<y>>
  OBVIOUS
<1>2. DOMAIN a = {1} /\ ~ (a[1] > b[1])
  BY <1>1
<1> QED
  BY <1>1, <1>2 DEF Precedes

\* A first page of trending locations is one of all locations, when nothing is older than a
\* month.
LEMMA TrendingHolds == LogInv => TrendingAgrees
<1> SUFFICES ASSUME LogInv, \A i \in Rows : stored[i].time >= Since("month"),
                    NEW n \in 1..Min({50, Cardinality({stored[i].loc : i \in Rows})}),
                    NEW page \in GetTrendingLocations("month", n)
             PROVE  page \in GetAllLocations(Location, n, 0)
  BY DEF TrendingAgrees
<1>1. \A l \in Location : Recent(l, "month") = At(l)
  BY DEF Recent, At
<1>2. PICK F, r, q :
          /\ F = {l \in Location : Recent(l, "month") # {}}
          /\ r = [l \in F |-> Rank(l, "month")]
          /\ q = [l \in Location |-> <<LocationAverages(l).total>>]
  OBVIOUS
<1>3. F = {stored[i].loc : i \in Rows} /\ F \in SUBSET Location
  BY <1>1, <1>2, RowFacts DEF At
<1>4. IsFiniteSet(F) /\ IsFiniteSet(Location)
  BY <1>3, FiniteAssumption, FS_Subset
<1>5. PICK c, d \in Nat : c = Cardinality(F) /\ d = Cardinality(Location)
  BY <1>4, FS_CardinalityType
<1>6. c <= d
  BY <1>3, <1>4, <1>5, FS_Subset
<1>7. n \in 1..50 /\ n <= c
  <2>1. n \in 1..Min({50, c})
    BY <1>3, <1>5
  <2>2. Min({50, c}) \in Int /\ Min({50, c}) <= 50 /\ Min({50, c}) <= c
    <3>1. 50 \in Int /\ c \in Int
      OBVIOUS
    <3> QED
      BY <3>1, MinOfTwo
  <2> QED
    BY <2>1, <2>2
<1>8. page \in Pages(F, r, n, 0)
  BY <1>2, <1>7 DEF GetTrendingLocations
<1>9. /\ page \in SUBSET F /\ Cardinality(page) = n
      /\ \A x \in page, y \in F \ page : ~ Precedes(r[y], r[x])
  BY <1>4, <1>5, <1>7, <1>8, FirstPages
<1>10. \A l \in F : 1 \in DOMAIN r[l] /\ r[l][1] = Cardinality(At(l))
  BY <1>1, <1>2, <1>3 DEF Rank
<1>11. \A l \in Location : q[l] = <<Cardinality(At(l))>>
  BY <1>2, RowOfLocation DEF LocationAverages
<1>12. ASSUME NEW x \in page, NEW y \in Location \ page
       PROVE  ~ Precedes(q[y], q[x])
  <2>1. x \in F /\ x \in Location
    BY <1>3, <1>9
  <2>2. ~ (Cardinality(At(y)) > Cardinality(At(x)))
    <3>1. CASE y \in F
      <4>1. ~ Precedes(r[y], r[x])
        BY <1>9, <1>12, <3>1
      <4>2. PICK a, b : a = r[y] /\ b = r[x]
        OBVIOUS
      <4>3. ~ (a[1] > b[1])
        BY <1>10, <3>1, <4>1, <4>2, FirstColumn
      <4> QED
        BY <1>10, <2>1, <3>1, <4>2, <4>3
    <3>2. CASE y \notin F
      <4>1. PICK S, T : S = At(y) /\ T = At(x)
        OBVIOUS
      <4>2. S = {} /\ S \in SUBSET Rows /\ T \in SUBSET Rows
        BY <1>1, <1>2, <1>12, <3>2, <4>1, AtFacts
      <4>3. Cardinality(S) = 0 /\ Cardinality(T) \in Nat
        BY <4>2, RowsFinite
      <4> QED
        BY <4>1, <4>3
    <3> QED
      BY <3>1, <3>2
  <2> QED
    BY <1>11, <1>12, <2>1, <2>2, OneColumn
<1>13. page \in Pages(Location, q, n, 0)
  <2>1. page \in SUBSET Location /\ n <= d /\ n \in Nat
    BY <1>3, <1>5, <1>6, <1>7, <1>9
  <2> QED
    BY <1>4, <1>5, <1>9, <1>12, <2>1, FirstPages
<1> QED
  BY <1>2, <1>7, <1>13 DEF GetAllLocations

----------------------------------------------------------------------------
(* The invariants. *)

\* The reports agree over each log of submissions.
LEMMA ReportsHold == LogInv => ReportsAgree
BY DetailHolds, UserRowsHold, WindowsHold, TrendingHolds DEF ReportsAgree

\* The old check-ins are a log of submissions.
LEMMA LogInvInitially == Init => LogInv
<1> SUFFICES ASSUME Init PROVE LogInv
  OBVIOUS
<1>1. ASSUME NEW i \in Id PROVE stored[i] \in Submission \cup {None}
  <2>1. CASE \E s \in Legacy : s.id = i
    <3>1. stored[i] = CHOOSE s \in Legacy : s.id = i
      BY <2>1 DEF Init
    <3> QED
      BY <2>1, <3>1, LegacyAssumption
  <2>2. CASE ~ \E s \in Legacy : s.id = i
    BY <2>2 DEF Init
  <2> QED
    BY <2>1, <2>2
<1>2. stored \in [Id -> Submission \cup {None}]
  BY <1>1 DEF Init
<1> QED
  BY <1>2 DEF Init, LogInv

\* Recording and scoring keep it one.
LEMMA LogInvStep == LogInv /\ [Next]_vars => LogInv'
<1> SUFFICES ASSUME LogInv, [Next]_vars PROVE LogInv'
  OBVIOUS
<1>1. CASE UNCHANGED vars
  BY <1>1 DEF LogInv, Rows, vars
<1>2. ASSUME NEW s \in Submission, Record(s) PROVE LogInv'
  <2>1. s.id \in Id /\ s # None
    BY SubmissionAssumption, NoneAssumption
  <2> QED
    BY <1>2, <2>1 DEF LogInv, Rows, Record
<1>3. CASE Backfill
  BY <1>3 DEF LogInv, Rows, Backfill
<1> QED
  BY <1>1, <1>2, <1>3 DEF Next

\* What the reports read is always a log of submissions.
LEMMA LogInvAlways == Spec => []LogInv
BY LogInvInitially, LogInvStep, PTL DEF Spec

\* However check-ins are recorded and scored, the list, the detail, the users' own rows and
\* the trending page, each computed by a query of its own, tell the same of a location.
THEOREM ReportsAlwaysAgree == Spec => []ReportsAgree
BY LogInvAlways, ReportsHold, PTL

\* The scored check-ins of a location are those of its times of day, and its score lies
\* between the best and the worst of their scores.
THEOREM ScoresAlwaysAddUp == Spec => []ScoresAddUp
BY LogInvAlways, ScoresHold, PTL

\* The percentages of a rating, each rounded to a tenth, are 100 within a tenth.
THEOREM PercentagesAlwaysAddUp == Spec => []PercentagesAddUp
BY LogInvAlways, PercentagesHold, PTL

----------------------------------------------------------------------------
(* A step changes only what is reported of its own location and user. *)

\* The rows and the scores of the check-ins S stay.
Kept(S) == (\A i \in S : stored'[i] = stored[i]) /\ S \cap scored' = S \cap scored

\* The tests of the same check-ins are the same.
LEMMA SameTests ==
    ASSUME NEW S, Kept(S)
    PROVE  SpeedTests(S)' = SpeedTests(S) /\ NoiseTests(S)' = NoiseTests(S)
BY DEF Kept, SpeedTests, NoiseTests

\* And so are the columns of them.
LEMMA SameColumns ==
    ASSUME NEW S, Kept(S)
    PROVE  /\ AverageScore(S)' = AverageScore(S)
           /\ AverageDownload(S)' = AverageDownload(S)
           /\ AverageDecibels(S)' = AverageDecibels(S)
           /\ Users(S)' = Users(S)
           /\ First(S)' = First(S) /\ Last(S)' = Last(S)
<1>1. PICK U : U = S \cap scored
  OBVIOUS
<1>2. /\ S \cap scored' = U /\ (S \cap scored)' = U
      /\ \A i \in S : stored'[i] = stored[i]
      /\ \A i \in U : stored'[i] = stored[i]
  BY <1>1 DEF Kept
<1>3. [i \in U |-> stored'[i].score] = [i \in U |-> stored[i].score]
  BY <1>2
<1>4. AverageScore(S)' = Average([i \in U |-> stored'[i].score])
  BY <1>2 DEF AverageScore
<1>5. AverageScore(S) = Average([i \in U |-> stored[i].score])
  BY <1>1 DEF AverageScore
<1>6. /\ [i \in S |-> stored'[i].download] = [i \in S |-> stored[i].download]
      /\ [i \in S |-> 10 * stored'[i].decibels] = [i \in S |-> 10 * stored[i].decibels]
  BY <1>2
<1>7. Times(S)' = Times(S) /\ Users(S)' = Users(S)
  BY <1>2 DEF Times, Users
<1>8. First(S)' = First(S) /\ Last(S)' = Last(S)
  BY <1>7 DEF First, Last
<1> QED
  BY <1>3, <1>4, <1>5, <1>6, <1>7, <1>8 DEF AverageDownload, AverageDecibels

\* So are those at a time of day.
LEMMA SameInTime ==
    ASSUME NEW S, Kept(S), NEW b
    PROVE  (S \cap In(b))' = S \cap In(b) /\ Kept(S \cap In(b))
BY DEF Kept, In

\* And the most common work.
LEMMA SameCommonWork ==
    ASSUME NEW S, Kept(S)
    PROVE  MostCommon(S)' = MostCommon(S)
<1>1. \A t : WorkType(S, t)' = WorkType(S, t)
  BY DEF Kept, WorkType
<1> QED
  BY <1>1 DEF MostCommon

\* A row of the views over check-ins that stay.
LEMMA SameAverages ==
    ASSUME NEW S, Kept(S)
    PROVE  Averages(S)' = Averages(S)
<1>1. PICK T, N : T = SpeedTests(S) /\ N = NoiseTests(S)
  OBVIOUS
<1>2. SpeedTests(S)' = T /\ NoiseTests(S)' = N
  BY <1>1, SameTests
<1>3. Kept(T) /\ Kept(N)
  BY <1>1 DEF Kept, SpeedTests, NoiseTests
<1>4. AverageDownload(T)' = AverageDownload(T) /\ AverageDecibels(N)' = AverageDecibels(N)
  BY <1>3, SameColumns
<1>5. AverageDownload(SpeedTests(S))' = AverageDownload(SpeedTests(S))
  BY <1>1, <1>2, <1>4
<1>6. AverageDecibels(NoiseTests(S))' = AverageDecibels(NoiseTests(S))
  BY <1>1, <1>2, <1>4
<1>7. ASSUME NEW b \in Bucket
      PROVE  AverageScore(S \cap In(b))' = AverageScore(S \cap In(b))
  <2>1. PICK B : B = S \cap In(b)
    OBVIOUS
  <2>2. (S \cap In(b))' = B /\ Kept(B)
    BY <2>1, SameInTime
  <2>3. AverageScore(B)' = AverageScore(B)
    BY <2>2, SameColumns
  <2> QED
    BY <2>1, <2>2, <2>3
<1>8. [b \in Bucket |-> AverageScore(S \cap In(b))]' = [b \in Bucket |-> AverageScore(S \cap In(b))]
  BY <1>7
<1>9. /\ AverageScore(S)' = AverageScore(S) /\ Users(S)' = Users(S)
      /\ First(S)' = First(S) /\ Last(S)' = Last(S)
      /\ MostCommon(S)' = MostCommon(S)
  BY SameColumns, SameCommonWork
<1>10. /\ Cardinality(Users(S))' = Cardinality(Users(S))
       /\ Cardinality(SpeedTests(S))' = Cardinality(SpeedTests(S))
       /\ Cardinality(NoiseTests(S))' = Cardinality(NoiseTests(S))
  BY <1>1, <1>2, <1>9
<1> QED
  BY <1>5, <1>6, <1>8, <1>9, <1>10 DEF Averages

\* The speed tests among T of one ISP.
OfIsp(T, isp) == {i \in T : stored[i].isp = isp}

\* The detail of a location whose check-ins stay.
LEMMA SameDetail ==
    ASSUME NEW l \in Location, At(l)' = At(l), Kept(At(l))
    PROVE  GetLocationDetail(l)' = GetLocationDetail(l)
<1>1. PICK A, N : A = At(l) /\ N = NoiseTests(A)
  OBVIOUS
<1>2. At(l)' = A /\ Kept(A)
  BY <1>1
<1>3. A \cap scored = A \cap scored' /\ \A i \in A : stored'[i] = stored[i]
  BY <1>2 DEF Kept
<1>4. /\ AverageScore(A)' = AverageScore(A) /\ Users(A)' = Users(A)
      /\ First(A)' = First(A) /\ Last(A)' = Last(A)
  BY <1>2, SameColumns
<1>5. NoiseTests(A)' = N /\ Kept(N)
  BY <1>1, <1>2, SameTests DEF Kept, NoiseTests
<1>6. AverageDecibels(N)' = AverageDecibels(N)
  BY <1>5, SameColumns
<1>7. isp_speeds(l)' = isp_speeds(l)
  <2>1. PICK T : T = SpeedTests(A)
    OBVIOUS
  <2>2. SpeedTests(A)' = T /\ Kept(T) /\ \A i \in T : stored'[i] = stored[i]
    BY <1>2, <2>1, SameTests DEF Kept, SpeedTests
  <2>3. ASSUME NEW isp
        PROVE  /\ Cardinality(OfIsp(T, isp))' = Cardinality(OfIsp(T, isp))
               /\ AverageDownload(OfIsp(T, isp))' = AverageDownload(OfIsp(T, isp))
    <3>1. PICK G : G = OfIsp(T, isp)
      OBVIOUS
    <3>2. OfIsp(T, isp)' = G /\ Kept(G)
      BY <2>2, <3>1 DEF Kept, OfIsp
    <3>3. AverageDownload(G)' = AverageDownload(G)
      BY <3>2, SameColumns
    <3> QED
      BY <3>1, <3>2, <3>3
  <2>4. PICK D : D = {stored[i].isp : i \in T}
    OBVIOUS
  <2>5. {stored'[i].isp : i \in T} = D
    BY <2>2, <2>4
  <2>6. isp_speeds(l) =
            [isp \in D |->
                [label |-> IF isp = None THEN Unknown ELSE isp,
                 download |-> AverageDownload(OfIsp(T, isp)), tests |-> Cardinality(OfIsp(T, isp))]]
    BY <1>1, <2>1, <2>4 DEF isp_speeds, OfIsp
  <2>7. isp_speeds(l)' =
            [isp \in D |->
                [label |-> IF isp = None THEN Unknown ELSE isp,
                 download |-> AverageDownload(OfIsp(T, isp))', tests |-> Cardinality(OfIsp(T, isp))']]
    BY <1>1, <1>2, <2>1, <2>2, <2>5 DEF isp_speeds, OfIsp
  <2>8. [isp \in D |->
            [label |-> IF isp = None THEN Unknown ELSE isp,
             download |-> AverageDownload(OfIsp(T, isp))', tests |-> Cardinality(OfIsp(T, isp))']]
        = [isp \in D |->
              [label |-> IF isp = None THEN Unknown ELSE isp,
               download |-> AverageDownload(OfIsp(T, isp)), tests |-> Cardinality(OfIsp(T, isp))]]
    BY <2>3
  <2> QED
    BY <2>6, <2>7, <2>8
<1>8. ws(l)' = ws(l)
  <2>1. \A v : {i \in A : stored'[i].crowdedness = v} = {i \in A : stored[i].crowdedness = v}
    BY <1>3
  <2>2. \A v : {i \in A : stored'[i].work = v} = {i \in A : stored[i].work = v}
    BY <1>3
  <2>3. \A v : Crowded(A, v)' = Crowded(A, v) /\ WorkType(A, v)' = WorkType(A, v)
    BY <2>1, <2>2 DEF Crowded, WorkType
  <2> QED
    BY <1>1, <1>2, <2>3 DEF ws
<1>9. score_agg(l)' = score_agg(l)
  <2>1. ASSUME NEW b
        PROVE  /\ (A \cap In(b))' = A \cap In(b)
               /\ AverageScore(A \cap In(b))' = AverageScore(A \cap In(b))
    <3>1. PICK B : B = A \cap In(b)
      OBVIOUS
    <3>2. (A \cap In(b))' = B /\ Kept(B)
      BY <1>2, <3>1, SameInTime
    <3>3. AverageScore(B)' = AverageScore(B)
      BY <3>2, SameColumns
    <3> QED
      BY <3>1, <3>2, <3>3
  <2> QED
    BY <1>1, <1>2, <1>3, <1>4, <2>1 DEF score_agg
<1> QED
  BY <1>1, <1>2, <1>4, <1>5, <1>6, <1>7, <1>8, <1>9, UuidAssumption DEF GetLocationDetail

\* What is stored stays, and so do the scores.
LEMMA StoredStays ==
    ASSUME LogInv, [Next]_vars
    PROVE  scored \subseteq scored' /\ \A i \in Rows : stored'[i] = stored[i]
<1>1. ASSUME NEW s \in Submission, Record(s)
      PROVE  scored \subseteq scored' /\ \A i \in Rows : stored'[i] = stored[i]
  BY <1>1 DEF Record, LogInv, Rows
<1>2. CASE Backfill
  BY <1>2 DEF Backfill, LogInv, Rows
<1>3. CASE UNCHANGED vars
  BY <1>3 DEF vars
<1> QED
  BY <1>1, <1>2, <1>3 DEF Next

\* The check-ins a step changes: recorded, or scored.
ChangedIds == {i \in Id : stored'[i] # stored[i] \/ i \in scored' \ scored}

\* The check-ins of a location, and of a user, stay unless one of theirs is changed.
LEMMA LocationKept ==
    ASSUME LogInv, [Next]_vars, NEW l \in Location, \A i \in ChangedIds : stored'[i].loc # l
    PROVE  At(l)' = At(l) /\ Kept(At(l))
<1>1. \A i \in Rows : i \in Id /\ stored'[i] = stored[i]
  BY StoredStays DEF Rows
<1>2. \A i \in Id : stored'[i].loc = l => stored'[i] = stored[i] /\ i \notin scored' \ scored
  BY DEF ChangedIds
<1>3. At(l)' = At(l)
  BY <1>1, <1>2 DEF At, Rows
<1>4. \A i \in At(l) : i \in Rows /\ stored[i].loc = l
  BY DEF At
<1>5. At(l) \cap scored' = At(l) \cap scored
  BY <1>1, <1>2, <1>4, StoredStays
<1> QED
  BY <1>1, <1>3, <1>4, <1>5 DEF Kept

\* So do a user's check-ins at a location.
LEMMA UserKept ==
    ASSUME LogInv, [Next]_vars, NEW u \in User, \A i \in ChangedIds : stored'[i].user # u,
           NEW l
    PROVE  (At(l) \cap Of(u))' = At(l) \cap Of(u) /\ Kept(At(l) \cap Of(u))
<1>1. \A i \in Rows : i \in Id /\ stored'[i] = stored[i]
  BY StoredStays DEF Rows
<1>2. \A i \in Id : stored'[i].user = u => stored'[i] = stored[i] /\ i \notin scored' \ scored
  BY DEF ChangedIds
<1>3. PICK P : P = At(l) \cap Of(u)
  OBVIOUS
<1>4. P = {i \in Id : stored[i] # None /\ stored[i].loc = l /\ stored[i].user = u}
  BY <1>3 DEF At, Of, Rows
<1>5. (At(l) \cap Of(u))' = {i \in Id : stored'[i] # None /\ stored'[i].loc = l /\ stored'[i].user = u}
  BY DEF At, Of, Rows
<1>6. (At(l) \cap Of(u))' = P
  BY <1>1, <1>2, <1>4, <1>5 DEF Rows
<1>7. \A i \in P : i \in Rows /\ stored[i].user = u
  BY <1>4 DEF Rows
<1>8. P \cap scored' = P \cap scored
  BY <1>1, <1>2, <1>7, StoredStays
<1>9. Kept(P)
  BY <1>1, <1>7, <1>8 DEF Kept
<1> QED
  BY <1>3, <1>6, <1>9

\* Somebody's rows of the locations stay unless one of their check-ins is changed.
LEMMA SameUserRows ==
    ASSUME LogInv, [Next]_vars, NEW u \in User, \A i \in ChangedIds : stored'[i].user # u
    PROVE  GetUserLocations(u, u)' = GetUserLocations(u, u)
<1>1. ASSUME NEW l
      PROVE  /\ (At(l) \cap Of(u))' = At(l) \cap Of(u)
             /\ Averages(At(l) \cap Of(u))' = Averages(At(l) \cap Of(u))
  <2>1. PICK P : P = At(l) \cap Of(u)
    OBVIOUS
  <2>2. (At(l) \cap Of(u))' = P /\ Kept(P)
    BY <2>1, UserKept
  <2>3. Averages(P)' = Averages(P)
    BY <2>2, SameAverages
  <2> QED
    BY <2>1, <2>2, <2>3
<1> QED
  BY <1>1 DEF GetUserLocations

\* A check-in, or its score, changes what is reported of its own location and to its own
\* user, and of nothing and to nobody else.
THEOREM KeepToThemselves == Spec => OnlyItsOwnReports
<1> DEFINE Own ==
        /\ \A l \in Location :
               <<LocationAverages(l), GetLocationDetail(l)>>'
                       # <<LocationAverages(l), GetLocationDetail(l)>>
                   => \E i \in ChangedIds : stored'[i].loc = l
        /\ \A u \in User :
               GetUserLocations(u, u)' # GetUserLocations(u, u)
                   => \E i \in ChangedIds : stored'[i].user = u
<1>1. LogInv /\ [Next]_vars => [Own]_vars
  <2> SUFFICES ASSUME LogInv, [Next]_vars PROVE Own
    OBVIOUS
  <2>1. ASSUME NEW l \in Location, \A i \in ChangedIds : stored'[i].loc # l
        PROVE  <<LocationAverages(l), GetLocationDetail(l)>>'
                   = <<LocationAverages(l), GetLocationDetail(l)>>
    <3>1. At(l)' = At(l) /\ Kept(At(l))
      BY <2>1, LocationKept
    <3>2. GetLocationDetail(l)' = GetLocationDetail(l)
      BY <3>1, SameDetail
    <3>3. PICK A : A = At(l)
      OBVIOUS
    <3>4. At(l)' = A /\ Averages(A)' = Averages(A)
      BY <3>1, <3>3, SameAverages
    <3>5. LocationAverages(l)' = LocationAverages(l)
      BY <3>3, <3>4 DEF LocationAverages
    <3> QED
      BY <3>2, <3>5
  <2>2. ASSUME NEW u \in User, \A i \in ChangedIds : stored'[i].user # u
        PROVE  GetUserLocations(u, u)' = GetUserLocations(u, u)
    BY <2>2, SameUserRows
  <2> QED
    BY <2>1, <2>2
<1> QED
  BY <1>1, LogInvAlways, PTL DEF Spec, OnlyItsOwnReports, ChangedIds
====
