--------------------------- MODULE ReportsProofs ----------------------------
(***************************************************************************)
(* Proofs about the reports on a bank account, for statements of any       *)
(* length, with any entries, and about the health score of a table.  The   *)
(* reports add up rows, each for itself; so the first part is about sums   *)
(* over finite sets.                                                       *)
(***************************************************************************)
EXTENDS MCReports, FiniteSetTheorems, WellFoundedInduction, TLAPS

-----------------------------------------------------------------------------
(* Induction, with a set for the predicate *)

LEMMA SmallestNat ==
  ASSUME NEW T \in SUBSET Nat, T # {}
  PROVE  \E m \in T : \A n \in T : m <= n
  <1> DEFINE R == {p \in Nat \X Nat : p[1] < p[2]}
  <1>1. IsWellFoundedOn(R, Nat)
    BY NatLessThanWellFounded DEF OpToRel
  <1> HIDE DEF R
  <1>2. PICK m \in T : \A n \in T : ~(<<n, m>> \in R)
    BY <1>1, WFMin
  <1>3. \A n \in T : ~(n < m)
    BY <1>2 DEF R
  <1> QED BY <1>3

\* What holds of nothing and goes on holding when an element is added
LEMMA BySize ==
  ASSUME NEW S, IsFiniteSet(S), NEW P, {} \in P,
         \A T \in SUBSET S : \A x \in S \ T : T \in P => T \cup {x} \in P
  PROVE  S \in P
  <1> SUFFICES ASSUME S \notin P PROVE FALSE
    OBVIOUS
  <1> DEFINE Bad == {T \in SUBSET S : T \notin P}
             Sizes == {Cardinality(T) : T \in Bad}
  <1>1. \A T \in SUBSET S : IsFiniteSet(T) /\ Cardinality(T) \in Nat
    BY FS_Subset, FS_CardinalityType
  <1>2. Sizes \in SUBSET Nat /\ Sizes # {}
    BY <1>1
  <1>3. PICK m \in Sizes : \A n \in Sizes : m <= n
    BY <1>2, SmallestNat
  <1>4. PICK T \in Bad : Cardinality(T) = m
    BY <1>3
  <1>5. PICK x : x \in T
    BY <1>4
  <1>6. IsFiniteSet(T) /\ Cardinality(T) \in Nat
    BY <1>1, <1>4
  <1>7. Cardinality(T \ {x}) = Cardinality(T) - 1
    BY <1>5, <1>6, FS_RemoveElement
  <1>8. T \ {x} \notin Bad
    BY <1>3, <1>4, <1>6, <1>7
  <1>9. T \ {x} \in SUBSET S /\ x \in S \ (T \ {x}) /\ T = (T \ {x}) \cup {x}
    BY <1>4, <1>5
  <1> HIDE DEF Sizes
  <1>10. T \ {x} \in P
    BY <1>8, <1>9
  <1> QED BY <1>4, <1>9, <1>10

LEMMA UpTo ==
  ASSUME NEW n \in Nat, NEW P, 0 \in P,
         \A m \in 0 .. n - 1 : m \in P => m + 1 \in P
  PROVE  n \in P
  <1> SUFFICES ASSUME n \notin P PROVE FALSE
    OBVIOUS
  <1> DEFINE Bad == {m \in 0 .. n : m \notin P}
  <1>1. Bad \in SUBSET Nat /\ Bad # {}
    OBVIOUS
  <1>2. PICK m \in Bad : \A k \in Bad : m <= k
    BY <1>1, SmallestNat
  <1>3. m # 0 /\ m - 1 \in 0 .. n - 1 /\ m - 1 \notin Bad
    BY <1>2
  <1> QED BY <1>2, <1>3

-----------------------------------------------------------------------------
(* Sums: SumFunctionOnSet and SumFunction of the module Functions *)

Some(s) == CHOOSE x \in s : TRUE
Folded(f, g, s) == IF s = {} THEN 0 ELSE f[Some(s)] + g[s \ {Some(s)}]

LEMMA FoldExists ==
  ASSUME NEW S, IsFiniteSet(S), NEW f
  PROVE  \E g : g = [s \in SUBSET S |-> Folded(f, g, s)]
  <1> DEFINE Small(n) == {s \in SUBSET S : Cardinality(s) <= n}
             P == {n \in Nat : \E g : g = [s \in Small(n) |-> Folded(f, g, s)]}
             N == Cardinality(S)
  <1>1. \A T \in SUBSET S : /\ IsFiniteSet(T) /\ Cardinality(T) \in Nat
                            /\ Cardinality(T) <= N
    BY FS_Subset, FS_CardinalityType
  <1>2. \A s \in SUBSET S : s # {} =>
           s \ {Some(s)} \in SUBSET S /\ Cardinality(s \ {Some(s)}) = Cardinality(s) - 1
    <2> SUFFICES ASSUME NEW s \in SUBSET S, s # {}
          PROVE  Cardinality(s \ {Some(s)}) = Cardinality(s) - 1
      OBVIOUS
    <2>1. Some(s) \in s
      BY DEF Some
    <2> QED BY <1>1, <2>1, FS_RemoveElement
  <1>3. 0 \in P
    <2> DEFINE g == [s \in Small(0) |-> 0]
    <2>1. \A s \in Small(0) : s = {}
      BY <1>1, FS_EmptySet
    <2>2. \A s \in Small(0) : Folded(f, g, s) = 0
      BY <2>1 DEF Folded
    <2>3. g = [s \in Small(0) |-> Folded(f, g, s)]
      BY <2>2
    <2> QED BY <2>3
  <1>4. ASSUME NEW m \in 0 .. N - 1, m \in P
        PROVE  m + 1 \in P
    <2>1. PICK g : g = [s \in Small(m) |-> Folded(f, g, s)]
      BY <1>4
    <2> DEFINE h == [s \in Small(m + 1) |-> Folded(f, g, s)]
    <2>2. \A s \in Small(m) : s \in Small(m + 1) /\ h[s] = g[s]
      BY <1>1, <2>1
    <2>3. \A s \in Small(m + 1) : s # {} => s \ {Some(s)} \in Small(m)
      BY <1>1, <1>2
    <2>4. \A s \in Small(m + 1) : Folded(f, g, s) = Folded(f, h, s)
      BY <2>2, <2>3 DEF Folded
    <2>5. h = [s \in Small(m + 1) |-> Folded(f, h, s)]
      BY <2>4
    <2>6. m + 1 \in Nat
      BY FS_CardinalityType
    <2> QED BY <2>5, <2>6
  <1>5. N \in Nat
    BY FS_CardinalityType
  <1> HIDE DEF P, N
  <1>6. N \in P
    BY <1>3, <1>4, <1>5, UpTo
  <1>7. Small(N) = SUBSET S
    BY <1>1
  <1> QED BY <1>6, <1>7 DEF P

\* The fold of the community modules, one element at a time
LEMMA SumUnfolds ==
  ASSUME NEW S, IsFiniteSet(S), NEW f
  PROVE  \E g : /\ g = [s \in SUBSET S |-> Folded(f, g, s)]
                /\ SumFunctionOnSet(f, S) = g[S]
  <1> DEFINE It == CHOOSE g : g = [s \in SUBSET S |-> Folded(f, g, s)]
  <1>1. It = [s \in SUBSET S |-> Folded(f, It, s)]
    BY FoldExists
  <1>2. SumFunctionOnSet(f, S) = It[S]
    BY DEF SumFunctionOnSet, FoldFunctionOnSet, MapThenFoldSet, Folded, Some
  <1> QED BY <1>1, <1>2

LEMMA SumEmpty ==
  ASSUME NEW f
  PROVE  SumFunctionOnSet(f, {}) = 0
  <1>1. PICK g : /\ g = [s \in SUBSET {} |-> Folded(f, g, s)]
                 /\ SumFunctionOnSet(f, {}) = g[{}]
    BY SumUnfolds, FS_EmptySet
  <1>2. {} \in SUBSET {}
    OBVIOUS
  <1> QED BY <1>1, <1>2 DEF Folded

Folds(f, g, S) == \A s \in SUBSET S : g[s] = Folded(f, g, s)

LEMMA FoldUnique ==
  ASSUME NEW S, IsFiniteSet(S), NEW U \in SUBSET S, NEW f,
         NEW g, Folds(f, g, S), NEW h, Folds(f, h, U)
  PROVE  \A s \in SUBSET U : g[s] = h[s]
  <1> DEFINE P == {n \in Nat : \A s \in SUBSET U : Cardinality(s) <= n => g[s] = h[s]}
             N == Cardinality(U)
  <1>1. \A T \in SUBSET U : /\ IsFiniteSet(T) /\ Cardinality(T) \in Nat
                            /\ Cardinality(T) <= N
    BY FS_Subset, FS_CardinalityType
  <1>2. \A s \in SUBSET U : g[s] = Folded(f, g, s) /\ h[s] = Folded(f, h, s)
    BY DEF Folds
  <1>3. 0 \in P
    <2> SUFFICES ASSUME NEW s \in SUBSET U, Cardinality(s) <= 0
          PROVE  g[s] = h[s]
      OBVIOUS
    <2>1. s = {}
      BY <1>1, FS_EmptySet
    <2> QED BY <1>2, <2>1 DEF Folded
  <1>4. N \in Nat
    BY <1>1
  <1>5. ASSUME NEW m \in 0 .. N - 1, m \in P
        PROVE  m + 1 \in P
    <2>1. m + 1 \in Nat
      BY <1>4
    <2> SUFFICES ASSUME NEW s \in SUBSET U, Cardinality(s) <= m + 1, s # {}
          PROVE  g[s] = h[s]
      BY <2>1, <1>2 DEF Folded
    <2>2. Some(s) \in s
      BY DEF Some
    <2>3. Cardinality(s \ {Some(s)}) = Cardinality(s) - 1
      BY <1>1, <2>2, FS_RemoveElement
    <2>4. s \ {Some(s)} \in SUBSET U /\ Cardinality(s) \in Nat
      BY <1>1
    <2>5. Cardinality(s \ {Some(s)}) <= m
      BY <2>1, <2>3, <2>4
    <2>6. g[s \ {Some(s)}] = h[s \ {Some(s)}]
      BY <1>5, <2>4, <2>5
    <2> QED BY <1>2, <2>6 DEF Folded
  <1> HIDE DEF P, N
  <1>6. N \in P
    BY <1>3, <1>4, <1>5, UpTo
  <1> QED BY <1>1, <1>6 DEF P

LEMMA SumPicks ==
  ASSUME NEW S, IsFiniteSet(S), S # {}, NEW f
  PROVE  SumFunctionOnSet(f, S)
            = f[Some(S)] + SumFunctionOnSet(f, S \ {Some(S)})
  <1> DEFINE U == S \ {Some(S)}
  <1>1. IsFiniteSet(U) /\ U \in SUBSET S
    BY FS_RemoveElement
  <1>2. PICK g : /\ g = [s \in SUBSET S |-> Folded(f, g, s)]
                 /\ SumFunctionOnSet(f, S) = g[S]
    BY SumUnfolds
  <1> HIDE DEF U
  <1>3. PICK h : /\ h = [s \in SUBSET U |-> Folded(f, h, s)]
                 /\ SumFunctionOnSet(f, U) = h[U]
    BY <1>1, SumUnfolds
  <1>4. \A s \in SUBSET U : g[s] = h[s]
    <2>1. Folds(f, g, S)
      BY <1>2 DEF Folds
    <2>2. Folds(f, h, U)
      BY <1>3 DEF Folds
    <2> QED BY <1>1, <2>1, <2>2, FoldUnique
  <1>5. g[U] = h[U]
    BY <1>4
  <1>6. g[S] = f[Some(S)] + g[U]
    BY <1>2 DEF Folded, U
  <1> QED BY <1>2, <1>3, <1>5, <1>6 DEF U

LEMMA SumIsInt ==
  ASSUME NEW S, IsFiniteSet(S), NEW f, \A x \in S : f[x] \in Int
  PROVE  SumFunctionOnSet(f, S) \in Int
  <1> DEFINE P == {n \in Nat : \A s \in SUBSET S :
                      Cardinality(s) <= n => SumFunctionOnSet(f, s) \in Int}
             N == Cardinality(S)
  <1>1. \A T \in SUBSET S : /\ IsFiniteSet(T) /\ Cardinality(T) \in Nat
                            /\ Cardinality(T) <= N
    BY FS_Subset, FS_CardinalityType
  <1>2. 0 \in P
    <2> SUFFICES ASSUME NEW s \in SUBSET S, Cardinality(s) <= 0
          PROVE  SumFunctionOnSet(f, s) \in Int
      OBVIOUS
    <2>1. s = {}
      BY <1>1, FS_EmptySet
    <2> QED BY <2>1, SumEmpty
  <1>3. N \in Nat
    BY <1>1
  <1>4. ASSUME NEW m \in 0 .. N - 1, m \in P
        PROVE  m + 1 \in P
    <2>1. m + 1 \in Nat
      BY <1>3
    <2> SUFFICES ASSUME NEW s \in SUBSET S, Cardinality(s) <= m + 1, s # {}
          PROVE  SumFunctionOnSet(f, s) \in Int
      BY <2>1, SumEmpty
    <2>2. Some(s) \in s
      BY DEF Some
    <2>3. Cardinality(s \ {Some(s)}) = Cardinality(s) - 1
      BY <1>1, <2>2, FS_RemoveElement
    <2>4. s \ {Some(s)} \in SUBSET S /\ Cardinality(s) \in Nat
      BY <1>1
    <2>5. Cardinality(s \ {Some(s)}) <= m
      BY <2>1, <2>3, <2>4
    <2>6. SumFunctionOnSet(f, s \ {Some(s)}) \in Int
      BY <1>4, <2>4, <2>5
    <2>7. IsFiniteSet(s) /\ f[Some(s)] \in Int
      BY <1>1, <2>2
    <2>8. SumFunctionOnSet(f, s)
            = f[Some(s)] + SumFunctionOnSet(f, s \ {Some(s)})
      BY <2>7, SumPicks
    <2> QED BY <2>6, <2>7, <2>8
  <1> HIDE DEF P, N
  <1>5. N \in P
    BY <1>2, <1>3, <1>4, UpTo
  <1> QED BY <1>1, <1>5 DEF P

\* A sum takes its elements in any order.
LEMMA SumTakes ==
  ASSUME NEW S, IsFiniteSet(S), NEW f, \A x \in S : f[x] \in Int, NEW x \in S
  PROVE  SumFunctionOnSet(f, S) = f[x] + SumFunctionOnSet(f, S \ {x})
  <1> DEFINE Takes(T, z) == SumFunctionOnSet(f, T) = f[z] + SumFunctionOnSet(f, T \ {z})
             P == {n \in Nat : \A T \in SUBSET S :
                      Cardinality(T) <= n => \A z \in T : Takes(T, z)}
             N == Cardinality(S)
  <1>1. \A T \in SUBSET S : /\ IsFiniteSet(T) /\ Cardinality(T) \in Nat
                            /\ Cardinality(T) <= N
                            /\ SumFunctionOnSet(f, T) \in Int
    <2> SUFFICES ASSUME NEW T \in SUBSET S
          PROVE  /\ IsFiniteSet(T) /\ Cardinality(T) \in Nat
                 /\ Cardinality(T) <= N /\ SumFunctionOnSet(f, T) \in Int
      OBVIOUS
    <2>1. IsFiniteSet(T) /\ Cardinality(T) \in Nat /\ Cardinality(T) <= N
      BY FS_Subset, FS_CardinalityType
    <2> QED BY <2>1, SumIsInt
  <1>2. 0 \in P
    <2> SUFFICES ASSUME NEW T \in SUBSET S, Cardinality(T) <= 0, NEW z \in T
          PROVE  Takes(T, z)
      OBVIOUS
    <2> QED BY <1>1, FS_EmptySet
  <1>3. N \in Nat
    BY <1>1
  <1>4. ASSUME NEW m \in 0 .. N - 1, m \in P
        PROVE  m + 1 \in P
    <2>1. m + 1 \in Nat
      BY <1>3
    <2> SUFFICES ASSUME NEW T \in SUBSET S, Cardinality(T) <= m + 1, NEW z \in T
          PROVE  Takes(T, z)
      BY <2>1
    <2> DEFINE y == Some(T)
    <2>2. y \in T
      BY DEF Some
    <2>3. IsFiniteSet(T) /\ Cardinality(T) \in Nat
      BY <1>1
    <2>4. Takes(T, y)
      BY <2>2, <2>3, SumPicks
    <2>5. CASE z = y
      BY <2>4, <2>5
    <2>6. CASE z # y
      <3> DEFINE A == T \ {y}
                 B == T \ {z}
                 C == T \ {y, z}
      <3>1. Cardinality(A) = Cardinality(T) - 1 /\ Cardinality(B) = Cardinality(T) - 1
        BY <2>2, <2>3, FS_RemoveElement
      <3>2. Cardinality(A) <= m /\ Cardinality(B) <= m
        BY <2>1, <2>3, <3>1
      <3>3. A \in SUBSET S /\ B \in SUBSET S /\ C \in SUBSET S /\ z \in A /\ y \in B
        BY <2>2, <2>6
      <3>4. A \ {z} = C /\ B \ {y} = C
        OBVIOUS
      <3>5. Takes(A, z) /\ Takes(B, y)
        BY <1>4, <3>2, <3>3
      <3>6. /\ SumFunctionOnSet(f, A) = f[z] + SumFunctionOnSet(f, C)
            /\ SumFunctionOnSet(f, B) = f[y] + SumFunctionOnSet(f, C)
        BY <3>4, <3>5
      <3>7. /\ SumFunctionOnSet(f, A) \in Int /\ SumFunctionOnSet(f, B) \in Int
            /\ SumFunctionOnSet(f, C) \in Int /\ f[y] \in Int /\ f[z] \in Int
        BY <1>1, <2>2, <3>3
      <3>8. SumFunctionOnSet(f, T) = f[y] + SumFunctionOnSet(f, A)
        BY <2>4
      <3> HIDE DEF A, B, C, y
      <3>9. SumFunctionOnSet(f, T) = f[z] + SumFunctionOnSet(f, B)
        BY <3>6, <3>7, <3>8
      <3> QED BY <3>9 DEF B
    <2> QED BY <2>5, <2>6
  <1> HIDE DEF P, N
  <1>5. N \in P
    BY <1>2, <1>3, <1>4, UpTo
  <1>6. S \in SUBSET S /\ Cardinality(S) <= N
    BY <1>1
  <1>7. Takes(S, x)
    BY <1>5, <1>6 DEF P
  <1> QED BY <1>7

IntsOn(f, S) == \A x \in S : f[x] \in Int

LEMMA SumInserts ==
  ASSUME NEW S, IsFiniteSet(S), NEW f, NEW x, x \notin S,
         IntsOn(f, S), f[x] \in Int
  PROVE  /\ SumFunctionOnSet(f, S \cup {x}) = f[x] + SumFunctionOnSet(f, S)
         /\ SumFunctionOnSet(f, S) \in Int
  <1> DEFINE T == S \cup {x}
  <1>1. IsFiniteSet(T) /\ x \in T /\ \A z \in T : f[z] \in Int
    BY FS_AddElement DEF IntsOn
  <1>2. T \ {x} = S
    OBVIOUS
  <1> HIDE DEF T
  <1>3. SumFunctionOnSet(f, T) = f[x] + SumFunctionOnSet(f, T \ {x})
    BY <1>1, SumTakes
  <1>4. SumFunctionOnSet(f, S) \in Int
    BY SumIsInt DEF IntsOn
  <1> QED BY <1>2, <1>3, <1>4 DEF T

LEMMA SumSame ==
  ASSUME NEW S, IsFiniteSet(S), NEW f, NEW g, IntsOn(f, S),
         \A x \in S : f[x] = g[x]
  PROVE  SumFunctionOnSet(f, S) = SumFunctionOnSet(g, S)
  <1> DEFINE P == {T \in SUBSET S : SumFunctionOnSet(f, T) = SumFunctionOnSet(g, T)}
  <1>1. {} \in P
    BY SumEmpty
  <1>2. ASSUME NEW T \in SUBSET S, NEW x \in S \ T, T \in P
        PROVE  T \cup {x} \in P
    <2>1. IsFiniteSet(T) /\ IntsOn(f, T) /\ f[x] \in Int
      BY FS_Subset DEF IntsOn
    <2>2. IntsOn(g, T) /\ g[x] = f[x]
      BY <2>1 DEF IntsOn
    <2>3. SumFunctionOnSet(f, T \cup {x}) = f[x] + SumFunctionOnSet(f, T)
      BY <2>1, SumInserts
    <2>4. SumFunctionOnSet(g, T \cup {x}) = g[x] + SumFunctionOnSet(g, T)
      BY <2>1, <2>2, SumInserts
    <2> QED BY <1>2, <2>2, <2>3, <2>4
  <1> HIDE DEF P
  <1>3. S \in P
    BY <1>1, <1>2, BySize
  <1> QED BY <1>3 DEF P

LEMMA SumUnion ==
  ASSUME NEW S, IsFiniteSet(S), NEW T, IsFiniteSet(T), S \cap T = {},
         NEW f, IntsOn(f, S), IntsOn(f, T)
  PROVE  SumFunctionOnSet(f, S \cup T)
            = SumFunctionOnSet(f, S) + SumFunctionOnSet(f, T)
  <1> DEFINE P == {U \in SUBSET T : SumFunctionOnSet(f, S \cup U)
                      = SumFunctionOnSet(f, S) + SumFunctionOnSet(f, U)}
  <1>0. SumFunctionOnSet(f, S) \in Int
    BY SumIsInt DEF IntsOn
  <1>1. {} \in P
    <2>1. S \cup {} = S
      OBVIOUS
    <2> QED BY <1>0, <2>1, SumEmpty
  <1>2. ASSUME NEW U \in SUBSET T, NEW x \in T \ U, U \in P
        PROVE  U \cup {x} \in P
    <2> DEFINE V == S \cup U
    <2>1. IsFiniteSet(U) /\ IntsOn(f, U) /\ f[x] \in Int
      BY FS_Subset DEF IntsOn
    <2>2. IsFiniteSet(V) /\ IntsOn(f, V) /\ x \notin V /\ S \cup (U \cup {x}) = V \cup {x}
      BY <2>1, FS_Union DEF IntsOn
    <2>3. SumFunctionOnSet(f, V) = SumFunctionOnSet(f, S) + SumFunctionOnSet(f, U)
      BY <1>2
    <2> HIDE DEF V
    <2>4. SumFunctionOnSet(f, U \cup {x}) = f[x] + SumFunctionOnSet(f, U)
          /\ SumFunctionOnSet(f, U) \in Int
      BY <2>1, SumInserts
    <2>5. SumFunctionOnSet(f, V \cup {x}) = f[x] + SumFunctionOnSet(f, V)
      BY <2>1, <2>2, SumInserts
    <2>6. SumFunctionOnSet(f, S \cup (U \cup {x})) = f[x] + SumFunctionOnSet(f, V)
      BY <2>2, <2>5
    <2>7. SumFunctionOnSet(f, S \cup (U \cup {x}))
             = SumFunctionOnSet(f, S) + SumFunctionOnSet(f, U \cup {x})
      BY <1>0, <2>1, <2>3, <2>4, <2>6
    <2> QED BY <2>7
  <1> HIDE DEF P
  <1>3. T \in P
    BY <1>1, <1>2, BySize
  <1> QED BY <1>3 DEF P

LEMMA SumBounds ==
  ASSUME NEW S, IsFiniteSet(S), NEW f, NEW g, IntsOn(f, S), IntsOn(g, S),
         \A x \in S : f[x] <= g[x]
  PROVE  SumFunctionOnSet(f, S) <= SumFunctionOnSet(g, S)
  <1> DEFINE P == {T \in SUBSET S : SumFunctionOnSet(f, T) <= SumFunctionOnSet(g, T)}
  <1>1. {} \in P
    BY SumEmpty
  <1>2. ASSUME NEW T \in SUBSET S, NEW x \in S \ T, T \in P
        PROVE  T \cup {x} \in P
    <2>1. IsFiniteSet(T) /\ IntsOn(f, T) /\ f[x] \in Int
          /\ IntsOn(g, T) /\ g[x] \in Int /\ f[x] <= g[x]
      BY FS_Subset DEF IntsOn
    <2>2. /\ SumFunctionOnSet(f, T \cup {x}) = f[x] + SumFunctionOnSet(f, T)
          /\ SumFunctionOnSet(f, T) \in Int
      BY <2>1, SumInserts
    <2>3. /\ SumFunctionOnSet(g, T \cup {x}) = g[x] + SumFunctionOnSet(g, T)
          /\ SumFunctionOnSet(g, T) \in Int
      BY <2>1, SumInserts
    <2> QED BY <1>2, <2>1, <2>2, <2>3
  <1> HIDE DEF P
  <1>3. S \in P
    BY <1>1, <1>2, BySize
  <1> QED BY <1>3 DEF P

LEMMA SumOfNothing ==
  ASSUME NEW S, IsFiniteSet(S), NEW f, \A x \in S : f[x] = 0
  PROVE  SumFunctionOnSet(f, S) = 0
  <1> DEFINE P == {T \in SUBSET S : SumFunctionOnSet(f, T) = 0}
  <1>1. {} \in P
    BY SumEmpty
  <1>2. ASSUME NEW T \in SUBSET S, NEW x \in S \ T, T \in P
        PROVE  T \cup {x} \in P
    <2>1. IsFiniteSet(T) /\ IntsOn(f, T) /\ f[x] = 0
      BY FS_Subset DEF IntsOn
    <2>2. SumFunctionOnSet(f, T \cup {x}) = f[x] + SumFunctionOnSet(f, T)
      BY <2>1, SumInserts
    <2> QED BY <1>2, <2>1, <2>2
  <1> HIDE DEF P
  <1>3. S \in P
    BY <1>1, <1>2, BySize
  <1> QED BY <1>3 DEF P

LEMMA SumNotNegative ==
  ASSUME NEW S, IsFiniteSet(S), NEW f, IntsOn(f, S), \A x \in S : f[x] >= 0
  PROVE  SumFunctionOnSet(f, S) \in Nat
  <1> DEFINE z == [x \in S |-> 0]
  <1>1. IntsOn(z, S) /\ \A x \in S : z[x] = 0
    BY DEF IntsOn
  <1>2. \A x \in S : z[x] <= f[x]
    BY DEF IntsOn
  <1> HIDE DEF z
  <1>3. SumFunctionOnSet(z, S) <= SumFunctionOnSet(f, S)
    BY <1>1, <1>2, SumBounds
  <1>4. SumFunctionOnSet(z, S) = 0
    BY <1>1, SumOfNothing
  <1>5. SumFunctionOnSet(f, S) \in Int
    BY SumIsInt DEF IntsOn
  <1> QED BY <1>3, <1>4, <1>5

\* A part of what is not negative adds up to no more.
LEMMA SumOfPart ==
  ASSUME NEW S, IsFiniteSet(S), NEW T \in SUBSET S,
         NEW f, IntsOn(f, S), \A x \in S : f[x] >= 0
  PROVE  SumFunctionOnSet(f, T) <= SumFunctionOnSet(f, S)
  <1> DEFINE U == S \ T
  <1>1. IsFiniteSet(T) /\ IsFiniteSet(U) /\ T \cap U = {} /\ T \cup U = S
    BY FS_Subset
  <1>2. IntsOn(f, T) /\ IntsOn(f, U) /\ \A x \in U : f[x] >= 0
    BY DEF IntsOn
  <1> HIDE DEF U
  <1>3. SumFunctionOnSet(f, T \cup U)
           = SumFunctionOnSet(f, T) + SumFunctionOnSet(f, U)
    BY <1>1, <1>2, SumUnion
  <1>4. SumFunctionOnSet(f, U) \in Nat
    BY <1>1, <1>2, SumNotNegative
  <1>5. SumFunctionOnSet(f, T) \in Int
    BY <1>1, <1>2, SumIsInt DEF IntsOn
  <1>6. SumFunctionOnSet(f, S) = SumFunctionOnSet(f, T) + SumFunctionOnSet(f, U)
    BY <1>1, <1>3
  <1> QED BY <1>4, <1>5, <1>6

\* The sums of the groups a set is split into add up to the sum of the set.
Groups(c, f, S, g, K) ==
    /\ \A x \in S : c[x] \in K
    /\ \A k \in K : g[k] = SumFunctionOnSet(f, {x \in S : c[x] = k})

LEMMA SumOfGroups ==
  ASSUME NEW S, IsFiniteSet(S), NEW f, IntsOn(f, S),
         NEW K, IsFiniteSet(K), NEW g, NEW c, Groups(c, f, S, g, K)
  PROVE  SumFunctionOnSet(g, K) = SumFunctionOnSet(f, S)
  <1> DEFINE In(T) == {x \in S : c[x] \in T}
             Group(k) == {x \in S : c[x] = k}
             P == {T \in SUBSET K : SumFunctionOnSet(g, T) = SumFunctionOnSet(f, In(T))}
  <1>0. \A T \in SUBSET S : IsFiniteSet(T) /\ IntsOn(f, T)
    BY FS_Subset DEF IntsOn
  <1>1. {} \in P
    <2>1. In({}) = {}
      OBVIOUS
    <2> QED BY <2>1, SumEmpty
  <1>2. \A k \in K : g[k] \in Int
    <2> SUFFICES ASSUME NEW k \in K PROVE SumFunctionOnSet(f, Group(k)) \in Int
      BY DEF Groups
    <2>1. IsFiniteSet(Group(k)) /\ \A x \in Group(k) : f[x] \in Int
      BY <1>0 DEF IntsOn
    <2> HIDE DEF Group
    <2> QED BY <2>1, SumIsInt
  <1>3. ASSUME NEW T \in SUBSET K, NEW k \in K \ T, T \in P
        PROVE  T \cup {k} \in P
    <2>1. IsFiniteSet(T) /\ IntsOn(g, T) /\ g[k] \in Int
      BY <1>2, FS_Subset DEF IntsOn
    <2>2. SumFunctionOnSet(g, T \cup {k}) = g[k] + SumFunctionOnSet(g, T)
          /\ SumFunctionOnSet(g, T) \in Int
      BY <2>1, SumInserts
    <2>3. In(T \cup {k}) = In(T) \cup Group(k) /\ In(T) \cap Group(k) = {}
      OBVIOUS
    <2>4. /\ IsFiniteSet(In(T)) /\ IsFiniteSet(Group(k))
          /\ IntsOn(f, In(T)) /\ IntsOn(f, Group(k))
      BY <1>0
    <2>5. SumFunctionOnSet(g, T) = SumFunctionOnSet(f, In(T))
      BY <1>3
    <2>6. g[k] = SumFunctionOnSet(f, Group(k))
      BY DEF Groups
    <2> HIDE DEF In, Group
    <2>7. SumFunctionOnSet(f, In(T) \cup Group(k))
             = SumFunctionOnSet(f, In(T)) + SumFunctionOnSet(f, Group(k))
      BY <2>3, <2>4, SumUnion
    <2>8. SumFunctionOnSet(f, In(T \cup {k})) = SumFunctionOnSet(f, In(T) \cup Group(k))
      BY <2>3
    <2>9. SumFunctionOnSet(f, In(T \cup {k})) = SumFunctionOnSet(g, T \cup {k})
      BY <2>1, <2>2, <2>5, <2>6, <2>7, <2>8
    <2> QED BY <2>9
  <1> HIDE DEF P
  <1>4. K \in P
    BY <1>1, <1>3, BySize
  <1>5. In(K) = S
    BY DEF Groups
  <1> QED BY <1>4, <1>5 DEF P

-----------------------------------------------------------------------------
(* The inductive invariant of Lending *)

Lines == Entries \cup UNION {{h[i] : i \in DOMAIN h} : h \in Histories}

LedgerRows ==
    [day : Int, amount : Int, base : Int \cup {None}, payee : {e.payee : e \in Lines},
     words : {e.words : e \in Lines}, at : Nat, id : Int, balance : Int \cup {None},
     own : BOOLEAN, anomalous : BOOLEAN]

\* What the reports are computed from
RowsOK(S) ==
    /\ S \subseteq LedgerRows /\ IsFiniteSet(S)
    /\ \A t \in S : IsEntry(t)
    /\ \A t, u \in S : t.id = u.id => t = u

LostRows == [at : Nat, amount : Int]

\* Each position has one row, or was lost; rows are dated in their order.
PlacesOK ==
    /\ \A t \in ledger : t.at \in 1 .. printed /\ t.id \in -printed .. printed
    /\ \A t, u \in ledger : /\ t.at = u.at => t = u
                            /\ t.at < u.at => t.day <= u.day
    /\ lost \subseteq LostRows /\ IsFiniteSet(lost)
    /\ \A x \in lost : x.at \in 1 .. printed
    /\ \A x, y \in lost : x.at = y.at => x = y
    /\ \A x \in lost, t \in ledger : x.at # t.at
    /\ \A i \in 1 .. printed : (\E t \in ledger : t.at = i) \/ (\E x \in lost : x.at = i)

\* What the statement printed: positions and amounts
LineOf(t) == [at |-> t.at, amount |-> t.amount]
Listing == {LineOf(t) : t \in ledger} \cup lost
ListedTo(i) == {x \in Listing : x.at <= i}

Amounts(T) == SumFunctionOnSet([x \in T |-> x.amount], T)

\* The balance after a position of a listing, where the statement prints it
BalanceAt(prints, L, i) == IF prints THEN Amounts({x \in L : x.at <= i}) ELSE None

BalancesOK ==
    /\ running = Amounts(Listing)
    /\ \A t \in ledger : t.balance = BalanceAt(stated, Listing, t.at)

LendingIInv ==
    /\ stated \in BOOLEAN
    /\ begun \in Nat /\ printed \in begun .. begun + MaxEntries /\ running \in Int
    /\ RowsOK(ledger) /\ PlacesOK /\ BalancesOK

-----------------------------------------------------------------------------
(* Sums of the amounts printed *)

LEMMA AmountsOver ==
  ASSUME NEW U \in SUBSET LostRows, IsFiniteSet(U), NEW T \in SUBSET U
  PROVE  /\ IsFiniteSet(T) /\ Amounts(T) \in Int
         /\ Amounts(T) = SumFunctionOnSet([x \in U |-> x.amount], T)
  <1> DEFINE f == [x \in U |-> x.amount]
             g == [x \in T |-> x.amount]
  <1>1. IsFiniteSet(T)
    BY FS_Subset
  <1>2. \A x \in U : x.amount \in Int
    BY DEF LostRows
  <1>3. IntsOn(g, T) /\ \A x \in T : g[x] = f[x]
    BY <1>2 DEF IntsOn
  <1> HIDE DEF f, g
  <1>4. SumFunctionOnSet(g, T) = SumFunctionOnSet(f, T)
    BY <1>1, <1>3, SumSame
  <1>5. SumFunctionOnSet(g, T) \in Int
    BY <1>1, <1>3, SumIsInt DEF IntsOn
  <1> QED BY <1>1, <1>4, <1>5 DEF f, g, Amounts

LEMMA AmountsGrow ==
  ASSUME NEW T \in SUBSET LostRows, IsFiniteSet(T), NEW x \in LostRows, x \notin T
  PROVE  /\ IsFiniteSet(T \cup {x}) /\ T \cup {x} \in SUBSET LostRows
         /\ Amounts(T) \in Int
         /\ Amounts(T \cup {x}) = Amounts(T) + x.amount
  <1> DEFINE U == T \cup {x}
             f == [y \in U |-> y.amount]
  <1>1. IsFiniteSet(U) /\ U \in SUBSET LostRows
    BY FS_AddElement
  <1>2. IntsOn(f, T) /\ f[x] = x.amount /\ f[x] \in Int
    BY DEF IntsOn, LostRows
  <1>3. T \in SUBSET U /\ U \in SUBSET U
    OBVIOUS
  <1> HIDE DEF U
  <1>4. /\ Amounts(T) = SumFunctionOnSet(f, T) /\ Amounts(T) \in Int
        /\ Amounts(U) = SumFunctionOnSet(f, U)
    BY <1>1, <1>3, AmountsOver
  <1> HIDE DEF f
  <1>5. SumFunctionOnSet(f, T \cup {x}) = f[x] + SumFunctionOnSet(f, T)
    BY <1>2, SumInserts
  <1>6. Amounts(U) = f[x] + Amounts(T)
    BY <1>4, <1>5 DEF U
  <1>7. Amounts(U) = Amounts(T) + x.amount
    BY <1>2, <1>4, <1>6
  <1> QED BY <1>1, <1>4, <1>7 DEF U

LEMMA AmountsSplit ==
  ASSUME NEW S \in SUBSET LostRows, IsFiniteSet(S),
         NEW T \in SUBSET LostRows, IsFiniteSet(T), S \cap T = {}
  PROVE  /\ Amounts(S \cup T) = Amounts(S) + Amounts(T)
         /\ Amounts(S) \in Int /\ Amounts(T) \in Int
  <1> DEFINE U == S \cup T
             f == [y \in U |-> y.amount]
  <1>1. IsFiniteSet(U) /\ U \in SUBSET LostRows
    BY FS_Union
  <1>2. IntsOn(f, S) /\ IntsOn(f, T)
    BY DEF IntsOn, LostRows
  <1>3. S \in SUBSET U /\ T \in SUBSET U /\ U \in SUBSET U
    OBVIOUS
  <1> HIDE DEF U
  <1>4. /\ Amounts(S) = SumFunctionOnSet(f, S) /\ Amounts(S) \in Int
        /\ Amounts(T) = SumFunctionOnSet(f, T) /\ Amounts(T) \in Int
        /\ Amounts(U) = SumFunctionOnSet(f, U)
    BY <1>1, <1>3, AmountsOver
  <1> HIDE DEF f
  <1>5. SumFunctionOnSet(f, S \cup T) = SumFunctionOnSet(f, S) + SumFunctionOnSet(f, T)
    BY <1>2, SumUnion
  <1>6. Amounts(U) = Amounts(S) + Amounts(T)
    BY <1>4, <1>5 DEF U
  <1> QED BY <1>4, <1>6 DEF U

LEMMA NoAmounts == Amounts({}) = 0
  BY SumEmpty DEF Amounts

\* The values of a function on a finite set
LEMMA FiniteImage ==
  ASSUME NEW S, IsFiniteSet(S), NEW f
  PROVE  IsFiniteSet({f[x] : x \in S})
  <1> DEFINE T == {f[x] : x \in S}
             g == [x \in S |-> f[x]]
  <1>1. g \in Surjection(S, T)
    BY DEF Surjection
  <1> QED BY <1>1, FS_Surjection

LEMMA ListingIs ==
  ASSUME LendingIInv
  PROVE  /\ Listing \in SUBSET LostRows /\ IsFiniteSet(Listing)
         /\ \A x \in Listing : x.at \in 1 .. printed
         /\ \A t \in ledger : LineOf(t) \in Listing
         /\ \A i \in Int : ListedTo(i) \in SUBSET Listing /\ IsFiniteSet(ListedTo(i))
  <1> DEFINE f == [t \in ledger |-> LineOf(t)]
  <1>1. IsFiniteSet(ledger) /\ IsFiniteSet(lost)
    BY DEF LendingIInv, RowsOK, PlacesOK
  <1>2. IsFiniteSet({f[t] : t \in ledger})
    BY <1>1, FiniteImage
  <1>3. Listing = {f[t] : t \in ledger} \cup lost
    BY DEF Listing
  <1>4. IsFiniteSet(Listing)
    BY <1>1, <1>2, <1>3, FS_Union
  <1>5. \A t \in ledger : t.at \in 1 .. printed /\ t.at \in Nat /\ t.amount \in Int
    BY DEF LendingIInv, RowsOK, PlacesOK, LedgerRows
  <1>6. \A t \in ledger : LineOf(t) \in LostRows /\ LineOf(t).at = t.at
    BY <1>5 DEF LineOf, LostRows
  <1>7. lost \subseteq LostRows /\ \A x \in lost : x.at \in 1 .. printed
    BY DEF LendingIInv, PlacesOK
  <1>8. Listing \in SUBSET LostRows /\ \A x \in Listing : x.at \in 1 .. printed
    BY <1>5, <1>6, <1>7 DEF Listing
  <1>9. \A i \in Int : ListedTo(i) \in SUBSET Listing /\ IsFiniteSet(ListedTo(i))
    BY <1>4, FS_Subset DEF ListedTo
  <1> QED BY <1>4, <1>8, <1>9 DEF Listing

-----------------------------------------------------------------------------
(* A statement is printed *)

LEMMA EntryRow ==
  ASSUME NEW e \in Lines, IsEntry(e), NEW i \in Nat, NEW id \in Int,
         NEW b \in Int \cup {None}, NEW r, r = RowOf(e, i, id, b)
  PROVE  /\ r \in LedgerRows /\ IsEntry(r) /\ r.day = e.day
         /\ r.at = i /\ r.id = id /\ r.balance = b /\ r.amount = e.amount
         /\ LineOf(r) = [at |-> i, amount |-> e.amount]
  BY DEF RowOf, LedgerRows, IsEntry, LineOf

\* The next line of the statement, read or lost
LEMMA NextLine ==
  ASSUME LendingIInv, NEW a \in Int, NEW n, n = [at |-> printed + 1, amount |-> a]
  PROVE  /\ n \in LostRows /\ n \notin Listing
         /\ Amounts(Listing \cup {n}) = running + a
         /\ \A i \in 1 .. printed : {x \in Listing \cup {n} : x.at <= i} = ListedTo(i)
         /\ {x \in Listing \cup {n} : x.at <= printed + 1} = Listing \cup {n}
  <1>1. /\ Listing \in SUBSET LostRows /\ IsFiniteSet(Listing)
        /\ \A x \in Listing : x.at \in 1 .. printed
    BY ListingIs
  <1>2. printed \in Nat /\ running = Amounts(Listing) /\ MaxEntries \in Nat
    BY LendingAssumption DEF LendingIInv, BalancesOK
  <1>3. n \in LostRows /\ n.at = printed + 1 /\ n.amount = a
    BY <1>2 DEF LostRows
  <1>4. n \notin Listing
    BY <1>1, <1>2, <1>3
  <1>5. Amounts(Listing \cup {n}) = Amounts(Listing) + n.amount
    BY <1>1, <1>3, <1>4, AmountsGrow
  <1>6. \A x \in Listing : x.at <= printed + 1 /\ x.at \in Int
    BY <1>1, <1>2
  <1>7. \A i \in 1 .. printed : {x \in Listing \cup {n} : x.at <= i} = ListedTo(i)
    BY <1>2, <1>3 DEF ListedTo
  <1>8. {x \in Listing \cup {n} : x.at <= printed + 1} = Listing \cup {n}
    BY <1>2, <1>3, <1>6
  <1> QED BY <1>2, <1>3, <1>4, <1>5, <1>7, <1>8

LEMMA BookKeeps ==
  ASSUME LendingIInv, NEW e \in Entries, Book(e), printed < begun + MaxEntries
  PROVE  LendingIInv'
  <1>1. PICK id \in {printed'} \cup {-printed' : t \in {u \in ledger : u.day = e.day}} :
           ledger' = ledger \cup {RowOf(e, printed', id, PrintedBalance(running'))}
    BY DEF Book
  <1>2. /\ \A t \in ledger : t.day <= e.day
        /\ printed' = printed + 1 /\ running' = running + e.amount
        /\ UNCHANGED <<stated, begun, lost>>
    BY DEF Book
  <1>3. /\ begun \in Nat /\ printed \in begun .. begun + MaxEntries /\ running \in Int
        /\ MaxEntries \in Nat /\ RowsOK(ledger) /\ PlacesOK /\ BalancesOK /\ stated \in BOOLEAN
    BY LendingAssumption DEF LendingIInv
  <1>4. printed \in Nat /\ IsEntry(e) /\ e \in Lines /\ e.amount \in Int /\ e.day \in Int
    BY <1>3, LendingAssumption DEF Lines, IsEntry
  <1>5. id \in Int /\ (id = printed + 1 \/ id = -(printed + 1))
    BY <1>1, <1>2, <1>4
  <1>6. PrintedBalance(running') \in Int \cup {None}
    BY <1>2, <1>3, <1>4 DEF PrintedBalance
  <1> DEFINE r == RowOf(e, printed', id, PrintedBalance(running'))
             n == [at |-> printed + 1, amount |-> e.amount]
             b == PrintedBalance(running')
  <1>7. printed' \in Nat
    BY <1>2, <1>4
  <1>8. /\ r \in LedgerRows /\ IsEntry(r) /\ r.day = e.day
        /\ r.at = printed + 1 /\ r.id = id /\ r.balance = b
        /\ r.amount = e.amount /\ LineOf(r) = n
    <2>1. b \in Int \cup {None} /\ r = RowOf(e, printed', id, b)
      BY <1>6
    <2> HIDE DEF r, b
    <2>2. /\ r \in LedgerRows /\ IsEntry(r) /\ r.day = e.day
          /\ r.at = printed' /\ r.id = id /\ r.balance = b
          /\ r.amount = e.amount /\ LineOf(r) = [at |-> printed', amount |-> e.amount]
      BY <1>4, <1>5, <1>7, <2>1, EntryRow
    <2> QED BY <1>2, <2>2
  <1>9. ledger' = ledger \cup {r}
    BY <1>1
  <1> HIDE DEF r
  <1>10. Listing' = Listing \cup {n}
    BY <1>2, <1>8, <1>9 DEF Listing
  <1>11. /\ n \in LostRows /\ n \notin Listing
         /\ Amounts(Listing \cup {n}) = running + e.amount
         /\ \A i \in 1 .. printed : {x \in Listing \cup {n} : x.at <= i} = ListedTo(i)
         /\ {x \in Listing \cup {n} : x.at <= printed + 1} = Listing \cup {n}
    BY <1>4, NextLine
  <1> HIDE DEF n
  <1>12. printed' \in begun' .. begun' + MaxEntries /\ running' \in Int
         /\ begun' \in Nat /\ stated' \in BOOLEAN
    BY <1>2, <1>3, <1>4
  <1>13. \A t \in ledger : /\ t.at \in 1 .. printed /\ t.id \in -printed .. printed
                           /\ t.at \in Nat /\ t.day \in Int
    BY <1>3 DEF PlacesOK, RowsOK, LedgerRows
  <1>14. RowsOK(ledger')
    <2>1. ledger' \subseteq LedgerRows /\ IsFiniteSet(ledger')
      BY <1>3, <1>8, <1>9, FS_AddElement DEF RowsOK
    <2>2. \A t \in ledger' : IsEntry(t)
      BY <1>3, <1>8, <1>9 DEF RowsOK
    <2>3. \A t \in ledger : t.id # r.id
      BY <1>4, <1>5, <1>8, <1>13
    <2>4. \A t, u \in ledger' : t.id = u.id => t = u
      BY <1>3, <1>9, <2>3 DEF RowsOK
    <2> QED BY <2>1, <2>2, <2>4 DEF RowsOK
  <1>15. PlacesOK'
    <2>1. \A t \in ledger' : t.at \in 1 .. printed' /\ t.id \in -printed' .. printed'
      BY <1>2, <1>4, <1>5, <1>8, <1>9, <1>13
    <2>2. \A t \in ledger : t.at < r.at /\ t.day <= r.day /\ ~(r.at < t.at) /\ t.at # r.at
      BY <1>2, <1>4, <1>8, <1>13
    <2>3. \A t, u \in ledger' : /\ t.at = u.at => t = u
                                /\ t.at < u.at => t.day <= u.day
      <3>1. \A t, u \in ledger : /\ t.at = u.at => t = u
                                 /\ t.at < u.at => t.day <= u.day
        BY <1>3 DEF PlacesOK
      <3>2. ~(r.at < r.at)
        BY <1>4, <1>8
      <3> QED BY <1>9, <2>2, <3>1, <3>2
    <2>4. \A x \in lost : x.at \in 1 .. printed
      BY <1>3 DEF PlacesOK
    <2>5. /\ lost' \subseteq LostRows /\ IsFiniteSet(lost')
          /\ \A x \in lost' : x.at \in 1 .. printed'
          /\ \A x, y \in lost' : x.at = y.at => x = y
      BY <1>2, <1>3, <1>4, <2>4 DEF PlacesOK
    <2>6. \A x \in lost', t \in ledger' : x.at # t.at
      <3>1. \A x \in lost : x.at # r.at
        BY <1>4, <1>8, <2>4
      <3> QED BY <1>2, <1>3, <1>9, <3>1 DEF PlacesOK
    <2>7. \A i \in 1 .. printed' :
             (\E t \in ledger' : t.at = i) \/ (\E x \in lost' : x.at = i)
      <3> SUFFICES ASSUME NEW i \in 1 .. printed + 1
            PROVE  (\E t \in ledger' : t.at = i) \/ (\E x \in lost : x.at = i)
        BY <1>2
      <3>1. CASE i = printed + 1
        BY <1>8, <1>9, <3>1
      <3>2. CASE i \in 1 .. printed
        BY <1>3, <1>9, <3>2 DEF PlacesOK
      <3> QED BY <1>4, <3>1, <3>2
    <2> QED BY <2>1, <2>3, <2>5, <2>6, <2>7 DEF PlacesOK
  <1>16. BalancesOK'
    <2>1. running' = Amounts(Listing')
      BY <1>2, <1>10, <1>11
    <2>2. ASSUME NEW t \in ledger
          PROVE  t.balance = BalanceAt(stated', Listing', t.at)
      <3>1. {x \in Listing' : x.at <= t.at} = {x \in Listing : x.at <= t.at}
        BY <1>10, <1>11, <1>13 DEF ListedTo
      <3>2. t.balance = BalanceAt(stated, Listing, t.at)
        BY <1>3 DEF BalancesOK
      <3> QED BY <1>2, <3>1, <3>2 DEF BalanceAt
    <2>3. {x \in Listing' : x.at <= r.at} = Listing'
      BY <1>8, <1>10, <1>11
    <2>4. r.balance = BalanceAt(stated', Listing', r.at)
      BY <1>2, <1>8, <2>1, <2>3 DEF BalanceAt, PrintedBalance
    <2> QED BY <1>9, <2>1, <2>2, <2>4 DEF BalancesOK
  <1> QED BY <1>12, <1>14, <1>15, <1>16 DEF LendingIInv

LEMMA RejectKeeps ==
  ASSUME LendingIInv, NEW e \in Entries, Reject(e), printed < begun + MaxEntries
  PROVE  LendingIInv'
  <1> DEFINE n == [at |-> printed + 1, amount |-> e.amount]
  <1>1. /\ printed' = printed + 1 /\ running' = running + e.amount
        /\ UNCHANGED <<stated, begun, ledger>>
        /\ lost' = lost \cup {[at |-> printed', amount |-> e.amount]}
    BY DEF Reject
  <1>2. lost' = lost \cup {n}
    BY <1>1
  <1>3. /\ begun \in Nat /\ printed \in begun .. begun + MaxEntries /\ running \in Int
        /\ MaxEntries \in Nat /\ RowsOK(ledger) /\ PlacesOK /\ BalancesOK /\ stated \in BOOLEAN
    BY LendingAssumption DEF LendingIInv
  <1>4. printed \in Nat /\ e.amount \in Int
    BY <1>3, LendingAssumption DEF IsEntry
  <1>5. Listing' = Listing \cup {n}
    BY <1>1, <1>2 DEF Listing
  <1>6. n.at = printed + 1
    OBVIOUS
  <1>7. /\ n \in LostRows /\ n \notin Listing
        /\ Amounts(Listing \cup {n}) = running + e.amount
        /\ \A i \in 1 .. printed : {x \in Listing \cup {n} : x.at <= i} = ListedTo(i)
    BY <1>4, NextLine
  <1> HIDE DEF n
  <1>8. \A t \in ledger : /\ t.at \in 1 .. printed /\ t.id \in -printed .. printed
                          /\ t.at \in Nat
    BY <1>3 DEF PlacesOK, RowsOK, LedgerRows
  <1>9. printed' \in begun' .. begun' + MaxEntries /\ running' \in Int
         /\ begun' \in Nat /\ stated' \in BOOLEAN
    BY <1>1, <1>3, <1>4
  <1>10. RowsOK(ledger')
    BY <1>1, <1>3
  <1>11. PlacesOK'
    <2>1. \A t \in ledger' : t.at \in 1 .. printed' /\ t.id \in -printed' .. printed'
      BY <1>1, <1>4, <1>8
    <2>2. \A t, u \in ledger' : /\ t.at = u.at => t = u
                                /\ t.at < u.at => t.day <= u.day
      BY <1>1, <1>3 DEF PlacesOK
    <2>3. \A x \in lost : x.at \in 1 .. printed /\ x.at # n.at
      BY <1>3, <1>4, <1>6 DEF PlacesOK
    <2>4. lost' \subseteq LostRows /\ IsFiniteSet(lost')
      BY <1>2, <1>3, <1>7, FS_AddElement DEF PlacesOK
    <2>5. \A x \in lost' : x.at \in 1 .. printed'
      BY <1>1, <1>2, <1>4, <1>6, <2>3
    <2>6. \A x, y \in lost' : x.at = y.at => x = y
      BY <1>2, <1>3, <2>3 DEF PlacesOK
    <2>7. \A x \in lost', t \in ledger' : x.at # t.at
      <3>1. \A t \in ledger : n.at # t.at
        BY <1>4, <1>6, <1>8
      <3> QED BY <1>1, <1>2, <1>3, <3>1 DEF PlacesOK
    <2>8. \A i \in 1 .. printed' :
             (\E t \in ledger' : t.at = i) \/ (\E x \in lost' : x.at = i)
      <3> SUFFICES ASSUME NEW i \in 1 .. printed + 1
            PROVE  (\E t \in ledger : t.at = i) \/ (\E x \in lost' : x.at = i)
        BY <1>1
      <3>1. CASE i = printed + 1
        BY <1>2, <1>6, <3>1
      <3>2. CASE i \in 1 .. printed
        BY <1>2, <1>3, <3>2 DEF PlacesOK
      <3> QED BY <1>4, <3>1, <3>2
    <2> QED BY <2>1, <2>2, <2>4, <2>5, <2>6, <2>7, <2>8 DEF PlacesOK
  <1>12. BalancesOK'
    <2>1. running' = Amounts(Listing')
      BY <1>1, <1>5, <1>7
    <2>2. ASSUME NEW t \in ledger
          PROVE  t.balance = BalanceAt(stated', Listing', t.at)
      <3>1. {x \in Listing' : x.at <= t.at} = {x \in Listing : x.at <= t.at}
        BY <1>5, <1>7, <1>8 DEF ListedTo
      <3>2. t.balance = BalanceAt(stated, Listing, t.at)
        BY <1>3 DEF BalancesOK
      <3> QED BY <1>1, <3>1, <3>2 DEF BalanceAt
    <2> QED BY <1>1, <2>1, <2>2 DEF BalancesOK
  <1> QED BY <1>9, <1>10, <1>11, <1>12 DEF LendingIInv

-----------------------------------------------------------------------------
(* Rows are marked, or get other ids *)

\* A row as it may be rewritten: another id, other marks
Kept(t, r) ==
    /\ r.day = t.day /\ r.amount = t.amount /\ r.base = t.base
    /\ r.at = t.at /\ r.balance = t.balance
    /\ r.id \in -printed .. printed

LEMMA RewriteKeeps ==
  ASSUME LendingIInv, UNCHANGED <<stated, begun, printed, running, lost>>,
         NEW f, ledger' = {f[t] : t \in ledger},
         \A t \in ledger : f[t] \in LedgerRows /\ Kept(t, f[t]),
         \A t, u \in ledger : f[t].id = f[u].id => t = u
  PROVE  LendingIInv'
  <1>1. /\ begun \in Nat /\ printed \in begun .. begun + MaxEntries /\ running \in Int
        /\ RowsOK(ledger) /\ PlacesOK /\ BalancesOK /\ stated \in BOOLEAN
    BY DEF LendingIInv
  <1>2. \A t \in ledger : LineOf(f[t]) = LineOf(t)
    BY DEF Kept, LineOf
  <1>3. Listing' = Listing
    <2>1. {LineOf(r) : r \in ledger'} = {LineOf(t) : t \in ledger}
      BY <1>2
    <2> QED BY <2>1 DEF Listing
  <1>4. RowsOK(ledger')
    <2>1. IsFiniteSet(ledger')
      BY <1>1, FiniteImage DEF RowsOK
    <2>2. \A r \in ledger' : IsEntry(r)
      BY <1>1 DEF RowsOK, IsEntry, Kept
    <2>3. \A r, s \in ledger' : r.id = s.id => r = s
      OBVIOUS
    <2> QED BY <2>1, <2>2, <2>3 DEF RowsOK
  <1>5. PlacesOK'
    <2>1. \A r \in ledger' : r.at \in 1 .. printed' /\ r.id \in -printed' .. printed'
      BY <1>1 DEF PlacesOK, Kept
    <2>2. \A r, s \in ledger' : /\ r.at = s.at => r = s
                                /\ r.at < s.at => r.day <= s.day
      BY <1>1 DEF PlacesOK, Kept
    <2>3. \A x \in lost', r \in ledger' : x.at # r.at
      BY <1>1 DEF PlacesOK, Kept
    <2>4. \A i \in 1 .. printed' :
             (\E r \in ledger' : r.at = i) \/ (\E x \in lost' : x.at = i)
      BY <1>1 DEF PlacesOK, Kept
    <2>5. /\ lost' \subseteq LostRows /\ IsFiniteSet(lost')
          /\ \A x \in lost' : x.at \in 1 .. printed'
          /\ \A x, y \in lost' : x.at = y.at => x = y
      BY <1>1 DEF PlacesOK
    <2> QED BY <2>1, <2>2, <2>3, <2>4, <2>5 DEF PlacesOK
  <1>6. BalancesOK'
    <2>1. \A t \in ledger : f[t].balance = BalanceAt(stated, Listing, f[t].at)
      BY <1>1 DEF BalancesOK, Kept
    <2>2. \A r \in ledger' : r.balance = BalanceAt(stated', Listing', r.at)
      BY <1>3, <2>1
    <2>3. running' = Amounts(Listing')
      BY <1>1, <1>3 DEF BalancesOK
    <2> QED BY <2>2, <2>3 DEF BalancesOK
  <1> QED BY <1>1, <1>4, <1>5, <1>6 DEF LendingIInv

LEMMA MarkOwnKeeps ==
  ASSUME LendingIInv, NEW t \in ledger, MarkOwn(t)
  PROVE  LendingIInv'
  <1> DEFINE m == [t EXCEPT !.own = TRUE]
             f == [u \in ledger |-> IF u = t THEN m ELSE u]
  <1>1. UNCHANGED <<stated, begun, printed, running, lost>>
    BY DEF MarkOwn
  <1>2. ledger' = {f[u] : u \in ledger}
    BY DEF MarkOwn
  <1>3. \A u \in ledger : u \in LedgerRows /\ u.id \in -printed .. printed
    BY DEF LendingIInv, RowsOK, PlacesOK
  <1>4. m \in LedgerRows /\ m.id = t.id /\ Kept(t, m)
    BY <1>3 DEF LedgerRows, Kept
  <1>5. \A u \in ledger : f[u] \in LedgerRows /\ Kept(u, f[u]) /\ f[u].id = u.id
    BY <1>3, <1>4 DEF Kept
  <1>6. \A u, w \in ledger : f[u].id = f[w].id => u = w
    BY <1>5 DEF LendingIInv, RowsOK
  <1> HIDE DEF f
  <1> QED BY <1>1, <1>2, <1>5, <1>6, RewriteKeeps

LEMMA MarkAnomalousKeeps ==
  ASSUME LendingIInv, NEW days, MarkAnomalous(days)
  PROVE  LendingIInv'
  <1> DEFINE f == [t \in ledger |-> [t EXCEPT !.anomalous = t.day \in days]]
  <1>1. UNCHANGED <<stated, begun, printed, running, lost>>
    BY DEF MarkAnomalous
  <1>2. ledger' = {f[t] : t \in ledger}
    BY DEF MarkAnomalous
  <1>3. \A t \in ledger : t \in LedgerRows /\ t.id \in -printed .. printed
    BY DEF LendingIInv, RowsOK, PlacesOK
  <1>4. \A t \in ledger : f[t] \in LedgerRows /\ Kept(t, f[t]) /\ f[t].id = t.id
    <2> TAKE t \in ledger
    <2> DEFINE b == t.day \in days
               r == [t EXCEPT !.anomalous = b]
    <2>1. b \in BOOLEAN /\ f[t] = r
      OBVIOUS
    <2> HIDE DEF b, f
    <2>2. r \in LedgerRows /\ Kept(t, r) /\ r.id = t.id
      BY <1>3, <2>1 DEF LedgerRows, Kept
    <2> QED BY <2>1, <2>2
  <1>5. \A t, u \in ledger : f[t].id = f[u].id => t = u
    BY <1>4 DEF LendingIInv, RowsOK
  <1> HIDE DEF f
  <1> QED BY <1>1, <1>2, <1>4, <1>5, RewriteKeeps

LEMMA ReimportKeeps ==
  ASSUME LendingIInv, Reimport
  PROVE  LendingIInv'
  <1>1. PICK t \in ledger, u \in ledger :
           /\ t.day = u.day /\ t.id < u.id
           /\ ledger' = (ledger \ {t, u}) \cup {[t EXCEPT !.id = u.id],
                                                [u EXCEPT !.id = t.id]}
    BY DEF Reimport
  <1>2. UNCHANGED <<stated, begun, printed, running, lost>>
    BY DEF Reimport
  <1> DEFINE r == [t EXCEPT !.id = u.id]
             s == [u EXCEPT !.id = t.id]
             f == [w \in ledger |-> IF w = t THEN r ELSE IF w = u THEN s ELSE w]
  <1>3. \A w \in ledger : w \in LedgerRows /\ w.id \in -printed .. printed /\ w.id \in Int
    BY DEF LendingIInv, RowsOK, PlacesOK, LedgerRows
  <1>4. t # u
    BY <1>1, <1>3
  <1>5. ledger' = {f[w] : w \in ledger}
    BY <1>1, <1>4
  <1>6. /\ r \in LedgerRows /\ r.id = u.id /\ Kept(t, r)
        /\ s \in LedgerRows /\ s.id = t.id /\ Kept(u, s)
    BY <1>3 DEF LedgerRows, Kept
  <1>7. \A w \in ledger : f[w] \in LedgerRows /\ Kept(w, f[w])
    BY <1>3, <1>6 DEF Kept
  <1>8. \A w, v \in ledger : w.id = v.id => w = v
    BY DEF LendingIInv, RowsOK
  <1>9. \A w \in ledger : f[w].id = IF w = t THEN u.id ELSE IF w = u THEN t.id ELSE w.id
    BY <1>6
  <1>10. \A w, v \in ledger : f[w].id = f[v].id => w = v
    BY <1>8, <1>9
  <1> HIDE DEF f
  <1> QED BY <1>2, <1>5, <1>7, <1>10, RewriteKeeps

-----------------------------------------------------------------------------
(* A statement begins with a history *)

\* A sum over one set is a sum over another, whose elements are named by the
\* elements of the first.
Names(c, f, S, g, K) ==
    /\ \A x \in S : c[x] \in K /\ g[c[x]] = f[x]
    /\ \A x, y \in S : c[x] = c[y] => x = y
    /\ \A k \in K : \E x \in S : c[x] = k

LEMMA SumRenamed ==
  ASSUME NEW S, IsFiniteSet(S), NEW f, IntsOn(f, S),
         NEW K, IsFiniteSet(K), NEW g, NEW c, Names(c, f, S, g, K)
  PROVE  SumFunctionOnSet(g, K) = SumFunctionOnSet(f, S)
  <1>1. ASSUME NEW k \in K
        PROVE  g[k] = SumFunctionOnSet(f, {x \in S : c[x] = k})
    <2>1. PICK x \in S : c[x] = k /\ g[k] = f[x]
      BY DEF Names
    <2>2. {y \in S : c[y] = k} = {} \cup {x}
      BY <2>1 DEF Names
    <2>3. IsFiniteSet({}) /\ IntsOn(f, {}) /\ f[x] \in Int
      BY FS_EmptySet DEF IntsOn
    <2>4. SumFunctionOnSet(f, {} \cup {x}) = f[x] + SumFunctionOnSet(f, {})
      BY <2>3, SumInserts
    <2>5. SumFunctionOnSet(f, {} \cup {x}) = f[x]
      BY <2>3, <2>4, SumEmpty
    <2> QED BY <2>1, <2>2, <2>5
  <1>2. Groups(c, f, S, g, K)
    BY <1>1 DEF Names, Groups
  <1> QED BY <1>2, SumOfGroups

\* The balance after i entries of a history
LEMMA HistoryAdds ==
  ASSUME NEW h \in Histories, NEW i \in 0 .. Len(h), NEW T,
         T = {[at |-> j, amount |-> h[j].amount] : j \in 1 .. i}
  PROVE  /\ T \in SUBSET LostRows /\ IsFiniteSet(T)
         /\ Amounts(T) = Total([j \in 1 .. i |-> h[j].amount])
         /\ Amounts(T) \in Int
  <1> DEFINE g == [j \in 1 .. i |-> h[j].amount]
             f == [x \in T |-> x.amount]
             c == [x \in T |-> x.at]
             K == 1 .. i
             n == [j \in K |-> [at |-> j, amount |-> h[j].amount]]
  <1>1. i \in Nat /\ \A j \in 1 .. i : h[j].amount \in Int
    BY LendingAssumption DEF IsEntry
  <1>2. IsFiniteSet(K)
    BY <1>1, FS_Interval
  <1>3. IsFiniteSet({n[j] : j \in K})
    BY <1>2, FiniteImage
  <1>4. IsFiniteSet(T)
    BY <1>3
  <1>5. T \in SUBSET LostRows
    BY <1>1 DEF LostRows
  <1>6. IntsOn(f, T)
    BY <1>5 DEF IntsOn, LostRows
  <1>7. Names(c, f, T, g, K)
    <2>1. \A j \in K : n[j] \in T /\ c[n[j]] = j
      OBVIOUS
    <2>2. \A x \in T : \E j \in K : x = n[j] /\ c[x] = j /\ g[j] = f[x]
      OBVIOUS
    <2> HIDE DEF c, n, g, f, K
    <2> QED BY <2>1, <2>2 DEF Names
  <1> HIDE DEF c, f, K
  <1>8. SumFunctionOnSet(g, K) = SumFunctionOnSet(f, T)
    <2> HIDE DEF g
    <2> QED BY <1>2, <1>4, <1>6, <1>7, SumRenamed
  <1>9. Total(g) = SumFunctionOnSet(g, K)
    BY DEF Total, SumFunction, K
  <1>10. SumFunctionOnSet(f, T) \in Int
    BY <1>4, <1>6, SumIsInt DEF IntsOn
  <1> QED BY <1>4, <1>5, <1>8, <1>9, <1>10 DEF f, Amounts

LEMMA Begins ==
  ASSUME LendingInit
  PROVE  LendingIInv
  <1>1. PICK h \in Histories :
           /\ begun = Len(h) /\ printed = Len(h)
           /\ running = Total([j \in 1 .. Len(h) |-> h[j].amount])
           /\ ledger = {RowOf(h[i], i, i, PrintedBalance(Total([j \in 1 .. i |-> h[j].amount]))) :
                          i \in DOMAIN h}
    BY DEF LendingInit
  <1>2. stated \in BOOLEAN /\ lost = {}
    BY DEF LendingInit
  <1>3. /\ Len(h) \in Nat /\ DOMAIN h = 1 .. Len(h)
        /\ \A i \in DOMAIN h : IsEntry(h[i]) /\ h[i] \in Lines
        /\ \A i, j \in DOMAIN h : i < j => h[i].day <= h[j].day
    BY LendingAssumption DEF Lines
  <1> DEFINE N == Len(h)
             sum == [i \in 0 .. N |-> Total([j \in 1 .. i |-> h[j].amount])]
             line == [i \in 1 .. N |-> [at |-> i, amount |-> h[i].amount]]
             to == [i \in 0 .. N |-> {[at |-> j, amount |-> h[j].amount] : j \in 1 .. i}]
             bal == [i \in 1 .. N |-> PrintedBalance(sum[i])]
             row == [i \in 1 .. N |-> RowOf(h[i], i, i, bal[i])]
  <1>4. \A i \in 0 .. N : Amounts(to[i]) = sum[i] /\ sum[i] \in Int
    <2> SUFFICES ASSUME NEW i \in 0 .. N, NEW T,
                        T = {[at |-> j, amount |-> h[j].amount] : j \in 1 .. i}
          PROVE  /\ Amounts(T) = Total([j \in 1 .. i |-> h[j].amount])
                 /\ Amounts(T) \in Int
      OBVIOUS
    <2> QED BY HistoryAdds
  <1>5. /\ running = sum[N] /\ ledger = {row[i] : i \in 1 .. N}
        /\ 1 .. N \subseteq 0 .. N /\ N \in 0 .. N
    <2>1. 1 .. N \subseteq 0 .. N /\ N \in 0 .. N
      BY <1>3
    <2>2. running = sum[N]
      BY <1>1, <2>1
    <2>3. \A i \in 1 .. N : bal[i] = PrintedBalance(Total([j \in 1 .. i |-> h[j].amount]))
      BY <2>1
    <2> HIDE DEF bal
    <2>4. ledger = {row[i] : i \in 1 .. N}
      BY <1>1, <1>3, <2>3
    <2> QED BY <2>1, <2>2, <2>4
  <1> HIDE DEF sum
  <1>6. \A i \in 1 .. N : bal[i] \in Int \cup {None}
    BY <1>4, <1>5 DEF PrintedBalance
  <1>7. \A i \in 1 .. N :
           /\ row[i] \in LedgerRows /\ IsEntry(row[i]) /\ row[i].day = h[i].day
           /\ row[i].at = i /\ row[i].id = i /\ row[i].balance = bal[i]
           /\ LineOf(row[i]) = line[i]
    <2> HIDE DEF bal
    <2> SUFFICES ASSUME NEW i \in 1 .. N, NEW e, e = h[i], NEW b, b = bal[i],
                        NEW r, r = RowOf(e, i, i, b)
          PROVE  /\ r \in LedgerRows /\ IsEntry(r) /\ r.day = e.day
                 /\ r.at = i /\ r.id = i /\ r.balance = b
                 /\ LineOf(r) = [at |-> i, amount |-> e.amount]
      OBVIOUS
    <2>1. e \in Lines /\ IsEntry(e) /\ i \in Nat /\ i \in Int /\ b \in Int \cup {None}
      BY <1>3, <1>6
    <2> QED BY <2>1 DEF RowOf, LedgerRows, IsEntry, LineOf
  <1>8. \A i \in 1 .. N : line[i].at = i
    OBVIOUS
  <1>9. \A i \in 1 .. N : bal[i] = PrintedBalance(sum[i])
    BY <1>5
  <1>10. \A i \in 0 .. N : to[i] = {line[j] : j \in 1 .. i}
    <2> TAKE i \in 0 .. N
    <2>1. \A j \in 1 .. i : line[j] = [at |-> j, amount |-> h[j].amount]
      BY <1>3
    <2> HIDE DEF line
    <2>2. {line[j] : j \in 1 .. i} = {[at |-> j, amount |-> h[j].amount] : j \in 1 .. i}
      BY <2>1
    <2> QED BY <2>2
  <1> HIDE DEF row, bal, line, to
  <1>11. RowsOK(ledger)
    <2>1. IsFiniteSet(1 .. N)
      BY <1>3, FS_Interval
    <2>2. IsFiniteSet(ledger)
      BY <1>5, <2>1, FiniteImage
    <2>3. \A t \in ledger : \E i \in 1 .. N : t = row[i]
      BY <1>5
    <2>4. \A t \in ledger : t \in LedgerRows /\ IsEntry(t)
      BY <1>7, <2>3
    <2>5. \A t, u \in ledger : t.id = u.id => t = u
      BY <1>7, <2>3
    <2> QED BY <2>2, <2>4, <2>5 DEF RowsOK
  <1>12. PlacesOK
    <2>1. IsFiniteSet(lost)
      BY <1>2, FS_EmptySet
    <2>2. \A t \in ledger : \E i \in 1 .. N : t = row[i]
      BY <1>5
    <2>3. \A t \in ledger : t.at \in 1 .. printed /\ t.id \in -printed .. printed
      <3>1. \A i \in 1 .. N : i \in 1 .. printed /\ i \in -printed .. printed
        BY <1>1, <1>3
      <3>2. \A t \in ledger : \E i \in 1 .. N : t.at = i /\ t.id = i
        BY <1>7, <2>2
      <3> QED BY <3>1, <3>2
    <2>4. \A t, u \in ledger : t.at = u.at => t = u
      BY <1>7, <2>2
    <2>5. \A i, j \in 1 .. N : row[i].at < row[j].at => row[i].day <= row[j].day
      BY <1>3, <1>7
    <2>6. \A t, u \in ledger : t.at < u.at => t.day <= u.day
      BY <2>2, <2>5
    <2>7. \A i \in 1 .. printed : row[i] \in ledger /\ row[i].at = i
      BY <1>1, <1>5, <1>7
    <2> QED BY <1>2, <2>1, <2>3, <2>4, <2>6, <2>7 DEF PlacesOK
  <1>13. Listing = to[N]
    <2>1. \A t \in ledger : \E i \in 1 .. N : t = row[i] /\ LineOf(t) = line[i]
      BY <1>5, <1>7
    <2>2. \A i \in 1 .. N : row[i] \in ledger /\ LineOf(row[i]) = line[i]
      BY <1>5, <1>7
    <2> QED BY <1>2, <1>5, <1>10, <2>1, <2>2 DEF Listing
  <1>14. \A i \in 1 .. N : {x \in Listing : x.at <= i} = to[i]
    <2> TAKE i \in 1 .. N
    <2>1. \A x \in Listing : \E j \in 1 .. N : x = line[j] /\ x.at = j
      BY <1>5, <1>8, <1>10, <1>13
    <2>2. \A j \in 1 .. i : line[j] \in Listing /\ line[j].at <= i
      BY <1>3, <1>5, <1>8, <1>10, <1>13
    <2>3. \A x \in Listing : x.at <= i => \E j \in 1 .. i : x = line[j]
      BY <1>3, <2>1
    <2>4. \A x : x \in to[i] <=> \E j \in 1 .. i : x = line[j]
      BY <1>5, <1>10
    <2> QED BY <2>2, <2>3, <2>4
  <1>15. BalancesOK
    <2>1. running = Amounts(Listing)
      BY <1>4, <1>5, <1>13
    <2>2. \A i \in 1 .. N : BalanceAt(stated, Listing, i) = bal[i]
      BY <1>4, <1>5, <1>9, <1>14 DEF BalanceAt, PrintedBalance
    <2>3. \A t \in ledger : \E i \in 1 .. N : t.balance = bal[i] /\ t.at = i
      BY <1>5, <1>7
    <2> QED BY <2>1, <2>2, <2>3 DEF BalancesOK
  <1>16. /\ begun \in Nat /\ printed \in begun .. begun + MaxEntries
         /\ running \in Int
    BY <1>1, <1>3, <1>4, <1>5, LendingAssumption
  <1> QED BY <1>2, <1>11, <1>12, <1>15, <1>16 DEF LendingIInv

LEMMA LendingInductive ==
  ASSUME LendingIInv, [MCNext]_mcVars
  PROVE  LendingIInv'
  <1>1. CASE LendingPart
    <2>1. CASE \E e \in Entries : printed < begun + MaxEntries /\ Book(e)
      BY <2>1, BookKeeps
    <2>2. CASE \E e \in Entries : printed < begun + MaxEntries /\ Reject(e)
      BY <2>2, RejectKeeps
    <2>3. CASE \E t \in ledger : MarkOwn(t)
      BY <2>3, MarkOwnKeeps
    <2>4. CASE \E m \in Markers : MarkAnomalous(m)
      BY <2>4, MarkAnomalousKeeps
    <2>5. CASE Reimport
      BY <2>5, ReimportKeeps
    <2> QED BY <1>1, <2>1, <2>2, <2>3, <2>4, <2>5 DEF LendingPart, LendingNext
  <1>2. CASE UNCHANGED lendingVars
    <2>1. /\ stated' = stated /\ begun' = begun /\ printed' = printed
          /\ running' = running /\ ledger' = ledger /\ lost' = lost
      BY <1>2 DEF lendingVars
    <2>2. Listing' = Listing
      BY <2>1 DEF Listing
    <2> QED BY <2>1, <2>2 DEF LendingIInv, PlacesOK, BalancesOK
  <1> QED BY <1>1, <1>2 DEF MCNext, mcVars

\* Every position that was printed has one row or was lost, ids tell the rows of
\* a day apart, and each balance is the sum of what was printed up to it,
\* through markers, marks and imports (bank_ingestion.py:386,
\* bank_account_integrity.py:134, routes/bank.py:254).
THEOREM LendingSound == MCSpec => []LendingIInv
  <1>1. MCInit => LendingIInv
    BY Begins DEF MCInit
  <1>2. LendingIInv /\ [MCNext]_mcVars => LendingIInv'
    BY LendingInductive
  <1> QED BY <1>1, <1>2, PTL DEF MCSpec

-----------------------------------------------------------------------------
(* The balances of a statement *)

Orders(R, S) ==
    /\ \A x, y \in S : x = y \/ <<x, y>> \in R \/ <<y, x>> \in R
    /\ \A x, y, z \in S : (<<x, y>> \in R /\ <<y, z>> \in R) => <<x, z>> \in R

\* A finite set that is ordered has a first element.
LEMMA HasFirst ==
  ASSUME NEW S, IsFiniteSet(S), S # {}, NEW R, Orders(R, S)
  PROVE  \E m \in S : \A x \in S : x = m \/ <<m, x>> \in R
  <1> DEFINE First(T, m) == m \in T /\ \A x \in T : x = m \/ <<m, x>> \in R
             P == {T \in SUBSET S : T # {} => \E m \in S : First(T, m)}
  <1>1. {} \in P
    OBVIOUS
  <1>2. ASSUME NEW T \in SUBSET S, NEW x \in S \ T, T \in P
        PROVE  T \cup {x} \in P
    <2>1. CASE T = {}
      <3>1. First(T \cup {x}, x)
        BY <2>1
      <3> QED BY <3>1
    <2>2. CASE T # {}
      <3>1. PICK m \in S : First(T, m)
        BY <1>2, <2>2
      <3>2. CASE <<m, x>> \in R
        <4>1. First(T \cup {x}, m)
          BY <3>1, <3>2
        <4> QED BY <4>1
      <3>3. CASE <<m, x>> \notin R
        <4>1. <<x, m>> \in R
          BY <1>2, <3>1, <3>3 DEF Orders
        <4>2. \A y \in T : <<x, y>> \in R
          BY <3>1, <4>1 DEF Orders
        <4>3. First(T \cup {x}, x)
          BY <4>2
        <4> QED BY <4>3
      <3> QED BY <3>2, <3>3
    <2> QED BY <2>1, <2>2
  <1> HIDE DEF P
  <1>3. S \in P
    BY <1>1, <1>2, BySize
  <1> QED BY <1>3 DEF P

LEMMA HasEnds ==
  ASSUME NEW S \in SUBSET LedgerRows, IsFiniteSet(S), S # {}
  PROVE  /\ FirstAt(S) \in S /\ \A u \in S : FirstAt(S).at <= u.at
         /\ LastAt(S) \in S /\ \A u \in S : u.at <= LastAt(S).at
  <1>1. \A t \in S : t.at \in Int
    BY DEF LedgerRows
  <1>2. \E t \in S : \A u \in S : t.at <= u.at
    <2> DEFINE R == {p \in S \X S : p[1].at <= p[2].at}
    <2>1. \A t, u \in S : <<t, u>> \in R <=> t.at <= u.at
      OBVIOUS
    <2>2. Orders(R, S)
      BY <1>1, <2>1 DEF Orders
    <2> HIDE DEF R
    <2>3. PICK t \in S : \A u \in S : u = t \/ <<t, u>> \in R
      BY <2>2, HasFirst
    <2>4. t.at <= t.at
      BY <1>1
    <2>5. \A u \in S : t.at <= u.at
      BY <2>1, <2>3, <2>4
    <2> QED BY <2>5
  <1>3. \E t \in S : \A u \in S : u.at <= t.at
    <2> DEFINE R == {p \in S \X S : p[2].at <= p[1].at}
    <2>1. \A t, u \in S : <<t, u>> \in R <=> u.at <= t.at
      OBVIOUS
    <2>2. Orders(R, S)
      BY <1>1, <2>1 DEF Orders
    <2> HIDE DEF R
    <2>3. PICK t \in S : \A u \in S : u = t \/ <<t, u>> \in R
      BY <2>2, HasFirst
    <2>4. t.at <= t.at
      BY <1>1
    <2>5. \A u \in S : u.at <= t.at
      BY <2>1, <2>3, <2>4
    <2> QED BY <2>5
  <1> QED BY <1>2, <1>3 DEF FirstAt, LastAt

\* The rows' amounts add up to what was read of the listing.
LEMMA LedgerAdds ==
  ASSUME LendingIInv, NEW L, L = {LineOf(t) : t \in ledger}
  PROVE  /\ Total([t \in ledger |-> t.amount]) = Amounts(L)
         /\ L \in SUBSET LostRows /\ IsFiniteSet(L) /\ Amounts(L) \in Int
  <1> DEFINE f == [t \in ledger |-> t.amount]
             g == [x \in L |-> x.amount]
             c == [t \in ledger |-> LineOf(t)]
  <1>1. IsFiniteSet(ledger) /\ \A t \in ledger : t.amount \in Int /\ t.at \in Nat
    BY DEF LendingIInv, RowsOK, LedgerRows
  <1>2. IntsOn(f, ledger)
    BY <1>1 DEF IntsOn
  <1>3. IsFiniteSet(L)
    <2>1. IsFiniteSet({c[t] : t \in ledger})
      BY <1>1, FiniteImage
    <2> QED BY <2>1
  <1>4. L \in SUBSET LostRows
    BY <1>1 DEF LineOf, LostRows
  <1>5. \A t \in ledger : c[t] \in L /\ c[t].at = t.at /\ g[c[t]] = f[t]
    BY DEF LineOf
  <1>6. \A t, u \in ledger : t.at = u.at => t = u
    BY DEF LendingIInv, PlacesOK
  <1>7. \A x \in L : \E t \in ledger : c[t] = x
    OBVIOUS
  <1> HIDE DEF c, g, f
  <1>8. Names(c, f, ledger, g, L)
    <2>1. \A t, u \in ledger : c[t] = c[u] => t = u
      BY <1>5, <1>6
    <2> QED BY <1>5, <1>7, <2>1 DEF Names
  <1>9. SumFunctionOnSet(g, L) = SumFunctionOnSet(f, ledger)
    BY <1>1, <1>2, <1>3, <1>8, SumRenamed
  <1>10. Total(f) = SumFunctionOnSet(f, ledger)
    BY DEF Total, SumFunction, f
  <1>11. L \in SUBSET L
    OBVIOUS
  <1>12. Amounts(L) \in Int
    BY <1>3, <1>4, <1>11, AmountsOver
  <1> QED BY <1>3, <1>4, <1>9, <1>10, <1>12 DEF g, f, Amounts

\* If the statement was read to both ends, the check of its balances passes
\* when what is lost adds up to nothing.
LEMMA ReadToTheEnds ==
  ASSUME LendingIInv, stated, ledger # {},
         \A x \in lost : \E t, u \in ledger : t.at < x.at /\ x.at < u.at
  PROVE  Examined.passed <=> Amounts(lost) = 0
  <1> DEFINE L == {LineOf(t) : t \in ledger}
             f == FirstAt(ledger)
             l == LastAt(ledger)
  <1>1. /\ RowsOK(ledger) /\ PlacesOK /\ BalancesOK
        /\ ledger \in SUBSET LedgerRows /\ IsFiniteSet(ledger)
    BY DEF LendingIInv, RowsOK
  <1>2. /\ f \in ledger /\ \A u \in ledger : f.at <= u.at
        /\ l \in ledger /\ \A u \in ledger : u.at <= l.at
    BY <1>1, HasEnds
  <1>3. /\ Total([t \in ledger |-> t.amount]) = Amounts(L)
        /\ L \in SUBSET LostRows /\ IsFiniteSet(L) /\ Amounts(L) \in Int
    BY LedgerAdds
  <1>4. /\ Listing \in SUBSET LostRows /\ IsFiniteSet(Listing)
        /\ \A t \in ledger : LineOf(t) \in Listing
    BY ListingIs
  <1>5. \A t \in ledger : t.at \in Int /\ t.amount \in Int
    BY <1>1 DEF LedgerRows
  <1>18. \A t \in ledger : t.balance = Amounts({x \in Listing : x.at <= t.at})
    BY <1>1 DEF BalancesOK, BalanceAt
  <1>6. \A t \in ledger : t.balance \in Int
    <2> SUFFICES ASSUME NEW t \in ledger, NEW T, T = {x \in Listing : x.at <= t.at}
          PROVE  Amounts(T) \in Int
      BY <1>18
    <2>1. T \in SUBSET Listing
      OBVIOUS
    <2> QED BY <1>4, <2>1, AmountsOver
  <1>7. WithBalance(ledger) = ledger
    BY <1>6, LendingAssumption DEF WithBalance
  <1>8. Listing = L \cup lost /\ L \cap lost = {}
    BY <1>1 DEF Listing, PlacesOK, LineOf
  <1>9. \A x \in lost : x.at \in Int /\ f.at < x.at /\ x.at < l.at
    BY <1>1, <1>2, <1>5 DEF PlacesOK
  <1> DEFINE F == {x \in Listing : x.at <= f.at}
             G == {x \in Listing : x.at <= l.at}
  <1>10. F = {} \cup {LineOf(f)}
    <2>1. LineOf(f).at = f.at /\ LineOf(f) \in Listing /\ f.at \in Int
      BY <1>2, <1>4, <1>5 DEF LineOf
    <2>2. \A t \in ledger : LineOf(t).at <= f.at => t = f
      BY <1>1, <1>2, <1>5 DEF LineOf, PlacesOK
    <2>3. \A x \in lost : ~(x.at <= f.at)
      BY <1>2, <1>5, <1>9
    <2> QED BY <1>8, <2>1, <2>2, <2>3
  <1>11. G = Listing
    <2>1. \A t \in ledger : LineOf(t).at <= l.at
      BY <1>2 DEF LineOf
    <2>2. \A x \in lost : x.at <= l.at
      BY <1>2, <1>5, <1>9
    <2> QED BY <1>8, <2>1, <2>2
  <1>12. f.balance = Amounts(F) /\ l.balance = Amounts(G)
    BY <1>2, <1>18
  <1> HIDE DEF F, G, f, l
  <1>13. Amounts(F) = f.amount
    <2>1. LineOf(f) \in LostRows /\ LineOf(f).amount = f.amount /\ f.amount \in Int
      BY <1>2, <1>4, <1>5 DEF LineOf
    <2>2. IsFiniteSet({}) /\ {} \in SUBSET LostRows /\ LineOf(f) \notin {}
      BY FS_EmptySet
    <2>3. Amounts({} \cup {LineOf(f)}) = Amounts({}) + LineOf(f).amount
      BY <2>1, <2>2, AmountsGrow
    <2> QED BY <1>10, <2>1, <2>3, NoAmounts
  <1>14. Amounts(G) = Amounts(L) + Amounts(lost) /\ Amounts(lost) \in Int
    <2>1. lost \in SUBSET LostRows /\ IsFiniteSet(lost)
      BY <1>1 DEF PlacesOK
    <2> HIDE DEF L
    <2>2. /\ Amounts(L \cup lost) = Amounts(L) + Amounts(lost)
          /\ Amounts(lost) \in Int
      BY <1>3, <1>8, <2>1, AmountsSplit
    <2> QED BY <1>8, <1>11, <2>2
  <1>15. Examined.passed
           <=> (f.balance - f.amount) + Total([t \in ledger |-> t.amount]) = l.balance
    BY <1>7 DEF Examined, AccountFrom, Opening, f, l
  <1>16. f.amount \in Int
    BY <1>2, <1>5
  <1>17. Examined.passed <=> (f.amount - f.amount) + Amounts(L) = Amounts(L) + Amounts(lost)
    BY <1>3, <1>12, <1>13, <1>14, <1>15
  <1> QED BY <1>3, <1>14, <1>16, <1>17

LEMMA LossIsTold ==
  ASSUME LendingIInv
  PROVE  IntegrityTellsLoss
  <1> SUFFICES ASSUME stated, ledger # {}
        PROVE  /\ lost = {} => Examined.passed
               /\ \A x \in lost :
                    (/\ lost = {x} /\ x.amount # 0
                     /\ \E t, u \in ledger : t.at < x.at /\ x.at < u.at)
                    => ~Examined.passed
    BY DEF IntegrityTellsLoss
  <1>1. ASSUME lost = {}
        PROVE  Examined.passed
    BY <1>1, ReadToTheEnds, NoAmounts
  <1>2. ASSUME NEW x \in lost, lost = {x}, x.amount # 0,
               \E t, u \in ledger : t.at < x.at /\ x.at < u.at
        PROVE  ~Examined.passed
    <2>1. x \in LostRows /\ x.amount \in Int
      BY DEF LendingIInv, PlacesOK, LostRows
    <2>2. IsFiniteSet({}) /\ {} \in SUBSET LostRows /\ x \notin {}
      BY FS_EmptySet
    <2>3. Amounts({} \cup {x}) = Amounts({}) + x.amount
      BY <2>1, <2>2, AmountsGrow
    <2>4. lost = {} \cup {x}
      BY <1>2
    <2>5. Amounts(lost) # 0
      BY <1>2, <2>1, <2>3, <2>4, NoAmounts
    <2> QED BY <1>2, <2>5, ReadToTheEnds
  <1> QED BY <1>1, <1>2

LEMMA SequenceIsKept ==
  ASSUME LendingIInv
  PROVE  IntactIsInSequence
  <1> SUFFICES ASSUME lost = {}, \A t \in ledger : ~t.anomalous,
                      \A t, u \in ledger : t.day = u.day => t = u,
                      NEW t \in WithBalance(Loaded), NEW u \in WithBalance(Loaded),
                      Adjacent(t, u, WithBalance(Loaded))
        PROVE  t.balance + u.amount = u.balance
    BY DEF IntactIsInSequence, StatementIntegrity, Checked
  <1>1. RowsOK(ledger) /\ PlacesOK /\ BalancesOK /\ printed \in Int
    BY LendingAssumption DEF LendingIInv
  <1>2. /\ t \in ledger /\ t.balance # None
        /\ u \in ledger /\ u.balance # None
    BY DEF Loaded, WithBalance
  <1>3. stated
    BY <1>1, <1>2 DEF BalancesOK, BalanceAt
  <1>4. \A w \in ledger : /\ w.at \in 1 .. printed /\ w.at \in Int /\ w.day \in Int
                          /\ w.amount \in Int
    BY <1>1 DEF PlacesOK, RowsOK, LedgerRows
  <1>16. \A w \in ledger : w.balance = Amounts({x \in Listing : x.at <= w.at})
    BY <1>1, <1>3 DEF BalancesOK, BalanceAt
  <1>5. /\ Listing \in SUBSET LostRows /\ IsFiniteSet(Listing)
        /\ \A w \in ledger : LineOf(w) \in Listing
    BY ListingIs
  <1>6. \A w \in ledger : w.balance \in Int
    <2> SUFFICES ASSUME NEW w \in ledger, NEW T, T = {x \in Listing : x.at <= w.at}
          PROVE  Amounts(T) \in Int
      BY <1>16
    <2>1. T \in SUBSET Listing
      OBVIOUS
    <2> QED BY <1>5, <2>1, AmountsOver
  <1>7. WithBalance(Loaded) = ledger
    BY <1>6, LendingAssumption DEF WithBalance, Loaded
  <1>8. \A v, w \in ledger : Before(v, w) <=> v.at < w.at
    BY <1>1, <1>4 DEF Before, PlacesOK
  <1>9. t.at < u.at /\ ~\E w \in ledger : t.at < w.at /\ w.at < u.at
    BY <1>2, <1>7, <1>8 DEF Adjacent
  <1>10. u.at = t.at + 1
    <2> SUFFICES ASSUME u.at # t.at + 1 PROVE FALSE
      OBVIOUS
    <2>1. t.at + 1 \in 1 .. printed /\ t.at + 1 < u.at /\ t.at < t.at + 1
      BY <1>1, <1>2, <1>4, <1>9
    <2>2. PICK w \in ledger : w.at = t.at + 1
      BY <1>1, <2>1 DEF PlacesOK
    <2> QED BY <1>9, <2>1, <2>2
  <1> DEFINE T == {x \in Listing : x.at <= t.at}
             U == {x \in Listing : x.at <= u.at}
  <1>11. LineOf(u) \in LostRows /\ LineOf(u) \notin T /\ LineOf(u).amount = u.amount
    BY <1>2, <1>4, <1>5, <1>9 DEF LineOf
  <1>12. U = T \cup {LineOf(u)}
    <2>1. \A x \in Listing : \E w \in ledger : x = LineOf(w) /\ x.at = w.at
      BY DEF Listing, LineOf
    <2>2. \A x \in Listing : x.at <= u.at => x.at <= t.at \/ x = LineOf(u)
      BY <1>1, <1>2, <1>4, <1>10, <2>1 DEF PlacesOK
    <2>3. \A x \in Listing : x.at <= t.at => x.at <= u.at
      BY <1>2, <1>4, <1>10, <2>1
    <2>4. LineOf(u) \in U
      BY <1>2, <1>4, <1>5 DEF LineOf
    <2> QED BY <2>2, <2>3, <2>4
  <1>13. T \in SUBSET LostRows /\ IsFiniteSet(T)
    BY <1>5, FS_Subset
  <1>14. t.balance = Amounts(T) /\ u.balance = Amounts(U)
    BY <1>2, <1>16
  <1> HIDE DEF T, U
  <1>15. Amounts(T \cup {LineOf(u)}) = Amounts(T) + LineOf(u).amount
    BY <1>11, <1>13, AmountsGrow
  <1> QED BY <1>11, <1>12, <1>14, <1>15

\* A statement that lost an entry in its middle never passes for one that was
\* read in full, and the sequence of its balances survives imports, markers and
\* marks, whatever it prints and for as long as it goes on
\* (bank_account_integrity.py:15, bank_fraud_risk.py:262).
THEOREM IntegrityOfStatements == MCSpec => []IntegrityHolds
  <1>1. LendingIInv => IntegrityHolds
    BY LossIsTold, SequenceIsKept DEF IntegrityHolds
  <1> QED BY <1>1, LendingSound, PTL

-----------------------------------------------------------------------------
(* Rounding *)

LEMMA Halves ==
  ASSUME NEW a \in Int, NEW b \in Nat, b > 0
  PROVE  /\ Rounded(a, b) \in Int
         /\ 2 * a - b <= 2 * (b * Rounded(a, b))
         /\ 2 * (b * Rounded(a, b)) <= 2 * a + b
         /\ 2 * a - b = 2 * (b * Rounded(a, b)) => Rounded(a, b) % 2 = 0
         /\ 2 * (b * Rounded(a, b)) = 2 * a + b => Rounded(a, b) % 2 = 0
  <1> DEFINE q == a \div b
             r == a % b
  <1>1. q \in Int /\ r \in Int /\ 0 <= r /\ r < b /\ a = b * q + r
    OBVIOUS
  <1>2. Rounded(a, b) = IF 2 * r < b \/ (2 * r = b /\ q % 2 = 0) THEN q ELSE q + 1
    BY DEF Rounded
  <1> HIDE DEF q, r
  <1>3. b * (q + 1) = b * q + b /\ b * q \in Int
    BY <1>1
  <1>4. CASE 2 * r < b \/ (2 * r = b /\ q % 2 = 0)
    BY <1>1, <1>2, <1>3, <1>4
  <1>5. CASE ~(2 * r < b \/ (2 * r = b /\ q % 2 = 0))
    <2>1. Rounded(a, b) = q + 1
      BY <1>2, <1>5
    <2>2. 2 * r >= b /\ (2 * r = b => (q + 1) % 2 = 0)
      BY <1>1, <1>5
    <2> QED BY <1>1, <1>3, <2>1, <2>2
  <1> QED BY <1>4, <1>5

LEMMA TimesGrows ==
  ASSUME NEW b \in Nat, NEW x \in Int, NEW y \in Int, x <= y
  PROVE  b * x <= b * y /\ b * x \in Int /\ b * y \in Int
  OBVIOUS

\* Rounding keeps the order of fractions.
LEMMA RoundedGrows ==
  ASSUME NEW a \in Int, NEW b \in Nat, b > 0, NEW c \in Int, NEW d \in Nat, d > 0,
         a * d <= c * b
  PROVE  Rounded(a, b) <= Rounded(c, d)
  <1> DEFINE m == Rounded(a, b)
             n == Rounded(c, d)
  <1>1. /\ m \in Int /\ 2 * (b * m) <= 2 * a + b
        /\ 2 * (b * m) = 2 * a + b => m % 2 = 0
    BY Halves
  <1>2. /\ n \in Int /\ 2 * c - d <= 2 * (d * n)
        /\ 2 * c - d = 2 * (d * n) => n % 2 = 0
    BY Halves
  <1> HIDE DEF m, n
  <1> SUFFICES ASSUME n + 1 <= m PROVE FALSE
    BY <1>1, <1>2 DEF m, n
  <1>3. b * (n + 1) <= b * m /\ b * (n + 1) = b * n + b
    BY <1>1, <1>2, TimesGrows
  <1>4. b * m \in Int /\ b * n \in Int /\ d * n \in Int
    BY <1>1, <1>2
  <1>5. 2 * (b * n) + b <= 2 * a
    BY <1>1, <1>3, <1>4
  <1>6. 2 * c <= 2 * (d * n) + d
    BY <1>2, <1>4
  <1>7. d * (2 * (b * n) + b) <= d * (2 * a)
    BY <1>4, <1>5, TimesGrows
  <1>8. b * (2 * c) <= b * (2 * (d * n) + d)
    BY <1>4, <1>6, TimesGrows
  <1> DEFINE p == d * (b * n)
             s == d * b
  <1>9. /\ d * (2 * (b * n) + b) = 2 * p + s
        /\ b * (2 * (d * n) + d) = 2 * p + s
        /\ d * (2 * a) = 2 * (a * d) /\ b * (2 * c) = 2 * (c * b)
        /\ p \in Int /\ s \in Int /\ a * d \in Int /\ c * b \in Int
    BY <1>1, <1>2, <1>4
  <1> HIDE DEF p, s
  <1>10. d * (2 * (b * n) + b) = d * (2 * a) /\ b * (2 * c) = b * (2 * (d * n) + d)
    BY <1>7, <1>8, <1>9
  <1>11. 2 * (b * n) + b = 2 * a
    BY <1>4, <1>10
  <1>12. 2 * c = 2 * (d * n) + d
    BY <1>4, <1>10
  <1>13. n % 2 = 0
    BY <1>2, <1>4, <1>12
  <1>14. 2 * (b * m) = 2 * a + b
    BY <1>1, <1>3, <1>4, <1>11
  <1>15. b * m = b * (n + 1)
    BY <1>3, <1>4, <1>11, <1>14
  <1>16. m = n + 1
    BY <1>1, <1>2, <1>15
  <1> QED BY <1>1, <1>2, <1>13, <1>14, <1>16

LEMMA RoundedTenth ==
  ASSUME NEW a \in Int
  PROVE  /\ Rounded(a, 10) \in Int
         /\ a - 5 <= 10 * Rounded(a, 10) /\ 10 * Rounded(a, 10) <= a + 5
  BY DEF Rounded

LEMMA RoundedHundredth ==
  ASSUME NEW a \in Int
  PROVE  /\ Rounded(a, 100) \in Int
         /\ a - 50 <= 100 * Rounded(a, 100) /\ 100 * Rounded(a, 100) <= a + 50
  BY DEF Rounded

LEMMA ClampedRange ==
  ASSUME NEW x \in Int
  PROVE  Clamped(x) \in Percent
  BY DEF Clamped, Percent

-----------------------------------------------------------------------------
(* The loan-readiness score *)

\* What a factor adds, in tenths, is at most its weight
LEMMA ContributionRange ==
  ASSUME NEW c \in Components, NEW f \in Factors
  PROVE  /\ Weight[f] \in 20 .. 30
         /\ Contribution(c, f) \in Nat
         /\ Reachable(c, f) \in Nat
         /\ Contribution(c, f) <= 10 * Reachable(c, f)
         /\ c[f] # None =>
               /\ c[f] \in 0 .. 100 /\ Reachable(c, f) = Weight[f]
               /\ 10 * Contribution(c, f) <= Weight[f] * c[f] + 5
               /\ Weight[f] * c[f] \in Int
  <1>1. Weight[f] \in 20 .. 30
    BY DEF Weight, Factors
  <1>2. CASE c[f] = None
    BY <1>1, <1>2 DEF Contribution, Reachable
  <1>3. CASE c[f] # None
    <2>1. c[f] \in 0 .. 100
      BY <1>3 DEF Components, Percent
    <2> DEFINE w == Weight[f]
               x == c[f]
               p == w * x
    <2>2. p \in Int /\ 0 <= p /\ p <= 100 * w /\ w \in Int
      BY <1>1, <2>1
    <2> HIDE DEF p
    <2>3. /\ Rounded(p, 10) \in Int
          /\ p - 5 <= 10 * Rounded(p, 10) /\ 10 * Rounded(p, 10) <= p + 5
      BY <2>2, RoundedTenth
    <2>4. Contribution(c, f) = Rounded(p, 10) /\ Reachable(c, f) = w
      BY <1>3 DEF Contribution, Reachable, p
    <2> HIDE DEF w, x
    <2>5. /\ Rounded(p, 10) >= 0 /\ Rounded(p, 10) <= 10 * w
      BY <2>2, <2>3
    <2> QED BY <1>1, <1>3, <2>1, <2>2, <2>3, <2>4, <2>5 DEF w, x, p
  <1> QED BY <1>2, <1>3

LEMMA LoanScoreRange ==
  ASSUME NEW c \in Components
  PROVE  /\ LoanReadinessScore(c) \in 0 .. MaxAchievable(c)
         /\ MaxAchievable(c) \in Nat
         /\ \A f \in Factors : c[f] # None =>
               LoanReadinessScore(c) + Gain(c, f) <= MaxAchievable(c) + 1
  <1> DEFINE P(f) == Contribution(c, f)
             R(f) == Reachable(c, f)
             sum == P("income_stability") + P("abm_trend")
                      + P("fraud_risk_inverted") + P("cash_buffer")
             max == R("income_stability") + R("abm_trend")
                      + R("fraud_risk_inverted") + R("cash_buffer")
  <1>1. \A f \in Factors : /\ P(f) \in Nat /\ R(f) \in Nat /\ P(f) <= 10 * R(f)
    BY ContributionRange
  <1>2. /\ "income_stability" \in Factors /\ "abm_trend" \in Factors
        /\ "fraud_risk_inverted" \in Factors /\ "cash_buffer" \in Factors
    BY DEF Factors
  <1>3. LoanReadinessScore(c) = Rounded(sum, 10) /\ MaxAchievable(c) = max
    BY DEF LoanReadinessScore, MaxAchievable, OverFactors
  <1>4. \A f \in Factors : sum - P(f) <= 10 * (max - R(f)) /\ sum \in Nat /\ max \in Nat
    <2> HIDE DEF P, R
    <2> QED BY <1>1, <1>2 DEF Factors
  <1>5. sum <= 10 * max /\ sum \in Nat /\ max \in Nat
    <2> HIDE DEF P, R
    <2> QED BY <1>1, <1>2
  <1> HIDE DEF sum, max
  <1>6. /\ Rounded(sum, 10) \in Int
        /\ sum - 5 <= 10 * Rounded(sum, 10) /\ 10 * Rounded(sum, 10) <= sum + 5
    BY <1>5, RoundedTenth
  <1>7. Rounded(sum, 10) \in 0 .. max
    BY <1>5, <1>6
  <1>8. ASSUME NEW f \in Factors, c[f] # None
        PROVE  Rounded(sum, 10) + Gain(c, f) <= max + 1
    <2> DEFINE w == Weight[f]
               x == c[f]
               p == w * x
               g == (100 - x) * w
    <2>1. /\ w \in 20 .. 30 /\ x \in 0 .. 100 /\ R(f) = w
          /\ 10 * P(f) <= p + 5 /\ P(f) \in Nat
      BY <1>8, ContributionRange
    <2>2. g = 100 * w - p /\ p \in Int /\ g \in Int /\ w \in Int
      <3> HIDE DEF w, x
      <3> QED BY <2>1
    <2>3. Gain(c, f) = Larger(1, Rounded(g, 100))
      BY DEF Gain
    <2>4. sum - P(f) <= 10 * (max - w)
      BY <1>4, <2>1
    <2> HIDE DEF P, R, p, g, w, x
    <2>5. Rounded(g, 100) \in Int /\ 100 * Rounded(g, 100) <= g + 50
      BY <2>2, RoundedHundredth
    <2>6. Rounded(sum, 10) + 1 <= max + 1
      BY <1>5, <1>7
    <2>7. Rounded(sum, 10) + Rounded(g, 100) <= max + 1
      BY <1>5, <1>6, <2>1, <2>2, <2>4, <2>5
    <2> QED BY <2>3, <2>6, <2>7 DEF Larger
  <1> QED BY <1>3, <1>5, <1>7, <1>8

-----------------------------------------------------------------------------
(* The fraud-risk score *)

LEMMA FraudScoreRange ==
  ASSUME NEW count \in FlagCounts
  PROVE  FraudScore[count] \in Percent
  <1> DEFINE s1 == Subscore(count["z_score_anomaly"])
             s2 == Subscore(count["structuring"])
             s3 == Subscore(count["duplicate_payee"])
             s4 == Subscore(count["timing_anomaly"])
             sum == 30 * s1 + 30 * s2 + 20 * s3 + 20 * s4
  <1>1. \A c \in Categories : count[c] \in Nat
    BY DEF FlagCounts
  <1>2. \A c \in Categories : Subscore(count[c]) \in 0 .. 100
    BY <1>1 DEF Subscore
  <1>3. s1 \in 0 .. 100 /\ s2 \in 0 .. 100 /\ s3 \in 0 .. 100 /\ s4 \in 0 .. 100
    BY <1>2 DEF Categories
  <1>4. FraudScore[count] = Rounded(sum, 100)
    BY DEF FraudScore, FraudWeight
  <1>5. sum \in Int /\ 0 <= sum /\ sum <= 10000
    <2> HIDE DEF s1, s2, s3, s4
    <2> QED BY <1>3
  <1> HIDE DEF sum
  <1>6. /\ Rounded(sum, 100) \in Int
        /\ sum - 50 <= 100 * Rounded(sum, 100) /\ 100 * Rounded(sum, 100) <= sum + 50
    BY <1>5, RoundedHundredth
  <1>7. Rounded(sum, 100) \in 0 .. 100
    BY <1>5, <1>6
  <1> QED BY <1>4, <1>7 DEF Percent

-----------------------------------------------------------------------------
(* Totals of rows *)

LEMMA SignsAgree ==
  ASSUME NEW S, RowsOK(S), NEW t \in S
  PROVE  /\ t.day \in Int /\ t.id \in Int /\ t.amount \in Int /\ Month(t) \in Int
         /\ Effective(t) \in Int /\ Size(Effective(t)) \in Nat
         /\ t.amount > 0 => Effective(t) >= 0
         /\ t.amount < 0 => Effective(t) <= 0
         /\ t.amount = 0 => Effective(t) = 0
  <1>1. t \in LedgerRows /\ IsEntry(t)
    BY DEF RowsOK
  <1>2. t.day \in Int /\ t.id \in Int /\ t.amount \in Int
    BY <1>1 DEF LedgerRows
  <1>3. Month(t) \in Int
    BY <1>2 DEF Month
  <1>4. /\ Effective(t) \in Int
        /\ t.amount > 0 => Effective(t) >= 0
        /\ t.amount < 0 => Effective(t) <= 0
        /\ t.amount = 0 => Effective(t) = 0
    BY <1>1, <1>2 DEF IsEntry, Effective
  <1>5. Size(Effective(t)) \in Nat
    BY <1>4 DEF Size
  <1> QED BY <1>2, <1>3, <1>4, <1>5

LEMMA PartOfRows ==
  ASSUME NEW S, RowsOK(S), NEW T \in SUBSET S
  PROVE  RowsOK(T) /\ IsFiniteSet(T)
  <1>1. IsFiniteSet(T)
    BY FS_Subset DEF RowsOK
  <1> QED BY <1>1 DEF RowsOK

Effs(S) == [t \in S |-> Effective(t)]
Sizes(S) == [t \in S |-> Size(Effective(t))]

LEMMA EffsAre ==
  ASSUME NEW S, RowsOK(S)
  PROVE  IntsOn(Effs(S), S) /\ IntsOn(Sizes(S), S) /\ \A t \in S : Sizes(S)[t] >= 0
  BY SignsAgree DEF Effs, Sizes, IntsOn

LEMMA EffTotal ==
  ASSUME NEW S, RowsOK(S), NEW T \in SUBSET S
  PROVE  /\ Total([t \in T |-> Effective(t)]) = SumFunctionOnSet(Effs(S), T)
         /\ Total([t \in T |-> Effective(t)]) \in Int
  <1> DEFINE g == [t \in T |-> Effective(t)]
  <1>1. IsFiniteSet(T) /\ RowsOK(T)
    BY PartOfRows
  <1>2. IntsOn(g, T) /\ \A t \in T : g[t] = Effs(S)[t]
    BY <1>1, SignsAgree DEF IntsOn, Effs
  <1>3. Total(g) = SumFunctionOnSet(g, T)
    BY DEF Total, SumFunction
  <1> HIDE DEF g
  <1>4. SumFunctionOnSet(g, T) = SumFunctionOnSet(Effs(S), T)
    BY <1>1, <1>2, SumSame
  <1>5. SumFunctionOnSet(g, T) \in Int
    BY <1>1, <1>2, SumIsInt DEF IntsOn
  <1> QED BY <1>3, <1>4, <1>5 DEF g

LEMMA SizeTotal ==
  ASSUME NEW S, RowsOK(S), NEW T \in SUBSET S
  PROVE  /\ Total([t \in T |-> Size(Effective(t))]) = SumFunctionOnSet(Sizes(S), T)
         /\ Total([t \in T |-> Size(Effective(t))]) \in Nat
  <1> DEFINE g == [t \in T |-> Size(Effective(t))]
  <1>1. IsFiniteSet(T) /\ RowsOK(T)
    BY PartOfRows
  <1>2. IntsOn(g, T) /\ \A t \in T : g[t] = Sizes(S)[t] /\ g[t] >= 0
    BY <1>1, SignsAgree DEF IntsOn, Sizes
  <1>3. Total(g) = SumFunctionOnSet(g, T)
    BY DEF Total, SumFunction
  <1> HIDE DEF g
  <1>4. SumFunctionOnSet(g, T) = SumFunctionOnSet(Sizes(S), T)
    BY <1>1, <1>2, SumSame
  <1>5. SumFunctionOnSet(g, T) \in Nat
    BY <1>1, <1>2, SumNotNegative
  <1> QED BY <1>3, <1>4, <1>5 DEF g

\* What a set has beyond a part of it is nothing, when it adds up to the same.
LEMMA SumBeyond ==
  ASSUME NEW S, IsFiniteSet(S), NEW f, IntsOn(f, S), NEW T \in SUBSET S,
         \A x \in S \ T : f[x] = 0
  PROVE  SumFunctionOnSet(f, T) = SumFunctionOnSet(f, S)
  <1> DEFINE U == S \ T
  <1>1. IsFiniteSet(T) /\ IsFiniteSet(U) /\ T \cap U = {} /\ T \cup U = S
    BY FS_Subset
  <1>2. IntsOn(f, T) /\ IntsOn(f, U) /\ \A x \in U : f[x] = 0
    BY DEF IntsOn
  <1> HIDE DEF U
  <1>3. SumFunctionOnSet(f, T \cup U)
           = SumFunctionOnSet(f, T) + SumFunctionOnSet(f, U)
    BY <1>1, <1>2, SumUnion
  <1>4. SumFunctionOnSet(f, U) = 0
    BY <1>1, <1>2, SumOfNothing
  <1>5. SumFunctionOnSet(f, T) \in Int
    BY <1>1, <1>2, SumIsInt DEF IntsOn
  <1>6. SumFunctionOnSet(f, S) = SumFunctionOnSet(f, T) + SumFunctionOnSet(f, U)
    BY <1>1, <1>3
  <1> QED BY <1>4, <1>5, <1>6

LEMMA InflowIs ==
  ASSUME NEW S, RowsOK(S)
  PROVE  /\ InflowOf(S) = Total([t \in Incoming(S) |-> Effective(t)])
         /\ InflowOf(S) = SumFunctionOnSet(Sizes(S), Incoming(S))
         /\ InflowOf(S) = SumFunctionOnSet(Effs(S), {u \in S : Effective(u) > 0})
         /\ InflowOf(S) \in Nat
  <1> DEFINE T == {u \in S : Effective(u) > 0}
             I == Incoming(S)
             f == Effs(S)
             g == Sizes(S)
  <1>1. \A t \in S : /\ t.amount \in Int /\ Effective(t) \in Int
                     /\ t.amount > 0 => Effective(t) >= 0
                     /\ t.amount < 0 => Effective(t) <= 0
                     /\ t.amount = 0 => Effective(t) = 0
    BY SignsAgree
  <1>2. T \in SUBSET I /\ I \in SUBSET S /\ T \in SUBSET S
    BY <1>1 DEF Incoming
  <1>3. \A t \in I : Effective(t) >= 0
    BY <1>1 DEF Incoming
  <1>4. \A t \in I \ T : f[t] = 0
    BY <1>1, <1>2, <1>3 DEF Effs
  <1>5. \A t \in I : g[t] = f[t] /\ f[t] >= 0
    <2>1. \A t \in I : t \in S /\ Effective(t) \in Int /\ Effective(t) >= 0
      BY <1>1, <1>2, <1>3
    <2>2. \A t \in I : Size(Effective(t)) = Effective(t)
      BY <2>1 DEF Size
    <2> QED BY <2>1, <2>2 DEF Effs, Sizes
  <1>6. IsFiniteSet(I) /\ IntsOn(f, I)
    BY <1>2, PartOfRows, EffsAre DEF IntsOn
  <1>7. /\ Total([t \in I |-> Effective(t)]) = SumFunctionOnSet(f, I)
        /\ Total([t \in T |-> Effective(t)]) = SumFunctionOnSet(f, T)
    BY <1>2, EffTotal
  <1>8. InflowOf(S) = Total([t \in T |-> Effective(t)])
    BY DEF InflowOf
  <1> HIDE DEF T, I, f, g
  <1>9. SumFunctionOnSet(f, T) = SumFunctionOnSet(f, I)
    BY <1>2, <1>4, <1>6, SumBeyond
  <1>10. SumFunctionOnSet(f, I) = SumFunctionOnSet(g, I)
    BY <1>5, <1>6, SumSame
  <1>11. SumFunctionOnSet(f, I) \in Nat
    BY <1>5, <1>6, SumNotNegative
  <1> QED BY <1>7, <1>8, <1>9, <1>10, <1>11 DEF T, I, f, g

LEMMA OutflowIs ==
  ASSUME NEW S, RowsOK(S)
  PROVE  /\ OutflowOf(S) = Total([t \in Outgoing(S) |-> Size(Effective(t))])
         /\ OutflowOf(S) = SumFunctionOnSet(Sizes(S), Outgoing(S))
         /\ OutflowOf(S) = SumFunctionOnSet(Sizes(S), {u \in S : Effective(u) <= 0})
         /\ OutflowOf(S) \in Nat
  <1> DEFINE T == {u \in S : Effective(u) <= 0}
             O == Outgoing(S)
             g == Sizes(S)
  <1>1. \A t \in S : /\ t.amount \in Int /\ Effective(t) \in Int
                     /\ t.amount > 0 => Effective(t) >= 0
                     /\ t.amount < 0 => Effective(t) <= 0
                     /\ t.amount = 0 => Effective(t) = 0
    BY SignsAgree
  <1>2. O \in SUBSET T /\ O \in SUBSET S /\ T \in SUBSET S
    BY <1>1 DEF Outgoing
  <1>3. \A t \in T \ O : g[t] = 0
    <2>1. \A t \in T \ O : Effective(t) = 0
      BY <1>1 DEF Outgoing
    <2> QED BY <2>1 DEF Sizes, Size
  <1>4. IsFiniteSet(T) /\ IntsOn(g, T)
    BY <1>2, PartOfRows, EffsAre DEF IntsOn
  <1>5. /\ Total([t \in O |-> Size(Effective(t))]) = SumFunctionOnSet(g, O)
        /\ Total([t \in T |-> Size(Effective(t))]) = SumFunctionOnSet(g, T)
        /\ Total([t \in T |-> Size(Effective(t))]) \in Nat
    BY <1>2, SizeTotal
  <1>6. OutflowOf(S) = Total([t \in T |-> Size(Effective(t))])
    BY DEF OutflowOf
  <1> HIDE DEF T, O, g
  <1>7. SumFunctionOnSet(g, O) = SumFunctionOnSet(g, T)
    BY <1>2, <1>3, <1>4, SumBeyond
  <1> QED BY <1>5, <1>6, <1>7 DEF T, O, g

\* The totals of the months add up to those of the rows.
LEMMA MonthsAddUp ==
  ASSUME NEW S, RowsOK(S)
  PROVE  /\ AllInflow(S) = InflowOf(S) /\ AllOutflow(S) = OutflowOf(S)
         /\ IsFiniteSet(Months(S))
         /\ \A k \in Months(S) : /\ InflowOf(MonthOf(S, k)) \in Nat
                                 /\ OutflowOf(MonthOf(S, k)) \in Nat
         /\ AllInflow(S)
               = Total([k \in DOMAIN Monthly(S) |-> Monthly(S)[k]["inflow"]])
         /\ AllOutflow(S)
               = Total([k \in DOMAIN Monthly(S) |-> Monthly(S)[k]["outflow"]])
  <1> DEFINE I == {u \in S : Effective(u) > 0}
             O == {u \in S : Effective(u) <= 0}
             K == Months(S)
             c == [t \in S |-> Month(t)]
             in == [k \in K |-> InflowOf(MonthOf(S, k))]
             out == [k \in K |-> OutflowOf(MonthOf(S, k))]
  <1>1. IsFiniteSet(S) /\ IsFiniteSet(I) /\ IsFiniteSet(O)
    BY PartOfRows DEF RowsOK
  <1>2. IsFiniteSet(K)
    <2>1. IsFiniteSet({c[t] : t \in S})
      BY <1>1, FiniteImage
    <2>2. K = {c[t] : t \in S}
      BY DEF Months
    <2> QED BY <2>1, <2>2
  <1>3. \A k : RowsOK(MonthOf(S, k)) /\ MonthOf(S, k) \in SUBSET S
    BY PartOfRows DEF MonthOf
  <1>4. \A k \in K : in[k] \in Nat /\ out[k] \in Nat
    BY <1>3, InflowIs, OutflowIs
  <1>5. ASSUME NEW k \in K
        PROVE  in[k] = SumFunctionOnSet(Effs(S), {t \in I : c[t] = k})
    <2> DEFINE T == {u \in MonthOf(S, k) : Effective(u) > 0}
    <2>1. T = {t \in I : c[t] = k}
      BY DEF MonthOf
    <2>2. in[k] = Total([t \in T |-> Effective(t)])
      BY DEF InflowOf
    <2>3. T \in SUBSET S
      BY DEF MonthOf
    <2> HIDE DEF T
    <2>4. Total([t \in T |-> Effective(t)]) = SumFunctionOnSet(Effs(S), T)
      BY <2>3, EffTotal
    <2> QED BY <2>1, <2>2, <2>4
  <1>6. ASSUME NEW k \in K
        PROVE  out[k] = SumFunctionOnSet(Sizes(S), {t \in O : c[t] = k})
    <2> DEFINE T == {u \in MonthOf(S, k) : Effective(u) <= 0}
    <2>1. T = {t \in O : c[t] = k}
      BY DEF MonthOf
    <2>2. out[k] = Total([t \in T |-> Size(Effective(t))])
      BY DEF OutflowOf
    <2>3. T \in SUBSET S
      BY DEF MonthOf
    <2> HIDE DEF T
    <2>4. Total([t \in T |-> Size(Effective(t))]) = SumFunctionOnSet(Sizes(S), T)
      BY <2>3, SizeTotal
    <2> QED BY <2>1, <2>2, <2>4
  <1>7. (\A t \in I : c[t] \in K) /\ (\A t \in O : c[t] \in K)
    BY DEF Months
  <1>8. IntsOn(Effs(S), I) /\ IntsOn(Sizes(S), O)
    BY EffsAre DEF IntsOn
  <1>9. /\ AllInflow(S) = Total(in) /\ AllOutflow(S) = Total(out)
        /\ Total(in) = SumFunctionOnSet(in, K) /\ Total(out) = SumFunctionOnSet(out, K)
    <2>1. /\ DOMAIN Monthly(S) = K
          /\ [k \in DOMAIN Monthly(S) |-> Monthly(S)[k].inflow] = in
          /\ [k \in DOMAIN Monthly(S) |-> Monthly(S)[k].outflow] = out
      BY DEF Monthly
    <2> QED BY <2>1 DEF AllInflow, AllOutflow, Total, SumFunction
  <1>10. InflowOf(S) = SumFunctionOnSet(Effs(S), I)
         /\ OutflowOf(S) = SumFunctionOnSet(Sizes(S), O)
    BY InflowIs, OutflowIs
  <1>11. /\ AllInflow(S) = Total([k \in DOMAIN Monthly(S) |-> Monthly(S)[k]["inflow"]])
         /\ AllOutflow(S) = Total([k \in DOMAIN Monthly(S) |-> Monthly(S)[k]["outflow"]])
    BY DEF AllInflow, AllOutflow
  <1>12. \A k \in K : /\ InflowOf(MonthOf(S, k)) \in Nat
                      /\ OutflowOf(MonthOf(S, k)) \in Nat
    BY <1>3, InflowIs, OutflowIs
  <1> HIDE DEF I, O, c, in, out
  <1>13. SumFunctionOnSet(in, K) = SumFunctionOnSet(Effs(S), I)
    <2> HIDE DEF K
    <2>1. Groups(c, Effs(S), I, in, K)
      BY <1>5, <1>7 DEF Groups
    <2> QED BY <1>1, <1>2, <1>8, <2>1, SumOfGroups
  <1>14. SumFunctionOnSet(out, K) = SumFunctionOnSet(Sizes(S), O)
    <2> HIDE DEF K
    <2>1. Groups(c, Sizes(S), O, out, K)
      BY <1>6, <1>7 DEF Groups
    <2> QED BY <1>1, <1>2, <1>8, <2>1, SumOfGroups
  <1> QED BY <1>2, <1>9, <1>10, <1>11, <1>12, <1>13, <1>14

\* Rows split by what they are add up to what they were.
LEMMA SplitAddsUp ==
  ASSUME NEW S, RowsOK(S), NEW c, NEW split,
         split = [k \in {c[t] : t \in S} |->
                    Total([t \in {u \in S : c[u] = k} |-> Size(Effective(t))])]
  PROVE  Total(split) = Total([t \in S |-> Size(Effective(t))])
  <1> DEFINE K == {c[t] : t \in S}
             f == Sizes(S)
  <1>1. IsFiniteSet(S) /\ IntsOn(f, S) /\ S \in SUBSET S
    BY EffsAre DEF RowsOK
  <1>2. IsFiniteSet(K)
    BY <1>1, FiniteImage
  <1>3. ASSUME NEW k \in K
        PROVE  split[k] = SumFunctionOnSet(f, {t \in S : c[t] = k})
    <2> DEFINE T == {u \in S : c[u] = k}
    <2>1. split[k] = Total([t \in T |-> Size(Effective(t))])
      OBVIOUS
    <2>2. T \in SUBSET S
      OBVIOUS
    <2> HIDE DEF T
    <2>3. Total([t \in T |-> Size(Effective(t))]) = SumFunctionOnSet(Sizes(S), T)
      BY <2>2, SizeTotal
    <2> QED BY <2>1, <2>3 DEF T
  <1>4. Groups(c, f, S, split, K)
    BY <1>3 DEF Groups
  <1>5. Total(split) = SumFunctionOnSet(split, K)
    BY DEF Total, SumFunction
  <1>6. Total([t \in S |-> Size(Effective(t))]) = SumFunctionOnSet(f, S)
    BY <1>1, SizeTotal
  <1> HIDE DEF K, f
  <1>7. SumFunctionOnSet(split, K) = SumFunctionOnSet(f, S)
    BY <1>1, <1>2, <1>4, SumOfGroups
  <1> QED BY <1>5, <1>6, <1>7

\* What came in and what went out is all there was.
LEMMA InAndOut ==
  ASSUME NEW S, RowsOK(S)
  PROVE  Total([t \in S |-> Size(Effective(t))]) = InflowOf(S) + OutflowOf(S)
  <1> DEFINE T == {u \in S : Effective(u) > 0}
             U == {u \in S : Effective(u) <= 0}
             f == Effs(S)
             g == Sizes(S)
  <1>1. \A t \in S : Effective(t) \in Int
    BY SignsAgree
  <1>2. /\ T \in SUBSET S /\ U \in SUBSET S /\ S \in SUBSET S
        /\ T \cap U = {} /\ T \cup U = S
    BY <1>1
  <1>3. \A t \in T : f[t] = g[t]
    <2>1. \A t \in T : t \in S /\ Size(Effective(t)) = Effective(t)
      BY <1>1 DEF Size
    <2> QED BY <2>1 DEF Effs, Sizes
  <1>4. /\ IsFiniteSet(T) /\ IsFiniteSet(U) /\ IntsOn(f, T) /\ IntsOn(g, T) /\ IntsOn(g, U)
    BY <1>2, PartOfRows, EffsAre DEF IntsOn
  <1>5. /\ InflowOf(S) = SumFunctionOnSet(f, T) /\ OutflowOf(S) = SumFunctionOnSet(g, U)
    BY InflowIs, OutflowIs
  <1>6. Total([t \in S |-> Size(Effective(t))]) = SumFunctionOnSet(g, S)
    BY <1>2, SizeTotal
  <1> HIDE DEF T, U, f, g
  <1>7. SumFunctionOnSet(f, T) = SumFunctionOnSet(g, T)
    BY <1>3, <1>4, SumSame
  <1>8. SumFunctionOnSet(g, T \cup U) = SumFunctionOnSet(g, T) + SumFunctionOnSet(g, U)
    BY <1>2, <1>4, SumUnion
  <1> QED BY <1>2, <1>5, <1>6, <1>7, <1>8

LEMMA ReportsAdd ==
  ASSUME NEW S, RowsOK(S), NEW account
  PROVE  /\ ReportsAddUp(Dashboard(account, S), CashflowAnalysis(account, S))
         /\ RecurringIsSpent(CashflowAnalysis(account, S))
  <1> DEFINE E == Eligible(S)
             O == Outgoing(E)
             R == Recurring(E)
             D == Dashboard(account, S)
             C == CashflowAnalysis(account, S)
             outflow == Total([t \in O |-> Size(Effective(t))])
             recurring == Total([t \in R |-> Size(Effective(t))])
             modes == [k \in {Mode(t) : t \in E} |->
                         Total([t \in {u \in E : Mode(u) = k} |-> Size(Effective(t))])]
             labels == [k \in {Label(t) : t \in O} |->
                         Total([t \in {u \in O : Label(u) = k} |-> Size(Effective(t))])]
  <1>1. E \in SUBSET S /\ O \in SUBSET E /\ R \in SUBSET O /\ R \in SUBSET E
    BY DEF Eligible, Outgoing, Recurring
  <1>2. RowsOK(E)
    BY <1>1, PartOfRows
  <1>3. RowsOK(O)
    BY <1>1, <1>2, PartOfRows
  <1>4. /\ D.inflows = Total([t \in Incoming(E) |-> Effective(t)])
        /\ D.outflows = outflow
        /\ D.trend = Monthly(E)
    BY DEF Dashboard
  <1>5. /\ C.recurring = recurring /\ C.variable = outflow - recurring
        /\ C.modes = modes /\ C.labels = labels
    BY DEF CashflowAnalysis, SplitBy
  <1>6. /\ D.inflows = InflowOf(E) /\ D.outflows = OutflowOf(E)
        /\ OutflowOf(E) = outflow /\ outflow \in Nat
    BY <1>2, <1>4, InflowIs, OutflowIs
  <1>7. recurring \in Nat /\ recurring <= outflow
    <2>1. /\ outflow = SumFunctionOnSet(Sizes(E), O) /\ recurring = SumFunctionOnSet(Sizes(E), R)
          /\ recurring \in Nat
      BY <1>1, <1>2, SizeTotal
    <2>2. IsFiniteSet(O) /\ IntsOn(Sizes(E), O) /\ \A t \in O : Sizes(E)[t] >= 0
      BY <1>1, <1>2, <1>3, EffsAre DEF IntsOn, RowsOK
    <2> HIDE DEF O, R, outflow, recurring
    <2>3. SumFunctionOnSet(Sizes(E), R) <= SumFunctionOnSet(Sizes(E), O)
      BY <1>1, <2>2, SumOfPart
    <2> QED BY <2>1, <2>3
  <1>8. Total(labels) = outflow
    <2> DEFINE c == [t \in O |-> Label(t)]
    <2>1. labels = [k \in {c[t] : t \in O} |->
                      Total([t \in {u \in O : c[u] = k} |-> Size(Effective(t))])]
      OBVIOUS
    <2> HIDE DEF c, labels, O
    <2> QED BY <1>3, <2>1, SplitAddsUp
  <1>9. Total(modes) = InflowOf(E) + OutflowOf(E)
    <2> DEFINE c == [t \in E |-> Mode(t)]
    <2>1. modes = [k \in {c[t] : t \in E} |->
                     Total([t \in {u \in E : c[u] = k} |-> Size(Effective(t))])]
      OBVIOUS
    <2> HIDE DEF c, modes, E
    <2>2. Total(modes) = Total([t \in E |-> Size(Effective(t))])
      BY <1>2, <2>1, SplitAddsUp
    <2> QED BY <1>2, <2>2, InAndOut
  <1>10. /\ InflowOf(E) = Total([k \in DOMAIN Monthly(E) |-> Monthly(E)[k]["inflow"]])
         /\ OutflowOf(E) = Total([k \in DOMAIN Monthly(E) |-> Monthly(E)[k]["outflow"]])
    <2> HIDE DEF E
    <2> QED BY <1>2, MonthsAddUp
  <1> HIDE DEF E, O, R, D, C, outflow, recurring, modes, labels
  <1>11. D.inflows = Total([m \in DOMAIN D.trend |-> D.trend[m]["inflow"]])
         /\ D.outflows = Total([m \in DOMAIN D.trend |-> D.trend[m]["outflow"]])
    BY <1>4, <1>6, <1>10
  <1>12. Total(C.labels) = D.outflows /\ Total(C.modes) = D.inflows + D.outflows
    BY <1>5, <1>6, <1>8, <1>9
  <1>13. C.recurring + C.variable = D.outflows /\ C.variable >= 0
    BY <1>5, <1>6, <1>7
  <1>14. ReportsAddUp(D, C)
    BY <1>11, <1>12, <1>13 DEF ReportsAddUp
  <1>15. RecurringIsSpent(C)
    BY <1>13 DEF RecurringIsSpent
  <1> QED BY <1>14, <1>15 DEF D, C

-----------------------------------------------------------------------------
(* First and last rows and days *)

LEMMA RowsInOrder ==
  ASSUME NEW S, RowsOK(S), S # {}
  PROVE  /\ FirstOf(S) \in S /\ \A u \in S : u = FirstOf(S) \/ Before(FirstOf(S), u)
         /\ LastOf(S) \in S /\ \A u \in S : u = LastOf(S) \/ Before(u, LastOf(S))
  <1>1. /\ IsFiniteSet(S) /\ \A t \in S : t.day \in Int /\ t.id \in Int
        /\ \A t, u \in S : t.id = u.id => t = u
    BY SignsAgree DEF RowsOK
  <1>2. \A t, u \in S : t = u \/ Before(t, u) \/ Before(u, t)
    BY <1>1 DEF Before
  <1>3. \A t, u, v \in S : (Before(t, u) /\ Before(u, v)) => Before(t, v)
    BY <1>1 DEF Before
  <1>4. \E t \in S : \A u \in S : u = t \/ Before(t, u)
    <2> DEFINE R == {p \in S \X S : Before(p[1], p[2])}
    <2>1. \A t, u \in S : <<t, u>> \in R <=> Before(t, u)
      OBVIOUS
    <2>2. Orders(R, S)
      BY <1>2, <1>3, <2>1 DEF Orders
    <2> HIDE DEF R
    <2>3. PICK t \in S : \A u \in S : u = t \/ <<t, u>> \in R
      BY <1>1, <2>2, HasFirst
    <2> QED BY <2>1, <2>3
  <1>5. \E t \in S : \A u \in S : u = t \/ Before(u, t)
    <2> DEFINE R == {p \in S \X S : Before(p[2], p[1])}
    <2>1. \A t, u \in S : <<t, u>> \in R <=> Before(u, t)
      OBVIOUS
    <2>2. Orders(R, S)
      BY <1>2, <1>3, <2>1 DEF Orders
    <2> HIDE DEF R
    <2>3. PICK t \in S : \A u \in S : u = t \/ <<t, u>> \in R
      BY <1>1, <2>2, HasFirst
    <2> QED BY <2>1, <2>3
  <1> QED BY <1>4, <1>5 DEF FirstOf, LastOf

LEMMA Extremes ==
  ASSUME NEW T \in SUBSET Int, IsFiniteSet(T), T # {}
  PROVE  /\ Max(T) \in T /\ \A x \in T : x <= Max(T)
         /\ Min(T) \in T /\ \A x \in T : Min(T) <= x
  <1>1. \E m \in T : \A x \in T : x <= m
    <2> DEFINE R == {p \in T \X T : p[2] <= p[1]}
    <2>1. \A x, y \in T : <<x, y>> \in R <=> y <= x
      OBVIOUS
    <2>2. Orders(R, T)
      BY <2>1 DEF Orders
    <2> HIDE DEF R
    <2>3. PICK m \in T : \A x \in T : x = m \/ <<m, x>> \in R
      BY <2>2, HasFirst
    <2>4. m <= m
      OBVIOUS
    <2> QED BY <2>1, <2>3, <2>4
  <1>2. \E m \in T : \A x \in T : m <= x
    <2> DEFINE R == {p \in T \X T : p[1] <= p[2]}
    <2>1. \A x, y \in T : <<x, y>> \in R <=> x <= y
      OBVIOUS
    <2>2. Orders(R, T)
      BY <2>1 DEF Orders
    <2> HIDE DEF R
    <2>3. PICK m \in T : \A x \in T : x = m \/ <<m, x>> \in R
      BY <2>2, HasFirst
    <2>4. m <= m
      OBVIOUS
    <2> QED BY <2>1, <2>3, <2>4
  <1>3. Max(T) \in T /\ \A x \in T : Max(T) >= x
    BY <1>1 DEF Max
  <1>4. Min(T) \in T /\ \A x \in T : Min(T) <= x
    BY <1>2 DEF Min
  <1> QED BY <1>3, <1>4

-----------------------------------------------------------------------------
(* Balances *)

LEMMA ClosingIs ==
  ASSUME NEW S, RowsOK(S)
  PROVE  /\ ClosingDays(S) \in SUBSET Int /\ IsFiniteSet(ClosingDays(S))
         /\ \A d \in ClosingDays(S) : Closing(S, d) \in Int
  <1> DEFINE W == WithBalance(S)
             c == [t \in W |-> t.day]
  <1>1. W \in SUBSET S
    BY DEF WithBalance
  <1>2. RowsOK(W) /\ IsFiniteSet(W)
    BY <1>1, PartOfRows
  <1>3. \A t \in W : t.day \in Int /\ t.balance \in Int
    BY <1>2 DEF RowsOK, LedgerRows, WithBalance
  <1>4. IsFiniteSet({c[t] : t \in W})
    BY <1>2, FiniteImage
  <1>5. ClosingDays(S) = {c[t] : t \in W}
    BY DEF ClosingDays
  <1>6. ASSUME NEW d \in ClosingDays(S)
        PROVE  Closing(S, d) \in Int
    <2> DEFINE T == {t \in W : t.day = d}
    <2>1. T # {} /\ T \in SUBSET W
      BY <1>5
    <2>2. Closing(S, d) = LastOf(T).balance
      BY DEF Closing
    <2> HIDE DEF T, W
    <2>3. RowsOK(T)
      BY <1>2, <2>1, PartOfRows
    <2>4. LastOf(T) \in T
      BY <2>1, <2>3, RowsInOrder
    <2> QED BY <1>3, <2>1, <2>2, <2>4
  <1> QED BY <1>3, <1>4, <1>5, <1>6

LEMMA CurrentIs ==
  ASSUME NEW S, RowsOK(S), NEW account, account.closing \in Int \cup {None}
  PROVE  CurrentBalance(S, account) \in Int \cup {None}
  <1> DEFINE D == ClosingDays(S)
  <1>1. D \in SUBSET Int /\ IsFiniteSet(D) /\ \A d \in D : Closing(S, d) \in Int
    BY ClosingIs
  <1>2. CurrentBalance(S, account) = IF D = {} THEN account.closing ELSE Closing(S, Max(D))
    BY DEF CurrentBalance
  <1> HIDE DEF D
  <1>3. D # {} => Max(D) \in D
    BY <1>1, Extremes
  <1> QED BY <1>1, <1>2, <1>3

LEMMA ExaminedIs ==
  ASSUME LendingIInv
  PROVE  Examined.closing \in Int \cup {None}
  <1> DEFINE W == WithBalance(ledger)
  <1>1. W \in SUBSET ledger /\ RowsOK(ledger)
    BY DEF WithBalance, LendingIInv
  <1>2. RowsOK(W) /\ IsFiniteSet(W)
    BY <1>1, PartOfRows
  <1>3. W \in SUBSET LedgerRows
    BY <1>2 DEF RowsOK
  <1>4. \A t \in W : t.balance \in Int
    BY <1>2 DEF RowsOK, LedgerRows, WithBalance
  <1>5. Examined.closing = IF W = {} THEN None ELSE LastAt(W).balance
    BY DEF Examined, AccountFrom
  <1> HIDE DEF W
  <1>6. W # {} => LastAt(W) \in W
    BY <1>2, <1>3, HasEnds
  <1> QED BY <1>4, <1>5, <1>6

LEMMA WindowIs ==
  ASSUME NEW S, RowsOK(S), ClosingDays(S) # {}, NEW length \in Int
  PROVE  Window(S, length).sum \in Int /\ Window(S, length).days \in Int
  <1> DEFINE D == ClosingDays(S)
             last == Max(D)
             from == Larger(last - length, Min(D))
             Until(d) == Min({e \in D : e > d} \cup {last + 1})
             Held(d) == Larger(0, Until(d) - Larger(d, from))
             f == [d \in D |-> Held(d) * Closing(S, d)]
  <1>1. D \in SUBSET Int /\ IsFiniteSet(D) /\ \A d \in D : Closing(S, d) \in Int
    BY ClosingIs
  <1>2. last \in Int /\ Min(D) \in Int
    BY <1>1, Extremes
  <1>3. Window(S, length) = [sum |-> Total(f), days |-> last - from + 1]
    BY DEF Window
  <1> HIDE DEF D, last
  <1>4. from \in Int
    BY <1>2 DEF Larger
  <1>5. \A d \in D : Until(d) \in Int
    <2> SUFFICES ASSUME NEW d \in D, NEW T, T = {e \in D : e > d} \cup {last + 1}
          PROVE  Min(T) \in Int
      OBVIOUS
    <2>1. IsFiniteSet({e \in D : e > d})
      BY <1>1, FS_Subset
    <2>2. IsFiniteSet({e \in D : e > d} \cup {last + 1})
      BY <2>1, FS_AddElement
    <2>3. T \in SUBSET Int /\ T # {}
      <3>1. last + 1 \in Int /\ last + 1 \in T
        BY <1>2
      <3>2. \A x \in T : x \in D \/ x = last + 1
        OBVIOUS
      <3> QED BY <1>1, <3>1, <3>2
    <2> QED BY <2>2, <2>3, Extremes
  <1> HIDE DEF Until, from
  <1>6. \A d \in D : Held(d) \in Int
    BY <1>1, <1>4, <1>5 DEF Larger
  <1> HIDE DEF Held
  <1>7. \A d \in D : f[d] \in Int
    BY <1>1, <1>6
  <1>8. Total(f) = SumFunctionOnSet(f, D)
    BY DEF Total, SumFunction
  <1> HIDE DEF f
  <1>9. SumFunctionOnSet(f, D) \in Int
    BY <1>1, <1>7, SumIsInt
  <1> QED BY <1>2, <1>3, <1>4, <1>8, <1>9

LEMMA StressIsFaster ==
  ASSUME NEW balance \in Nat, NEW in \in Nat, NEW out \in Nat, NEW n \in Nat,
         PrimaryRunway(balance, in, out, n) # None
  PROVE  /\ StressRunway(balance, in, out, n) # None
         /\ StressRunway(balance, in, out, n) <= PrimaryRunway(balance, in, out, n)
  <1> DEFINE b == out - in
             d == 5 * out - 4 * in
             a == balance * n * 10
             c == balance * (5 * n) * 10
  <1>1. b > 0 /\ PrimaryRunway(balance, in, out, n) = Rounded(a, b)
    BY DEF PrimaryRunway, RunwayTenths
  <1>2. 5 * b <= d /\ d > 0 /\ d \in Nat /\ b \in Nat
    BY <1>1
  <1>3. StressRunway(balance, in, out, n) = Rounded(c, d)
    BY <1>2 DEF StressRunway, RunwayTenths
  <1>4. a \in Nat /\ c = 5 * a /\ c \in Int
    OBVIOUS
  <1> HIDE DEF a, b, c, d
  <1>5. a * (5 * b) <= a * d
    BY <1>2, <1>4, TimesGrows
  <1>6. c * b <= a * d
    <2>1. c * b = a * (5 * b)
      BY <1>2, <1>4
    <2> QED BY <1>5, <2>1
  <1>7. Rounded(c, d) <= Rounded(a, b)
    <2>1. /\ a \in Int /\ c \in Int /\ b \in Nat /\ d \in Nat /\ b > 0 /\ d > 0
      BY <1>1, <1>2, <1>4
    <2> QED BY <1>6, <2>1, RoundedGrows
  <1>8. Rounded(c, d) \in Int
    BY <1>2, <1>4, Halves
  <1> QED BY <1>1, <1>3, <1>7, <1>8, LendingAssumption

LEMMA StressHolds ==
  ASSUME NEW S, RowsOK(S), NEW account, account.closing \in Int \cup {None}
  PROVE  StressIsShorter(CashflowForecast(account, S))
  <1> DEFINE E == Eligible(S)
             known == CurrentBalance(E, account)
             balance == IF known = None THEN 0 ELSE known
             n == Cardinality(Months(E))
             F == CashflowForecast(account, S)
  <1>1. RowsOK(E)
    BY PartOfRows DEF Eligible
  <1>2. /\ F.start = balance
        /\ F.primary = PrimaryRunway(balance, AllInflow(E), AllOutflow(E), n)
        /\ F.stress = StressRunway(balance, AllInflow(E), AllOutflow(E), n)
    BY DEF CashflowForecast
  <1> HIDE DEF E, F
  <1>3. known \in Int \cup {None}
    BY <1>1, CurrentIs
  <1>4. balance \in Int
    BY <1>3
  <1>5. AllInflow(E) \in Nat /\ AllOutflow(E) \in Nat
    BY <1>1, MonthsAddUp, InflowIs, OutflowIs
  <1>6. n \in Nat
    BY <1>1, MonthsAddUp, FS_CardinalityType
  <1> HIDE DEF balance, n
  <1>7. ASSUME F.start >= 0, F.primary # None
        PROVE  F.stress # None /\ F.stress <= F.primary
    <2>1. balance \in Nat
      BY <1>2, <1>4, <1>7
    <2> QED BY <1>2, <1>5, <1>6, <1>7, <2>1, StressIsFaster
  <1> QED BY <1>7 DEF StressIsShorter, F

-----------------------------------------------------------------------------
(* Money passing through *)

\* Induction, for a function defined by recursion on the numbers up to n
LEMMA PairsExist ==
  ASSUME NEW n \in Nat, NEW S
  PROVE  \E u : u = [k \in 0 .. n |->
                       IF k = 0 THEN {} ELSE Matched(u[k - 1], CreditAt(k, S), S)]
  <1> DEFINE Next1(u, k) == IF k = 0 THEN {} ELSE Matched(u[k - 1], CreditAt(k, S), S)
             P == {m \in Nat : \E u : u = [k \in 0 .. m |-> Next1(u, k)]}
  <1>1. 0 \in P
    <2> DEFINE u == [k \in 0 .. 0 |-> {}]
    <2>1. u = [k \in 0 .. 0 |-> Next1(u, k)]
      OBVIOUS
    <2> QED BY <2>1
  <1>2. ASSUME NEW m \in 0 .. n - 1, m \in P
        PROVE  m + 1 \in P
    <2>1. PICK u : u = [k \in 0 .. m |-> Next1(u, k)]
      BY <1>2
    <2> DEFINE w == [k \in 0 .. m + 1 |-> Next1(u, k)]
    <2>2. \A k \in 0 .. m : w[k] = u[k]
      <3> HIDE DEF Next1
      <3>1. \A k \in 0 .. m : u[k] = Next1(u, k)
        BY <2>1
      <3>2. \A k \in 0 .. m : k \in 0 .. m + 1
        OBVIOUS
      <3> QED BY <3>1, <3>2
    <2>3. \A k \in 0 .. m + 1 : k # 0 => k - 1 \in 0 .. m
      OBVIOUS
    <2> HIDE DEF w
    <2>4. \A k \in 0 .. m + 1 : Next1(u, k) = Next1(w, k)
      BY <2>2, <2>3
    <2>5. w = [k \in 0 .. m + 1 |-> Next1(w, k)]
      <3> HIDE DEF Next1
      <3> QED BY <2>4 DEF w
    <2>6. m + 1 \in Nat
      OBVIOUS
    <2> HIDE DEF Next1
    <2> QED BY <2>5, <2>6
  <1> HIDE DEF P
  <1>3. n \in P
    BY <1>1, <1>2, UpTo
  <1> QED BY <1>3 DEF P

\* Each credit has its number in the order of dates.
LEMMA CreditsAreCounted ==
  ASSUME NEW S, RowsOK(S), NEW k \in 1 .. Cardinality(Incoming(S))
  PROVE  /\ CreditAt(k, S) \in Incoming(S)
         /\ Cardinality({u \in Incoming(S) : Before(u, CreditAt(k, S))}) = k - 1
  <1> DEFINE I == Incoming(S)
             n == Cardinality(I)
             Earlier(c) == {u \in I : Before(u, c)}
             rank == [c \in I |-> Cardinality(Earlier(c))]
             K == {rank[c] : c \in I}
  <1>1. RowsOK(I) /\ IsFiniteSet(I) /\ n \in Nat
    BY PartOfRows, FS_CardinalityType DEF Incoming
  <1>2. \A c \in I : Earlier(c) \in SUBSET I /\ IsFiniteSet(Earlier(c))
                     /\ Cardinality(Earlier(c)) \in Nat
    BY <1>1, FS_Subset, FS_CardinalityType
  <1>3. /\ \A c \in I : ~Before(c, c)
        /\ \A c, d \in I : c = d \/ Before(c, d) \/ Before(d, c)
        /\ \A b, c, d \in I : (Before(b, c) /\ Before(c, d)) => Before(b, d)
    <2>1. \A c \in I : c.day \in Int /\ c.id \in Int
      BY <1>1, SignsAgree
    <2>2. \A c, d \in I : c.id = d.id => c = d
      BY <1>1 DEF RowsOK
    <2> HIDE DEF I
    <2> QED BY <2>1, <2>2 DEF Before
  <1>4. \A c \in I : rank[c] \in 0 .. n - 1
    <2> TAKE c \in I
    <2>1. c \in I /\ c \notin Earlier(c)
      BY <1>3
    <2>2. Earlier(c) # I
      BY <2>1
    <2>3. /\ Cardinality(Earlier(c)) <= n /\ Cardinality(Earlier(c)) # n
          /\ Cardinality(Earlier(c)) \in Nat
      BY <1>1, <1>2, <2>2, FS_Subset
    <2>4. rank[c] = Cardinality(Earlier(c))
      OBVIOUS
    <2> HIDE DEF rank, Earlier, n
    <2> QED BY <1>1, <2>3, <2>4
  <1>5. \A c, d \in I : rank[c] = rank[d] => c = d
    <2> SUFFICES ASSUME NEW c \in I, NEW d \in I, Before(c, d), rank[c] = rank[d]
          PROVE  FALSE
      BY <1>3
    <2>1. Earlier(c) \in SUBSET Earlier(d) /\ c \in Earlier(d) /\ c \notin Earlier(c)
      BY <1>3
    <2>2. Cardinality(Earlier(d)) = Cardinality(Earlier(c))
      OBVIOUS
    <2> HIDE DEF Earlier
    <2>3. Earlier(d) = Earlier(c)
      BY <1>2, <2>1, <2>2, FS_Subset
    <2> QED BY <2>1, <2>3
  <1>6. K = 0 .. n - 1
    <2> HIDE DEF I, rank
    <2>1. rank \in Injection(I, K)
      <3>1. rank \in [I -> K] /\ \A c, d \in I : rank[c] = rank[d] => c = d
        BY <1>5 DEF rank
      <3> QED BY <3>1 DEF Injection, IsInjective
    <2>2. IsFiniteSet(0 .. n - 1) /\ Cardinality(0 .. n - 1) = n
      <3>1. n - 1 \in Int /\ 0 \in Int /\ k \in 1 .. n
        BY <1>1 DEF I
      <3> HIDE DEF n
      <3>2. /\ IsFiniteSet(0 .. n - 1)
            /\ Cardinality(0 .. n - 1) = IF 0 > n - 1 THEN 0 ELSE (n - 1) - 0 + 1
        BY <3>1, FS_Interval
      <3> QED BY <1>1, <3>1, <3>2
    <2>3. K \in SUBSET (0 .. n - 1)
      BY <1>4
    <2> HIDE DEF K
    <2>4. IsFiniteSet(K) /\ Cardinality(K) <= n /\ Cardinality(K) \in Nat
      BY <2>2, <2>3, FS_Subset, FS_CardinalityType
    <2>5. n <= Cardinality(K)
      BY <2>1, <2>4, FS_Injection
    <2>6. Cardinality(K) = n
      BY <1>1, <2>4, <2>5
    <2> QED BY <2>2, <2>3, <2>6, FS_Subset
  <1>7. k - 1 \in K
    <2>1. k \in 1 .. n
      OBVIOUS
    <2> HIDE DEF K, n
    <2> QED BY <1>1, <1>6, <2>1
  <1>8. \E c \in I : Cardinality(Earlier(c)) = k - 1
    BY <1>7
  <1> QED BY <1>8 DEF CreditAt

\* What has been matched when k credits were looked at
PairsOK(k, pairs, S) ==
    /\ IsFiniteSet(pairs) /\ DebitsMatchedOnce(pairs)
    /\ \A p \in pairs : \E j \in 1 .. k : p[1] = CreditAt(j, S)

LEMMA MatchedOnce ==
  ASSUME NEW S, RowsOK(S)
  PROVE  IsFiniteSet(PassThrough(S)) /\ DebitsMatchedOnce(PassThrough(S))
  <1> DEFINE n == Cardinality(Incoming(S))
             N1(u, k) == IF k = 0 THEN {} ELSE Matched(u[k - 1], CreditAt(k, S), S)
             u == CHOOSE u : u = [k \in 0 .. n |-> N1(u, k)]
             P == {k \in 0 .. n : PairsOK(k, u[k], S)}
  <1>1. n \in Nat
    BY PartOfRows, FS_CardinalityType DEF Incoming
  <1>2. \E w : w = [k \in 0 .. n |-> N1(w, k)]
    <2> HIDE DEF n
    <2> QED BY <1>1, PairsExist
  <1>3. u = [k \in 0 .. n |-> N1(u, k)]
    BY <1>2
  <1>4. PassThrough(S) = u[n]
    BY DEF PassThrough
  <1> HIDE DEF u
  <1>5. u[0] = {} /\ \A k \in 1 .. n : u[k] = Matched(u[k - 1], CreditAt(k, S), S)
    <2>1. \A k \in 0 .. n : u[k] = N1(u, k)
      <3> HIDE DEF N1, n
      <3> QED BY <1>3
    <2>2. 0 \in 0 .. n /\ \A k \in 1 .. n : k \in 0 .. n /\ k # 0
      BY <1>1
    <2> QED BY <2>1, <2>2
  <1>6. 0 \in P
    BY <1>1, <1>5, FS_EmptySet DEF PairsOK, DebitsMatchedOnce
  <1>7. ASSUME NEW m \in 0 .. n - 1, m \in P
        PROVE  m + 1 \in P
    <2> DEFINE c == CreditAt(m + 1, S)
               free == {d \in Unmatched(u[m], S) : Explains(d, c)}
               f == FirstOf(free)
               p == <<c, f>>
    <2>1. /\ m + 1 \in 1 .. n /\ m + 1 \in 0 .. n /\ (m + 1) - 1 = m /\ m \in Int
          /\ PairsOK(m, u[m], S)
      BY <1>1, <1>7
    <2>2. u[m + 1] = IF free = {} THEN u[m] ELSE u[m] \cup {p}
      BY <1>5, <2>1 DEF Matched
    <2>3. PairsOK(m + 1, u[m], S)
      BY <2>1 DEF PairsOK
    <2>4. CASE free = {}
      BY <2>1, <2>2, <2>3, <2>4
    <2>5. CASE free # {}
      <3>1. free \in SUBSET S
        BY DEF Unmatched, Outgoing
      <3>2. f \in free
        <4> HIDE DEF free
        <4> QED BY <2>5, <3>1, PartOfRows, RowsInOrder
      <3>3. \A q \in u[m] : q[2] # f
        BY <3>2 DEF Unmatched
      <3>4. \A q \in u[m] : q[1] # c
        <4> SUFFICES ASSUME NEW j \in 1 .. m
              PROVE  CreditAt(j, S) # c
          BY <2>1 DEF PairsOK
        <4>1. j \in 1 .. n /\ j - 1 # m
          BY <1>1
        <4>2. Cardinality({v \in Incoming(S) : Before(v, CreditAt(j, S))}) = j - 1
          BY <4>1, CreditsAreCounted
        <4>3. Cardinality({v \in Incoming(S) : Before(v, c)}) = m
          BY <2>1, CreditsAreCounted
        <4> HIDE DEF c
        <4> QED BY <4>1, <4>2, <4>3
      <3>5. p[1] = c /\ p[2] = f
        OBVIOUS
      <3>6. \E j \in 1 .. m + 1 : p[1] = CreditAt(j, S)
        BY <2>1, <3>5
      <3> HIDE DEF p, f, c
      <3>7. DebitsMatchedOnce(u[m] \cup {p})
        BY <2>1, <3>3, <3>4, <3>5 DEF PairsOK, DebitsMatchedOnce
      <3>8. IsFiniteSet(u[m] \cup {p})
        BY <2>1, FS_AddElement DEF PairsOK
      <3>9. PairsOK(m + 1, u[m] \cup {p}, S)
        BY <2>3, <3>6, <3>7, <3>8 DEF PairsOK
      <3> QED BY <2>1, <2>2, <2>5, <3>9
    <2> QED BY <2>4, <2>5
  <1> HIDE DEF P
  <1>8. n \in P
    BY <1>1, <1>6, <1>7, UpTo
  <1> QED BY <1>4, <1>8 DEF P, PairsOK

-----------------------------------------------------------------------------
(* The components of the loan score *)

LEMMA FraudIs ==
  ASSUME NEW S, RowsOK(S), NEW account
  PROVE  /\ FraudRisk(account, S).score \in Percent
         /\ FraudRisk(account, S).flags.timing_anomaly = PassThrough(Eligible(S))
  <1> DEFINE E == Eligible(S)
             X == E \ Contributions(E)
             flags == [z_score_anomaly |-> Outliers(X),
                       structuring |-> Structuring(X),
                       duplicate_payee |-> Duplicates(E),
                       timing_anomaly |-> PassThrough(E)]
             count == [c \in Categories |-> Cardinality(flags[c])]
  <1>1. RowsOK(E)
    BY PartOfRows DEF Eligible
  <1>2. IsFiniteSet(X) /\ IsFiniteSet(E)
    BY <1>1, PartOfRows DEF RowsOK
  <1>3. FraudRisk(account, S).score = FraudScore[count] /\ FraudRisk(account, S).flags = flags
    BY DEF FraudRisk, Considered
  <1> HIDE DEF X, E
  <1>4. IsFiniteSet(Outliers(X))
    BY <1>2, FS_Subset DEF Outliers
  <1>5. IsFiniteSet(Structuring(X))
    BY FS_EmptySet, FS_Singleton DEF Structuring
  <1>6. IsFiniteSet(Duplicates(E))
    <2> DEFINE Same(t) == {u \in Outgoing(E) : u.amount = t.amount /\ u.day = t.day
                                                 /\ u.payee = t.payee}
               T == {u \in Outgoing(E) : u.payee # None}
               same == [t \in T |-> Same(t)]
    <2>1. IsFiniteSet(T)
      BY <1>2, FS_Subset DEF Outgoing
    <2>2. Duplicates(E) \in SUBSET {same[t] : t \in T}
      BY DEF Duplicates
    <2> HIDE DEF same, T
    <2>3. IsFiniteSet({same[t] : t \in T})
      BY <2>1, FiniteImage
    <2> QED BY <2>2, <2>3, FS_Subset
  <1>7. IsFiniteSet(PassThrough(E))
    BY <1>1, MatchedOnce
  <1>8. \A c \in Categories : IsFiniteSet(flags[c])
    BY <1>4, <1>5, <1>6, <1>7 DEF Categories
  <1>9. flags.timing_anomaly = PassThrough(E)
    OBVIOUS
  <1> HIDE DEF flags
  <1>10. count \in FlagCounts
    BY <1>8, FS_CardinalityType DEF FlagCounts
  <1>11. FraudScore[count] \in Percent
    BY <1>10, FraudScoreRange
  <1> QED BY <1>3, <1>9, <1>11 DEF E

LEMMA ScoreCounts ==
  ASSUME NEW b \in Nat, NEW T \in SUBSET (1 .. b)
  PROVE  Cardinality(T) \in 0 .. b
  <1>2. IsFiniteSet(1 .. b) /\ Cardinality(1 .. b) = IF 1 > b THEN 0 ELSE b - 1 + 1
    BY FS_Interval
  <1>3. IsFiniteSet(T) /\ Cardinality(T) <= Cardinality(1 .. b) /\ Cardinality(T) \in Nat
    BY <1>2, FS_Subset, FS_CardinalityType
  <1> QED BY <1>2, <1>3

LEMMA IncomeIs ==
  ASSUME NEW S
  PROVE  ScoreOf(IncomeStability(S)) \in Percent \cup {None}
  <1> DEFINE m == Monthly(S)
             n == Cardinality(DOMAIN m)
             sum == AllInflow(S)
             spread == n * Total([k \in DOMAIN m |-> m[k].inflow * m[k].inflow]) - sum * sum
             AtLeast(k) ==
               LET a == 40000 * spread
                   b == (201 - 2 * k) * (201 - 2 * k) * sum * sum
               IN  a < b \/ (a = b /\ k % 2 = 0)
             T == {k \in 1 .. 100 : AtLeast(k)}
             I == IncomeStability(S)
  <1>1. I = None \/ I.score = Cardinality(T)
    BY DEF IncomeStability
  <1>2. T \in SUBSET (1 .. 100)
    OBVIOUS
  <1> HIDE DEF T, I
  <1>5. Cardinality(T) \in Percent
    BY <1>2, ScoreCounts DEF Percent
  <1>6. ScoreOf(I) \in Percent \cup {None}
    BY <1>1, <1>5 DEF ScoreOf
  <1> QED BY <1>6 DEF I

LEMMA AbmIs ==
  ASSUME NEW S, RowsOK(S)
  PROVE  /\ ScoreOf(Abm(S)) \in Percent \cup {None}
         /\ (IF Abm(S) = None THEN None ELSE Abm(S).trend) \in Trends
  <1>1. CASE ClosingDays(S) = {}
    BY <1>1 DEF Abm, ScoreOf, Trends
  <1>2. CASE ClosingDays(S) # {}
    <2> DEFINE short == Window(S, 90)
               long == Window(S, 360)
               change == 100 * (short.sum * long.days - long.sum * short.days)
               against == long.sum * short.days
               up == IF against < 0 THEN -change ELSE change
               of == IF against = 0 THEN 1 ELSE Size(against)
               x == Rounded(50 * of + up, of)
               A == Abm(S)
    <2>1. /\ A.score = IF against = 0 THEN 50 ELSE Clamped(x)
          /\ A.trend \in {"improving", "stable", "declining"}
      BY <1>2 DEF Abm
    <2>2. /\ short.sum \in Int /\ short.days \in Int
          /\ long.sum \in Int /\ long.days \in Int
      BY <1>2, WindowIs
    <2> HIDE DEF short, long, A
    <2>3. against \in Int /\ change \in Int
      BY <2>2
    <2> HIDE DEF against, change
    <2>4. up \in Int /\ of \in Nat /\ of > 0
      BY <2>3 DEF Size
    <2> HIDE DEF up, of
    <2>5. x \in Int
      <3>1. 50 * of + up \in Int
        BY <2>4
      <3> QED BY <2>4, <3>1, Halves
    <2>6. A.score \in Percent
      <3>1. Clamped(x) \in Percent
        BY <2>5, ClampedRange
      <3>2. 50 \in Percent
        BY DEF Percent
      <3> QED BY <2>1, <3>1, <3>2
    <2> QED BY <2>1, <2>6 DEF ScoreOf, Trends, A
  <1> QED BY <1>1, <1>2

LEMMA BufferIs ==
  ASSUME NEW balance \in Int \cup {None}, NEW outflow \in Nat, NEW months \in Nat
  PROVE  ScoreOf(CashBuffer(balance, outflow, months)) \in Percent \cup {None}
  <1> DEFINE B == CashBuffer(balance, outflow, months)
             x == Rounded(balance * months * 100, outflow * 6)
  <1>1. CASE balance = None \/ outflow = 0
    BY <1>1 DEF CashBuffer, ScoreOf
  <1>2. CASE balance # None /\ outflow # 0
    <2>1. B.score = Clamped(x)
      BY <1>2 DEF CashBuffer
    <2>2. balance * months * 100 \in Int /\ outflow * 6 \in Nat /\ outflow * 6 > 0
      BY <1>2
    <2>3. x \in Int
      BY <2>2, Halves
    <2> HIDE DEF B, x
    <2>4. B.score \in Percent
      BY <2>1, <2>3, ClampedRange
    <2> QED BY <2>4 DEF ScoreOf, B
  <1> QED BY <1>1, <1>2

\* The components that a set of rows has
PartsOf(account, S, fraud) ==
    [income_stability |-> ScoreOf(IncomeStability(Eligible(S))),
     abm_trend |-> ScoreOf(Abm(Eligible(S))),
     fraud_risk_inverted |-> 100 - fraud.score,
     cash_buffer |-> ScoreOf(CashBuffer(CurrentBalance(Eligible(S), account),
                                        AllOutflow(Eligible(S)),
                                        Cardinality(Months(Eligible(S)))))]
TrendOf(S) == IF Abm(Eligible(S)) = None THEN None ELSE Abm(Eligible(S)).trend

LEMMA LoanIs ==
  ASSUME NEW S, RowsOK(S), NEW account, account.closing \in Int \cup {None},
         NEW fraud, fraud.score \in Percent, NEW c, c = PartsOf(account, S, fraud)
  PROVE  LET loan == LoanReadinessWith(account, S, fraud)
         IN  /\ c \in Components /\ loan.components = c
             /\ loan.score = LoanReadinessScore(c)
             /\ loan.reachable = MaxAchievable(c)
             /\ DOMAIN loan.gains = Recommended(c, TrendOf(S))
             /\ \A f \in DOMAIN loan.gains : loan.gains[f] = Gain(c, f)
  <1> DEFINE E == Eligible(S)
             loan == LoanReadinessWith(account, S, fraud)
             trend == TrendOf(S)
  <1>1. RowsOK(E)
    BY PartOfRows DEF Eligible
  <1>2. 100 - fraud.score \in Percent
    BY DEF Percent
  <1>3. ScoreOf(IncomeStability(E)) \in Percent \cup {None}
    BY IncomeIs
  <1>4. ScoreOf(Abm(E)) \in Percent \cup {None} /\ trend \in Trends
    BY <1>1, AbmIs DEF TrendOf
  <1>5. ScoreOf(CashBuffer(CurrentBalance(E, account), AllOutflow(E), Cardinality(Months(E))))
          \in Percent \cup {None}
    <2> HIDE DEF E
    <2>1. CurrentBalance(E, account) \in Int \cup {None}
      BY <1>1, CurrentIs
    <2>2. AllOutflow(E) \in Nat
      BY <1>1, MonthsAddUp, OutflowIs
    <2>3. Cardinality(Months(E)) \in Nat
      BY <1>1, MonthsAddUp, FS_CardinalityType
    <2> QED BY <2>1, <2>2, <2>3, BufferIs
  <1>6. c \in Components
    BY <1>2, <1>3, <1>4, <1>5 DEF PartsOf, Components, Factors
  <1>7. c \in Scored
    BY <1>6 DEF Components, Scored, Percent
  <1>8. loan = LoanReport[c][trend]
    BY DEF LoanReadinessWith, PartsOf, TrendOf
  <1> HIDE DEF trend, loan
  <1>9. LoanReport[c][trend] =
           [components |-> c, score |-> LoanReadinessScore(c),
            tier |-> Tier(LoanReadinessScore(c)), reachable |-> MaxAchievable(c),
            gains |-> [f \in Recommended(c, trend) |-> Gain(c, f)]]
    BY <1>4, <1>7 DEF LoanReport
  <1>10. /\ loan.components = c /\ loan.score = LoanReadinessScore(c)
         /\ loan.reachable = MaxAchievable(c)
         /\ loan.gains = [f \in Recommended(c, trend) |-> Gain(c, f)]
    BY <1>8, <1>9
  <1> QED BY <1>6, <1>10 DEF trend, loan

LEMMA LoanHolds ==
  ASSUME NEW S, RowsOK(S), NEW account, account.closing \in Int \cup {None}
  PROVE  LET loan == LoanReadiness(account, S)
         IN  /\ loan.components \in Components
             /\ ScoreInReach(loan) /\ GainInReach(loan)
             /\ BriefAgrees(LenderBrief(account, S), loan)
  <1> DEFINE fraud == FraudRisk(account, Eligible(S))
             whole == FraudRisk(account, S)
             c == PartsOf(account, S, fraud)
             loan == LoanReadinessWith(account, S, fraud)
             told == LoanReadinessWith(account, S, whole)
  <1>1. LoanReadiness(account, S) = loan /\ LenderBrief(account, S).loan = told.score
    BY DEF LoanReadiness, LenderBrief
  <1>2. RowsOK(Eligible(S)) /\ Eligible(Eligible(S)) = Eligible(S)
    BY PartOfRows DEF Eligible
  <1>3. fraud.score \in Percent /\ whole.score \in Percent
    BY <1>2, FraudIs
  <1>4. fraud.score = whole.score
    BY <1>2 DEF FraudRisk, Considered
  <1>5. c = PartsOf(account, S, whole)
    BY <1>4 DEF PartsOf
  <1> HIDE DEF c, fraud, whole, loan, told
  <1>6. /\ c \in Components /\ loan.components = c
        /\ loan.score = LoanReadinessScore(c)
        /\ loan.reachable = MaxAchievable(c)
        /\ DOMAIN loan.gains = Recommended(c, TrendOf(S))
        /\ \A f \in DOMAIN loan.gains : loan.gains[f] = Gain(c, f)
    BY <1>3, LoanIs DEF c, loan
  <1>7. told.score = LoanReadinessScore(c)
    BY <1>3, <1>5, LoanIs DEF told
  <1>8. /\ LoanReadinessScore(c) \in 0 .. MaxAchievable(c)
        /\ \A f \in Factors : c[f] # None =>
              LoanReadinessScore(c) + Gain(c, f) <= MaxAchievable(c) + 1
    BY <1>6, LoanScoreRange
  <1>9. ScoreInReach(loan)
    BY <1>6, <1>8 DEF ScoreInReach
  <1>10. GainInReach(loan)
    <2>1. \A f \in Recommended(c, TrendOf(S)) : f \in Factors /\ c[f] # None
      BY DEF Recommended, Factors
    <2> QED BY <1>6, <1>8, <2>1 DEF GainInReach
  <1> QED BY <1>1, <1>6, <1>7, <1>9, <1>10 DEF BriefAgrees

-----------------------------------------------------------------------------
(* The reports *)

LEMMA ReportsHold ==
  ASSUME LendingIInv
  PROVE  LendingTypeOK /\ ReportsAgree
  <1> DEFINE S == Loaded
             a == Examined
  <1>1. RowsOK(S)
    BY PartOfRows DEF LendingIInv, Loaded
  <1>2. a.closing \in Int \cup {None}
    BY ExaminedIs
  <1> HIDE DEF S, a
  <1>3. LET loan == LoanReadiness(a, S)
        IN  /\ loan.components \in Components
            /\ ScoreInReach(loan) /\ GainInReach(loan)
            /\ BriefAgrees(LenderBrief(a, S), loan)
    BY <1>1, <1>2, LoanHolds
  <1>4. /\ ReportsAddUp(Dashboard(a, S), CashflowAnalysis(a, S))
        /\ RecurringIsSpent(CashflowAnalysis(a, S))
    BY <1>1, ReportsAdd
  <1>5. StressIsShorter(CashflowForecast(a, S))
    BY <1>1, <1>2, StressHolds
  <1>6. DebitsMatchedOnce(FraudRisk(a, S).flags.timing_anomaly)
    <2>1. RowsOK(Eligible(S))
      BY <1>1, PartOfRows DEF Eligible
    <2> QED BY <1>1, <2>1, FraudIs, MatchedOnce
  <1>7. ReportsAgree
    BY <1>3, <1>4, <1>5, <1>6 DEF ReportsAgree, Pages, S, a
  <1>8. LendingTypeOK
    <2>1. /\ stated \in BOOLEAN /\ begun \in Nat /\ printed \in begun .. begun + MaxEntries
          /\ running \in Int
      BY DEF LendingIInv
    <2>2. \A t \in ledger : t.at \in (1 .. printed) \ {x.at : x \in lost}
      BY DEF LendingIInv, PlacesOK
    <2>3. \A t, u \in ledger : t.id = u.id => t = u
      BY DEF LendingIInv, RowsOK
    <2> QED BY <1>3, <2>1, <2>2, <2>3 DEF LendingTypeOK, S, a
  <1> QED BY <1>7, <1>8

\* Whatever a statement prints, the pages computed from its rows agree: months,
\* splits and totals add up to each other in one currency, recurring payments
\* are part of what was spent, no debit is matched twice, money lasts no longer
\* under stress, the loan score is within what is announced with it, and the
\* lender is told the score the business sees (bank_cashflow.py:16,
\* bank_fraud_risk.py:205, bank_cashflow_forecast.py:60,
\* bank_loan_readiness.py:302).
THEOREM ReportsOnRows == MCSpec => []ReportsAgree
  BY LendingSound, ReportsHold, PTL

\* Scores are percentages, and every row has its place in the statement, for
\* statements of any length (bank_loan_readiness.py:236).
THEOREM LendingTyped == MCSpec => []LendingTypeOK
  BY LendingSound, ReportsHold, PTL

-----------------------------------------------------------------------------
(* Ladders, and the metrics of the health score *)

LadderOK(l, max) ==
    /\ l.rest \in 0 .. max
    /\ \E n \in Nat : DOMAIN l.rungs = 1 .. n
    /\ \A k \in DOMAIN l.rungs :
          l.rungs[k][1] \in Int /\ l.rungs[k][2] \in l.rest .. max

\* A rung further down has no more points.
Falls(l) ==
    \A j, k \in DOMAIN l.rungs : j < k => l.rungs[k][2] <= l.rungs[j][2]

LEMMA FirstMet ==
  ASSUME NEW l, NEW max \in Nat, LadderOK(l, max), NEW v, Met(l, v) # {}
  PROVE  /\ Min(Met(l, v)) \in Met(l, v)
         /\ Met(l, v) \subseteq DOMAIN l.rungs
         /\ \A k \in Met(l, v) : Min(Met(l, v)) <= k
  <1>1. Met(l, v) \subseteq DOMAIN l.rungs /\ DOMAIN l.rungs \subseteq Nat
    BY DEF Met, LadderOK
  <1>2. \E m \in Met(l, v) : \A k \in Met(l, v) : m <= k
    BY <1>1, SmallestNat
  <1> QED BY <1>1, <1>2 DEF Min

LEMMA PointsAre ==
  ASSUME NEW l, NEW max \in Nat, LadderOK(l, max), NEW v
  PROVE  Points(l, v) \in l.rest .. max
  <1>1. l.rest \in 0 .. max
    BY DEF LadderOK
  <1>2. CASE Met(l, v) = {}
    BY <1>1, <1>2 DEF Points
  <1>3. CASE Met(l, v) # {}
    <2>1. Points(l, v) = l.rungs[Min(Met(l, v))][2]
      BY <1>3 DEF Points
    <2>2. Min(Met(l, v)) \in DOMAIN l.rungs
      BY <1>3, FirstMet
    <2> QED BY <2>1, <2>2 DEF LadderOK
  <1> QED BY <1>2, <1>3

LEMMA PointsAtMost ==
  ASSUME NEW l, NEW max \in Nat, LadderOK(l, max), NEW v, NEW p \in Nat,
         l.rest <= p, \A k \in Met(l, v) : l.rungs[k][2] <= p
  PROVE  Points(l, v) <= p
  <1>1. CASE Met(l, v) = {}
    BY <1>1 DEF Points
  <1>2. CASE Met(l, v) # {}
    BY <1>2, FirstMet DEF Points
  <1> QED BY <1>1, <1>2

\* A figure that meets more rungs earns no less.
LEMMA PointsGrow ==
  ASSUME NEW l, NEW max \in Nat, LadderOK(l, max), Falls(l),
         NEW v \in Int, NEW w \in Int, IF l.cost THEN w <= v ELSE v <= w
  PROVE  Points(l, v) <= Points(l, w)
  <1>1. CASE Met(l, v) = {}
    <2>1. Points(l, v) = l.rest
      BY <1>1 DEF Points
    <2>2. Points(l, w) \in l.rest .. max
      BY PointsAre
    <2> QED BY <2>1, <2>2
  <1>2. CASE Met(l, v) # {}
    <2>1. Met(l, v) \subseteq Met(l, w)
      BY DEF Met, LadderOK
    <2> DEFINE j == Min(Met(l, w))
               k == Min(Met(l, v))
    <2>2. /\ j \in DOMAIN l.rungs /\ k \in DOMAIN l.rungs /\ j <= k
          /\ Met(l, w) # {}
      BY <1>2, <2>1, FirstMet
    <2>3. Points(l, v) = l.rungs[k][2] /\ Points(l, w) = l.rungs[j][2]
      BY <1>2, <2>2 DEF Points
    <2> HIDE DEF j, k
    <2>4. j \in Nat /\ k \in Nat /\ l.rungs[k][2] \in Int
      BY <2>2 DEF LadderOK
    <2>5. l.rungs[k][2] <= l.rungs[j][2]
      BY <2>2, <2>4 DEF Falls
    <2> QED BY <2>3, <2>5
  <1> QED BY <1>1, <1>2

IsTaken(m) == m.gap.kind = "taken"
IsUncounted(m) == m.gap.kind = "uncounted"
OfBeds(m) == m.name = "Bed Occupancy"
OfQuality(m) == m.name = "Data Quality"
Needs(m) == m.needs \in {"free", "basic", "premium"}

\* The one ladder that does not fall: the best beds are neither full nor empty.
Beds == Cost(<<<<749, 14>>, <<850, 20>>, <<900, 14>>>>, 5)

MetricOK(m) ==
    /\ m.max \in Nat /\ LadderOK(m.ladder, m.max) /\ Needs(m)
    /\ m.gap.n \in Int /\ (~IsTaken(m) => m.gap.n \in 0 .. m.max)
    /\ IF OfBeds(m) THEN m.ladder = Beds ELSE Falls(m.ladder)

\* What a metric counts without a figure
Blank(m) == IF IsTaken(m) THEN Points(m.ladder, m.gap.n)
            ELSE IF IsUncounted(m) THEN 0 ELSE m.gap.n

LEMMA EarnedBlank ==
  ASSUME NEW m, NEW v
  PROVE  Earned(m, v) = IF Known(m, v) THEN Points(m.ladder, v) ELSE Blank(m)
  BY DEF Earned, Blank, IsTaken, IsUncounted

LEMMA ShownIs ==
  ASSUME NEW m, NEW v
  PROVE  Shown(m, v) = Earned(m, v) \/ (Shown(m, v) = m.gap.n /\ ~IsTaken(m))
  BY DEF Shown, IsTaken

LEMMA EarnedIs ==
  ASSUME NEW m, MetricOK(m), NEW v
  PROVE  /\ Earned(m, v) \in 0 .. m.max
         /\ Shown(m, v) \in 0 .. m.max
  <1>1. /\ m.max \in Nat /\ LadderOK(m.ladder, m.max)
        /\ m.ladder.rest \in 0 .. m.max
    BY DEF MetricOK, LadderOK
  <1>2. /\ Points(m.ladder, v) \in 0 .. m.max
        /\ Points(m.ladder, m.gap.n) \in 0 .. m.max
    BY <1>1, PointsAre
  <1>3. ~IsTaken(m) => m.gap.n \in 0 .. m.max
    BY DEF MetricOK
  <1>4. Blank(m) \in 0 .. m.max
    BY <1>1, <1>2, <1>3 DEF Blank
  <1>5. Earned(m, v) \in 0 .. m.max
    BY <1>2, <1>4, EarnedBlank
  <1> QED BY <1>3, <1>5, ShownIs

LEMMA BedsGrow ==
  ASSUME NEW v \in Int, NEW w \in Int,
         \/ v < w /\ w <= 850
         \/ 750 <= w /\ w < v
  PROVE  Points(Beds, v) <= Points(Beds, w)
  <1> DEFINE r == <<<<749, 14>>, <<850, 20>>, <<900, 14>>>>
  <1>1. /\ Beds.cost = TRUE /\ Beds.rest = 5 /\ Beds.rungs = r
        /\ DOMAIN r = 1 .. 3
        /\ r[1] = <<749, 14>> /\ r[2] = <<850, 20>> /\ r[3] = <<900, 14>>
    BY DEF Beds, Cost
  <1> HIDE DEF r
  <1>2. LadderOK(Beds, 20)
    BY DEF LadderOK, Beds, Cost
  <1>3. \A x \in Int : Met(Beds, x) = {k \in 1 .. 3 : x <= r[k][1]}
    BY <1>1 DEF Met
  <1>4. \A x \in Int :
           Points(Beds, x) = IF x <= 749 THEN 14 ELSE IF x <= 850 THEN 20
                             ELSE IF x <= 900 THEN 14 ELSE 5
    <2> TAKE x \in Int
    <2> DEFINE k == Min(Met(Beds, x))
    <2>1. CASE x > 900
      <3>1. Met(Beds, x) = {}
        BY <1>1, <1>3, <2>1
      <3> QED BY <1>1, <2>1, <3>1 DEF Points
    <2>2. CASE x <= 900
      <3>1. 3 \in Met(Beds, x)
        BY <1>1, <1>3, <2>2
      <3>2. Points(Beds, x) = r[k][2]
        BY <1>1, <3>1 DEF Points
      <3>3. k \in Met(Beds, x) /\ \A j \in Met(Beds, x) : k <= j
        BY <1>2, <3>1, FirstMet
      <3> HIDE DEF k
      <3>4. k \in 1 .. 3 /\ x <= r[k][1] /\ \A j \in 1 .. 3 : x <= r[j][1] => k <= j
        BY <1>3, <3>3
      <3> QED BY <1>1, <2>2, <3>2, <3>4
    <2> QED BY <2>1, <2>2
  <1> QED BY <1>4

\* A better figure, where the code knows both
LEMMA EarnedGrows ==
  ASSUME NEW m, MetricOK(m), NEW v \in Int, NEW w \in Int,
         Known(m, v), Known(m, w), Better(m, w, v)
  PROVE  Earned(m, v) <= Earned(m, w)
  <1>1. Earned(m, v) = Points(m.ladder, v) /\ Earned(m, w) = Points(m.ladder, w)
    BY EarnedBlank
  <1>2. Better(m, w, v) <=>
           IF OfBeds(m) THEN (v < w /\ w <= 850) \/ (750 <= w /\ w < v)
           ELSE IF m.ladder.cost THEN w < v ELSE w > v
    BY DEF Better, OfBeds
  <1>3. CASE OfBeds(m)
    BY <1>1, <1>2, <1>3, BedsGrow DEF MetricOK
  <1>4. CASE ~OfBeds(m)
    <2>1. m.max \in Nat /\ LadderOK(m.ladder, m.max) /\ Falls(m.ladder)
      BY <1>4 DEF MetricOK
    <2>2. IF m.ladder.cost THEN w < v ELSE w > v
      BY <1>2, <1>4
    <2>3. IF m.ladder.cost THEN w <= v ELSE v <= w
      BY <2>2
    <2>4. Points(m.ladder, v) <= Points(m.ladder, w)
      BY <2>1, <2>3, PointsGrow
    <2> QED BY <1>1, <2>4
  <1> QED BY <1>3, <1>4

\* A metric and what it counts at most where a table has no figure for it
Fine(m, p) ==
    /\ MetricOK(m) /\ p \in Nat
    /\ IF OfQuality(m) THEN m.max <= p ELSE Earned(m, None) <= p

\* A ladder that falls and starts in n
Rungs(l, max, n) ==
    /\ max \in Nat /\ LadderOK(l, max) /\ Falls(l)
    /\ n \in 0 .. max

\* ... and that gives n points at most p
Offers(l, max, n, p) ==
    /\ max \in Nat /\ LadderOK(l, max) /\ Falls(l)
    /\ n \in Int /\ p \in Nat /\ l.rest <= p
    /\ \A k \in Met(l, n) : l.rungs[k][2] <= p

Titled(name, needs) ==
    /\ name \notin {"Bed Occupancy", "Data Quality"}
    /\ needs \in {"free", "basic", "premium"}

LEMMA TakenFine ==
  ASSUME NEW name, NEW max, NEW l, NEW n, NEW p, NEW needs,
         Titled(name, needs), Offers(l, max, n, p)
  PROVE  Fine(Metric(name, max, l, TakenFor(n), needs), p)
  <1> DEFINE m == Metric(name, max, l, TakenFor(n), needs)
  <1>1. m.max = max /\ m.ladder = l /\ m.gap.n = n
    BY DEF Metric, TakenFor
  <1>2. IsTaken(m) /\ Needs(m)
        /\ ~OfBeds(m) /\ ~OfQuality(m)
    BY DEF IsTaken, IsUncounted, OfBeds, OfQuality, Needs, Metric, TakenFor, Titled
  <1> HIDE DEF m
  <1>3. MetricOK(m)
    BY <1>1, <1>2 DEF MetricOK, Offers
  <1>4. ~Known(m, None)
    BY DEF Known
  <1>5. Earned(m, None) = Points(l, n)
    BY <1>1, <1>2, <1>4, EarnedBlank DEF Blank
  <1>6. Points(l, n) <= p
    BY PointsAtMost DEF Offers
  <1>7. Fine(m, p)
    BY <1>2, <1>3, <1>5, <1>6 DEF Fine, Offers
  <1> QED BY <1>7 DEF m

LEMMA CountedFine ==
  ASSUME NEW name, NEW max, NEW l, NEW p, NEW needs,
         Titled(name, needs), Rungs(l, max, p)
  PROVE  /\ Fine(Metric(name, max, l, Counted(p), needs), p)
         /\ Fine(Metric(name, max, l, CountedAtZero(p), needs), p)
  <1>1. ASSUME NEW gap, gap.n = p, gap.kind # "taken", gap.kind # "uncounted"
        PROVE  Fine(Metric(name, max, l, gap, needs), p)
    <2> DEFINE m == Metric(name, max, l, gap, needs)
    <2>1. m.max = max /\ m.ladder = l /\ m.gap.n = p
      BY <1>1 DEF Metric
    <2>2. ~IsTaken(m) /\ ~IsUncounted(m) /\ Needs(m)
        /\ ~OfBeds(m) /\ ~OfQuality(m)
      BY <1>1 DEF IsTaken, IsUncounted, OfBeds, OfQuality, Needs, Metric, Titled
    <2> HIDE DEF m
    <2>3. p \in 0 .. max /\ max \in Nat
      BY DEF Rungs
    <2>4. MetricOK(m)
      BY <2>1, <2>2, <2>3 DEF MetricOK, Rungs
    <2>5. ~Known(m, None)
      BY DEF Known
    <2>6. Earned(m, None) = p
      BY <2>1, <2>2, <2>5, EarnedBlank DEF Blank
    <2>7. Fine(m, p)
      BY <2>2, <2>3, <2>4, <2>6 DEF Fine
    <2> QED BY <2>7 DEF m
  <1>2. /\ Counted(p).n = p /\ Counted(p).kind # "taken"
        /\ Counted(p).kind # "uncounted"
    BY DEF Counted
  <1>3. /\ CountedAtZero(p).n = p /\ CountedAtZero(p).kind # "taken"
        /\ CountedAtZero(p).kind # "uncounted"
    BY DEF CountedAtZero
  <1> QED BY <1>1, <1>2, <1>3, Zenon

LEMMA UncountedFine ==
  ASSUME NEW name, NEW max, NEW l, NEW n, NEW needs,
         Titled(name, needs), Rungs(l, max, n)
  PROVE  Fine(Metric(name, max, l, Uncounted(n), needs), 0)
  <1> DEFINE m == Metric(name, max, l, Uncounted(n), needs)
  <1>1. m.max = max /\ m.ladder = l /\ m.gap.n = n
    BY DEF Metric, Uncounted
  <1>2. /\ ~IsTaken(m) /\ IsUncounted(m) /\ Needs(m)
        /\ ~OfBeds(m) /\ ~OfQuality(m)
    BY DEF IsTaken, IsUncounted, OfBeds, OfQuality, Needs, Metric, Uncounted, Titled
  <1> HIDE DEF m
  <1>3. n \in 0 .. max /\ max \in Nat
    BY DEF Rungs
  <1>4. MetricOK(m)
    BY <1>1, <1>2, <1>3 DEF MetricOK, Rungs
  <1>5. ~Known(m, None)
    BY DEF Known
  <1>6. Earned(m, None) = 0
    BY <1>1, <1>2, <1>5, EarnedBlank DEF Blank
  <1>7. Fine(m, 0)
    BY <1>2, <1>4, <1>6 DEF Fine
  <1> QED BY <1>7 DEF m

LEMMA BedsFine ==
  Fine(Metric("Bed Occupancy", 20, Beds, Uncounted(10), "basic"), 0)
  <1> DEFINE m == Metric("Bed Occupancy", 20, Beds, Uncounted(10), "basic")
  <1>1. m.max = 20 /\ m.ladder = Beds /\ m.gap.n = 10
    BY DEF Metric, Uncounted
  <1>2. /\ ~IsTaken(m) /\ IsUncounted(m) /\ Needs(m)
        /\ OfBeds(m) /\ ~OfQuality(m)
    BY DEF IsTaken, IsUncounted, OfBeds, OfQuality, Needs, Metric, Uncounted
  <1> HIDE DEF m
  <1>3. LadderOK(Beds, 20)
    BY DEF LadderOK, Beds, Cost
  <1>4. MetricOK(m)
    BY <1>1, <1>2, <1>3 DEF MetricOK
  <1>5. ~Known(m, None)
    BY DEF Known
  <1>6. Earned(m, None) = 0
    BY <1>1, <1>2, <1>5, EarnedBlank DEF Blank
  <1>7. Fine(m, 0)
    BY <1>2, <1>4, <1>6 DEF Fine
  <1> QED BY <1>7 DEF m

\* A ladder with a rung for each point
PointByPoint(l, n) ==
    /\ l.rest = 0 /\ DOMAIN l.rungs = 1 .. n
    /\ \A k \in 1 .. n : l.rungs[k][1] \in Int /\ l.rungs[k][2] = n + 1 - k

LEMMA PointByPointFine ==
  ASSUME NEW l, NEW n \in Nat, PointByPoint(l, n)
  PROVE  LadderOK(l, n) /\ Falls(l)
  <1>1. \A k \in 1 .. n : n + 1 - k \in 0 .. n
    OBVIOUS
  <1>2. LadderOK(l, n)
    <2>1. l.rest = 0 /\ DOMAIN l.rungs = 1 .. n
      BY DEF PointByPoint
    <2>2. \A k \in 1 .. n : l.rungs[k][1] \in Int /\ l.rungs[k][2] \in 0 .. n
      BY <1>1 DEF PointByPoint
    <2>3. 0 \in 0 .. n
      OBVIOUS
    <2>4. \E m \in Nat : DOMAIN l.rungs = 1 .. m
      BY <2>1
    <2> QED BY <2>1, <2>2, <2>3, <2>4, Zenon DEF LadderOK
  <1>3. ASSUME NEW j \in DOMAIN l.rungs, NEW k \in DOMAIN l.rungs, j < k
        PROVE  l.rungs[k][2] <= l.rungs[j][2]
    <2>1. j \in 1 .. n /\ k \in 1 .. n
      BY DEF PointByPoint
    <2>2. l.rungs[j][2] = n + 1 - j /\ l.rungs[k][2] = n + 1 - k
      BY <2>1 DEF PointByPoint
    <2>3. n + 1 - k <= n + 1 - j
      BY <1>3, <2>1
    <2> QED BY <2>2, <2>3
  <1> QED BY <1>2, <1>3 DEF Falls

LEMMA QualityFine == Fine(DataQuality, 10)
  <1> DEFINE l == Benefit([k \in 1 .. 10 |->
                             <<10 * (11 - k) - 5 + ((11 - k) % 2), 11 - k>>], 0)
             m == DataQuality
  <1>1. m.max = 10 /\ m.ladder = l /\ m.gap.n = 50
    BY DEF Metric, TakenFor, DataQuality
  <1>2. IsTaken(m) /\ Needs(m) /\ ~OfBeds(m) /\ OfQuality(m)
    BY DEF IsTaken, OfBeds, OfQuality, Needs, Metric, TakenFor, DataQuality
  <1>3. PointByPoint(l, 10)
    BY DEF Benefit, PointByPoint
  <1> HIDE DEF m, l
  <1>4. LadderOK(l, 10) /\ Falls(l)
    BY <1>3, PointByPointFine
  <1>5. MetricOK(m)
    BY <1>1, <1>2, <1>4 DEF MetricOK
  <1>6. Fine(m, 10)
    BY <1>1, <1>2, <1>5 DEF Fine
  <1> QED BY <1>6 DEF m

LEMMA TrendFine ==
  ASSUME NEW name, Titled(name, "free")
  PROVE  Fine(Trend(name), 10)
  <1>1. Rungs(Benefit(<<<<15, 25>>, <<5, 18>>, <<-5, 12>>, <<-15, 6>>>>, 0), 25, 10)
    BY DEF Rungs, LadderOK, Falls, Benefit
  <1> QED BY <1>1, CountedFine, Zenon DEF Trend

\* The metrics of a scorer, and what they count without a figure: no C
AllFine(s) ==
    \E n \in Nat : \E b :
        /\ DOMAIN s = 1 .. n /\ DOMAIN b = 1 .. n
        /\ \A i \in 1 .. n : Fine(s[i], b[i]) /\ b[i] \in Nat
        /\ Total(b) <= 64

LEMMA SumNext ==
  ASSUME NEW n \in Nat, NEW f, \A i \in 1 .. n + 1 : f[i] \in Int
  PROVE  /\ SumFunctionOnSet(f, 1 .. n + 1) = SumFunctionOnSet(f, 1 .. n) + f[n + 1]
         /\ SumFunctionOnSet(f, 1 .. n) \in Int
  <1> DEFINE S == 1 .. n
  <1>1. IsFiniteSet(S) /\ n + 1 \notin S /\ f[n + 1] \in Int
    BY FS_Interval
  <1>2. IntsOn(f, S)
    BY DEF IntsOn
  <1>3. 1 .. n + 1 = S \cup {n + 1}
    OBVIOUS
  <1> HIDE DEF S
  <1>4. /\ SumFunctionOnSet(f, S \cup {n + 1}) = f[n + 1] + SumFunctionOnSet(f, S)
        /\ SumFunctionOnSet(f, S) \in Int
    BY <1>1, <1>2, SumInserts
  <1>5. SumFunctionOnSet(f, 1 .. n + 1) = f[n + 1] + SumFunctionOnSet(f, S)
    BY <1>3, <1>4
  <1> QED BY <1>1, <1>4, <1>5 DEF S

Firsts(f, n) == SumFunctionOnSet(f, 1 .. n)

LEMMA FirstsNext ==
  ASSUME NEW f, NEW N \in Nat, \A i \in 1 .. N : f[i] \in Int, NEW n \in 0 .. N - 1
  PROVE  Firsts(f, n + 1) = Firsts(f, n) + f[n + 1] /\ Firsts(f, n) \in Int
  <1>1. n \in Nat /\ \A i \in 1 .. n + 1 : f[i] \in Int
    OBVIOUS
  <1> QED BY <1>1, SumNext DEF Firsts

LEMMA FirstFour ==
  ASSUME NEW f, \A i \in 1 .. 4 : f[i] \in Int
  PROVE  Firsts(f, 4) = f[1] + f[2] + f[3] + f[4]
  <1>1. 1 .. 0 = {} /\ Firsts(f, 0) = 0
    BY SumEmpty DEF Firsts
  <1>2. \A n \in 0 .. 3 : Firsts(f, n + 1) = Firsts(f, n) + f[n + 1]
    BY FirstsNext
  <1>3. Firsts(f, 0 + 1) = Firsts(f, 0) + f[0 + 1]
    BY <1>2
  <1>4. Firsts(f, 1 + 1) = Firsts(f, 1) + f[1 + 1]
    BY <1>2
  <1>5. Firsts(f, 2 + 1) = Firsts(f, 2) + f[2 + 1]
    BY <1>2
  <1>6. Firsts(f, 3 + 1) = Firsts(f, 3) + f[3 + 1]
    BY <1>2
  <1> QED BY <1>1, <1>3, <1>4, <1>5, <1>6

LEMMA FirstSix ==
  ASSUME NEW f, \A i \in 1 .. 6 : f[i] \in Int
  PROVE  Firsts(f, 6) = f[1] + f[2] + f[3] + f[4] + f[5] + f[6]
  <1>1. 1 .. 0 = {} /\ Firsts(f, 0) = 0
    BY SumEmpty DEF Firsts
  <1>2. \A n \in 0 .. 5 : Firsts(f, n + 1) = Firsts(f, n) + f[n + 1]
    BY FirstsNext
  <1>3. Firsts(f, 0 + 1) = Firsts(f, 0) + f[0 + 1]
    BY <1>2
  <1>4. Firsts(f, 1 + 1) = Firsts(f, 1) + f[1 + 1]
    BY <1>2
  <1>5. Firsts(f, 2 + 1) = Firsts(f, 2) + f[2 + 1]
    BY <1>2
  <1>6. Firsts(f, 3 + 1) = Firsts(f, 3) + f[3 + 1]
    BY <1>2
  <1>7. Firsts(f, 4 + 1) = Firsts(f, 4) + f[4 + 1]
    BY <1>2
  <1>8. Firsts(f, 5 + 1) = Firsts(f, 5) + f[5 + 1]
    BY <1>2
  <1> QED BY <1>1, <1>3, <1>4, <1>5, <1>6, <1>7, <1>8

LEMMA FirstSeven ==
  ASSUME NEW f, \A i \in 1 .. 7 : f[i] \in Int
  PROVE  Firsts(f, 7) = f[1] + f[2] + f[3] + f[4] + f[5] + f[6] + f[7]
  <1>1. 1 .. 0 = {} /\ Firsts(f, 0) = 0
    BY SumEmpty DEF Firsts
  <1>2. \A n \in 0 .. 6 : Firsts(f, n + 1) = Firsts(f, n) + f[n + 1]
    BY FirstsNext
  <1>3. Firsts(f, 0 + 1) = Firsts(f, 0) + f[0 + 1]
    BY <1>2
  <1>4. Firsts(f, 1 + 1) = Firsts(f, 1) + f[1 + 1]
    BY <1>2
  <1>5. Firsts(f, 2 + 1) = Firsts(f, 2) + f[2 + 1]
    BY <1>2
  <1>6. Firsts(f, 3 + 1) = Firsts(f, 3) + f[3 + 1]
    BY <1>2
  <1>7. Firsts(f, 4 + 1) = Firsts(f, 4) + f[4 + 1]
    BY <1>2
  <1>8. Firsts(f, 5 + 1) = Firsts(f, 5) + f[5 + 1]
    BY <1>2
  <1>9. Firsts(f, 6 + 1) = Firsts(f, 6) + f[6 + 1]
    BY <1>2
  <1> QED BY <1>1, <1>3, <1>4, <1>5, <1>6, <1>7, <1>8, <1>9

LEMMA FourFine ==
  ASSUME NEW s, DOMAIN s = 1 .. 4, NEW p1, NEW p2, NEW p3, NEW p4,
         p1 + p2 + p3 + p4 <= 64,
         Fine(s[1], p1), Fine(s[2], p2), Fine(s[3], p3), Fine(s[4], p4)
  PROVE  AllFine(s)
  <1> DEFINE b == <<p1, p2, p3, p4>>
  <1>1. DOMAIN b = 1 .. 4
    OBVIOUS
  <1>2. /\ p1 \in Nat /\ p2 \in Nat /\ p3 \in Nat /\ p4 \in Nat
    BY DEF Fine
  <1>3. \A i \in 1 .. 4 : Fine(s[i], b[i]) /\ b[i] \in Nat
    BY <1>2
  <1>4. /\ b[1] = p1 /\ b[2] = p2 /\ b[3] = p3 /\ b[4] = p4
    OBVIOUS
  <1> HIDE DEF b
  <1>5. Total(b) = Firsts(b, 4)
    BY <1>1 DEF Total, SumFunction, Firsts
  <1>6. Total(b) <= 64
    BY <1>2, <1>4, <1>5, FirstFour
  <1> QED BY <1>1, <1>3, <1>6 DEF AllFine

LEMMA SixFine ==
  ASSUME NEW s, DOMAIN s = 1 .. 6, NEW p1, NEW p2, NEW p3, NEW p4,
         NEW p5, NEW p6, p1 + p2 + p3 + p4 + p5 + p6 <= 64,
         Fine(s[1], p1), Fine(s[2], p2), Fine(s[3], p3), Fine(s[4], p4),
         Fine(s[5], p5), Fine(s[6], p6)
  PROVE  AllFine(s)
  <1> DEFINE b == <<p1, p2, p3, p4, p5, p6>>
  <1>1. DOMAIN b = 1 .. 6
    OBVIOUS
  <1>2. /\ p1 \in Nat /\ p2 \in Nat /\ p3 \in Nat /\ p4 \in Nat
        /\ p5 \in Nat /\ p6 \in Nat
    BY DEF Fine
  <1>3. \A i \in 1 .. 6 : Fine(s[i], b[i]) /\ b[i] \in Nat
    BY <1>2
  <1>4. /\ b[1] = p1 /\ b[2] = p2 /\ b[3] = p3 /\ b[4] = p4
        /\ b[5] = p5 /\ b[6] = p6
    OBVIOUS
  <1> HIDE DEF b
  <1>5. Total(b) = Firsts(b, 6)
    BY <1>1 DEF Total, SumFunction, Firsts
  <1>6. Total(b) <= 64
    BY <1>2, <1>4, <1>5, FirstSix
  <1> QED BY <1>1, <1>3, <1>6 DEF AllFine

LEMMA SevenFine ==
  ASSUME NEW s, DOMAIN s = 1 .. 7, NEW p1, NEW p2, NEW p3, NEW p4,
         NEW p5, NEW p6, NEW p7, p1 + p2 + p3 + p4 + p5 + p6 + p7 <= 64,
         Fine(s[1], p1), Fine(s[2], p2), Fine(s[3], p3), Fine(s[4], p4),
         Fine(s[5], p5), Fine(s[6], p6), Fine(s[7], p7)
  PROVE  AllFine(s)
  <1> DEFINE b == <<p1, p2, p3, p4, p5, p6, p7>>
  <1>1. DOMAIN b = 1 .. 7
    OBVIOUS
  <1>2. /\ p1 \in Nat /\ p2 \in Nat /\ p3 \in Nat /\ p4 \in Nat
        /\ p5 \in Nat /\ p6 \in Nat /\ p7 \in Nat
    BY DEF Fine
  <1>3. \A i \in 1 .. 7 : Fine(s[i], b[i]) /\ b[i] \in Nat
    BY <1>2
  <1>4. /\ b[1] = p1 /\ b[2] = p2 /\ b[3] = p3 /\ b[4] = p4
        /\ b[5] = p5 /\ b[6] = p6 /\ b[7] = p7
    OBVIOUS
  <1> HIDE DEF b
  <1>5. Total(b) = Firsts(b, 7)
    BY <1>1 DEF Total, SumFunction, Firsts
  <1>6. Total(b) <= 64
    BY <1>2, <1>4, <1>5, FirstSeven
  <1> QED BY <1>1, <1>3, <1>6 DEF AllFine

LEMMA CacLtvFine == Fine(CacLtv, 0)
  <1> DEFINE l == Benefit(<<<<3, 10>>, <<1, 7>>>>, 2)
  <1>1. /\ CacLtv = Metric("CAC:LTV Ratio", 10, l, Uncounted(5), "premium")
        /\ Titled("CAC:LTV Ratio", "premium")
    BY DEF CacLtv, Titled
  <1>2. Rungs(l, 10, 5)
    BY DEF Rungs, LadderOK, Falls, Benefit
  <1> HIDE DEF l
  <1> QED BY <1>1, <1>2, UncountedFine

LEMMA StockFine ==
  ASSUME NEW name, Titled(name, "free")
  PROVE  Fine(Stock(name), 20)
  <1> DEFINE l == Cost(<<<<0, 20>>, <<5, 14>>, <<15, 8>>, <<30, 3>>>>, 0)
  <1>1. Stock(name) = Metric(name, 20, l, TakenFor(0), "free")
    BY DEF Stock
  <1>2. Offers(l, 20, 0, 20)
    BY DEF Offers, LadderOK, Falls, Cost, Met
  <1> HIDE DEF l
  <1> QED BY <1>1, <1>2, TakenFine

LEMMA RevParFine == Fine(RevPar, 8)
  <1> DEFINE l == Benefit([k \in 1 .. 20 |->
                             <<1000 * (21 - k) - 500 + ((21 - k) % 2), 21 - k>>], 0)
  <1>1. /\ RevPar = Metric("RevPAR", 20, l, CountedAtZero(8), "free")
        /\ Titled("RevPAR", "free")
    BY DEF RevPar, Titled
  <1>2. PointByPoint(l, 20)
    BY DEF Benefit, PointByPoint
  <1> HIDE DEF l
  <1>3. LadderOK(l, 20) /\ Falls(l)
    BY <1>2, PointByPointFine
  <1>4. Rungs(l, 20, 8)
    BY <1>3 DEF Rungs
  <1> QED BY <1>1, <1>4, CountedFine

LEMMA DailyRateFine == Fine(DailyRate, 8)
  <1> DEFINE l == Benefit(<<<<1, 10>>>>, 8)
  <1>1. /\ DailyRate = Metric("RevPAR", 20, l, Counted(8), "free")
        /\ Titled("RevPAR", "free")
    BY DEF DailyRate, Titled
  <1>2. Rungs(l, 20, 8)
    BY DEF Rungs, LadderOK, Falls, Benefit
  <1> HIDE DEF l
  <1> QED BY <1>1, <1>2, CountedFine

LEMMA BufferFine == Fine(Buffer, 15)
  <1> DEFINE l == Benefit(<<<<6, 20>>, <<3, 15>>, <<1, 8>>, <<0, 3>>>>, 0)
  <1>1. /\ Buffer = Metric("Liquidity Buffer", 20, l, Counted(15), "free")
        /\ Titled("Liquidity Buffer", "free")
    BY DEF Buffer, Titled
  <1>2. Rungs(l, 20, 15)
    BY DEF Rungs, LadderOK, Falls, Benefit
  <1> HIDE DEF l
  <1> QED BY <1>1, <1>2, CountedFine

LEMMA OverdraftsFine == Fine(Overdrafts, 15)
  <1> DEFINE l == Cost(<<<<0, 15>>, <<1, 8>>>>, 3)
  <1>1. /\ Overdrafts = Metric("Liquidity Buffer", 20, l, TakenFor(0), "free")
        /\ Titled("Liquidity Buffer", "free")
    BY DEF Overdrafts, Titled
  <1>2. Offers(l, 20, 0, 15)
    BY DEF Offers, LadderOK, Falls, Cost, Met
  <1> HIDE DEF l
  <1> QED BY <1>1, <1>2, TakenFine

LEMMA HrFine == AllFine(Hr)
  <1> DEFINE s == Hr
  <1>1. Fine(s[1], 10)
    <2>1. s[1] = Trend("Headcount Trend") /\ Titled("Headcount Trend", "free")
      BY DEF Hr, Titled
    <2> QED BY <2>1, TrendFine
  <1>2. Fine(s[2], 3)
    <2> DEFINE l == Benefit(<<<<90, 20>>, <<75, 14>>, <<60, 8>>>>, 3)
    <2>1. /\ s[2] = Metric("Salary Equity", 20, l, TakenFor(0), "free")
          /\ Titled("Salary Equity", "free")
      BY DEF Hr, Titled
    <2>2. Offers(l, 20, 0, 3)
      BY DEF Offers, LadderOK, Falls, Benefit, Met
    <2> HIDE DEF l
    <2> QED BY <2>1, <2>2, TakenFine
  <1>3. Fine(s[3], 0)
    <2> DEFINE l == Cost(<<<<10, 20>>, <<20, 14>>, <<30, 8>>>>, 2)
    <2>1. /\ s[3] = Metric("Staff Retention", 20, l, Uncounted(10), "basic")
          /\ Titled("Staff Retention", "basic")
      BY DEF Hr, Titled
    <2>2. Rungs(l, 20, 10)
      BY DEF Rungs, LadderOK, Falls, Cost
    <2> HIDE DEF l
    <2> QED BY <2>1, <2>2, UncountedFine
  <1>4. Fine(s[4], 14)
    <2> DEFINE l == Cost(<<<<35, 20>>, <<55, 14>>, <<70, 8>>>>, 3)
    <2>1. /\ s[4] = Metric("Dept Balance", 20, l, TakenFor(50), "free")
          /\ Titled("Dept Balance", "free")
      BY DEF Hr, Share, Titled
    <2>2. Offers(l, 20, 50, 14)
      BY DEF Offers, LadderOK, Falls, Cost, Met
    <2> HIDE DEF l
    <2> QED BY <2>1, <2>2, TakenFine
  <1>5. Fine(s[5], 0)
    <2> DEFINE l == Cost(<<<<5, 10>>, <<10, 7>>, <<20, 4>>>>, 1)
    <2>1. /\ s[5] = Metric("Pay Equity", 10, l, Uncounted(5), "premium")
          /\ Titled("Pay Equity", "premium")
      BY DEF Hr, Titled
    <2>2. Rungs(l, 10, 5)
      BY DEF Rungs, LadderOK, Falls, Cost
    <2> HIDE DEF l
    <2> QED BY <2>1, <2>2, UncountedFine
  <1>6. Fine(s[6], 10)
    BY QualityFine DEF Hr
  <1>7. DOMAIN s = 1 .. 6
    BY DEF Hr
  <1> HIDE DEF s
  <1>8. 10 + 3 + 0 + 14 + 0 + 10 <= 64
    OBVIOUS
  <1>9. AllFine(s)
    BY <1>1, <1>2, <1>3, <1>4, <1>5, <1>6, <1>7, <1>8, SixFine, Zenon
  <1> QED BY <1>9 DEF s

LEMMA RealEstateFine == AllFine(RealEstate)
  <1> DEFINE s == RealEstate
  <1>1. Fine(s[1], 1)
    <2> DEFINE l == Benefit(<<<<8, 25>>, <<6, 18>>, <<4, 11>>, <<2, 5>>>>, 1)
    <2>1. /\ s[1] = Metric("Gross Yield", 25, l, TakenFor(0), "free")
          /\ Titled("Gross Yield", "free")
      BY DEF RealEstate, Titled
    <2>2. Offers(l, 25, 0, 1)
      BY DEF Offers, LadderOK, Falls, Benefit, Met
    <2> HIDE DEF l
    <2> QED BY <2>1, <2>2, TakenFine
  <1>2. Fine(s[2], 0)
    <2> DEFINE l == Cost(<<<<5, 25>>, <<10, 18>>, <<20, 10>>>>, 3)
    <2>1. /\ s[2] = Metric("Vacancy Rate", 25, l, Uncounted(12), "basic")
          /\ Titled("Vacancy Rate", "basic")
      BY DEF RealEstate, Titled
    <2>2. Rungs(l, 25, 12)
      BY DEF Rungs, LadderOK, Falls, Cost
    <2> HIDE DEF l
    <2> QED BY <2>1, <2>2, UncountedFine
  <1>3. Fine(s[3], 10)
    <2>1. s[3] = Trend("Value Trend") /\ Titled("Value Trend", "free")
      BY DEF RealEstate, Titled
    <2> QED BY <2>1, TrendFine
  <1>4. Fine(s[4], 10)
    <2> DEFINE l == Cost(<<<<40, 15>>, <<60, 10>>, <<80, 6>>>>, 2)
    <2>1. /\ s[4] = Metric("Portfolio Diversity", 15, l, TakenFor(50), "free")
          /\ Titled("Portfolio Diversity", "free")
      BY DEF RealEstate, Share, Titled
    <2>2. Offers(l, 15, 50, 10)
      BY DEF Offers, LadderOK, Falls, Cost, Met
    <2> HIDE DEF l
    <2> QED BY <2>1, <2>2, TakenFine
  <1>5. Fine(s[5], 0)
    <2> DEFINE l == Cost(<<<<60, 10>>, <<75, 7>>, <<85, 4>>>>, 1)
    <2>1. /\ s[5] = Metric("LTV Ratio", 10, l, Uncounted(5), "premium")
          /\ Titled("LTV Ratio", "premium")
      BY DEF RealEstate, Titled
    <2>2. Rungs(l, 10, 5)
      BY DEF Rungs, LadderOK, Falls, Cost
    <2> HIDE DEF l
    <2> QED BY <2>1, <2>2, UncountedFine
  <1>6. Fine(s[6], 10)
    BY QualityFine DEF RealEstate
  <1>7. DOMAIN s = 1 .. 6
    BY DEF RealEstate
  <1> HIDE DEF s
  <1>8. 1 + 0 + 10 + 10 + 0 + 10 <= 64
    OBVIOUS
  <1>9. AllFine(s)
    BY <1>1, <1>2, <1>3, <1>4, <1>5, <1>6, <1>7, <1>8, SixFine, Zenon
  <1> QED BY <1>9 DEF s

LEMMA HealthcareFine == AllFine(Healthcare)
  <1> DEFINE s == Healthcare
  <1>1. Fine(s[1], 10)
    <2>1. /\ s[1] = Trend("Patient Volume Trend")
          /\ Titled("Patient Volume Trend", "free")
      BY DEF Healthcare, Titled
    <2> QED BY <2>1, TrendFine
  <1>2. Fine(s[2], 8)
    <2> DEFINE l == Benefit(<<<<60000, 20>>, <<40000, 14>>, <<20000, 8>>>>, 4)
    <2>1. /\ s[2] = Metric("Revenue per Patient", 20, l, CountedAtZero(8), "free")
          /\ Titled("Revenue per Patient", "free")
      BY DEF Healthcare, Titled
    <2>2. Rungs(l, 20, 8)
      BY DEF Rungs, LadderOK, Falls, Benefit
    <2> HIDE DEF l
    <2> QED BY <2>1, <2>2, CountedFine
  <1>3. Fine(s[3], 0)
    <2>1. s[3] = Metric("Bed Occupancy", 20, Beds, Uncounted(10), "basic")
      BY DEF Healthcare, Beds
    <2> QED BY <2>1, BedsFine
  <1>4. Fine(s[4], 0)
    <2> DEFINE l == Cost(<<<<4, 20>>, <<7, 14>>, <<10, 8>>>>, 3)
    <2>1. /\ s[4] = Metric("Avg Length of Stay", 20, l, Uncounted(10), "basic")
          /\ Titled("Avg Length of Stay", "basic")
      BY DEF Healthcare, Titled
    <2>2. Rungs(l, 20, 10)
      BY DEF Rungs, LadderOK, Falls, Cost
    <2> HIDE DEF l
    <2> QED BY <2>1, <2>2, UncountedFine
  <1>5. Fine(s[5], 0)
    <2> DEFINE l == Cost(<<<<5, 10>>, <<10, 7>>, <<15, 4>>>>, 1)
    <2>1. /\ s[5] = Metric("Readmission Rate", 10, l, Uncounted(5), "premium")
          /\ Titled("Readmission Rate", "premium")
      BY DEF Healthcare, Titled
    <2>2. Rungs(l, 10, 5)
      BY DEF Rungs, LadderOK, Falls, Cost
    <2> HIDE DEF l
    <2> QED BY <2>1, <2>2, UncountedFine
  <1>6. Fine(s[6], 10)
    BY QualityFine DEF Healthcare
  <1>7. DOMAIN s = 1 .. 6
    BY DEF Healthcare
  <1> HIDE DEF s
  <1>8. 10 + 8 + 0 + 0 + 0 + 10 <= 64
    OBVIOUS
  <1>9. AllFine(s)
    BY <1>1, <1>2, <1>3, <1>4, <1>5, <1>6, <1>7, <1>8, SixFine, Zenon
  <1> QED BY <1>9 DEF s

LEMMA LogisticsFine == AllFine(Logistics)
  <1> DEFINE s == Logistics
  <1>1. Fine(s[1], 1)
    <2> DEFINE l == Benefit(<<<<95, 25>>, <<90, 18>>, <<80, 10>>, <<70, 5>>>>, 1)
    <2>1. /\ s[1] = Metric("On-Time Rate", 25, l, TakenFor(0), "free")
          /\ Titled("On-Time Rate", "free")
      BY DEF Logistics, Titled
    <2>2. Offers(l, 25, 0, 1)
      BY DEF Offers, LadderOK, Falls, Benefit, Met
    <2> HIDE DEF l
    <2> QED BY <2>1, <2>2, TakenFine
  <1>2. Fine(s[2], 0)
    <2> DEFINE l == Benefit(<<<<90, 20>>, <<80, 14>>, <<70, 8>>>>, 3)
    <2>1. /\ s[2] = Metric("First Attempt Rate", 20, l, Uncounted(10), "basic")
          /\ Titled("First Attempt Rate", "basic")
      BY DEF Logistics, Titled
    <2>2. Rungs(l, 20, 10)
      BY DEF Rungs, LadderOK, Falls, Benefit
    <2> HIDE DEF l
    <2> QED BY <2>1, <2>2, UncountedFine
  <1>3. Fine(s[3], 20)
    <2> DEFINE l == Cost(<<<<2, 20>>, <<5, 14>>, <<10, 8>>>>, 2)
    <2>1. /\ s[3] = Metric("Return/Damage Rate", 20, l, TakenFor(0), "basic")
          /\ Titled("Return/Damage Rate", "basic")
      BY DEF Logistics, Titled
    <2>2. Offers(l, 20, 0, 20)
      BY DEF Offers, LadderOK, Falls, Cost, Met
    <2> HIDE DEF l
    <2> QED BY <2>1, <2>2, TakenFine
  <1>4. Fine(s[4], 10)
    <2>1. s[4] = Trend("Volume Trend") /\ Titled("Volume Trend", "free")
      BY DEF Logistics, Titled
    <2> QED BY <2>1, TrendFine
  <1>5. Fine(s[5], 0)
    <2> DEFINE l == Benefit(<<<<95, 10>>, <<85, 7>>, <<75, 4>>>>, 1)
    <2>1. /\ s[5] = Metric("Perfect Order Rate", 10, l, Uncounted(5), "premium")
          /\ Titled("Perfect Order Rate", "premium")
      BY DEF Logistics, Titled
    <2>2. Rungs(l, 10, 5)
      BY DEF Rungs, LadderOK, Falls, Benefit
    <2> HIDE DEF l
    <2> QED BY <2>1, <2>2, UncountedFine
  <1>6. Fine(s[6], 10)
    BY QualityFine DEF Logistics
  <1>7. DOMAIN s = 1 .. 6
    BY DEF Logistics
  <1> HIDE DEF s
  <1>8. 1 + 0 + 20 + 10 + 0 + 10 <= 64
    OBVIOUS
  <1>9. AllFine(s)
    BY <1>1, <1>2, <1>3, <1>4, <1>5, <1>6, <1>7, <1>8, SixFine, Zenon
  <1> QED BY <1>9 DEF s

LEMMA HospitalityFine ==
  ASSUME NEW room, Fine(room, 8)
  PROVE  AllFine(Hospitality(room))
  <1> DEFINE s == Hospitality(room)
  <1>1. Fine(s[1], 1)
    <2> DEFINE l == Benefit(<<<<85, 25>>, <<70, 18>>, <<55, 10>>, <<40, 5>>>>, 1)
    <2>1. /\ s[1] = Metric("Occupancy Rate", 25, l, TakenFor(0), "free")
          /\ Titled("Occupancy Rate", "free")
      BY DEF Hospitality, Titled
    <2>2. Offers(l, 25, 0, 1)
      BY DEF Offers, LadderOK, Falls, Benefit, Met
    <2> HIDE DEF l
    <2> QED BY <2>1, <2>2, TakenFine
  <1>2. Fine(s[2], 8)
    BY DEF Hospitality
  <1>3. Fine(s[3], 0)
    <2> DEFINE l == Cost(<<<<10, 20>>, <<20, 14>>, <<30, 8>>>>, 3)
    <2>1. /\ s[3] = Metric("Cancellation Rate", 20, l, Uncounted(10), "basic")
          /\ Titled("Cancellation Rate", "basic")
      BY DEF Hospitality, Titled
    <2>2. Rungs(l, 20, 10)
      BY DEF Rungs, LadderOK, Falls, Cost
    <2> HIDE DEF l
    <2> QED BY <2>1, <2>2, UncountedFine
  <1>4. Fine(s[4], 10)
    <2>1. s[4] = Trend("Revenue Trend") /\ Titled("Revenue Trend", "free")
      BY DEF Hospitality, Titled
    <2> QED BY <2>1, TrendFine
  <1>5. Fine(s[5], 0)
    <2> DEFINE l == Benefit(<<<<30, 10>>, <<20, 7>>, <<10, 4>>>>, 1)
    <2>1. /\ s[5] = Metric("GOPPAR", 10, l, Uncounted(5), "premium")
          /\ Titled("GOPPAR", "premium")
      BY DEF Hospitality, Titled
    <2>2. Rungs(l, 10, 5)
      BY DEF Rungs, LadderOK, Falls, Benefit
    <2> HIDE DEF l
    <2> QED BY <2>1, <2>2, UncountedFine
  <1>6. Fine(s[6], 10)
    BY QualityFine DEF Hospitality
  <1>7. DOMAIN s = 1 .. 6
    BY DEF Hospitality
  <1> HIDE DEF s
  <1>8. 1 + 8 + 0 + 10 + 0 + 10 <= 64
    OBVIOUS
  <1>9. AllFine(s)
    BY <1>1, <1>2, <1>3, <1>4, <1>5, <1>6, <1>7, <1>8, SixFine, Zenon
  <1> QED BY <1>9 DEF s

LEMMA ConstructionFine == AllFine(Construction)
  <1> DEFINE s == Construction
  <1>1. Fine(s[1], 3)
    <2> DEFINE l == Benefit(<<<<80, 25>>, <<65, 18>>, <<50, 10>>>>, 3)
    <2>1. /\ s[1] = Metric("Budget Performance", 25, l, TakenFor(0), "free")
          /\ Titled("Budget Performance", "free")
      BY DEF Construction, Titled
    <2>2. Offers(l, 25, 0, 3)
      BY DEF Offers, LadderOK, Falls, Benefit, Met
    <2> HIDE DEF l
    <2> QED BY <2>1, <2>2, TakenFine
  <1>2. Fine(s[2], 0)
    <2> DEFINE l == Benefit(<<<<100, 20>>, <<90, 14>>, <<75, 8>>>>, 2)
    <2>1. /\ s[2] = Metric("Schedule Performance", 20, l, Uncounted(10), "basic")
          /\ Titled("Schedule Performance", "basic")
      BY DEF Construction, Titled
    <2>2. Rungs(l, 20, 10)
      BY DEF Rungs, LadderOK, Falls, Benefit
    <2> HIDE DEF l
    <2> QED BY <2>1, <2>2, UncountedFine
  <1>3. Fine(s[3], 0)
    <2> DEFINE l == Benefit(<<<<100, 20>>, <<90, 14>>, <<75, 8>>>>, 2)
    <2>1. /\ s[3] = Metric("Cost Performance", 20, l, Uncounted(10), "premium")
          /\ Titled("Cost Performance", "premium")
      BY DEF Construction, Titled
    <2>2. Rungs(l, 20, 10)
      BY DEF Rungs, LadderOK, Falls, Benefit
    <2> HIDE DEF l
    <2> QED BY <2>1, <2>2, UncountedFine
  <1>4. Fine(s[4], 10)
    <2>1. s[4] = Trend("Pipeline Trend") /\ Titled("Pipeline Trend", "free")
      BY DEF Construction, Titled
    <2> QED BY <2>1, TrendFine
  <1>5. Fine(s[5], 10)
    <2> DEFINE l == Cost(<<<<0, 10>>, <<2, 6>>>>, 2)
    <2>1. /\ s[5] = Metric("Safety Record", 10, l, TakenFor(0), "premium")
          /\ Titled("Safety Record", "premium")
      BY DEF Construction, Titled
    <2>2. Offers(l, 10, 0, 10)
      BY DEF Offers, LadderOK, Falls, Cost, Met
    <2> HIDE DEF l
    <2> QED BY <2>1, <2>2, TakenFine
  <1>6. Fine(s[6], 10)
    BY QualityFine DEF Construction
  <1>7. DOMAIN s = 1 .. 6
    BY DEF Construction
  <1> HIDE DEF s
  <1>8. 3 + 0 + 0 + 10 + 10 + 10 <= 64
    OBVIOUS
  <1>9. AllFine(s)
    BY <1>1, <1>2, <1>3, <1>4, <1>5, <1>6, <1>7, <1>8, SixFine, Zenon
  <1> QED BY <1>9 DEF s

LEMMA MarketingFine == AllFine(Marketing)
  <1> DEFINE s == Marketing
  <1>1. Fine(s[1], 0)
    <2> DEFINE l == Benefit(<<<<6, 25>>, <<4, 18>>, <<2, 10>>, <<1, 5>>>>, 0)
    <2>1. /\ s[1] = Metric("ROAS", 25, l, TakenFor(0), "free")
          /\ Titled("ROAS", "free")
      BY DEF Marketing, Titled
    <2>2. Offers(l, 25, 0, 0)
      BY DEF Offers, LadderOK, Falls, Benefit, Met
    <2> HIDE DEF l
    <2> QED BY <2>1, <2>2, TakenFine
  <1>2. Fine(s[2], 0)
    <2> DEFINE l == Benefit(<<<<3, 20>>, <<2, 14>>, <<1, 8>>>>, 3)
    <2>1. /\ s[2] = Metric("Click-Through Rate", 20, l, Uncounted(10), "basic")
          /\ Titled("Click-Through Rate", "basic")
      BY DEF Marketing, Titled
    <2>2. Rungs(l, 20, 10)
      BY DEF Rungs, LadderOK, Falls, Benefit
    <2> HIDE DEF l
    <2> QED BY <2>1, <2>2, UncountedFine
  <1>3. Fine(s[3], 10)
    <2>1. s[3] = Trend("Spend Trend") /\ Titled("Spend Trend", "free")
      BY DEF Marketing, Titled
    <2> QED BY <2>1, TrendFine
  <1>4. Fine(s[4], 10)
    <2> DEFINE l == Cost(<<<<40, 15>>, <<60, 10>>, <<80, 6>>>>, 2)
    <2>1. /\ s[4] = Metric("Channel Diversity", 15, l, TakenFor(50), "free")
          /\ Titled("Channel Diversity", "free")
      BY DEF Marketing, Share, Titled
    <2>2. Offers(l, 15, 50, 10)
      BY DEF Offers, LadderOK, Falls, Cost, Met
    <2> HIDE DEF l
    <2> QED BY <2>1, <2>2, TakenFine
  <1>5. Fine(s[5], 0)
    BY CacLtvFine DEF Marketing
  <1>6. Fine(s[6], 10)
    BY QualityFine DEF Marketing
  <1>7. DOMAIN s = 1 .. 6
    BY DEF Marketing
  <1> HIDE DEF s
  <1>8. 0 + 0 + 10 + 10 + 0 + 10 <= 64
    OBVIOUS
  <1>9. AllFine(s)
    BY <1>1, <1>2, <1>3, <1>4, <1>5, <1>6, <1>7, <1>8, SixFine, Zenon
  <1> QED BY <1>9 DEF s

LEMMA BankStatementFine ==
  ASSUME NEW liquidity, Fine(liquidity, 15)
  PROVE  AllFine(BankStatement(liquidity))
  <1> DEFINE s == BankStatement(liquidity)
  <1>1. Fine(s[1], 10)
    <2> DEFINE l == Benefit(<<<<10, 20>>, <<2, 15>>, <<-2, 10>>, <<-10, 5>>>>, 0)
    <2>1. /\ s[1] = Metric("Cash Flow Trend", 20, l, Counted(10), "free")
          /\ Titled("Cash Flow Trend", "free")
      BY DEF BankStatement, Titled
    <2>2. Rungs(l, 20, 10)
      BY DEF Rungs, LadderOK, Falls, Benefit
    <2> HIDE DEF l
    <2> QED BY <2>1, <2>2, CountedFine
  <1>2. Fine(s[2], 5)
    <2> DEFINE l == Benefit(<<<<30, 20>>, <<15, 15>>, <<5, 10>>, <<0, 4>>>>, 0)
    <2>1. /\ s[2] = Metric("Net Position", 20, l, Counted(5), "free")
          /\ Titled("Net Position", "free")
      BY DEF BankStatement, Titled
    <2>2. Rungs(l, 20, 5)
      BY DEF Rungs, LadderOK, Falls, Benefit
    <2> HIDE DEF l
    <2> QED BY <2>1, <2>2, CountedFine
  <1>3. Fine(s[3], 15)
    BY DEF BankStatement
  <1>4. Fine(s[4], 0)
    <2> DEFINE l == Benefit(<<<<75, 20>>, <<55, 15>>, <<35, 8>>>>, 3)
    <2>1. /\ s[4] = Metric("Income Stability", 20, l, Uncounted(8), "basic")
          /\ Titled("Income Stability", "basic")
      BY DEF BankStatement, Titled
    <2>2. Rungs(l, 20, 8)
      BY DEF Rungs, LadderOK, Falls, Benefit
    <2> HIDE DEF l
    <2> QED BY <2>1, <2>2, UncountedFine
  <1>5. Fine(s[5], 10)
    <2> DEFINE l == Cost(<<<<15, 10>>, <<30, 7>>, <<50, 4>>>>, 1)
    <2>1. /\ s[5] = Metric("Expense Concentration", 10, l, TakenFor(0), "free")
          /\ Titled("Expense Concentration", "free")
      BY DEF BankStatement, Titled
    <2>2. Offers(l, 10, 0, 10)
      BY DEF Offers, LadderOK, Falls, Cost, Met
    <2> HIDE DEF l
    <2> QED BY <2>1, <2>2, TakenFine
  <1>6. Fine(s[6], 10)
    <2> DEFINE l == Cost(<<<<0, 10>>, <<20, 7>>, <<40, 4>>>>, 1)
    <2>1. /\ s[6] = Metric("Fraud Risk", 10, l, TakenFor(0), "premium")
          /\ Titled("Fraud Risk", "premium")
      BY DEF BankStatement, Titled
    <2>2. Offers(l, 10, 0, 10)
      BY DEF Offers, LadderOK, Falls, Cost, Met
    <2> HIDE DEF l
    <2> QED BY <2>1, <2>2, TakenFine
  <1>7. Fine(s[7], 10)
    BY QualityFine DEF BankStatement
  <1>8. DOMAIN s = 1 .. 7
    BY DEF BankStatement
  <1> HIDE DEF s
  <1>9. 10 + 5 + 15 + 0 + 10 + 10 + 10 <= 64
    OBVIOUS
  <1>10. AllFine(s)
    BY <1>1, <1>2, <1>3, <1>4, <1>5, <1>6, <1>7, <1>8, <1>9, SevenFine, Zenon
  <1> QED BY <1>10 DEF s

LEMMA SalesFine == AllFine(Sales)
  <1> DEFINE s == Sales
  <1>1. Fine(s[1], 3)
    <2> DEFINE l == Benefit(<<<<25, 20>>, <<15, 14>>, <<8, 8>>, <<0, 3>>>>, 0)
    <2>1. /\ s[1] = Metric("Profit Margin", 20, l, TakenFor(0), "free")
          /\ Titled("Profit Margin", "free")
      BY DEF Sales, Titled
    <2>2. Offers(l, 20, 0, 3)
      BY DEF Offers, LadderOK, Falls, Benefit, Met
    <2> HIDE DEF l
    <2> QED BY <2>1, <2>2, TakenFine
  <1>2. Fine(s[2], 10)
    <2>1. s[2] = Trend("Revenue Trend") /\ Titled("Revenue Trend", "free")
      BY DEF Sales, Titled
    <2> QED BY <2>1, TrendFine
  <1>3. Fine(s[3], 0)
    <2> DEFINE l == Benefit(<<<<40, 20>>, <<25, 14>>, <<15, 8>>>>, 3)
    <2>1. /\ s[3] = Metric("Win Rate", 20, l, Uncounted(10), "basic")
          /\ Titled("Win Rate", "basic")
      BY DEF Sales, Titled
    <2>2. Rungs(l, 20, 10)
      BY DEF Rungs, LadderOK, Falls, Benefit
    <2> HIDE DEF l
    <2> QED BY <2>1, <2>2, UncountedFine
  <1>4. Fine(s[4], 6)
    <2> DEFINE l == Cost(<<<<20, 15>>, <<35, 10>>, <<50, 6>>>>, 2)
    <2>1. /\ s[4] = Metric("Customer Diversity", 15, l, TakenFor(50), "free")
          /\ Titled("Customer Diversity", "free")
      BY DEF Sales, Share, Titled
    <2>2. Offers(l, 15, 50, 6)
      BY DEF Offers, LadderOK, Falls, Cost, Met
    <2> HIDE DEF l
    <2> QED BY <2>1, <2>2, TakenFine
  <1>5. Fine(s[5], 0)
    <2> DEFINE l == Cost(<<<<5, 10>>, <<15, 7>>, <<30, 4>>>>, 1)
    <2>1. /\ s[5] = Metric("Churn Risk Score", 10, l, Uncounted(5), "premium")
          /\ Titled("Churn Risk Score", "premium")
      BY DEF Sales, Titled
    <2>2. Rungs(l, 10, 5)
      BY DEF Rungs, LadderOK, Falls, Cost
    <2> HIDE DEF l
    <2> QED BY <2>1, <2>2, UncountedFine
  <1>6. Fine(s[6], 10)
    BY QualityFine DEF Sales
  <1>7. DOMAIN s = 1 .. 6
    BY DEF Sales
  <1> HIDE DEF s
  <1>8. 3 + 10 + 0 + 6 + 0 + 10 <= 64
    OBVIOUS
  <1>9. AllFine(s)
    BY <1>1, <1>2, <1>3, <1>4, <1>5, <1>6, <1>7, <1>8, SixFine, Zenon
  <1> QED BY <1>9 DEF s

LEMMA InventoryFine == AllFine(Inventory)
  <1> DEFINE s == Inventory
  <1>1. Fine(s[1], 1)
    <2> DEFINE l == Benefit(<<<<8, 25>>, <<5, 18>>, <<3, 10>>, <<1, 5>>>>, 1)
    <2>1. /\ s[1] = Metric("Inventory Turnover", 25, l, TakenFor(0), "free")
          /\ Titled("Inventory Turnover", "free")
      BY DEF Inventory, Titled
    <2>2. Offers(l, 25, 0, 1)
      BY DEF Offers, LadderOK, Falls, Benefit, Met
    <2> HIDE DEF l
    <2> QED BY <2>1, <2>2, TakenFine
  <1>2. Fine(s[2], 20)
    <2>1. s[2] = Stock("Stockout Risk") /\ Titled("Stockout Risk", "free")
      BY DEF Inventory, Titled
    <2> QED BY <2>1, StockFine
  <1>3. Fine(s[3], 20)
    <2>1. s[3] = Stock("Dead Stock") /\ Titled("Dead Stock", "free")
      BY DEF Inventory, Titled
    <2> QED BY <2>1, StockFine
  <1>4. Fine(s[4], 0)
    <2> DEFINE l == Benefit(<<<<98, 15>>, <<95, 11>>, <<90, 7>>>>, 2)
    <2>1. /\ s[4] = Metric("Fill Rate", 15, l, Uncounted(7), "basic")
          /\ Titled("Fill Rate", "basic")
      BY DEF Inventory, Titled
    <2>2. Rungs(l, 15, 7)
      BY DEF Rungs, LadderOK, Falls, Benefit
    <2> HIDE DEF l
    <2> QED BY <2>1, <2>2, UncountedFine
  <1>5. Fine(s[5], 0)
    <2> DEFINE l == Benefit(<<<<3, 10>>, <<2, 7>>, <<1, 4>>>>, 1)
    <2>1. /\ s[5] = Metric("GMROI", 10, l, Uncounted(5), "premium")
          /\ Titled("GMROI", "premium")
      BY DEF Inventory, Titled
    <2>2. Rungs(l, 10, 5)
      BY DEF Rungs, LadderOK, Falls, Benefit
    <2> HIDE DEF l
    <2> QED BY <2>1, <2>2, UncountedFine
  <1>6. Fine(s[6], 10)
    BY QualityFine DEF Inventory
  <1>7. DOMAIN s = 1 .. 6
    BY DEF Inventory
  <1> HIDE DEF s
  <1>8. 1 + 20 + 20 + 0 + 0 + 10 <= 64
    OBVIOUS
  <1>9. AllFine(s)
    BY <1>1, <1>2, <1>3, <1>4, <1>5, <1>6, <1>7, <1>8, SixFine, Zenon
  <1> QED BY <1>9 DEF s

LEMMA RestaurantFine == AllFine(Restaurant)
  <1> DEFINE s == Restaurant
  <1>1. Fine(s[1], 25)
    <2> DEFINE l == Cost(<<<<28, 25>>, <<32, 18>>, <<35, 12>>, <<40, 6>>>>, 1)
    <2>1. /\ s[1] = Metric("Food Cost %", 25, l, TakenFor(0), "free")
          /\ Titled("Food Cost %", "free")
      BY DEF Restaurant, Titled
    <2>2. Offers(l, 25, 0, 25)
      BY DEF Offers, LadderOK, Falls, Cost, Met
    <2> HIDE DEF l
    <2> QED BY <2>1, <2>2, TakenFine
  <1>2. Fine(s[2], 0)
    <2> DEFINE l == Cost(<<<<549, 20>>, <<649, 14>>, <<749, 8>>>>, 2)
    <2>1. /\ s[2] = Metric("Prime Cost %", 20, l, Uncounted(10), "basic")
          /\ Titled("Prime Cost %", "basic")
      BY DEF Restaurant, Titled
    <2>2. Rungs(l, 20, 10)
      BY DEF Rungs, LadderOK, Falls, Cost
    <2> HIDE DEF l
    <2> QED BY <2>1, <2>2, UncountedFine
  <1>3. Fine(s[3], 10)
    <2>1. s[3] = Trend("Revenue Trend") /\ Titled("Revenue Trend", "free")
      BY DEF Restaurant, Titled
    <2> QED BY <2>1, TrendFine
  <1>4. Fine(s[4], 8)
    <2> DEFINE l == Benefit(<<<<1, 15>>>>, 8)
    <2>1. /\ s[4] = Metric("Revenue per Cover", 15, l, TakenFor(0), "free")
          /\ Titled("Revenue per Cover", "free")
      BY DEF Restaurant, Titled
    <2>2. Offers(l, 15, 0, 8)
      BY DEF Offers, LadderOK, Falls, Benefit, Met
    <2> HIDE DEF l
    <2> QED BY <2>1, <2>2, TakenFine
  <1>5. Fine(s[5], 0)
    <2> DEFINE l == Benefit(<<<<60, 10>>, <<40, 7>>>>, 3)
    <2>1. /\ s[5] = Metric("Menu Profitability", 10, l, Uncounted(5), "premium")
          /\ Titled("Menu Profitability", "premium")
      BY DEF Restaurant, Titled
    <2>2. Rungs(l, 10, 5)
      BY DEF Rungs, LadderOK, Falls, Benefit
    <2> HIDE DEF l
    <2> QED BY <2>1, <2>2, UncountedFine
  <1>6. Fine(s[6], 10)
    BY QualityFine DEF Restaurant
  <1>7. DOMAIN s = 1 .. 6
    BY DEF Restaurant
  <1> HIDE DEF s
  <1>8. 25 + 0 + 10 + 8 + 0 + 10 <= 64
    OBVIOUS
  <1>9. AllFine(s)
    BY <1>1, <1>2, <1>3, <1>4, <1>5, <1>6, <1>7, <1>8, SixFine, Zenon
  <1> QED BY <1>9 DEF s

LEMMA EcommerceFine == AllFine(Ecommerce)
  <1> DEFINE s == Ecommerce
  <1>1. Fine(s[1], 1)
    <2> DEFINE l == Benefit(<<<<40, 25>>, <<25, 18>>, <<15, 10>>, <<5, 5>>>>, 1)
    <2>1. /\ s[1] = Metric("Repeat Purchase Rate", 25, l, TakenFor(0), "free")
          /\ Titled("Repeat Purchase Rate", "free")
      BY DEF Ecommerce, Titled
    <2>2. Offers(l, 25, 0, 1)
      BY DEF Offers, LadderOK, Falls, Benefit, Met
    <2> HIDE DEF l
    <2> QED BY <2>1, <2>2, TakenFine
  <1>2. Fine(s[2], 20)
    <2> DEFINE l == Cost(<<<<3, 20>>, <<8, 14>>, <<15, 8>>, <<25, 3>>>>, 0)
    <2>1. /\ s[2] = Metric("Return Rate", 20, l, TakenFor(0), "free")
          /\ Titled("Return Rate", "free")
      BY DEF Ecommerce, Titled
    <2>2. Offers(l, 20, 0, 20)
      BY DEF Offers, LadderOK, Falls, Cost, Met
    <2> HIDE DEF l
    <2> QED BY <2>1, <2>2, TakenFine
  <1>3. Fine(s[3], 10)
    <2>1. s[3] = Trend("Revenue Trend") /\ Titled("Revenue Trend", "free")
      BY DEF Ecommerce, Titled
    <2> QED BY <2>1, TrendFine
  <1>4. Fine(s[4], 14)
    <2> DEFINE l == Cost(<<<<50, 20>>, <<65, 14>>, <<75, 8>>>>, 3)
    <2>1. /\ s[4] = Metric("Cart Abandonment", 20, l, TakenFor(65), "basic")
          /\ Titled("Cart Abandonment", "basic")
      BY DEF Ecommerce, Titled
    <2>2. Offers(l, 20, 65, 14)
      BY DEF Offers, LadderOK, Falls, Cost, Met
    <2> HIDE DEF l
    <2> QED BY <2>1, <2>2, TakenFine
  <1>5. Fine(s[5], 0)
    BY CacLtvFine DEF Ecommerce
  <1>6. Fine(s[6], 10)
    BY QualityFine DEF Ecommerce
  <1>7. DOMAIN s = 1 .. 6
    BY DEF Ecommerce
  <1> HIDE DEF s
  <1>8. 1 + 20 + 10 + 14 + 0 + 10 <= 64
    OBVIOUS
  <1>9. AllFine(s)
    BY <1>1, <1>2, <1>3, <1>4, <1>5, <1>6, <1>7, <1>8, SixFine, Zenon
  <1> QED BY <1>9 DEF s

LEMMA GeneralFine == AllFine(General)
  <1> DEFINE s == General
  <1>1. Fine(s[1], 6)
    <2> DEFINE l == Benefit(<<<<25, 30>>, <<15, 22>>, <<8, 14>>, <<0, 6>>>>, 0)
    <2>1. /\ s[1] = Metric("Profit Margin", 30, l, TakenFor(0), "free")
          /\ Titled("Profit Margin", "free")
      BY DEF General, Titled
    <2>2. Offers(l, 30, 0, 6)
      BY DEF Offers, LadderOK, Falls, Benefit, Met
    <2> HIDE DEF l
    <2> QED BY <2>1, <2>2, TakenFine
  <1>2. Fine(s[2], 10)
    <2>1. s[2] = Trend("Revenue Trend") /\ Titled("Revenue Trend", "free")
      BY DEF General, Titled
    <2> QED BY <2>1, TrendFine
  <1>3. Fine(s[3], 10)
    <2> DEFINE l == Cost(<<<<20, 25>>, <<35, 18>>, <<50, 10>>>>, 4)
    <2>1. /\ s[3] = Metric("Customer Diversity", 25, l, TakenFor(50), "free")
          /\ Titled("Customer Diversity", "free")
      BY DEF General, Share, Titled
    <2>2. Offers(l, 25, 50, 10)
      BY DEF Offers, LadderOK, Falls, Cost, Met
    <2> HIDE DEF l
    <2> QED BY <2>1, <2>2, TakenFine
  <1>4. Fine(s[4], 14)
    <2> DEFINE l == Cost(<<<<40, 20>>, <<60, 14>>, <<80, 8>>>>, 3)
    <2>1. /\ s[4] = Metric("Category Mix", 20, l, TakenFor(50), "free")
          /\ Titled("Category Mix", "free")
      BY DEF General, Share, Titled
    <2>2. Offers(l, 20, 50, 14)
      BY DEF Offers, LadderOK, Falls, Cost, Met
    <2> HIDE DEF l
    <2> QED BY <2>1, <2>2, TakenFine
  <1>5. DOMAIN s = 1 .. 4
    BY DEF General
  <1> HIDE DEF s
  <1>6. 6 + 10 + 10 + 14 <= 64
    OBVIOUS
  <1>7. AllFine(s)
    BY <1>1, <1>2, <1>3, <1>4, <1>5, <1>6, FourFine, Zenon
  <1> QED BY <1>7 DEF s

LEMMA ScorersFine ==
  ASSUME NEW i \in DOMAIN Scorers
  PROVE  AllFine(Scorers[i])
  <1>1. /\ AllFine(Hospitality(RevPar)) /\ AllFine(Hospitality(DailyRate))
    BY HospitalityFine, RevParFine, DailyRateFine
  <1>2. AllFine(BankStatement(Buffer)) /\ AllFine(BankStatement(Overdrafts))
    BY BankStatementFine, BufferFine, OverdraftsFine
  <1> QED BY <1>1, <1>2, HrFine, RealEstateFine, HealthcareFine, LogisticsFine,
             ConstructionFine, MarketingFine, SalesFine, InventoryFine,
             RestaurantFine, EcommerceFine, GeneralFine DEF Scorers

AtMost(f, g, S) ==
    /\ DOMAIN f = S /\ DOMAIN g = S
    /\ \A x \in S : f[x] \in Nat /\ g[x] \in Nat /\ f[x] <= g[x]

LEMMA TotalAtMost ==
  ASSUME NEW S, IsFiniteSet(S), NEW f, NEW g, AtMost(f, g, S)
  PROVE  Total(f) \in Nat /\ Total(g) \in Nat /\ Total(f) <= Total(g)
  <1>1. IntsOn(f, S) /\ IntsOn(g, S)
    BY DEF IntsOn, AtMost
  <1>2. /\ SumFunctionOnSet(f, S) \in Nat /\ SumFunctionOnSet(g, S) \in Nat
    <2>1. \A x \in S : f[x] >= 0 /\ g[x] >= 0
      BY DEF AtMost
    <2> QED BY <1>1, <2>1, SumNotNegative
  <1>3. SumFunctionOnSet(f, S) <= SumFunctionOnSet(g, S)
    BY <1>1, SumBounds DEF AtMost
  <1> QED BY <1>2, <1>3 DEF Total, SumFunction, AtMost

-----------------------------------------------------------------------------
(* The quality of the data *)

\* The points of a check that passes
Top == [missing_values |-> 20, duplicate_rows |-> 15, revenue_column |-> 20,
        date_parsing |-> 15, revenue_outliers |-> 15, column_coverage |-> 15]

HasFailed(m) == m.status = "fail"
IsWarning(m) == m.status = "warn"

LEMMA MarksAre ==
  ASSUME NEW p
  PROVE  /\ \A s : Mark(s, p).points = p
         /\ HasFailed(Mark("fail", p)) /\ ~IsWarning(Mark("pass", p))
         /\ ~HasFailed(Mark("pass", p)) /\ ~HasFailed(Mark("warn", p))
  BY DEF Mark, HasFailed, IsWarning

LEMMA ChecksAre ==
  /\ Checks = {"missing_values", "duplicate_rows", "revenue_column",
               "date_parsing", "revenue_outliers", "column_coverage"}
  /\ DOMAIN Top = Checks
  BY DEF Checks, Outcomes, Top

\* What a check reports is worth no more than passing it, nothing if it failed.
Worth(c, n) ==
    /\ Top[c] = n
    /\ Mark("pass", n) \in Outcomes[c]
    /\ \A m \in Outcomes[c] : m.points \in 0 .. n /\ (HasFailed(m) => m.points = 0)

LEMMA OutcomesAre ==
  /\ Worth("missing_values", 20) /\ Worth("duplicate_rows", 15)
  /\ Worth("revenue_column", 20) /\ Worth("date_parsing", 15)
  /\ Worth("revenue_outliers", 15) /\ Worth("column_coverage", 15)
  <1>1. Worth("missing_values", 20)
    BY MarksAre DEF Worth, Outcomes, Top
  <1>2. Worth("duplicate_rows", 15)
    BY MarksAre DEF Worth, Outcomes, Top
  <1>3. Worth("revenue_column", 20)
    BY MarksAre DEF Worth, Outcomes, Top
  <1>4. Worth("date_parsing", 15)
    BY MarksAre DEF Worth, Outcomes, Top
  <1>5. Worth("revenue_outliers", 15)
    BY MarksAre DEF Worth, Outcomes, Top
  <1>6. Worth("column_coverage", 15)
    BY MarksAre DEF Worth, Outcomes, Top
  <1> QED BY <1>1, <1>2, <1>3, <1>4, <1>5, <1>6

LEMMA ChecksFinite == IsFiniteSet(Checks)
  <1>1. \A a : IsFiniteSet({a})
    BY FS_Singleton
  <1>2. \A S, a : IsFiniteSet(S) => IsFiniteSet(S \cup {a})
    BY FS_AddElement
  <1> DEFINE S == {"missing_values", "duplicate_rows", "revenue_column"}
  <1>3. IsFiniteSet({"missing_values"} \cup {"duplicate_rows"} \cup {"revenue_column"})
    BY <1>1, <1>2
  <1>4. IsFiniteSet(S)
    BY <1>3
  <1> HIDE DEF S
  <1>5. IsFiniteSet(S \cup {"date_parsing"} \cup {"revenue_outliers"}
                      \cup {"column_coverage"})
    BY <1>2, <1>4
  <1>6. Checks = S \cup {"date_parsing"} \cup {"revenue_outliers"}
                   \cup {"column_coverage"}
    BY ChecksAre DEF S
  <1> QED BY <1>5, <1>6

Distinct(a, b, c, d, e, f) ==
    /\ a \notin {b, c, d, e, f} /\ b \notin {c, d, e, f} /\ c \notin {d, e, f}
    /\ d \notin {e, f} /\ e # f

LEMMA SumOfSix ==
  ASSUME NEW a, NEW b, NEW c, NEW d, NEW e, NEW g, Distinct(a, b, c, d, e, g),
         NEW S, S = {a, b, c, d, e, g}, NEW f, IntsOn(f, S)
  PROVE  SumFunctionOnSet(f, S) = f[a] + f[b] + f[c] + f[d] + f[e] + f[g]
  <1>1. /\ f[a] \in Int /\ f[b] \in Int /\ f[c] \in Int
        /\ f[d] \in Int /\ f[e] \in Int /\ f[g] \in Int
    BY DEF IntsOn
  <1>2. \A x, T : (x \notin T /\ IsFiniteSet(T) /\ f[x] \in Int /\ IntsOn(f, T))
           => /\ IsFiniteSet(T \cup {x}) /\ IntsOn(f, T \cup {x})
              /\ SumFunctionOnSet(f, T \cup {x}) = f[x] + SumFunctionOnSet(f, T)
    <2> TAKE x, T
    <2> HAVE x \notin T /\ IsFiniteSet(T) /\ f[x] \in Int /\ IntsOn(f, T)
    <2>1. IntsOn(f, T \cup {x})
      BY DEF IntsOn
    <2> QED BY <2>1, SumInserts, FS_AddElement
  <1> DEFINE s0 == {}
             s1 == s0 \cup {g}
             s2 == s1 \cup {e}
             s3 == s2 \cup {d}
             s4 == s3 \cup {c}
             s5 == s4 \cup {b}
             s6 == s5 \cup {a}
  <1>3. s6 = S
    OBVIOUS
  <1>4. g \notin s0
    BY DEF Distinct
  <1>5. e \notin s1
    BY DEF Distinct
  <1>6. d \notin s2
    BY DEF Distinct
  <1>7. c \notin s3
    BY DEF Distinct
  <1>8. b \notin s4
    BY DEF Distinct
  <1>9. a \notin s5
    BY DEF Distinct
  <1>10. IsFiniteSet(s0) /\ IntsOn(f, s0) /\ SumFunctionOnSet(f, s0) = 0
    BY FS_EmptySet, SumEmpty DEF IntsOn
  <1> HIDE DEF s0
  <1>11. /\ IsFiniteSet(s1) /\ IntsOn(f, s1)
        /\ SumFunctionOnSet(f, s1) = f[g]
    <2>1. /\ IsFiniteSet(s1) /\ IntsOn(f, s1)
          /\ SumFunctionOnSet(f, s1) = f[g] + SumFunctionOnSet(f, s0)
      BY <1>1, <1>2, <1>4, <1>10
    <2> HIDE DEF s1
    <2> QED BY <1>1, <1>10, <2>1
  <1> HIDE DEF s1
  <1>12. /\ IsFiniteSet(s2) /\ IntsOn(f, s2)
        /\ SumFunctionOnSet(f, s2) = f[e] + f[g]
    <2>1. /\ IsFiniteSet(s2) /\ IntsOn(f, s2)
          /\ SumFunctionOnSet(f, s2) = f[e] + SumFunctionOnSet(f, s1)
      BY <1>1, <1>2, <1>5, <1>11
    <2> HIDE DEF s2
    <2> QED BY <1>1, <1>11, <2>1
  <1> HIDE DEF s2
  <1>13. /\ IsFiniteSet(s3) /\ IntsOn(f, s3)
        /\ SumFunctionOnSet(f, s3) = f[d] + f[e] + f[g]
    <2>1. /\ IsFiniteSet(s3) /\ IntsOn(f, s3)
          /\ SumFunctionOnSet(f, s3) = f[d] + SumFunctionOnSet(f, s2)
      BY <1>1, <1>2, <1>6, <1>12
    <2> HIDE DEF s3
    <2> QED BY <1>1, <1>12, <2>1
  <1> HIDE DEF s3
  <1>14. /\ IsFiniteSet(s4) /\ IntsOn(f, s4)
        /\ SumFunctionOnSet(f, s4) = f[c] + f[d] + f[e] + f[g]
    <2>1. /\ IsFiniteSet(s4) /\ IntsOn(f, s4)
          /\ SumFunctionOnSet(f, s4) = f[c] + SumFunctionOnSet(f, s3)
      BY <1>1, <1>2, <1>7, <1>13
    <2> HIDE DEF s4
    <2> QED BY <1>1, <1>13, <2>1
  <1> HIDE DEF s4
  <1>15. /\ IsFiniteSet(s5) /\ IntsOn(f, s5)
        /\ SumFunctionOnSet(f, s5) = f[b] + f[c] + f[d] + f[e] + f[g]
    <2>1. /\ IsFiniteSet(s5) /\ IntsOn(f, s5)
          /\ SumFunctionOnSet(f, s5) = f[b] + SumFunctionOnSet(f, s4)
      BY <1>1, <1>2, <1>8, <1>14
    <2> HIDE DEF s5
    <2> QED BY <1>1, <1>14, <2>1
  <1> HIDE DEF s5
  <1>16. /\ IsFiniteSet(s6) /\ IntsOn(f, s6)
        /\ SumFunctionOnSet(f, s6) = f[a] + f[b] + f[c] + f[d] + f[e] + f[g]
    <2>1. /\ IsFiniteSet(s6) /\ IntsOn(f, s6)
          /\ SumFunctionOnSet(f, s6) = f[a] + SumFunctionOnSet(f, s5)
      BY <1>1, <1>2, <1>9, <1>15
    <2> HIDE DEF s6
    <2> QED BY <1>1, <1>15, <2>1
  <1> HIDE DEF s6
  <1> QED BY <1>3, <1>16

LEMMA TopsAre == Total(Top) = 100
  <1>1. Distinct("missing_values", "duplicate_rows", "revenue_column",
                 "date_parsing", "revenue_outliers", "column_coverage")
    BY DEF Distinct
  <1>2. /\ Top["missing_values"] = 20 /\ Top["duplicate_rows"] = 15
        /\ Top["revenue_column"] = 20 /\ Top["date_parsing"] = 15
        /\ Top["revenue_outliers"] = 15 /\ Top["column_coverage"] = 15
    BY DEF Top
  <1>3. IntsOn(Top, Checks)
    BY <1>2, ChecksAre DEF IntsOn
  <1>4. SumFunctionOnSet(Top, Checks)
           = Top["missing_values"] + Top["duplicate_rows"] + Top["revenue_column"]
               + Top["date_parsing"] + Top["revenue_outliers"] + Top["column_coverage"]
    BY <1>1, <1>3, ChecksAre, SumOfSix
  <1>5. Total(Top) = SumFunctionOnSet(Top, Checks)
    BY ChecksAre DEF Total, SumFunction
  <1> QED BY <1>2, <1>4, <1>5

\* What any report is worth
LEMMA ReportWorth ==
  ASSUME NEW q \in Reports, NEW c \in Checks
  PROVE  /\ q[c] \in Outcomes[c] /\ q[c].points \in Nat
         /\ Top[c] \in Nat /\ q[c].points <= Top[c] /\ Top[c] >= 15
         /\ HasFailed(q[c]) => q[c].points = 0
  <1>1. q[c] \in Outcomes[c]
    BY DEF Reports
  <1>2. \E n \in 15 .. 20 : Worth(c, n)
    BY OutcomesAre, ChecksAre
  <1> QED BY <1>1, <1>2 DEF Worth

LEMMA QualityIs ==
  ASSUME NEW q \in Reports
  PROVE  /\ QualityScore(q) \in 0 .. 100
         /\ \A c, d \in Checks :
               (c # d /\ HasFailed(q[c]) /\ HasFailed(q[d])) => QualityScore(q) <= 70
  <1> DEFINE f == [c \in Checks |-> Marks(q, c)]
             T == Total(f)
  <1>1. IsFiniteSet(Checks) /\ DOMAIN f = Checks /\ DOMAIN Top = Checks
    BY ChecksFinite, ChecksAre
  <1>2. \A c \in Checks : f[c] = q[c].points
    BY DEF Marks
  <1> HIDE DEF f
  <1>3. \A c \in Checks : /\ f[c] \in Nat /\ Top[c] \in Nat /\ f[c] <= Top[c]
                          /\ Top[c] >= 15 /\ (HasFailed(q[c]) => f[c] = 0)
    BY <1>2, ReportWorth
  <1>4. T \in Nat /\ T <= 100
    <2>1. AtMost(f, Top, Checks)
      BY <1>1, <1>3 DEF AtMost
    <2> QED BY <1>1, <2>1, TopsAre, TotalAtMost
  <1>5. QualityScore(q) = T
    BY <1>4 DEF QualityScore, Smaller, f
  <1>6. ASSUME NEW c \in Checks, NEW d \in Checks, c # d,
               HasFailed(q[c]), HasFailed(q[d])
        PROVE  T <= 70
    <2> DEFINE g == [x \in Checks |-> IF x \in {c, d} THEN 0 ELSE Top[x]]
               R == Checks \ {c}
               Q == R \ {d}
    <2>1. \A x \in Checks : g[x] \in Nat /\ g[x] \in Int /\ f[x] <= g[x]
      BY <1>3, <1>6
    <2>2. T <= Total(g)
      <3>1. DOMAIN g = Checks
        OBVIOUS
      <3> HIDE DEF g
      <3>2. AtMost(f, g, Checks)
        BY <1>1, <1>3, <2>1, <3>1 DEF AtMost
      <3> QED BY <1>1, <3>2, TotalAtMost
    <2>3. g[c] = 0 /\ g[d] = 0 /\ \A x \in Q : g[x] = Top[x]
      OBVIOUS
    <2>4. Total(g) = SumFunctionOnSet(g, Checks)
      BY DEF Total, SumFunction
    <2> HIDE DEF g
    <2>5. /\ IsFiniteSet(R) /\ IsFiniteSet(Q) /\ d \in R
          /\ R \subseteq Checks /\ Q \subseteq Checks
      BY <1>1, <1>6, FS_RemoveElement
    <2>6. SumFunctionOnSet(g, Checks) = g[c] + SumFunctionOnSet(g, R)
      BY <1>1, <2>1, SumTakes
    <2>7. SumFunctionOnSet(Top, Checks) = Top[c] + SumFunctionOnSet(Top, R)
      BY <1>1, <1>3, SumTakes
    <2> HIDE DEF R
    <2>8. SumFunctionOnSet(g, R) = g[d] + SumFunctionOnSet(g, Q)
      BY <2>1, <2>5, SumTakes
    <2>9. SumFunctionOnSet(Top, R) = Top[d] + SumFunctionOnSet(Top, Q)
      BY <1>3, <2>5, SumTakes
    <2>10. SumFunctionOnSet(g, Q) <= SumFunctionOnSet(Top, Q)
      <3>1. IntsOn(g, Q) /\ IntsOn(Top, Q) /\ \A x \in Q : g[x] <= Top[x]
        BY <1>3, <2>1, <2>3, <2>5 DEF IntsOn
      <3> QED BY <2>5, <3>1, SumBounds
    <2>11. SumFunctionOnSet(g, Q) \in Int /\ SumFunctionOnSet(Top, Q) \in Int
      BY <1>3, <2>1, <2>5, SumIsInt
    <2>12. SumFunctionOnSet(Top, Checks) = 100
      BY <1>1, TopsAre DEF Total, SumFunction
    <2> HIDE DEF Q
    <2>13. Top[c] >= 15 /\ Top[d] >= 15 /\ Top[c] \in Nat /\ Top[d] \in Nat
      BY <1>3
    <2> QED BY <1>4, <2>2, <2>3, <2>4, <2>6, <2>7, <2>8, <2>9, <2>10, <2>11, <2>12, <2>13
  <1> QED BY <1>4, <1>5, <1>6

LEMMA NoTwoMembers ==
  ASSUME NEW S, IsFiniteSet(S), \A c, d \in S : c = d
  PROVE  Cardinality(S) <= 1
  <1>1. CASE S = {}
    BY <1>1, FS_EmptySet
  <1>2. CASE S # {}
    <2>1. PICK c \in S : TRUE
      BY <1>2
    <2>2. S = {c}
      BY <2>1
    <2> QED BY <2>2, FS_Singleton
  <1> QED BY <1>1, <1>2

LEMMA ExcellentFails ==
  ASSUME quality \in Reports
  PROVE  ExcellentFailsOnce
  <1> SUFFICES ASSUME Quality(quality) = "Excellent"
        PROVE  Cardinality(Failed(quality)) <= 1
    BY DEF ExcellentFailsOnce
  <1> DEFINE x == QualityScore(quality)
             F == Failed(quality)
  <1>1. x >= 85
    <2> SUFFICES ASSUME ~(x >= 85) PROVE FALSE
      OBVIOUS
    <2>1. Quality(quality) \in {"Good", "Fair", "Poor"}
      BY DEF Quality
    <2> QED BY <2>1
  <1>2. F = {c \in Checks : HasFailed(quality[c])}
    BY DEF Failed, HasFailed
  <1> HIDE DEF F
  <1>3. \A c, d \in F : c = d
    BY <1>1, <1>2, QualityIs
  <1>4. IsFiniteSet(F)
    BY <1>2, ChecksFinite, FS_Subset
  <1> QED BY <1>3, <1>4, NoTwoMembers DEF F

LEMMA SpotlessIs == Spotless \in Reports
  <1> DEFINE Best(c, m) == \A n \in Outcomes[c] : n.points <= m.points
  <1>1. \A c \in Checks : Spotless[c] = CHOOSE m \in Outcomes[c] : Best(c, m)
    BY DEF Spotless
  <1>2. \A c \in Checks : \E n \in 15 .. 20 : Worth(c, n)
    BY OutcomesAre, ChecksAre
  <1>3. \A c \in Checks : Spotless[c] \in Outcomes[c] /\ Best(c, Spotless[c])
    <2> TAKE c \in Checks
    <2>1. PICK n \in 15 .. 20 : Worth(c, n)
      BY <1>2
    <2>2. Mark("pass", n) \in Outcomes[c] /\ Mark("pass", n).points = n
      BY <2>1, MarksAre DEF Worth
    <2>3. \A m \in Outcomes[c] : m.points <= n
      BY <2>1 DEF Worth
    <2>4. \E m \in Outcomes[c] : Best(c, m)
      BY <2>2, <2>3
    <2> HIDE DEF Best
    <2> QED BY <1>1, <2>4
  <1>4. Spotless["revenue_column"] # Mark("warn", 10)
    <2>1. Worth("revenue_column", 20) /\ "revenue_column" \in Checks
      BY OutcomesAre, ChecksAre
    <2>2. /\ Mark("pass", 20) \in Outcomes["revenue_column"]
          /\ Mark("pass", 20).points = 20 /\ Mark("warn", 10).points = 10
      BY <2>1, MarksAre DEF Worth
    <2>3. 20 <= Spotless["revenue_column"].points
      BY <1>3, <2>1, <2>2
    <2> QED BY <2>2, <2>3
  <1>5. Spotless \in [Checks -> UNION {Outcomes[c] : c \in Checks}]
    <2>1. Spotless = [c \in Checks |-> Spotless[c]]
      BY DEF Spotless
    <2> QED BY <1>3, <2>1
  <1> QED BY <1>3, <1>4, <1>5 DEF Reports

-----------------------------------------------------------------------------
(* The tables of a user *)

HealthIInv ==
    /\ industry \in DOMAIN Scorers /\ quality \in Reports /\ plan \in Plans
    /\ measured \in [DOMAIN scorer -> Int \cup {None}]
    /\ \A i \in DOMAIN scorer : measured[i] \in Figures(scorer[i])

LEMMA ScorerIs ==
  ASSUME NEW i \in DOMAIN Scorers
  PROVE  /\ IsFiniteSet(DOMAIN Scorers[i])
         /\ \A k \in DOMAIN Scorers[i] : MetricOK(Scorers[i][k])
  <1>1. AllFine(Scorers[i])
    BY ScorersFine
  <1>2. PICK n \in Nat : \E b : /\ DOMAIN Scorers[i] = 1 .. n
                                /\ \A k \in 1 .. n : Fine(Scorers[i][k], b[k])
    BY <1>1 DEF AllFine
  <1>3. \A k \in 1 .. n : MetricOK(Scorers[i][k])
    BY <1>2 DEF Fine
  <1> QED BY <1>2, <1>3, FS_Interval

LEMMA FiguresAre ==
  ASSUME NEW m, MetricOK(m)
  PROVE  /\ Figures(m) \subseteq Int \cup {None} /\ None \in Figures(m)
         /\ OfQuality(m) => Figures(m) = {None}
  <1> DEFINE sides == {m.ladder.rungs[k][1] + d :
                         k \in DOMAIN m.ladder.rungs, d \in {-1, 0, 1}}
  <1>1. \A k \in DOMAIN m.ladder.rungs : m.ladder.rungs[k][1] \in Int
    BY DEF MetricOK, LadderOK
  <1>2. sides \subseteq Int
    BY <1>1
  <1>3. Figures(m) = IF OfQuality(m) THEN {None} ELSE {None, 0} \cup sides
    BY DEF Figures, OfQuality
  <1> HIDE DEF sides
  <1>4. CASE OfQuality(m)
    BY <1>3, <1>4
  <1>5. CASE ~OfQuality(m)
    <2>1. Figures(m) = {None, 0} \cup sides
      BY <1>3, <1>5
    <2>2. 0 \in Int
      OBVIOUS
    <2> QED BY <1>2, <1>5, <2>1, <2>2, Zenon
  <1> QED BY <1>4, <1>5

LEMMA BestFigureIs ==
  ASSUME NEW m, MetricOK(m)
  PROVE  BestFigure(m) \in Figures(m)
  <1> DEFINE Short == {m.max - Earned(m, w) : w \in Figures(m)}
  <1>1. m.max \in Nat /\ \A w : Earned(m, w) \in 0 .. m.max
    BY EarnedIs DEF MetricOK
  <1>2. Short \in SUBSET Nat /\ Short # {}
    BY <1>1, FiguresAre
  <1>3. PICK n \in Short : \A k \in Short : n <= k
    BY <1>2, SmallestNat
  <1>4. PICK v \in Figures(m) : n = m.max - Earned(m, v)
    BY <1>3
  <1>5. \A w \in Figures(m) : Earned(m, w) <= Earned(m, v)
    <2> TAKE w \in Figures(m)
    <2>1. n <= m.max - Earned(m, w)
      BY <1>3
    <2> QED BY <1>1, <1>4, <2>1
  <1> QED BY <1>5 DEF BestFigure

LEMMA HealthBegins ==
  ASSUME HealthInit
  PROVE  HealthIInv
  <1>1. industry \in DOMAIN Scorers /\ plan \in Plans /\ quality \in Reports
    BY SpotlessIs DEF HealthInit, Plans
  <1>2. \A i \in DOMAIN scorer : MetricOK(scorer[i])
    BY <1>1, ScorerIs DEF scorer
  <1>3. \A i \in DOMAIN scorer :
           /\ Figures(scorer[i]) \subseteq Int \cup {None}
           /\ None \in Figures(scorer[i])
           /\ BestFigure(scorer[i]) \in Figures(scorer[i])
    BY <1>2, FiguresAre, BestFigureIs
  <1>4. \/ measured = [i \in DOMAIN scorer |-> None]
        \/ measured = [i \in DOMAIN scorer |-> BestFigure(scorer[i])]
    BY DEF HealthInit, Unmeasured
  <1>5. /\ measured \in [DOMAIN scorer -> Int \cup {None}]
        /\ \A i \in DOMAIN scorer : measured[i] \in Figures(scorer[i])
    BY <1>3, <1>4
  <1> QED BY <1>1, <1>5 DEF HealthIInv

LEMMA HealthInductive ==
  ASSUME HealthIInv, [MCNext]_mcVars
  PROVE  HealthIInv'
  <1>1. /\ industry \in DOMAIN Scorers /\ quality \in Reports /\ plan \in Plans
        /\ measured \in [DOMAIN scorer -> Int \cup {None}]
        /\ \A i \in DOMAIN scorer : measured[i] \in Figures(scorer[i])
    BY DEF HealthIInv
  <1>2. ASSUME NEW i \in DOMAIN scorer, Measure(i)
        PROVE  HealthIInv'
    <2>1. PICK v \in Figures(scorer[i]) : measured' = [measured EXCEPT ![i] = v]
      BY <1>2 DEF Measure
    <2>2. industry' = industry /\ quality' = quality /\ plan' = plan /\ scorer' = scorer
      BY <1>2 DEF Measure, scorer
    <2>3. v \in Int \cup {None}
      BY <1>1, <2>1, ScorerIs, FiguresAre DEF scorer
    <2>4. /\ measured' \in [DOMAIN scorer -> Int \cup {None}]
          /\ \A k \in DOMAIN scorer : measured'[k] \in Figures(scorer[k])
      BY <1>1, <2>1, <2>3
    <2> QED BY <1>1, <2>2, <2>4 DEF HealthIInv
  <1>3. ASSUME NEW c \in Checks, Inspect(c)
        PROVE  HealthIInv'
    <2>1. /\ industry' = industry /\ measured' = measured /\ plan' = plan
          /\ scorer' = scorer /\ quality' \in Reports
      BY <1>3 DEF Inspect, scorer
    <2> QED BY <1>1, <2>1 DEF HealthIInv
  <1>4. ASSUME Subscribe
        PROVE  HealthIInv'
    <2>1. /\ industry' = industry /\ measured' = measured /\ quality' = quality
          /\ scorer' = scorer /\ plan' \in Plans
      BY <1>4 DEF Subscribe, scorer
    <2> QED BY <1>1, <2>1 DEF HealthIInv
  <1>5. ASSUME UNCHANGED healthVars
        PROVE  HealthIInv'
    <2>1. /\ industry' = industry /\ measured' = measured /\ quality' = quality
          /\ scorer' = scorer /\ plan' = plan
      BY <1>5 DEF healthVars, scorer
    <2> QED BY <1>1, <2>1 DEF HealthIInv
  <1>6. HealthNext \/ UNCHANGED healthVars
    BY DEF MCNext, HealthPart, mcVars
  <1> QED BY <1>2, <1>3, <1>4, <1>5, <1>6 DEF HealthNext

LEMMA HealthSound == MCSpec => []HealthIInv
  <1>1. MCInit => HealthIInv
    BY HealthBegins DEF MCInit
  <1>2. HealthIInv /\ [MCNext]_mcVars => HealthIInv'
    BY HealthInductive
  <1> QED BY <1>1, <1>2, PTL DEF MCSpec

Gains == [i \in DOMAIN scorer |-> Earned(scorer[i], Figure(i))]

\* What the metrics of a table add up to
LEMMA GainsAre ==
  ASSUME HealthIInv
  PROVE  /\ IsFiniteSet(DOMAIN scorer) /\ DOMAIN Gains = DOMAIN scorer
         /\ \A i \in DOMAIN scorer :
               /\ MetricOK(scorer[i])
               /\ Gains[i] = Earned(scorer[i], Figure(i)) /\ Gains[i] \in Nat
         /\ Total(Gains) \in Nat /\ Score = Capped(Total(Gains))
  <1>1. /\ IsFiniteSet(DOMAIN scorer)
        /\ \A i \in DOMAIN scorer : MetricOK(scorer[i])
    BY ScorerIs DEF HealthIInv, scorer
  <1>2. /\ DOMAIN Gains = DOMAIN scorer
        /\ \A i \in DOMAIN scorer : Gains[i] = Earned(scorer[i], Figure(i))
    BY DEF Gains
  <1>3. \A i \in DOMAIN scorer : Gains[i] \in Nat
    <2> TAKE i \in DOMAIN scorer
    <2>1. Earned(scorer[i], Figure(i)) \in 0 .. scorer[i].max
      BY <1>1, EarnedIs
    <2> QED BY <1>2, <2>1
  <1>4. Total(Gains) \in Nat
    <2>1. AtMost(Gains, Gains, DOMAIN scorer)
      BY <1>2, <1>3 DEF AtMost
    <2> QED BY <1>1, <2>1, TotalAtMost
  <1> QED BY <1>1, <1>2, <1>3, <1>4 DEF Score, Gains

GainsOK ==
    /\ DOMAIN Gains = DOMAIN scorer /\ Total(Gains) \in Nat
    /\ Score = Capped(Total(Gains)) /\ \A j \in DOMAIN scorer : Gains[j] \in Nat

LEMMA GainsNow == HealthIInv => GainsOK
  BY GainsAre DEF GainsOK

LEMMA GainsLater == HealthIInv' => GainsOK'
  BY GainsNow, PTL

LEMMA CappedGrows ==
  ASSUME NEW a \in Nat, NEW b \in Nat, a <= b
  PROVE  /\ Capped(a) \in 0 .. 100 /\ Capped(a) <= Capped(b) /\ Capped(a) <= a
         /\ Capped(b) \in 0 .. 100
  BY DEF Capped, Smaller

LEMMA HealthTypes ==
  ASSUME HealthIInv
  PROVE  HealthTypeOK
  <1>1. Score \in Percent
    BY GainsAre, CappedGrows DEF Percent
  <1>2. \A i \in DOMAIN scorer : Shown(scorer[i], Figure(i)) \in 0 .. scorer[i].max
    BY GainsAre, EarnedIs
  <1> QED BY <1>1, <1>2 DEF HealthTypeOK, HealthIInv

LEMMA NoDataFails ==
  ASSUME HealthIInv
  PROVE  NoDataNotHealthy
  <1> SUFFICES ASSUME \A i \in DOMAIN scorer : measured[i] = None
        PROVE  Grade(Score) \in {"C", "D", "F"}
    BY DEF NoDataNotHealthy
  <1>1. AllFine(scorer)
    BY ScorersFine DEF HealthIInv, scorer
  <1>9. PICK n \in Nat : \E b : /\ DOMAIN scorer = 1 .. n /\ DOMAIN b = 1 .. n
                                /\ \A i \in 1 .. n : Fine(scorer[i], b[i]) /\ b[i] \in Nat
                                /\ Total(b) <= 64
    BY <1>1 DEF AllFine
  <1>2. PICK b : /\ DOMAIN scorer = 1 .. n /\ DOMAIN b = 1 .. n
                 /\ \A i \in 1 .. n : Fine(scorer[i], b[i]) /\ b[i] \in Nat
                 /\ Total(b) <= 64
    BY <1>9
  <1>3. \A i \in 1 .. n : Gains[i] <= b[i]
    <2> TAKE i \in 1 .. n
    <2>1. /\ Gains[i] = Earned(scorer[i], Figure(i)) /\ MetricOK(scorer[i])
          /\ Gains[i] \in Nat /\ b[i] \in Nat
          /\ IF OfQuality(scorer[i]) THEN scorer[i].max <= b[i]
             ELSE Earned(scorer[i], None) <= b[i]
      BY <1>2, GainsAre DEF Fine
    <2>2. Earned(scorer[i], Figure(i)) \in 0 .. scorer[i].max /\ scorer[i].max \in Nat
      BY <2>1, EarnedIs DEF MetricOK
    <2>3. ~OfQuality(scorer[i]) => Figure(i) = None
      BY <1>2 DEF Figure, OfQuality
    <2> QED BY <2>1, <2>2, <2>3
  <1>4. Total(Gains) <= Total(b) /\ Total(b) \in Nat
    <2>1. AtMost(Gains, b, 1 .. n)
      BY <1>2, <1>3, GainsAre DEF AtMost
    <2>2. IsFiniteSet(1 .. n)
      BY <1>2, FS_Interval
    <2> QED BY <2>1, <2>2, TotalAtMost
  <1>5. Score \in 0 .. 100 /\ Score <= 64
    <2>1. Total(Gains) \in Nat /\ Score = Capped(Total(Gains)) /\ Total(Gains) <= 64
      <3>1. Total(b) <= 64
        BY <1>2
      <3>2. Total(Gains) \in Nat /\ Score = Capped(Total(Gains))
        BY GainsAre
      <3> QED BY <1>4, <3>1, <3>2
    <2> QED BY <2>1, CappedGrows
  <1>6. ~(Score >= 80) /\ ~(Score >= 65)
    BY <1>5
  <1> QED BY <1>6 DEF Grade

-----------------------------------------------------------------------------
(* A step *)

\* What is measured changes nothing but the figures.
LEMMA BetterKeeps ==
  ASSUME HealthIInv, HealthIInv', [MCNext]_mcVars
  PROVE  BetterNeverCosts
  <1> SUFFICES ASSUME NEW i \in DOMAIN scorer,
                      Known(scorer[i], measured[i]), Known(scorer[i], measured'[i]),
                      Better(scorer[i], measured'[i], measured[i])
        PROVE  Score' >= Score
    BY DEF BetterNeverCosts
  <1>1. measured[i] \in Int /\ ~OfQuality(scorer[i]) /\ MetricOK(scorer[i])
    <2>1. measured[i] # None
      BY DEF Known
    <2>2. measured[i] \in Figures(scorer[i]) /\ MetricOK(scorer[i])
      BY GainsAre DEF HealthIInv
    <2> QED BY <2>1, <2>2, FiguresAre
  <1>2. measured'[i] # measured[i]
    <2> SUFFICES ASSUME measured'[i] = measured[i] PROVE FALSE
      OBVIOUS
    <2>1. Better(scorer[i], measured[i], measured[i])
      OBVIOUS
    <2>2. ~(measured[i] < measured[i]) /\ ~(measured[i] > measured[i])
      BY <1>1
    <2> QED BY <2>1, <2>2 DEF Better
  <1>3. PICK k \in DOMAIN scorer : Measure(k)
    BY <1>2 DEF MCNext, HealthPart, HealthNext, Inspect, Subscribe, mcVars, healthVars
  <1>4. PICK v \in Figures(scorer[k]) : measured' = [measured EXCEPT ![k] = v]
    BY <1>3 DEF Measure
  <1>5. scorer' = scorer /\ quality' = quality
    BY <1>3 DEF Measure, scorer
  <1>6. DOMAIN measured = DOMAIN scorer
    BY DEF HealthIInv
  <1>7. k = i /\ \A j \in DOMAIN scorer : j # i => measured'[j] = measured[j]
    BY <1>2, <1>4, <1>6
  <1>8. \A j \in DOMAIN scorer :
           /\ Figure(j) = IF OfQuality(scorer[j]) THEN QualityScore(quality) ELSE measured[j]
           /\ Figure(j)' = IF OfQuality(scorer[j]) THEN QualityScore(quality) ELSE measured'[j]
    BY <1>5 DEF Figure, OfQuality
  <1>9. \A j \in DOMAIN scorer : Gains'[j] = Earned(scorer[j], Figure(j)')
    BY <1>5 DEF Gains
  <1>10. measured'[i] \in Int
    <2>1. measured'[i] # None
      BY DEF Known
    <2>2. measured'[i] \in Figures(scorer[i])
      BY <1>5 DEF HealthIInv
    <2> QED BY <1>1, <2>1, <2>2, FiguresAre
  <1>11. Gains[i] <= Gains'[i]
    <2>1. Earned(scorer[i], measured[i]) <= Earned(scorer[i], measured'[i])
      BY <1>1, <1>10, EarnedGrows
    <2>2. Gains[i] = Earned(scorer[i], measured[i])
      BY <1>1, <1>8, GainsAre
    <2>3. Gains'[i] = Earned(scorer[i], measured'[i])
      BY <1>1, <1>8, <1>9
    <2> QED BY <2>1, <2>2, <2>3
  <1>12. \A j \in DOMAIN scorer : j # i => Gains'[j] = Gains[j]
    BY <1>7, <1>8, <1>9, GainsAre
  <1>13. /\ DOMAIN Gains' = DOMAIN scorer /\ Total(Gains') \in Nat
         /\ Score' = Capped(Total(Gains'))
         /\ \A j \in DOMAIN scorer : Gains'[j] \in Nat
    BY <1>5, GainsLater DEF GainsOK
  <1>14. Total(Gains) <= Total(Gains')
    <2> DEFINE h == Gains'
    <2>1. DOMAIN h = DOMAIN scorer /\ \A j \in DOMAIN scorer : h[j] = Gains'[j]
      BY <1>13
    <2>2. AtMost(Gains, h, DOMAIN scorer)
      BY <1>11, <1>12, <1>13, <2>1, GainsAre DEF AtMost
    <2> HIDE DEF h
    <2>3. Total(Gains) <= Total(h)
      BY <2>2, GainsAre, TotalAtMost
    <2> QED BY <2>3 DEF h
  <1> QED BY <1>13, <1>14, GainsAre, CappedGrows

LEMMA UpgradeKeeps ==
  ASSUME HealthIInv, HealthIInv', [MCNext]_mcVars
  PROVE  UpgradeShowsMore
  <1> SUFFICES ASSUME plan' # plan
        PROVE  /\ Score' = Score
               /\ Rank(plan) <= Rank(plan') =>
                     \A i \in DOMAIN scorer :
                        ShownComponents[i] # None => ShownComponents'[i] = ShownComponents[i]
    BY DEF UpgradeShowsMore
  <1>1. Subscribe
    BY DEF MCNext, HealthPart, HealthNext, Measure, Inspect, mcVars, healthVars
  <1>2. /\ scorer' = scorer /\ measured' = measured /\ quality' = quality
    BY <1>1 DEF Subscribe, scorer
  <1>3. \A i : Figure(i)' = Figure(i)
    BY <1>2 DEF Figure
  <1>4. Score' = Score
    BY <1>2, <1>3 DEF Score
  <1>5. ASSUME Rank(plan) <= Rank(plan'), NEW i \in DOMAIN scorer,
               ShownComponents[i] # None
        PROVE  ShownComponents'[i] = ShownComponents[i]
    <2>1. ShownComponents[i] = IF Open(plan, scorer[i]) THEN Shown(scorer[i], Figure(i))
                               ELSE None
      BY DEF ShownComponents
    <2>2. ShownComponents'[i] = IF Open(plan', scorer[i]) THEN Shown(scorer[i], Figure(i))
                                ELSE None
      BY <1>2, <1>3 DEF ShownComponents
    <2>3. Open(plan, scorer[i])
      BY <1>5, <2>1
    <2>4. /\ Rank(plan) \in Int /\ Rank(plan') \in Int /\ Rank(scorer[i].needs) \in Int
      BY DEF Rank
    <2>5. Open(plan', scorer[i])
      BY <1>5, <2>3, <2>4 DEF Open
    <2> QED BY <2>1, <2>2, <2>3, <2>5
  <1> QED BY <1>4, <1>5

\* A good verdict is earned, on health as on the quality of the data, whatever
\* else differs: no table without figures is graded A or B, and data called
\* excellent failed one check at most (analyzer.py:2298, 2269).
THEOREM HealthIsEarned == MCSpec => []HealthEarned
  <1>1. HealthIInv => HealthEarned
    BY NoDataFails, ExcellentFails DEF HealthEarned, HealthIInv
  <1> QED BY <1>1, HealthSound, PTL

\* A better figure of any metric never costs points, and a higher plan never
\* hides a component, in any step of any table (analyzer.py:2352,
\* entitlements.py:18).
THEOREM GainsCostNothing == MCSpec => GainsNeverCost
  <1>1. ASSUME HealthIInv, HealthIInv', [MCNext]_mcVars
        PROVE  [BetterNeverCosts /\ UpgradeShowsMore]_healthVars
    BY <1>1, BetterKeeps, UpgradeKeeps
  <1> QED BY <1>1, HealthSound, PTL DEF MCSpec, GainsNeverCost

\* Scores are percentages, and no component shows more points than its maximum
\* (analyzer.py:2390, bank_loan_readiness.py:236).
THEOREM ReportsTyped == MCSpec => []ReportsTypeOK
  <1>1. HealthIInv => HealthTypeOK
    BY HealthTypes
  <1> QED BY <1>1, HealthSound, LendingTyped, PTL DEF ReportsTypeOK
=============================================================================
