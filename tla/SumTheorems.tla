---------------------------- MODULE SumTheorems ----------------------------
(***************************************************************************)
(* Sums of a function over a finite set of indices, for the ledgers of the *)
(* limiters: the fold of the community modules satisfies its recursion, and*)
(* does not depend on the order in which it takes the indices.  Places in  *)
(* an order of a finite set, for the listings, and a few facts of          *)
(* sequences, bounds, products and quotients that several proofs need.     *)
(*                                                                         *)
(* Induction over the finite subsets is a smallest counterexample: a       *)
(* nonempty set of subsets of a finite set has a minimal member.           *)
(***************************************************************************)
EXTENDS Integers, Sequences, FiniteSets, FiniteSetsExt, Functions, FiniteSetTheorems, TLAPS

\* The index the fold takes next.
Pick(s) == CHOOSE x \in s : TRUE

\* h is the table of partial sums that the fold defines on the subsets of S.
IsTable(h, f, S) ==
    h = [s \in SUBSET S |-> IF s = {} THEN 0 ELSE f[Pick(s)] + h[s \ {Pick(s)}]]

(* A nonempty family of subsets of a finite set has a minimal member.      *)
LEMMA MinimalSubset ==
    ASSUME NEW S, IsFiniteSet(S), NEW F, F \subseteq SUBSET S, F # {}
    PROVE  \E T \in F : \A U \in F : ~(U \subseteq T /\ U # T)
  <1>1. F \subseteq FiniteSubsetsOf(S)
    BY FS_Subset DEF FiniteSubsetsOf
  <1>2. \E T \in F : \A U \in F : ~ (<<U, T>> \in StrictSubsetOrdering(S))
    BY <1>1, FS_StrictSubsetOrderingWellFounded, WFMin
  <1>. QED  BY <1>2 DEF StrictSubsetOrdering

(* Pick picks a member.                                                    *)
LEMMA PickIn == \A s : s # {} => Pick(s) \in s
  BY DEF Pick

(* Two tables agree where both are defined.                                *)
LEMMA TablesAgree ==
    ASSUME NEW f, NEW S, IsFiniteSet(S), NEW T, T \subseteq S,
           NEW g, IsTable(g, f, S), NEW h, IsTable(h, f, T),
           NEW s \in SUBSET T
    PROVE  g[s] = h[s]
  <1>. DEFINE Bad == {u \in SUBSET T : g[u] # h[u]}
  <1>1. ASSUME Bad # {} PROVE FALSE
    <2>1. PICK u \in Bad : \A v \in Bad : ~(v \subseteq u /\ v # u)
      <3>1. IsFiniteSet(T) /\ Bad \subseteq SUBSET T
        BY FS_Subset
      <3>. HIDE DEF Bad
      <3>. QED  BY <1>1, <3>1, MinimalSubset
    <2>2. u # {}
      BY DEF IsTable
    <2>3. Pick(u) \in u
      BY <2>2, PickIn
    <2>4. u \ {Pick(u)} \in SUBSET T /\ u \ {Pick(u)} \notin Bad
      BY <2>1, <2>3
    <2>5. g[u] = f[Pick(u)] + g[u \ {Pick(u)}]
      BY <2>2 DEF IsTable
    <2>6. h[u] = f[Pick(u)] + h[u \ {Pick(u)}]
      BY <2>2 DEF IsTable
    <2>. QED  BY <2>4, <2>5, <2>6
  <1>. QED  BY <1>1

(* Every finite set has a table.                                           *)
LEMMA TableExists ==
    ASSUME NEW f, NEW S, IsFiniteSet(S)
    PROVE  \E h : IsTable(h, f, S)
  <1>. DEFINE Bad == {T \in SUBSET S : ~ \E h : IsTable(h, f, T)}
              TableOf(T) == CHOOSE h : IsTable(h, f, T)
  <1>1. ASSUME Bad # {} PROVE FALSE
    <2>1. PICK T \in Bad : \A U \in Bad : ~(U \subseteq T /\ U # T)
      <3>1. Bad \subseteq SUBSET S
        OBVIOUS
      <3>. HIDE DEF Bad
      <3>. QED  BY <1>1, <3>1, MinimalSubset
    <2>2. \A U \in SUBSET T : U # T => IsTable(TableOf(U), f, U)
      BY <2>1
    <2>. DEFINE Rest(s) == s \ {Pick(s)}
                h == [s \in SUBSET T |->
                        IF s = {} THEN 0 ELSE f[Pick(s)] + TableOf(Rest(s))[Rest(s)]]
    <2>3. ASSUME NEW s \in SUBSET T, s # {}
          PROVE  h[s] = f[Pick(s)] + h[Rest(s)]
      <3>1. Rest(s) \in SUBSET T /\ Rest(s) # T /\ Pick(s) \in s
        BY <2>3, PickIn
      <3>2. TableOf(Rest(s))[Rest(s)] = h[Rest(s)]
        <4>1. CASE Rest(s) = {}
          <5>1. IsTable(TableOf(Rest(s)), f, Rest(s))
            BY <2>2, <3>1
          <5>2. h[Rest(s)] = 0
            BY <3>1, <4>1
          <5>. HIDE DEF TableOf, h, Rest
          <5>. QED  BY <5>1, <5>2, <4>1 DEF IsTable
        <4>2. CASE Rest(s) # {}
          <5>. DEFINE r == Rest(s)  q == Rest(r)
          <5>1. Pick(r) \in r /\ q \in SUBSET r /\ q # T /\ q \in SUBSET T
            BY <3>1, <4>2, PickIn
          <5>2. IsTable(TableOf(r), f, r) /\ IsTable(TableOf(q), f, q)
            BY <2>2, <3>1, <5>1
          <5>3. IsFiniteSet(r)
            BY <3>1, FS_Subset
          <5>4. TableOf(r)[q] = TableOf(q)[q]
            <6>. HIDE DEF TableOf, q, r
            <6>. QED  BY <5>1, <5>2, <5>3, TablesAgree
          <5>5. TableOf(r)[r] = f[Pick(r)] + TableOf(r)[q]
            <6>. HIDE DEF TableOf
            <6>. QED  BY <5>2, <4>2 DEF IsTable
          <5>6. h[r] = f[Pick(r)] + TableOf(q)[q]
            <6>. HIDE DEF TableOf
            <6>. QED  BY <4>2, <3>1
          <5>. QED  BY <5>4, <5>5, <5>6
        <4>. QED  BY <4>1, <4>2
      <3>. QED  BY <3>2, <2>3
    <2>4. h[{}] = 0
      OBVIOUS
    <2>5. IsTable(h, f, T)
      <3>1. h = [s \in SUBSET T |-> h[s]]
        OBVIOUS
      <3>. HIDE DEF h
      <3>2. h = [s \in SUBSET T |-> IF s = {} THEN 0 ELSE f[Pick(s)] + h[Rest(s)]]
        BY <2>3, <2>4, <3>1
      <3>. QED  BY <3>2 DEF IsTable
    <2>. QED  BY <2>1, <2>5
  <1>. QED  BY <1>1

(* The fold is the entry of S in the table of S.                           *)
LEMMA SumIsTable ==
    ASSUME NEW f, NEW S, IsFiniteSet(S)
    PROVE  \E h : IsTable(h, f, S) /\ \A T \in SUBSET S : SumFunctionOnSet(f, T) = h[T]
  <1>1. PICK h : IsTable(h, f, S)
    BY TableExists
  <1>2. ASSUME NEW T \in SUBSET S
        PROVE  SumFunctionOnSet(f, T) = h[T]
    <2>1. IsFiniteSet(T)
      BY FS_Subset
    <2>2. PICK g : IsTable(g, f, T)
      BY <2>1, TableExists
    <2>3. (CHOOSE g1 : IsTable(g1, f, T))[T] = h[T]
      <3>. DEFINE g1 == CHOOSE g2 : IsTable(g2, f, T)
      <3>1. IsTable(g1, f, T)
        BY <2>2
      <3>. HIDE DEF g1
      <3>2. h[T] = g1[T]
        BY <1>1, <3>1, TablesAgree
      <3>. QED  BY <3>2 DEF g1
    <2>. QED  BY <2>3 DEF SumFunctionOnSet, FoldFunctionOnSet, MapThenFoldSet, IsTable, Pick
  <1>. QED  BY <1>1, <1>2

-----------------------------------------------------------------------------
(* The empty sum is 0.                                                     *)
LEMMA SumEmpty == \A f : SumFunctionOnSet(f, {}) = 0
  <1>. SUFFICES ASSUME NEW f PROVE SumFunctionOnSet(f, {}) = 0
    OBVIOUS
  <1>1. PICK h : /\ IsTable(h, f, {})
                 /\ \A T \in SUBSET {} : SumFunctionOnSet(f, T) = h[T]
    BY SumIsTable, FS_EmptySet
  <1>. QED  BY <1>1 DEF IsTable

(* One index may be taken out first, whichever it is.                      *)
LEMMA SumRemove ==
    ASSUME NEW S, IsFiniteSet(S), NEW f, \A x \in S : f[x] \in Int
    PROVE  /\ SumFunctionOnSet(f, S) \in Int
           /\ \A x \in S : SumFunctionOnSet(f, S) = f[x] + SumFunctionOnSet(f, S \ {x})
  <1>1. PICK h : IsTable(h, f, S) /\ \A T \in SUBSET S : SumFunctionOnSet(f, T) = h[T]
    BY SumIsTable
  <1>. DEFINE Good(T) == h[T] \in Int /\ \A x \in T : h[T] = f[x] + h[T \ {x}]
              Bad == {T \in SUBSET S : ~Good(T)}
  <1>2. ASSUME Bad # {} PROVE FALSE
    <2>1. PICK T \in Bad : \A U \in Bad : ~(U \subseteq T /\ U # T)
      <3>1. Bad \subseteq SUBSET S
        OBVIOUS
      <3>. HIDE DEF Bad
      <3>. QED  BY <1>2, <3>1, MinimalSubset
    <2>2. \A U \in SUBSET T : U # T => Good(U)
      BY <2>1
    <2>3. T # {}
      BY <1>1 DEF IsTable
    <2>. DEFINE p == Pick(T)
    <2>4. p \in T
      BY <2>3, PickIn
    <2>5. h[T] = f[p] + h[T \ {p}]
      BY <1>1, <2>3 DEF IsTable
    <2>. HIDE DEF p
    <2>6. Good(T \ {p})
      BY <2>2, <2>4
    <2>7. h[T] \in Int
      BY <2>4, <2>5, <2>6
    <2>8. ASSUME NEW x \in T, x # p PROVE h[T] = f[x] + h[T \ {x}]
      <3>1. h[T \ {p}] = f[x] + h[(T \ {p}) \ {x}]
        BY <2>6, <2>8
      <3>2. Good(T \ {x}) /\ p \in T \ {x}
        BY <2>2, <2>8, <2>4
      <3>3. h[T \ {x}] = f[p] + h[(T \ {x}) \ {p}]
        BY <3>2
      <3>4. (T \ {x}) \ {p} = (T \ {p}) \ {x}
        OBVIOUS
      <3>5. Good((T \ {p}) \ {x})
        BY <2>2, <2>8
      <3>6. h[(T \ {p}) \ {x}] \in Int /\ f[p] \in Int /\ f[x] \in Int
        BY <3>5, <2>4
      <3>. DEFINE rest == h[(T \ {p}) \ {x}]  withP == h[T \ {x}]  withX == h[T \ {p}]
      <3>7. withP = f[p] + rest /\ withX = f[x] + rest /\ h[T] = f[p] + withX
        BY <3>1, <3>3, <3>4, <2>5
      <3>8. rest \in Int
        BY <3>6
      <3>. HIDE DEF Good, rest, withP, withX
      <3>9. h[T] = f[x] + withP
        BY <3>6, <3>7, <3>8
      <3>. QED  BY <3>9 DEF withP
    <2>. QED  BY <2>1, <2>5, <2>7, <2>8
  <1>3. Good(S)
    BY <1>2
  <1>4. \A x \in S : S \ {x} \in SUBSET S
    OBVIOUS
  <1>. HIDE DEF Bad
  <1>. QED  BY <1>1, <1>3, <1>4

(* A sum with one more member.                                             *)
LEMMA SumAdd ==
    ASSUME NEW S, IsFiniteSet(S), NEW x, x \notin S,
           NEW f, \A y \in S \cup {x} : f[y] \in Int
    PROVE  SumFunctionOnSet(f, S \cup {x}) = f[x] + SumFunctionOnSet(f, S)
  <1>1. (S \cup {x}) \ {x} = S /\ IsFiniteSet(S \cup {x})
    BY FS_AddElement
  <1>. QED  BY <1>1, SumRemove

(* The sum depends only on the values at its indices.                      *)
LEMMA SumSame ==
    ASSUME NEW S, IsFiniteSet(S), NEW f, NEW g, \A x \in S : f[x] = g[x]
    PROVE  SumFunctionOnSet(f, S) = SumFunctionOnSet(g, S)
  <1>1. PICK h : IsTable(h, f, S) /\ \A T \in SUBSET S : SumFunctionOnSet(f, T) = h[T]
    BY SumIsTable
  <1>2. \A s \in SUBSET S : s # {} => f[Pick(s)] = g[Pick(s)]
    BY PickIn
  <1>3. IsTable(h, g, S)
    <2>. DEFINE F == [s \in SUBSET S |-> IF s = {} THEN 0 ELSE f[Pick(s)] + h[s \ {Pick(s)}]]
                G == [s \in SUBSET S |-> IF s = {} THEN 0 ELSE g[Pick(s)] + h[s \ {Pick(s)}]]
    <2>1. F = G
      BY <1>2
    <2>. QED  BY <1>1, <2>1 DEF IsTable
  <1>4. PICK k : IsTable(k, g, S) /\ \A T \in SUBSET S : SumFunctionOnSet(g, T) = k[T]
    BY SumIsTable
  <1>5. k[S] = h[S]
    BY <1>3, <1>4, TablesAgree
  <1>. QED  BY <1>1, <1>4, <1>5

(* A sum of natural numbers is one, and no summand exceeds it.             *)
LEMMA SumNat ==
    ASSUME NEW S, IsFiniteSet(S), NEW f, \A x \in S : f[x] \in Nat
    PROVE  /\ SumFunctionOnSet(f, S) \in Nat
           /\ \A x \in S : f[x] <= SumFunctionOnSet(f, S)
  <1>. DEFINE Bad == {T \in SUBSET S : SumFunctionOnSet(f, T) \notin Nat}
  <1>1. ASSUME NEW T \in SUBSET S, NEW x \in T
        PROVE  SumFunctionOnSet(f, T) = f[x] + SumFunctionOnSet(f, T \ {x})
    <2>1. IsFiniteSet(T) /\ \A y \in T : f[y] \in Int
      BY FS_Subset
    <2>. QED  BY <2>1, SumRemove
  <1>2. ASSUME Bad # {} PROVE FALSE
    <2>1. PICK T \in Bad : \A U \in Bad : ~(U \subseteq T /\ U # T)
      <3>1. Bad \subseteq SUBSET S
        OBVIOUS
      <3>. HIDE DEF Bad
      <3>. QED  BY <1>2, <3>1, MinimalSubset
    <2>2. T # {}
      BY SumEmpty
    <2>3. PICK x \in T : TRUE
      BY <2>2
    <2>4. T \ {x} \in SUBSET S /\ T \ {x} \notin Bad
      BY <2>1
    <2>. QED  BY <2>4, <1>1
  <1>3. \A T \in SUBSET S : SumFunctionOnSet(f, T) \in Nat
    BY <1>2
  <1>4. ASSUME NEW x \in S PROVE f[x] <= SumFunctionOnSet(f, S)
    <2>1. SumFunctionOnSet(f, S) = f[x] + SumFunctionOnSet(f, S \ {x})
      BY <1>1
    <2>2. SumFunctionOnSet(f, S \ {x}) \in Nat
      BY <1>3
    <2>. QED  BY <2>1, <2>2
  <1>. QED  BY <1>3, <1>4

(* The summands f on S and g on T, indices of R, differ at r only.         *)
DifferAt(R, r, f, S, g, T) ==
    /\ IsFiniteSet(R) /\ S \subseteq R /\ T \subseteq R /\ r \in R /\ S \ {r} = T \ {r}
    /\ \A x \in R : f[x] \in Int /\ g[x] \in Int /\ (x # r => g[x] = f[x])

(* How a sum changes when only one index joins, leaves or changes value.   *)
LEMMA SumChange ==
    ASSUME NEW R, NEW r, NEW f, NEW S, NEW g, NEW T, DifferAt(R, r, f, S, g, T)
    PROVE  SumFunctionOnSet(g, T) = SumFunctionOnSet(f, S)
              - (IF r \in S THEN f[r] ELSE 0) + (IF r \in T THEN g[r] ELSE 0)
  <1>. USE DEF DifferAt
  <1>. DEFINE Rest == S \ {r}
  <1>1. IsFiniteSet(S) /\ IsFiniteSet(T) /\ IsFiniteSet(Rest)
    BY FS_Subset
  <1>2. /\ SumFunctionOnSet(f, S) \in Int /\ SumFunctionOnSet(g, T) \in Int
        /\ SumFunctionOnSet(f, Rest) \in Int
        /\ r \in S => SumFunctionOnSet(f, S) = f[r] + SumFunctionOnSet(f, Rest)
        /\ r \in T => SumFunctionOnSet(g, T) = g[r] + SumFunctionOnSet(g, Rest)
    BY <1>1, SumRemove
  <1>3. SumFunctionOnSet(f, Rest) = SumFunctionOnSet(g, Rest)
    BY <1>1, SumSame
  <1>4. (r \notin S => S = Rest) /\ (r \notin T => T = Rest)
    OBVIOUS
  <1>5. f[r] \in Int /\ g[r] \in Int
    OBVIOUS
  <1>. HIDE DEF Rest
  <1>. QED  BY <1>2, <1>3, <1>4, <1>5

-----------------------------------------------------------------------------
(***************************************************************************)
(* Ranks in a strict total order R of a finite set S, for the listings.    *)
(***************************************************************************)
StrictOrder(R, S) ==
    /\ \A x \in S : <<x, x>> \notin R
    /\ \A x, y, z \in S : <<x, y>> \in R /\ <<y, z>> \in R => <<x, z>> \in R
    /\ \A x, y \in S : x = y \/ <<x, y>> \in R \/ <<y, x>> \in R

\* The members of S that come before x.
Ahead(R, S, x) == {y \in S : <<y, x>> \in R}

(* The number of members ahead of a member tells its place: every place of *)
(* 1 .. Cardinality(S) is taken, by one member, in the order of R.         *)
LEMMA Ranks ==
    ASSUME NEW S, IsFiniteSet(S), NEW R, StrictOrder(R, S)
    PROVE  /\ \A x \in S : 1 + Cardinality(Ahead(R, S, x)) \in 1 .. Cardinality(S)
           /\ \A x, y \in S : <<x, y>> \in R <=>
                Cardinality(Ahead(R, S, x)) < Cardinality(Ahead(R, S, y))
           /\ \A i \in 1 .. Cardinality(S) : \E x \in S : 1 + Cardinality(Ahead(R, S, x)) = i
  <1>1. Cardinality(S) \in Nat
    BY FS_CardinalityType
  <1>2. \A x \in S : /\ IsFiniteSet(Ahead(R, S, x)) /\ Cardinality(Ahead(R, S, x)) \in Nat
                     /\ Cardinality(Ahead(R, S, x)) < Cardinality(S)
    <2>1. ASSUME NEW x \in S
          PROVE  /\ IsFiniteSet(Ahead(R, S, x)) /\ Cardinality(Ahead(R, S, x)) \in Nat
                 /\ Cardinality(Ahead(R, S, x)) < Cardinality(S)
      <3>1. Ahead(R, S, x) \subseteq S /\ Ahead(R, S, x) # S
        BY DEF Ahead, StrictOrder
      <3>2. IsFiniteSet(Ahead(R, S, x)) /\ Cardinality(Ahead(R, S, x)) <= Cardinality(S)
            /\ Cardinality(Ahead(R, S, x)) # Cardinality(S)
        BY <3>1, FS_Subset
      <3>3. Cardinality(Ahead(R, S, x)) \in Nat
        BY <3>2, FS_CardinalityType
      <3>. QED  BY <1>1, <3>2, <3>3
    <2>. QED  BY <2>1
  <1>3. ASSUME NEW x \in S, NEW y \in S, <<x, y>> \in R
        PROVE  Cardinality(Ahead(R, S, x)) < Cardinality(Ahead(R, S, y))
    <2>1. Ahead(R, S, x) \subseteq Ahead(R, S, y)
      BY <1>3 DEF Ahead, StrictOrder
    <2>2. Ahead(R, S, x) # Ahead(R, S, y)
      BY <1>3 DEF Ahead, StrictOrder
    <2>3. /\ Cardinality(Ahead(R, S, x)) <= Cardinality(Ahead(R, S, y))
          /\ Cardinality(Ahead(R, S, x)) # Cardinality(Ahead(R, S, y))
      BY <1>2, <2>1, <2>2, FS_Subset
    <2>. QED  BY <1>2, <2>3
  <1>4. ASSUME NEW x \in S, NEW y \in S,
               Cardinality(Ahead(R, S, x)) < Cardinality(Ahead(R, S, y))
        PROVE  <<x, y>> \in R
    <2>1. x # y
      BY <1>2, <1>4
    <2>2. <<y, x>> \notin R
      BY <1>2, <1>3, <1>4
    <2>. QED  BY <2>1, <2>2 DEF StrictOrder
  <1>5. ASSUME NEW i \in 1 .. Cardinality(S)
        PROVE  \E x \in S : 1 + Cardinality(Ahead(R, S, x)) = i
    <2>. DEFINE T == 1 .. Cardinality(S)
                f == [x \in S |-> 1 + Cardinality(Ahead(R, S, x))]
    <2>1. f \in [S -> T]
      BY <1>1, <1>2
    <2>2. \A x, y \in S : f[x] = f[y] => x = y
      <3>1. ASSUME NEW x \in S, NEW y \in S, f[x] = f[y], x # y PROVE FALSE
        <4>1. Cardinality(Ahead(R, S, x)) = Cardinality(Ahead(R, S, y))
          BY <1>2, <3>1
        <4>2. <<x, y>> \in R \/ <<y, x>> \in R
          BY <3>1 DEF StrictOrder
        <4>. QED  BY <1>2, <1>3, <4>1, <4>2
      <3>. QED  BY <3>1
    <2>3. f \in Injection(S, T)
      BY <2>1, <2>2 DEF Injection, IsInjective
    <2>4. IsFiniteSet(T) /\ Cardinality(T) = Cardinality(S)
      BY <1>1, FS_Interval
    <2>5. f \in Surjection(S, T)
      <3>. HIDE DEF f, T
      <3>. QED  BY <2>3, <2>4, FS_Injection
    <2>6. \E x \in S : f[x] = i
      BY <2>5 DEF Surjection
    <2>. QED  BY <2>6
  <1>6. \A x \in S : 1 + Cardinality(Ahead(R, S, x)) \in 1 .. Cardinality(S)
    BY <1>1, <1>2
  <1>. QED  BY <1>3, <1>4, <1>5, <1>6

(* The elements of a concatenation.                                        *)
LEMMA RangeAppended ==
    ASSUME NEW s, NEW t, NEW u, NEW m \in Nat, NEW n \in Nat,
           DOMAIN s = 1 .. m, DOMAIN t = 1 .. n, DOMAIN u = 1 .. m + n,
           \A i \in 1 .. m + n : u[i] = IF i <= m THEN s[i] ELSE t[i - m]
    PROVE  Range(u) = Range(s) \cup Range(t)
  <1>1. ASSUME NEW i \in 1 .. m
        PROVE  i \in DOMAIN u /\ u[i] = s[i]
    OBVIOUS
  <1>2. ASSUME NEW i \in 1 .. n
        PROVE  i + m \in DOMAIN u /\ u[i + m] = t[i]
    OBVIOUS
  <1>3. ASSUME NEW i \in DOMAIN u
        PROVE  u[i] \in Range(s) \cup Range(t)
    <2>1. CASE i <= m
      <3>1. i \in DOMAIN s /\ u[i] = s[i]
        BY <2>1
      <3>. QED  BY <3>1 DEF Range
    <2>2. CASE ~(i <= m)
      <3>1. i - m \in DOMAIN t /\ u[i] = t[i - m]
        BY <2>2
      <3>. QED  BY <3>1 DEF Range
    <2>. QED  BY <2>1, <2>2
  <1>4. Range(u) \subseteq Range(s) \cup Range(t)
    BY <1>3 DEF Range
  <1>5. Range(s) \subseteq Range(u)
    BY <1>1 DEF Range
  <1>6. Range(t) \subseteq Range(u)
    BY <1>2 DEF Range
  <1>. QED  BY <1>4, <1>5, <1>6

(* A nonempty finite set of naturals has a greatest element.               *)
LEMMA MaxFacts ==
    ASSUME NEW S, S # {}, \A x \in S : x \in Nat, IsFiniteSet(S)
    PROVE  Max(S) \in S /\ \A y \in S : y <= Max(S)
  <1>. DEFINE Bad == {T \in SUBSET S : T # {} /\ ~ \E x \in T : \A y \in T : y <= x}
  <1>1. ASSUME Bad # {} PROVE FALSE
    <2>1. PICK T \in Bad : \A U \in Bad : ~(U \subseteq T /\ U # T)
      <3>1. Bad \subseteq SUBSET S
        OBVIOUS
      <3>. HIDE DEF Bad
      <3>. QED  BY <1>1, <3>1, MinimalSubset
    <2>2. PICK x \in T : TRUE
      OBVIOUS
    <2>3. T \ {x} \notin Bad
      BY <2>1, <2>2
    <2>4. T \ {x} # {}
      OBVIOUS
    <2>5. PICK m \in T \ {x} : \A y \in T \ {x} : y <= m
      BY <2>3, <2>4
    <2>6. m \in Nat /\ x \in Nat
      OBVIOUS
    <2>7. CASE x <= m
      BY <2>5, <2>7
    <2>8. CASE ~(x <= m)
      BY <2>5, <2>6, <2>8
    <2>. QED  BY <2>7, <2>8
  <1>2. \E x \in S : \A y \in S : y <= x
    BY <1>1
  <1>3. \E x \in S : \A y \in S : x >= y
    BY <1>2
  <1>. QED  BY <1>3 DEF Max

(* A nonempty finite set of naturals has a least element.                  *)
LEMMA LeastExists ==
    ASSUME NEW S, S # {}, \A x \in S : x \in Nat, IsFiniteSet(S)
    PROVE  \E x \in S : \A y \in S : x <= y
  <1>. DEFINE Bad == {T \in SUBSET S : T # {} /\ ~ \E x \in T : \A y \in T : x <= y}
  <1>1. ASSUME Bad # {} PROVE FALSE
    <2>1. PICK T \in Bad : \A U \in Bad : ~(U \subseteq T /\ U # T)
      <3>1. Bad \subseteq SUBSET S
        OBVIOUS
      <3>. HIDE DEF Bad
      <3>. QED  BY <1>1, <3>1, MinimalSubset
    <2>2. PICK x \in T : TRUE
      OBVIOUS
    <2>3. T \ {x} \notin Bad
      BY <2>1, <2>2
    <2>4. T \ {x} # {}
      OBVIOUS
    <2>5. PICK m \in T \ {x} : \A y \in T \ {x} : m <= y
      BY <2>3, <2>4
    <2>6. m \in Nat /\ x \in Nat
      OBVIOUS
    <2>7. CASE m <= x
      BY <2>5, <2>7
    <2>8. CASE ~(m <= x)
      BY <2>5, <2>6, <2>8
    <2>. QED  BY <2>7, <2>8
  <1>. QED  BY <1>1

(* Adding an element adds at most one to the size.                         *)
LEMMA OneMore ==
    ASSUME NEW S, IsFiniteSet(S), NEW x
    PROVE  /\ IsFiniteSet(S \cup {x}) /\ Cardinality(S \cup {x}) \in Nat
           /\ Cardinality(S \cup {x}) <= Cardinality(S) + 1
  <1>1. IsFiniteSet(S \cup {x}) /\ Cardinality(S) \in Nat
        /\ (Cardinality(S \cup {x}) = Cardinality(S) \/ Cardinality(S \cup {x}) = Cardinality(S) + 1)
    BY FS_AddElement, FS_CardinalityType
  <1>2. Cardinality(S \cup {x}) \in Nat
    BY <1>1, FS_CardinalityType
  <1>. QED  BY <1>1, <1>2

-----------------------------------------------------------------------------
(* Products of natural numbers.                                            *)
LEMMA Distributes == \A k, n \in Nat : (k + 1) * n = k * n + n /\ k * n \in Nat
  OBVIOUS

(* A product grows with its multiplier.                                    *)
LEMMA ProductMonotone ==
    ASSUME NEW n \in Nat, NEW k \in Nat, NEW m \in Nat, k <= m
    PROVE  k * n <= m * n
  <1>1. PICK j \in Nat : m = k + j
    <2>1. m - k \in Nat /\ m = k + (m - k)
      OBVIOUS
    <2>. QED  BY <2>1
  <1>2. m * n = k * n + j * n /\ j * n \in Nat /\ k * n \in Nat
    BY <1>1
  <1>. QED  BY <1>2

(* The quotient is the largest multiplier.                                 *)
LEMMA QuotientLargest ==
    ASSUME NEW n \in Nat, NEW d \in Nat \ {0}, NEW k \in Nat, k * d <= n
    PROVE  k <= n \div d /\ n \div d \in Nat
  <1>1. n = (n \div d) * d + (n % d) /\ n \div d \in Nat /\ n % d \in 0 .. d - 1
    BY SMTT(30)
  <1>. DEFINE q == n \div d
              r == n % d
  <1>. HIDE DEF q, r
  <1>2. n = q * d + r /\ q \in Nat /\ r \in 0 .. d - 1
    BY <1>1 DEF q, r
  <1>3. SUFFICES ASSUME ~(k <= q) PROVE FALSE
    BY <1>1 DEF q
  <1>4. q + 1 <= k
    BY <1>2, <1>3
  <1>5. (q + 1) * d <= k * d
    BY <1>2, <1>4, ProductMonotone
  <1>6. (q + 1) * d = q * d + d /\ q * d \in Nat /\ k * d \in Nat
    BY <1>2, Distributes
  <1>. QED  BY <1>2, <1>5, <1>6
=============================================================================
