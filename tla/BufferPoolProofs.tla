------------------------- MODULE BufferPoolProofs -------------------------
(***************************************************************************)
(* Proofs about BufferPool, for any set of buffers, finite set of size     *)
(* classes and ceilings: sole ownership, exact sizing, the byte account    *)
(* and the cap, what set_cap evicts, and that every step of the pool is a  *)
(* step of BufferLending.                                                  *)
(*                                                                         *)
(* Two inductive invariants.  Owned is the type invariant with SoleOwner   *)
(* and ExactSize, which need each other: a miss takes an identity Metal    *)
(* has no live buffer for (len = 0), and only ExactSize says that such an  *)
(* identity is in no bucket.  Accounted adds the byte account to Owned.    *)
(***************************************************************************)
EXTENDS BufferPool, SequencesExt, FiniteSetTheorems, SequenceTheorems, TLAPS

-----------------------------------------------------------------------------
\* Sums over sets.  SumFunctionOnSet(f, S) is a recursive function on the subsets
\* of S, so its defining equation has to be shown to have a solution first.

\* A non-empty set of naturals has a least element.
LEMMA LeastNatural ==
  ASSUME NEW T \in SUBSET Nat, T # {}
  PROVE  \E n \in T : \A m \in T : n <= m
<1>1. IsWellFoundedOn(OpToRel(<, Nat), Nat)
  BY NatLessThanWellFounded
<1>2. PICK n \in T : \A m \in T : ~(<<m, n>> \in OpToRel(<, Nat))
  BY <1>1, WFMin
<1>3. \A m \in T : ~(m < n)
  <2>1. \A m \in T : <<m, n>> \in Nat \X Nat
    OBVIOUS
  <2>2. QED
    BY <1>2, <2>1, Zenon DEF OpToRel
<1>4. QED
  BY <1>3

\* A non-empty set of subsets of a finite set has a minimal member.
LEMMA MinimalSubset ==
  ASSUME NEW S, IsFiniteSet(S), NEW Q \in SUBSET SUBSET S, Q # {}
  PROVE  \E T \in Q : \A U \in SUBSET T : U # T => U \notin Q
<1> DEFINE C == {Cardinality(T) : T \in Q}
<1>1. \A T \in Q : IsFiniteSet(T) /\ Cardinality(T) \in Nat
  BY FS_Subset, FS_CardinalityType
<1>2. C \in SUBSET Nat /\ C # {}
  BY <1>1
<1>3. PICK n \in C : \A m \in C : n <= m
  BY <1>2, LeastNatural
<1>4. PICK T \in Q : n = Cardinality(T)
  BY <1>3
<1>5. ASSUME NEW U \in SUBSET T, U # T PROVE U \notin Q
  <2>1. Cardinality(U) < Cardinality(T)
    BY <1>1, <1>5, FS_Subset, FS_CardinalityType
  <2>2. QED
    BY <1>1, <1>2, <1>3, <1>4, <2>1
<1>6. QED
  BY <1>4, <1>5

\* g solves the recursion of SumFunctionOnSet(f, S).
Sums(f, S, g) ==
  g = [s \in SUBSET S |->
         IF s = {} THEN 0
         ELSE f[CHOOSE x \in s : TRUE] + g[s \ {CHOOSE x \in s : TRUE}]]

\* SumFunctionOnSet picks some solution and evaluates it at S.
LEMMA SumIsSolution ==
  ASSUME NEW f, NEW S
  PROVE  SumFunctionOnSet(f, S) = (CHOOSE g : Sums(f, S, g))[S]
  BY DEF SumFunctionOnSet, FoldFunctionOnSet, MapThenFoldSet, Sums

\* Two solutions agree where both are defined.
LEMMA SumsAgree ==
  ASSUME NEW S, IsFiniteSet(S), NEW V \in SUBSET S, NEW f, NEW g, NEW h,
         Sums(f, S, g), Sums(f, V, h)
  PROVE  \A s \in SUBSET V : g[s] = h[s]
<1>1. PICK Q \in SUBSET SUBSET S : Q = {s \in SUBSET V : g[s] # h[s]}
  OBVIOUS
<1>2. SUFFICES ASSUME Q # {} PROVE FALSE
  BY <1>1
<1>3. PICK T \in Q : \A U \in SUBSET T : U # T => U \notin Q
  BY <1>2, MinimalSubset
<1>4. CASE T = {}
  BY <1>1, <1>3, <1>4 DEF Sums
<1>5. CASE T # {}
  <2>1. PICK c \in T : c = CHOOSE x \in T : TRUE
    BY <1>5
  <2>2. g[T] = f[c] + g[T \ {c}] /\ h[T] = f[c] + h[T \ {c}]
    BY <1>1, <1>3, <1>5, <2>1 DEF Sums
  <2>3. g[T \ {c}] = h[T \ {c}]
    BY <1>1, <1>3, <2>1
  <2>4. QED
    BY <1>1, <1>3, <2>2, <2>3
<1>6. QED
  BY <1>4, <1>5

\* The recursion has a solution.
LEMMA SumsExist ==
  ASSUME NEW S, IsFiniteSet(S), NEW f
  PROVE  \A T \in SUBSET S : \E g : Sums(f, T, g)
<1>1. PICK Q \in SUBSET SUBSET S : Q = {T \in SUBSET S : ~ \E g : Sums(f, T, g)}
  OBVIOUS
<1>2. SUFFICES ASSUME NEW T \in Q, \A U \in SUBSET T : U # T => U \notin Q
               PROVE  FALSE
  <2>1. Q = {}
    BY <1>2, MinimalSubset
  <2>2. QED
    BY <1>1, <2>1
<1> DEFINE ch(s) == CHOOSE x \in s : TRUE
           iter(U) == CHOOSE g : Sums(f, U, g)
           h == [s \in SUBSET T |-> IF s = {} THEN 0 ELSE f[ch(s)] + iter(s \ {ch(s)})[s \ {ch(s)}]]
<1>3. \A U \in SUBSET T : U # T => Sums(f, U, iter(U))
  BY <1>1, <1>2
<1>4. ASSUME NEW s \in SUBSET T, s # {}
      PROVE  h[s \ {ch(s)}] = iter(s \ {ch(s)})[s \ {ch(s)}]
  <2>1. PICK U : U = s \ {ch(s)}
    OBVIOUS
  <2>2. U \in SUBSET T /\ U # T /\ IsFiniteSet(U) /\ ch(s) \in s
    BY <1>2, <1>4, <2>1, FS_Subset
  <2>3. CASE U = {}
    <3>1. Sums(f, {}, iter({})) /\ h[{}] = 0
      BY <1>3, <2>2, <2>3
    <3>2. iter({})[{}] = 0
      <4> HIDE DEF iter
      <4> QED BY <3>1 DEF Sums
    <3>3. QED
      BY <2>1, <2>3, <3>1, <3>2
  <2>4. CASE U # {}
    <3>1. PICK c \in U : c = ch(U)
      BY <2>4
    <3>2. /\ U \ {c} \in SUBSET U /\ U \ {c} \in SUBSET T /\ U \ {c} # T
      BY <2>2, <3>1
    <3>3. Sums(f, U, iter(U)) /\ Sums(f, U \ {c}, iter(U \ {c}))
      BY <1>3, <2>2, <3>2
    <3>4. iter(U)[U \ {c}] = iter(U \ {c})[U \ {c}]
      <4> HIDE DEF iter
      <4> QED BY <2>2, <3>2, <3>3, SumsAgree
    <3>5. iter(U)[U] = f[c] + iter(U)[U \ {c}]
      <4> HIDE DEF iter
      <4> QED BY <2>4, <3>1, <3>3 DEF Sums
    <3>6. h[U] = f[c] + iter(U \ {c})[U \ {c}]
      BY <2>2, <2>4, <3>1
    <3>7. QED
      BY <2>1, <3>4, <3>5, <3>6
  <2>5. QED
    BY <2>3, <2>4
<1>5. Sums(f, T, h)
  <2>1. h = [s \in SUBSET T |-> IF s = {} THEN 0 ELSE f[ch(s)] + h[s \ {ch(s)}]]
    <3>1. \A s \in SUBSET T : h[s] = IF s = {} THEN 0 ELSE f[ch(s)] + h[s \ {ch(s)}]
      <4>1. \A s \in SUBSET T : h[s] = IF s = {} THEN 0 ELSE f[ch(s)] + iter(s \ {ch(s)})[s \ {ch(s)}]
        OBVIOUS
      <4> HIDE DEF h, ch, iter
      <4>2. QED
        BY <1>4, <4>1
    <3>2. h = [s \in SUBSET T |-> h[s]]
      OBVIOUS
    <3> HIDE DEF h
    <3>3. QED
      BY <3>1, <3>2
  <2> HIDE DEF h
  <2>2. QED
    BY <2>1 DEF Sums
<1>6. QED
  BY <1>1, <1>2, <1>5

\* The recursion equation of the sum.
LEMMA SumEquation ==
  ASSUME NEW S, IsFiniteSet(S), NEW f
  PROVE  /\ S = {} => SumFunctionOnSet(f, S) = 0
         /\ S # {} => \E c \in S : SumFunctionOnSet(f, S) = f[c] + SumFunctionOnSet(f, S \ {c})
<1> DEFINE iter(U) == CHOOSE g : Sums(f, U, g)
<1>1. \A U \in SUBSET S : Sums(f, U, iter(U)) /\ SumFunctionOnSet(f, U) = iter(U)[U]
  BY SumsExist, SumIsSolution
<1> HIDE DEF iter
<1>2. S = {} => iter(S)[S] = 0
  BY <1>1 DEF Sums
<1>3. ASSUME S # {} PROVE \E c \in S : iter(S)[S] = f[c] + iter(S \ {c})[S \ {c}]
  <2>1. PICK c \in S : c = CHOOSE x \in S : TRUE
    BY <1>3
  <2>2. iter(S)[S] = f[c] + iter(S)[S \ {c}]
    BY <1>1, <1>3, <2>1 DEF Sums
  <2>3. iter(S)[S \ {c}] = iter(S \ {c})[S \ {c}]
    <3>1. S \ {c} \in SUBSET S /\ S \in SUBSET S
      OBVIOUS
    <3>2. Sums(f, S, iter(S)) /\ Sums(f, S \ {c}, iter(S \ {c}))
      BY <1>1, <3>1
    <3>3. QED
      BY <3>1, <3>2, SumsAgree
  <2>4. QED
    BY <2>2, <2>3
<1>4. QED
  BY <1>1, <1>2, <1>3

\* A sum of numbers is a number; of naturals, a natural.
LEMMA SumType ==
  ASSUME NEW S, IsFiniteSet(S), NEW f
  PROVE  /\ (\A x \in S : f[x] \in Int) => SumFunctionOnSet(f, S) \in Int
         /\ (\A x \in S : f[x] \in Nat) => SumFunctionOnSet(f, S) \in Nat
<1>1. ASSUME NEW N \in {Int, Nat}, \A x \in S : f[x] \in N
      PROVE  \A T \in SUBSET S : SumFunctionOnSet(f, T) \in N
  <2>1. PICK Q \in SUBSET SUBSET S : Q = {T \in SUBSET S : SumFunctionOnSet(f, T) \notin N}
    OBVIOUS
  <2>2. ASSUME NEW T \in Q, \A U \in SUBSET T : U # T => U \notin Q
        PROVE  FALSE
    <3>1. IsFiniteSet(T) /\ SumFunctionOnSet(f, T) \notin N
      BY <2>1, FS_Subset
    <3>2. T # {}
      BY <3>1, SumEquation
    <3>3. PICK c \in T : SumFunctionOnSet(f, T) = f[c] + SumFunctionOnSet(f, T \ {c})
      BY <3>1, <3>2, SumEquation
    <3>4. SumFunctionOnSet(f, T \ {c}) \in N /\ f[c] \in N
      BY <1>1, <2>1, <2>2
    <3>5. QED
      BY <3>1, <3>3, <3>4
  <2>3. Q = {}
    BY <2>2, MinimalSubset
  <2>4. QED
    BY <2>1, <2>3
<1>2. QED
  BY <1>1

\* Any index can be taken off first.
LEMMA SumRemove ==
  ASSUME NEW S, IsFiniteSet(S), NEW f, \A x \in S : f[x] \in Int, NEW c \in S
  PROVE  SumFunctionOnSet(f, S) = f[c] + SumFunctionOnSet(f, S \ {c})
<1> DEFINE Sum(T) == SumFunctionOnSet(f, T)
<1>1. PICK Q \in SUBSET SUBSET S : Q = {T \in SUBSET S : \E x \in T : Sum(T) # f[x] + Sum(T \ {x})}
  OBVIOUS
<1>2. ASSUME NEW T \in Q, \A U \in SUBSET T : U # T => U \notin Q
      PROVE  FALSE
  <2>1. PICK x \in T : Sum(T) # f[x] + Sum(T \ {x})
    BY <1>1
  <2>2. IsFiniteSet(T) /\ \A U \in SUBSET T : IsFiniteSet(U) /\ Sum(U) \in Int
    BY FS_Subset, SumType
  <2>3. PICK y \in T : Sum(T) = f[y] + Sum(T \ {y})
    BY <2>2, SumEquation
  <2>4. x # y
    BY <2>1, <2>3
  <2>5. Sum(T \ {y}) = f[x] + Sum((T \ {y}) \ {x})
    BY <1>1, <1>2, <2>4
  <2>6. Sum(T \ {x}) = f[y] + Sum((T \ {x}) \ {y})
    BY <1>1, <1>2, <2>4
  <2>7. (T \ {x}) \ {y} = (T \ {y}) \ {x}
    OBVIOUS
  <2>8. PICK z \in Int : z = Sum((T \ {x}) \ {y})
    BY <2>2
  <2>9. Sum(T \ {y}) = f[x] + z /\ Sum(T \ {x}) = f[y] + z
    BY <2>5, <2>6, <2>7, <2>8
  <2>10. f[x] \in Int /\ f[y] \in Int
    OBVIOUS
  <2>11. f[y] + (f[x] + z) = f[x] + (f[y] + z)
    BY <2>10
  <2>12. QED
    BY <2>1, <2>3, <2>9, <2>11
<1>3. Q = {}
  BY <1>2, MinimalSubset
<1>4. QED
  BY <1>1, <1>3

\* Functions that agree on the indices have the same sum.
LEMMA SumSame ==
  ASSUME NEW S, IsFiniteSet(S), NEW f, NEW g, \A x \in S : f[x] = g[x] /\ f[x] \in Int
  PROVE  SumFunctionOnSet(f, S) = SumFunctionOnSet(g, S)
<1>1. PICK Q \in SUBSET SUBSET S :
        Q = {T \in SUBSET S : SumFunctionOnSet(f, T) # SumFunctionOnSet(g, T)}
  OBVIOUS
<1>2. ASSUME NEW T \in Q, \A U \in SUBSET T : U # T => U \notin Q
      PROVE  FALSE
  <2>1. IsFiniteSet(T) /\ SumFunctionOnSet(f, T) # SumFunctionOnSet(g, T)
    BY <1>1, FS_Subset
  <2>2. T # {}
    BY <2>1, SumEquation
  <2>3. PICK c \in T : SumFunctionOnSet(f, T) = f[c] + SumFunctionOnSet(f, T \ {c})
    BY <2>1, <2>2, SumEquation
  <2>4. SumFunctionOnSet(g, T) = g[c] + SumFunctionOnSet(g, T \ {c})
    BY <2>1, SumRemove
  <2>5. SumFunctionOnSet(f, T \ {c}) = SumFunctionOnSet(g, T \ {c})
    BY <1>1, <1>2
  <2>6. QED
    BY <2>1, <2>3, <2>4, <2>5
<1>3. Q = {}
  BY <1>2, MinimalSubset
<1>4. QED
  BY <1>1, <1>3

\* A sum of zeros.
LEMMA SumZero ==
  ASSUME NEW S, IsFiniteSet(S), NEW f, \A x \in S : f[x] = 0
  PROVE  SumFunctionOnSet(f, S) = 0
<1>1. PICK Q \in SUBSET SUBSET S : Q = {T \in SUBSET S : SumFunctionOnSet(f, T) # 0}
  OBVIOUS
<1>2. ASSUME NEW T \in Q, \A U \in SUBSET T : U # T => U \notin Q
      PROVE  FALSE
  <2>1. IsFiniteSet(T) /\ SumFunctionOnSet(f, T) # 0
    BY <1>1, FS_Subset
  <2>2. PICK c \in T : SumFunctionOnSet(f, T) = f[c] + SumFunctionOnSet(f, T \ {c})
    BY <2>1, SumEquation
  <2>3. SumFunctionOnSet(f, T \ {c}) = 0 /\ f[c] = 0
    BY <1>1, <1>2
  <2>4. QED
    BY <2>1, <2>2, <2>3
<1>3. Q = {}
  BY <1>2, MinimalSubset
<1>4. QED
  BY <1>1, <1>3

\* A set of indices can be split off.
LEMMA SumSplit ==
  ASSUME NEW S, IsFiniteSet(S), NEW f, \A x \in S : f[x] \in Int, NEW A \in SUBSET S
  PROVE  SumFunctionOnSet(f, S) = SumFunctionOnSet(f, A) + SumFunctionOnSet(f, S \ A)
<1> DEFINE Sum(T) == SumFunctionOnSet(f, T)
<1>1. \A U \in SUBSET S : IsFiniteSet(U) /\ Sum(U) \in Int
  BY FS_Subset, SumType
<1>2. PICK Q \in SUBSET SUBSET S : Q = {T \in SUBSET S : Sum(S) # Sum(T) + Sum(S \ T)}
  OBVIOUS
<1>3. ASSUME NEW T \in Q, \A U \in SUBSET T : U # T => U \notin Q
      PROVE  FALSE
  <2>1. Sum(S) # Sum(T) + Sum(S \ T)
    BY <1>2
  <2>2. ASSUME T = {} PROVE FALSE
    <3>1. Sum(T) = 0 /\ S \ T = S
      BY <2>2, <1>1, SumEquation
    <3>2. PICK z \in Int : z = Sum(S)
      BY <1>1
    <3>3. Sum(S) # 0 + z
      BY <2>1, <3>1, <3>2
    <3>4. QED
      BY <3>2, <3>3
  <2>3. PICK c \in T : TRUE
    BY <2>2
  <2>4. Sum(T) = f[c] + Sum(T \ {c})
    BY <1>1, SumRemove
  <2>5. Sum(S \ (T \ {c})) = f[c] + Sum(S \ T)
    <3>1. S \ (T \ {c}) \in SUBSET S /\ c \in S \ (T \ {c})
          /\ (S \ (T \ {c})) \ {c} = S \ T
      OBVIOUS
    <3>2. Sum(S \ (T \ {c})) = f[c] + Sum((S \ (T \ {c})) \ {c})
      BY <1>1, <3>1, SumRemove
    <3>3. QED
      BY <3>1, <3>2
  <2>6. Sum(S) = Sum(T \ {c}) + Sum(S \ (T \ {c}))
    BY <1>2, <1>3
  <2>7. f[c] \in Int /\ Sum(T \ {c}) \in Int /\ Sum(S \ T) \in Int
    BY <1>1
  <2> HIDE DEF Sum
  <2>8. QED
    BY <2>1, <2>4, <2>5, <2>6, <2>7
<1>4. Q = {}
  BY <1>3, MinimalSubset
<1>5. QED
  BY <1>2, <1>4

-----------------------------------------------------------------------------
\* The component.

Owned == TypeOK /\ SoleOwner /\ ExactSize

\* Popping the newest buffer of a stack leaves the others where they were.
LEMMA PopProperties ==
  ASSUME NEW q \in Seq(Buffers), NEW n \in 0..Len(q)
  PROVE  LET p == SubSeq(q, 1, n)
         IN  /\ p \in Seq(Buffers)
             /\ Len(p) = n
             /\ DOMAIN p = 1..n
             /\ \A i \in 1..n : p[i] = q[i]
<1>1. \A i \in 1..n : q[i] \in Buffers
  BY ElementOfSeq
<1>2. /\ SubSeq(q, 1, n) \in Seq(Buffers)
      /\ Len(SubSeq(q, 1, n)) = IF 1 <= n THEN n - 1 + 1 ELSE 0
      /\ \A i \in 1..(n - 1 + 1) : SubSeq(q, 1, n)[i] = q[1 + i - 1]
  BY <1>1, SubSeqProperties
<1>3. QED
  BY <1>2, LenProperties

\* Pushing onto a stack adds one element on top.
LEMMA PushProperties ==
  ASSUME NEW q \in Seq(Buffers), NEW b \in Buffers
  PROVE  LET p == Append(q, b)
         IN  /\ p \in Seq(Buffers)
             /\ Len(p) = Len(q) + 1
             /\ DOMAIN p = 1..(Len(q) + 1)
             /\ \A i \in 1..Len(q) : p[i] = q[i]
             /\ p[Len(q) + 1] = b
  OBVIOUS

\* A step that only pops, and leaves the handles of what stays in the
\* free-list alone, keeps sole ownership.
LEMMA PopsKeepSoleOwner ==
  ASSUME TypeOK, TypeOK', SoleOwner,
         \A s \in Sizes : /\ Len(free'[s]) <= Len(free[s])
                          /\ \A i \in 1..Len(free'[s]) : free'[s][i] = free[s][i],
         \A s \in Sizes : \A i \in 1..Len(free'[s]) : handle'[free'[s][i]] = "none"
  PROVE  SoleOwner'
<1>1. \A s \in Sizes : /\ free[s] \in Seq(Buffers) /\ free'[s] \in Seq(Buffers)
                       /\ DOMAIN free[s] = 1..Len(free[s]) /\ Len(free[s]) \in Nat
                       /\ DOMAIN free'[s] = 1..Len(free'[s]) /\ Len(free'[s]) \in Nat
  BY LenProperties DEF TypeOK
<1>2. \A s \in Sizes : DOMAIN free'[s] = 1..Len(free'[s])
  BY <1>1
<1>3. SUFFICES ASSUME NEW s \in Sizes, NEW t \in Sizes,
                      NEW i \in DOMAIN free'[s], NEW j \in DOMAIN free'[t]
               PROVE  /\ free'[s][i] = free'[t][j] => s = t /\ i = j
                      /\ handle'[free'[s][i]] = "none"
  BY Zenon DEF SoleOwner
<1>4. /\ i \in 1..Len(free'[s]) /\ i \in DOMAIN free[s] /\ free'[s][i] = free[s][i]
      /\ j \in 1..Len(free'[t]) /\ j \in DOMAIN free[t] /\ free'[t][j] = free[t][j]
  <2>1. ASSUME NEW u \in Sizes, NEW x \in DOMAIN free'[u]
        PROVE  x \in 1..Len(free'[u]) /\ x \in DOMAIN free[u] /\ free'[u][x] = free[u][x]
    <3>1. x \in 1..Len(free'[u])
      BY <1>2
    <3>2. /\ DOMAIN free[u] = 1..Len(free[u]) /\ Len(free[u]) \in Nat
          /\ Len(free'[u]) \in Nat /\ Len(free'[u]) <= Len(free[u])
      BY <1>1
    <3>3. QED
      BY <3>1, <3>2
  <2>2. QED
    BY <2>1
<1>5. free[s][i] = free[t][j] => s = t /\ i = j
  BY <1>4 DEF SoleOwner
<1>6. handle'[free'[s][i]] = "none"
  BY <1>4
<1>7. QED
  BY <1>4, <1>5, <1>6

\* Nothing is owned at the start.
LEMMA InitOwned == Init => Owned
<1>1. SUFFICES ASSUME Init PROVE Owned
  OBVIOUS
<1>2. \A s \in Sizes : free[s] = <<>>
  BY <1>1, Zenon DEF Init
<1>3. TypeOK
  <2>1. <<>> \in Seq(Buffers)
    OBVIOUS
  <2>2. free \in [Sizes -> Seq(Buffers)]
    BY <1>1, <2>1, Zenon DEF Init
  <2>3. cap_bytes \in Nat /\ alive \in BOOLEAN
    BY <1>1, PoolAssumption DEF Init
  <2>4. /\ handle \in [Buffers -> {"none", "raw", "pooled"}]
        /\ tag \in [Buffers -> Sizes \cup {0}] /\ len \in [Buffers -> Sizes \cup {0}]
    BY <1>1 DEF Init
  <2>5. QED
    BY <2>2, <2>3, <2>4 DEF TypeOK
<1>4. \A s \in Sizes : DOMAIN free[s] = {}
  BY <1>2
<1>5. \A b \in Buffers : handle[b] = "none" /\ tag[b] = 0
  BY <1>1 DEF Init
<1>6. QED
  BY <1>3, <1>4, <1>5 DEF Owned, SoleOwner, ExactSize

\* alloc_pooled, when the free-list has a buffer.
LEMMA TakeHitOwned ==
  ASSUME Owned, NEW s \in Sizes, AllocPooled(s), TakeHit(s)
  PROVE  Owned'
<1> DEFINE n == Len(free[s])
           b == free[s][n]
<1>1. /\ free[s] \in Seq(Buffers) /\ n \in Nat /\ n > 0 /\ DOMAIN free[s] = 1..n
      /\ b \in Buffers /\ n \in DOMAIN free[s]
  BY LenProperties, ElementOfSeq DEF Owned, TypeOK, TakeHit
<1>2. /\ free' = [free EXCEPT ![s] = SubSeq(@, 1, n - 1)]
      /\ handle' = [handle EXCEPT ![b] = "raw"]
      /\ tag' = [tag EXCEPT ![b] = s]
      /\ len' = len /\ cap_bytes' = cap_bytes /\ alive' = alive
  BY DEF TakeHit, AllocPooled
<1>3. /\ SubSeq(free[s], 1, n - 1) \in Seq(Buffers)
      /\ Len(SubSeq(free[s], 1, n - 1)) = n - 1
      /\ DOMAIN SubSeq(free[s], 1, n - 1) = 1..(n - 1)
      /\ \A i \in 1..(n - 1) : SubSeq(free[s], 1, n - 1)[i] = free[s][i]
  BY <1>1, PopProperties
<1>4. TypeOK'
  BY <1>1, <1>2, <1>3 DEF Owned, TypeOK
<1>5. \A t \in Sizes : /\ Len(free'[t]) <= Len(free[t]) /\ Len(free'[t]) \in Nat
                       /\ DOMAIN free'[t] = 1..Len(free'[t])
                       /\ \A i \in 1..Len(free'[t]) :
                            i \in DOMAIN free[t] /\ free'[t][i] = free[t][i]
  BY <1>1, <1>2, <1>3, LenProperties DEF Owned, TypeOK
<1>6. \A t \in Sizes : \A i \in 1..Len(free'[t]) :
        free'[t][i] # b /\ handle[free'[t][i]] = "none" /\ free'[t][i] \in Buffers
  <2>1. SUFFICES ASSUME NEW t \in Sizes, NEW i \in 1..Len(free'[t])
                 PROVE  free[t][i] # b /\ handle[free[t][i]] = "none" /\ free[t][i] \in Buffers
    BY <1>5
  <2>2. i \in DOMAIN free[t] /\ (t = s => i < n)
    BY <1>1, <1>2, <1>3, <1>5 DEF Owned, TypeOK
  <2>3. QED
    BY <1>1, <2>2, ElementOfSeq, LenProperties DEF Owned, SoleOwner, TypeOK
<1>7. SoleOwner'
  <2>1. \A t \in Sizes : \A i \in 1..Len(free'[t]) : handle'[free'[t][i]] = "none"
    BY <1>1, <1>2, <1>6 DEF Owned, TypeOK
  <2>2. QED
    BY <1>4, <1>5, <2>1, PopsKeepSoleOwner DEF Owned
<1>8. ExactSize'
  <2>1. len[b] = s
    BY <1>1 DEF Owned, ExactSize
  <2>2. QED
    BY <1>1, <1>2, <1>5, <2>1 DEF Owned, ExactSize, TypeOK
<1>9. QED
  BY <1>4, <1>7, <1>8 DEF Owned

\* Releasing a held buffer to Metal: it was in no bucket, so none changes.
LEMMA ReleaseOwned ==
  ASSUME Owned, NEW b \in Buffers, handle[b] # "none", Release(b),
         UNCHANGED <<cap_bytes, alive>>
  PROVE  Owned'
<1>1. /\ handle' = [handle EXCEPT ![b] = "none"]
      /\ tag' = [tag EXCEPT ![b] = 0]
      /\ len' = [len EXCEPT ![b] = 0]
      /\ free' = free /\ cap_bytes' = cap_bytes /\ alive' = alive
  BY DEF Release
<1>2. TypeOK'
  BY <1>1 DEF Owned, TypeOK
<1>3. \A s \in Sizes : \A i \in DOMAIN free[s] :
        free[s][i] # b /\ free[s][i] \in Buffers
  BY ElementOfSeq, LenProperties DEF Owned, SoleOwner, TypeOK
<1>4. SoleOwner'
  BY <1>1, <1>3 DEF Owned, SoleOwner, TypeOK
<1>5. ExactSize'
  BY <1>1, <1>3 DEF Owned, ExactSize, TypeOK
<1>6. QED
  BY <1>2, <1>4, <1>5 DEF Owned

\* BufferPool::give, when the cap leaves room.
LEMMA GiveOwned ==
  ASSUME Owned, NEW b \in Buffers, handle[b] # "none", Give(b, tag[b]),
         UNCHANGED <<cap_bytes, alive>>
  PROVE  Owned'
<1> DEFINE s == tag[b]
           n == Len(free[s])
<1>1. s \in Sizes /\ len[b] = s
  BY DEF Owned, ExactSize
<1>2. CASE Release(b)
  BY <1>2, ReleaseOwned
<1>3. CASE /\ free' = [free EXCEPT ![s] = Append(@, b)]
           /\ handle' = [handle EXCEPT ![b] = "none"]
           /\ tag' = [tag EXCEPT ![b] = 0]
           /\ len' = len
  <2>1. /\ free[s] \in Seq(Buffers) /\ n \in Nat /\ DOMAIN free[s] = 1..n
    BY <1>1, LenProperties DEF Owned, TypeOK
  <2>2. /\ free'[s] \in Seq(Buffers)
        /\ Len(free'[s]) = n + 1
        /\ DOMAIN free'[s] = 1..(n + 1)
        /\ \A i \in 1..n : free'[s][i] = free[s][i]
        /\ free'[s][n + 1] = b
    BY <1>1, <1>3, <2>1, PushProperties DEF Owned, TypeOK
  <2>3. \A t \in Sizes : t # s => free'[t] = free[t]
    BY <1>3 DEF Owned, TypeOK
  <2>4. TypeOK'
    BY <1>1, <1>3, <2>2, <2>3, PoolAssumption DEF Owned, TypeOK
  <2>5. \A t \in Sizes : \A i \in DOMAIN free[t] :
          free[t][i] # b /\ free[t][i] \in Buffers
    BY ElementOfSeq, LenProperties DEF Owned, SoleOwner, TypeOK
  <2>6. \A t \in Sizes : \A i \in DOMAIN free'[t] :
          \/ i \in DOMAIN free[t] /\ free'[t][i] = free[t][i]
          \/ t = s /\ i = n + 1 /\ free'[t][i] = b
    <3>1. SUFFICES ASSUME NEW t \in Sizes, NEW i \in DOMAIN free'[t]
                   PROVE  \/ i \in DOMAIN free[t] /\ free'[t][i] = free[t][i]
                          \/ t = s /\ i = n + 1 /\ free'[t][i] = b
      OBVIOUS
    <3>2. CASE t = s
      <4>1. i \in 1..(n + 1) /\ free'[t] = free'[s] /\ free[t] = free[s]
        BY <2>2, <3>2
      <4>2. CASE i \in 1..n
        BY <2>1, <2>2, <4>1, <4>2
      <4>3. CASE i = n + 1
        BY <2>2, <3>2, <4>1, <4>3
      <4>4. QED
        BY <2>1, <4>1, <4>2, <4>3
    <3>3. CASE t # s
      BY <2>3, <3>1, <3>3
    <3>4. QED
      BY <3>2, <3>3
  <2>7. SoleOwner'
    <3>1. SUFFICES ASSUME NEW t \in Sizes, NEW u \in Sizes,
                          NEW i \in DOMAIN free'[t], NEW j \in DOMAIN free'[u]
                   PROVE  /\ free'[t][i] = free'[u][j] => t = u /\ i = j
                          /\ handle'[free'[t][i]] = "none"
      BY DEF SoleOwner
    <3>2. handle'[free'[t][i]] = "none"
      BY <1>3, <2>5, <2>6 DEF Owned, SoleOwner, TypeOK
    <3>3. free'[t][i] = free'[u][j] => t = u /\ i = j
      BY <2>5, <2>6 DEF Owned, SoleOwner
    <3>4. QED
      BY <3>2, <3>3
  <2>8. ExactSize'
    BY <1>1, <1>3, <2>5, <2>6 DEF Owned, ExactSize, TypeOK
  <2>9. QED
    BY <2>4, <2>7, <2>8 DEF Owned
<1>4. QED
  BY <1>2, <1>3 DEF Give

\* alloc_pooled falling back to Metal: the new identity was nobody's.
LEMMA TakeMissOwned ==
  ASSUME Owned, NEW s \in Sizes, TakeMiss(s), UNCHANGED <<cap_bytes, alive>>
  PROVE  Owned'
<1>1. PICK b \in Buffers : /\ len[b] = 0
                           /\ len' = [len EXCEPT ![b] = s]
                           /\ handle' = [handle EXCEPT ![b] = "raw"]
                           /\ tag' = [tag EXCEPT ![b] = s]
                           /\ free' = free /\ cap_bytes' = cap_bytes /\ alive' = alive
  BY DEF TakeMiss
<1>2. \A t \in Sizes : \A i \in DOMAIN free[t] :
        free[t][i] # b /\ free[t][i] \in Buffers
  BY <1>1, PoolAssumption, ElementOfSeq, LenProperties DEF Owned, ExactSize, TypeOK
<1>3. TypeOK'
  BY <1>1 DEF Owned, TypeOK
<1>4. SoleOwner'
  BY <1>1, <1>2 DEF Owned, SoleOwner, TypeOK
<1>5. ExactSize'
  BY <1>1, <1>2 DEF Owned, ExactSize, TypeOK
<1>6. QED
  BY <1>3, <1>4, <1>5 DEF Owned

\* set_cap and the tear-down only pop, and release exactly what left the pool.
LEMMA EvictionOwned ==
  ASSUME Owned, free' \in [Sizes -> Seq(Buffers)], cap_bytes' \in Nat, alive' \in BOOLEAN,
         \A s \in Sizes : /\ Len(free'[s]) <= Len(free[s])
                          /\ \A i \in 1..Len(free'[s]) : free'[s][i] = free[s][i],
         len' = [b \in Buffers |-> IF InFree(b) /\ ~InFree(b)' THEN 0 ELSE len[b]],
         UNCHANGED <<handle, tag>>
  PROVE  Owned'
<1>1. TypeOK'
  BY DEF Owned, TypeOK
<1>2. \A s \in Sizes : \A i \in DOMAIN free'[s] :
        i \in DOMAIN free[s] /\ free'[s][i] = free[s][i] /\ free[s][i] \in Buffers
  <2>1. SUFFICES ASSUME NEW s \in Sizes, NEW i \in DOMAIN free'[s]
                 PROVE  i \in DOMAIN free[s] /\ free'[s][i] = free[s][i] /\ free[s][i] \in Buffers
    OBVIOUS
  <2>2. /\ free[s] \in Seq(Buffers) /\ DOMAIN free[s] = 1..Len(free[s]) /\ Len(free[s]) \in Nat
        /\ DOMAIN free'[s] = 1..Len(free'[s]) /\ Len(free'[s]) \in Nat
    BY LenProperties DEF Owned, TypeOK
  <2>3. i \in 1..Len(free'[s]) /\ i \in 1..Len(free[s])
    BY <2>2
  <2>4. QED
    BY <2>2, <2>3, ElementOfSeq
<1>3. SoleOwner'
  BY <1>2 DEF Owned, SoleOwner
<1>4. \A s \in Sizes : \A i \in DOMAIN free'[s] : len'[free'[s][i]] = len[free[s][i]]
  BY <1>2 DEF InFree
<1>5. \A b \in Buffers : handle[b] # "none" => len'[b] = len[b]
  BY DEF Owned, SoleOwner, InFree
<1>6. ExactSize'
  <2>1. \A s \in Sizes : \A i \in DOMAIN free'[s] : len'[free'[s][i]] = s
    <3>1. \A s \in Sizes : \A i \in DOMAIN free[s] : len[free[s][i]] = s
      BY DEF Owned, ExactSize
    <3>2. SUFFICES ASSUME NEW s \in Sizes, NEW i \in DOMAIN free'[s]
                   PROVE  len'[free'[s][i]] = s
      OBVIOUS
    <3>3. i \in DOMAIN free[s] /\ len'[free'[s][i]] = len[free[s][i]]
      BY <1>2, <1>4
    <3>4. QED
      BY <3>1, <3>3
  <2>2. \A b \in Buffers : IF handle'[b] = "none" THEN tag'[b] = 0
                           ELSE tag'[b] = len'[b] /\ tag'[b] \in Sizes
    BY <1>5 DEF Owned, ExactSize
  <2>3. QED
    BY <2>1, <2>2 DEF ExactSize
<1>7. QED
  BY <1>1, <1>3, <1>6 DEF Owned

\* What set_cap leaves of the free-list once the buckets in gone are empty and
\* n buffers of bucket s are popped.
Cut(gone, s, n) == [x \in Sizes |-> IF x \in gone THEN <<>>
                                    ELSE IF x = s THEN SubSeq(free[s], 1, Len(free[s]) - n)
                                    ELSE free[x]]

\* An eviction pops from the ends of the free-lists.
LEMMA CutPops ==
  ASSUME TypeOK, NEW gone \in SUBSET Sizes, NEW s \in Sizes, NEW n \in 1..Len(free[s]),
         free' = Cut(gone, s, n)
  PROVE  /\ free' \in [Sizes -> Seq(Buffers)]
         /\ \A x \in Sizes : /\ Len(free'[x]) <= Len(free[x])
                             /\ \A i \in 1..Len(free'[x]) : free'[x][i] = free[x][i]
<1>1. \A x \in Sizes : free[x] \in Seq(Buffers) /\ Len(free[x]) \in Nat
  BY LenProperties DEF TypeOK
<1>2. Len(free[s]) - n \in 0..Len(free[s])
  BY <1>1
<1>3. LET p == SubSeq(free[s], 1, Len(free[s]) - n)
      IN  /\ p \in Seq(Buffers) /\ Len(p) = Len(free[s]) - n
          /\ \A i \in 1..(Len(free[s]) - n) : p[i] = free[s][i]
  BY <1>1, <1>2, PopProperties
<1>4. SUFFICES ASSUME NEW x \in Sizes
               PROVE  /\ free'[x] \in Seq(Buffers) /\ Len(free'[x]) <= Len(free[x])
                      /\ \A i \in 1..Len(free'[x]) : free'[x][i] = free[x][i]
  BY DEF Cut
<1>5. CASE x \in gone
  BY <1>1, <1>5, EmptySeq DEF Cut
<1>6. CASE x \notin gone /\ x = s
  BY <1>1, <1>2, <1>3, <1>6 DEF Cut
<1>7. CASE x \notin gone /\ x # s
  BY <1>1, <1>7 DEF Cut
<1>8. QED
  BY <1>5, <1>6, <1>7

\* A shrinking set_cap cuts the free-list and releases what leaves it.
LEMMA SetCapCuts ==
  ASSUME NEW c, SetCap(c), ~UNCHANGED <<free, pooled_bytes, len>>
  PROVE  /\ pooled_bytes > c
         /\ \E gone \in SUBSET Sizes : \E s \in Sizes \ gone : \E n \in 1..Len(free[s]) :
              /\ free' = Cut(gone, s, n)
              /\ pooled_bytes' = pooled_bytes - Popped(gone, s, n)
              /\ pooled_bytes - Popped(gone, s, n) <= c
              /\ pooled_bytes - Popped(gone, s, n - 1) > c
         /\ len' = [b \in Buffers |-> IF InFree(b) /\ ~InFree(b)' THEN 0 ELSE len[b]]
  BY Zenon DEF SetCap, Cut

\* Lowering the cap.
LEMMA SetCapOwned ==
  ASSUME Owned, NEW c \in Caps, SetCap(c)
  PROVE  Owned'
<1>1. c \in Nat /\ cap_bytes' = c /\ alive' = alive /\ UNCHANGED <<handle, tag>>
  BY PoolAssumption DEF SetCap
<1>2. CASE UNCHANGED <<free, pooled_bytes, len>>
  BY <1>1, <1>2 DEF Owned, TypeOK, SoleOwner, ExactSize
<1>3. CASE ~UNCHANGED <<free, pooled_bytes, len>>
  <2>1. PICK gone \in SUBSET Sizes, s \in Sizes : \E n \in 1..Len(free[s]) :
               free' = Cut(gone, s, n)
    BY <1>3, SetCapCuts
  <2>2. PICK n \in 1..Len(free[s]) : free' = Cut(gone, s, n)
    BY <2>1
  <2>3. /\ free' \in [Sizes -> Seq(Buffers)]
        /\ \A x \in Sizes : /\ Len(free'[x]) <= Len(free[x])
                            /\ \A i \in 1..Len(free'[x]) : free'[x][i] = free[x][i]
    BY <2>2, CutPops DEF Owned
  <2>4. len' = [b \in Buffers |-> IF InFree(b) /\ ~InFree(b)' THEN 0 ELSE len[b]]
    BY <1>3, SetCapCuts
  <2>5. QED
    BY <1>1, <2>3, <2>4, EvictionOwned DEF Owned, TypeOK
<1>4. QED
  BY <1>2, <1>3

\* The pool is dropped.
LEMMA TearDownOwned ==
  ASSUME Owned, TearDown
  PROVE  Owned'
<1>1. /\ free' = [s \in Sizes |-> <<>>]
      /\ len' = [b \in Buffers |-> IF InFree(b) THEN 0 ELSE len[b]]
      /\ cap_bytes' \in Nat /\ alive' \in BOOLEAN /\ UNCHANGED <<handle, tag>>
  BY DEF TearDown, Owned, TypeOK
<1>2. free' \in [Sizes -> Seq(Buffers)]
  <2>1. <<>> \in Seq(Buffers)
    OBVIOUS
  <2>2. QED
    BY <1>1, <2>1, Zenon
<1>3. \A s \in Sizes : free'[s] = <<>>
  BY <1>1, Zenon
<1>4. \A s \in Sizes : /\ Len(free'[s]) <= Len(free[s])
                       /\ \A i \in 1..Len(free'[s]) : free'[s][i] = free[s][i]
  <2>1. \A s \in Sizes : Len(free[s]) \in Nat /\ Len(free'[s]) = 0
    BY <1>3, LenProperties DEF Owned, TypeOK
  <2>2. QED
    BY <2>1
<1>5. \A b : ~InFree(b)'
  <2>1. \A s \in Sizes : DOMAIN free'[s] = {}
    BY <1>3
  <2>2. QED
    BY <2>1 DEF InFree
<1>6. len' = [b \in Buffers |-> IF InFree(b) /\ ~InFree(b)' THEN 0 ELSE len[b]]
  BY <1>1, <1>5, Zenon
<1>7. QED
  BY <1>1, <1>2, <1>4, <1>6, EvictionOwned

\* A raw buffer is wrapped.
LEMMA WrapOwned ==
  ASSUME Owned, NEW b \in Buffers, Wrap(b)
  PROVE  Owned'
<1>1. /\ handle[b] = "raw" /\ handle' = [handle EXCEPT ![b] = "pooled"]
      /\ UNCHANGED <<free, cap_bytes, alive, tag, len>>
  BY DEF Wrap
<1>2. TypeOK'
  BY <1>1 DEF Owned, TypeOK
<1>3. \A s \in Sizes : \A i \in DOMAIN free[s] : free[s][i] # b /\ free[s][i] \in Buffers
  BY <1>1, ElementOfSeq, LenProperties DEF Owned, SoleOwner, TypeOK
<1>4. SoleOwner'
  BY <1>1, <1>3 DEF Owned, SoleOwner, TypeOK
<1>5. ExactSize'
  BY <1>1 DEF Owned, ExactSize, TypeOK
<1>6. QED
  BY <1>2, <1>4, <1>5 DEF Owned

\* A step that changes nothing.
LEMMA OwnedUnchanged ==
  ASSUME Owned, UNCHANGED <<free, cap_bytes, alive, handle, tag, len>>
  PROVE  Owned'
BY DEF Owned, TypeOK, SoleOwner, ExactSize

\* Owned is inductive: one step per operation of the pool.
LEMMA NextOwned == Owned /\ [Next]_vars => Owned'
<1>1. SUFFICES ASSUME Owned, [Next]_vars PROVE Owned'
  OBVIOUS
<1>2. ASSUME NEW s \in Sizes, AllocPooled(s) PROVE Owned'
  <2>1. CASE TakeHit(s)
    BY <1>1, <1>2, <2>1, TakeHitOwned
  <2>2. CASE TakeMiss(s)
    BY <1>1, <1>2, <2>2, TakeMissOwned DEF AllocPooled
  <2>3. CASE TakeFails(s)
    BY <1>1, <1>2, <2>3, OwnedUnchanged DEF AllocPooled, TakeFails
  <2>4. QED
    BY <1>2, <2>1, <2>2, <2>3 DEF AllocPooled
<1>3. ASSUME NEW b \in Buffers, DropRaw(b) PROVE Owned'
  BY <1>1, <1>3, ReleaseOwned DEF DropRaw
<1>4. ASSUME NEW b \in Buffers, DropPooled(b) PROVE Owned'
  <2>1. CASE Give(b, tag[b])
    BY <1>1, <1>4, <2>1, GiveOwned DEF DropPooled
  <2>2. CASE Release(b)
    BY <1>1, <1>4, <2>2, ReleaseOwned DEF DropPooled
  <2>3. QED
    BY <1>4, <2>1, <2>2 DEF DropPooled
<1>5. CASE UNCHANGED vars
  BY <1>1, <1>5, OwnedUnchanged DEF vars
<1>6. QED
  BY <1>1, <1>2, <1>3, <1>4, <1>5, WrapOwned, SetCapOwned, TearDownOwned DEF Next

\* Ownership is an invariant.
LEMMA AlwaysOwned == Spec => []Owned
<1>1. QED
  BY InitOwned, NextOwned, PTL DEF Spec

\* No two handles, and no handle and the free-list, ever share a buffer.
THEOREM PoolSoleOwner == Spec => []SoleOwner
<1>1. Owned => SoleOwner
  BY DEF Owned
<1>2. QED
  BY <1>1, AlwaysOwned, PTL

\* Every buffer is reused at exactly the length it was allocated for.
THEOREM PoolExactSize == Spec => []ExactSize
<1>1. Owned => ExactSize
  BY DEF Owned
<1>2. QED
  BY <1>1, AlwaysOwned, PTL
-----------------------------------------------------------------------------
\* The type invariant: the free-list only ever holds buffers, and every key and
\* length is a size class.
THEOREM PoolTyped == Spec => []TypeOK
<1>1. Owned => TypeOK
  BY DEF Owned
<1>2. QED
  BY <1>1, AlwaysOwned, PTL
-----------------------------------------------------------------------------
\* Where BufferLending sees buffer b.
Place(b) == IF handle[b] # "none" THEN "lent" ELSE IF InFree(b) THEN "idle" ELSE "absent"

Places == [b \in Buffers |-> Place(b)]

\* The abstract actions, written with Places.
LEMMA LendingActions ==
  /\ Lending!Init <=> /\ Places = [b \in Buffers |-> "absent"]
                      /\ len = [b \in Buffers |-> 0]
  /\ \A b, s : Lending!Lend(b, s) <=>
       /\ \/ Places[b] = "idle" /\ len[b] = s /\ len' = len
          \/ Places[b] = "absent" /\ len' = [len EXCEPT ![b] = s]
       /\ Places' = [Places EXCEPT ![b] = "lent"]
  /\ \A b : Lending!Return(b) <=>
       /\ Places[b] = "lent"
       /\ \/ Places' = [Places EXCEPT ![b] = "idle"] /\ len' = len
          \/ Places' = [Places EXCEPT ![b] = "absent"] /\ len' = [len EXCEPT ![b] = 0]
  /\ \A E : Lending!Evict(E) <=>
       /\ \A b \in E : Places[b] = "idle"
       /\ Places' = [b \in Buffers |-> IF b \in E THEN "absent" ELSE Places[b]]
       /\ len' = [b \in Buffers |-> IF b \in E THEN 0 ELSE len[b]]
  /\ Lending!vars = <<Places, len>>
  BY DEF Lending!Init, Lending!Lend, Lending!Return, Lending!Evict, Lending!vars, Places, Place

\* A buffer of no length is none of the sizes the pool lends.
LEMMA SizesPositive == \A s \in Sizes : s \in Nat /\ s # 0
  BY PoolAssumption

\* The free-list below the top: popping bucket s removes its newest buffer from
\* the free-list and no other, since no buffer is there twice.
LEMMA PoppedIsIdleNoMore ==
  ASSUME Owned, NEW s \in Sizes, Len(free[s]) > 0,
         free' = [free EXCEPT ![s] = SubSeq(@, 1, Len(free[s]) - 1)]
  PROVE  /\ free[s][Len(free[s])] \in Buffers
         /\ InFree(free[s][Len(free[s])])
         /\ \A c : InFree(c)' <=> InFree(c) /\ c # free[s][Len(free[s])]
<1> DEFINE n == Len(free[s])
           b == free[s][n]
<1>1. /\ free[s] \in Seq(Buffers) /\ n \in Nat /\ DOMAIN free[s] = 1..n
      /\ n \in 1..n /\ b \in Buffers
  BY LenProperties, ElementOfSeq DEF Owned, TypeOK
<1>2. /\ DOMAIN SubSeq(free[s], 1, n - 1) = 1..(n - 1)
      /\ \A i \in 1..(n - 1) : SubSeq(free[s], 1, n - 1)[i] = free[s][i]
  BY <1>1, PopProperties
<1>3. /\ free'[s] = SubSeq(free[s], 1, n - 1)
      /\ \A t \in Sizes : t # s => free'[t] = free[t]
  BY DEF Owned, TypeOK
<1>4. InFree(b)
  BY <1>1 DEF InFree
<1>5. ASSUME NEW c, InFree(c)' PROVE InFree(c) /\ c # b
  <2>1. PICK t \in Sizes : \E i \in DOMAIN free'[t] : free'[t][i] = c
    BY <1>5 DEF InFree
  <2>2. PICK i \in DOMAIN free'[t] : free'[t][i] = c
    BY <2>1
  <2>3. i \in DOMAIN free[t] /\ free[t][i] = c /\ (t = s => i # n)
    BY <1>1, <1>2, <1>3, <2>2
  <2>4. QED
    BY <1>1, <2>3 DEF InFree, Owned, SoleOwner
<1>6. ASSUME NEW c, InFree(c), c # b PROVE InFree(c)'
  <2>1. PICK t \in Sizes : \E i \in DOMAIN free[t] : free[t][i] = c
    BY <1>6 DEF InFree
  <2>2. PICK i \in DOMAIN free[t] : free[t][i] = c
    BY <2>1
  <2>3. i \in DOMAIN free'[t] /\ free'[t][i] = c
    BY <1>1, <1>2, <1>3, <1>6, <2>2
  <2>4. QED
    BY <2>3 DEF InFree
<1>7. QED
  BY <1>1, <1>4, <1>5, <1>6

\* A step that moves one buffer and leaves every other where it was.
LEMMA OthersStay ==
  ASSUME TypeOK, NEW b \in Buffers, NEW p,
         \A c \in Buffers : c # b => Place(c)' = Place(c),
         Place(b)' = p
  PROVE  Places' = [Places EXCEPT ![b] = p]
  BY DEF Places

\* An allocation lends a buffer nobody has.
LEMMA AllocRefines ==
  ASSUME Owned, Owned', NEW s \in Sizes, AllocPooled(s)
  PROVE  [Lending!Next]_Lending!vars
<1>1. CASE TakeHit(s)
  <2>1. PICK b \in Buffers : b = free[s][Len(free[s])]
    BY <1>1, PoppedIsIdleNoMore DEF TakeHit
  <2>2. /\ Len(free[s]) > 0
        /\ free' = [free EXCEPT ![s] = SubSeq(@, 1, Len(free[s]) - 1)]
        /\ handle' = [handle EXCEPT ![b] = "raw"] /\ len' = len
    BY <1>1, <2>1 DEF TakeHit
  <2>3. InFree(b) /\ \A c : InFree(c)' <=> InFree(c) /\ c # b
    BY <2>1, <2>2, PoppedIsIdleNoMore
  <2>4. handle[b] = "none" /\ len[b] = s
    <3>1. free[s] \in Seq(Buffers) /\ Len(free[s]) \in DOMAIN free[s]
      BY <2>2, LenProperties DEF Owned, TypeOK
    <3>2. QED
      BY <2>1, <3>1 DEF Owned, SoleOwner, ExactSize
  <2>5. /\ Place(b) = "idle" /\ Place(b)' = "lent"
        /\ \A c \in Buffers : c # b => Place(c)' = Place(c)
    BY <2>2, <2>3, <2>4 DEF Place, Owned, TypeOK
  <2>6. Places' = [Places EXCEPT ![b] = "lent"] /\ Places[b] = "idle"
    BY <2>5, OthersStay DEF Owned, Places
  <2>7. Lending!Lend(b, s)
    BY <2>2, <2>4, <2>6, LendingActions
  <2>8. QED
    BY <2>7 DEF Lending!Next
<1>2. CASE TakeMiss(s)
  <2>1. PICK b \in Buffers : /\ len[b] = 0 /\ free' = free
                             /\ len' = [len EXCEPT ![b] = s]
                             /\ handle' = [handle EXCEPT ![b] = "raw"]
    BY <1>2 DEF TakeMiss
  <2>2. handle[b] = "none" /\ ~InFree(b)
    BY <2>1, SizesPositive DEF Owned, ExactSize, InFree
  <2>3. /\ Place(b) = "absent" /\ Place(b)' = "lent"
        /\ \A c \in Buffers : c # b => Place(c)' = Place(c)
    BY <2>1, <2>2 DEF Place, InFree, Owned, TypeOK
  <2>4. Places' = [Places EXCEPT ![b] = "lent"] /\ Places[b] = "absent"
    BY <2>1, <2>3, OthersStay DEF Owned, Places
  <2>5. Lending!Lend(b, s)
    BY <2>1, <2>4, LendingActions
  <2>6. QED
    BY <2>5 DEF Lending!Next
<1>3. CASE TakeFails(s)
  BY <1>3 DEF TakeFails, Lending!vars, InFree
<1>4. QED
  BY <1>1, <1>2, <1>3 DEF AllocPooled

\* A handle that drops is a client returning its buffer.
LEMMA DropRefines ==
  ASSUME Owned, Owned', NEW b \in Buffers, handle[b] # "none",
         Release(b) \/ Give(b, tag[b])
  PROVE  Lending!Next
<1>1. Place(b) = "lent" /\ ~InFree(b)
  BY DEF Place, InFree, Owned, SoleOwner
<1>2. CASE Release(b)
  <2>1. /\ Place(b)' = "absent"
        /\ \A c \in Buffers : c # b => Place(c)' = Place(c)
    BY <1>1, <1>2 DEF Release, Place, InFree, Owned, TypeOK
  <2>2. Places' = [Places EXCEPT ![b] = "absent"] /\ Places[b] = "lent"
    BY <1>1, <2>1, OthersStay DEF Owned, Places
  <2>3. Lending!Return(b)
    BY <1>2, <2>2, LendingActions DEF Release
  <2>4. QED
    BY <2>3 DEF Lending!Next
<1>3. CASE /\ free' = [free EXCEPT ![tag[b]] = Append(@, b)]
           /\ handle' = [handle EXCEPT ![b] = "none"] /\ len' = len
  <2> DEFINE s == tag[b]
             n == Len(free[s])
  <2>1. /\ s \in Sizes /\ free[s] \in Seq(Buffers) /\ n \in Nat /\ DOMAIN free[s] = 1..n
    BY LenProperties DEF Owned, TypeOK, ExactSize
  <2>2. /\ DOMAIN free'[s] = 1..(n + 1)
        /\ \A i \in 1..n : free'[s][i] = free[s][i]
        /\ free'[s][n + 1] = b
        /\ \A t \in Sizes : t # s => free'[t] = free[t]
    BY <1>3, <2>1, PushProperties DEF Owned, TypeOK
  <2>3. InFree(b)'
    <3>1. n + 1 \in DOMAIN free'[s]
      BY <2>1, <2>2
    <3>2. QED
      BY <2>1, <2>2, <3>1 DEF InFree
  <2>4. ASSUME NEW c, c # b PROVE InFree(c)' <=> InFree(c)
    <3>1. ASSUME NEW t \in Sizes, NEW i \in DOMAIN free[t], free[t][i] = c
          PROVE  i \in DOMAIN free'[t] /\ free'[t][i] = c
      <4>1. CASE t = s
        BY <2>1, <2>2, <3>1, <4>1
      <4>2. CASE t # s
        BY <2>2, <3>1, <4>2
      <4>3. QED
        BY <4>1, <4>2
    <3>2. ASSUME NEW t \in Sizes, NEW i \in DOMAIN free'[t], free'[t][i] = c
          PROVE  i \in DOMAIN free[t] /\ free[t][i] = c
      <4>1. CASE t = s
        <5>1. i \in 1..(n + 1) /\ free'[s][i] = c
          BY <2>2, <3>2, <4>1
        <5>2. i # n + 1
          BY <2>2, <2>4, <5>1
        <5>3. i \in 1..n
          BY <2>1, <5>1, <5>2
        <5>4. QED
          BY <2>1, <2>2, <4>1, <5>1, <5>3
      <4>2. CASE t # s
        BY <2>2, <3>2, <4>2
      <4>3. QED
        BY <4>1, <4>2
    <3>3. QED
      BY <3>1, <3>2 DEF InFree
  <2>5. /\ Place(b)' = "idle"
        /\ \A c \in Buffers : c # b => Place(c)' = Place(c)
    BY <1>3, <2>3, <2>4 DEF Place, Owned, TypeOK
  <2>6. Places' = [Places EXCEPT ![b] = "idle"] /\ Places[b] = "lent"
    BY <1>1, <2>5, OthersStay DEF Owned, Places
  <2>7. Lending!Return(b)
    BY <1>3, <2>6, LendingActions
  <2>8. QED
    BY <2>7 DEF Lending!Next
<1>4. QED
  BY <1>2, <1>3 DEF Give

\* set_cap and the tear-down release idle buffers only.
LEMMA EvictionRefines ==
  ASSUME Owned,
         \A b \in Buffers : InFree(b)' => InFree(b),
         len' = [b \in Buffers |-> IF InFree(b) /\ ~InFree(b)' THEN 0 ELSE len[b]],
         UNCHANGED handle
  PROVE  Lending!Next
<1>1. PICK E \in SUBSET Buffers : \A b \in Buffers : b \in E <=> InFree(b) /\ ~InFree(b)'
  <2>1. {b \in Buffers : InFree(b) /\ ~InFree(b)'} \in SUBSET Buffers
    OBVIOUS
  <2>2. QED
    BY <2>1
<1>2. \A b \in Buffers : InFree(b) => handle[b] = "none"
  BY DEF Owned, SoleOwner, InFree
<1>3. \A b \in E : Places[b] = "idle"
  BY <1>1, <1>2 DEF Places, Place
<1>4. Places' = [b \in Buffers |-> IF b \in E THEN "absent" ELSE Places[b]]
  <2>1. \A b \in Buffers : Place(b)' = IF b \in E THEN "absent" ELSE Place(b)
    BY <1>1, <1>2 DEF Place
  <2>2. QED
    BY <2>1 DEF Places
<1>5. len' = [b \in Buffers |-> IF b \in E THEN 0 ELSE len[b]]
  BY <1>1
<1>6. Lending!Evict(E)
  BY <1>3, <1>4, <1>5, LendingActions
<1>7. QED
  BY <1>6 DEF Lending!Next

\* An eviction gives idle buffers back to the system.
LEMMA SetCapRefines ==
  ASSUME Owned, Owned', NEW c \in Caps, SetCap(c)
  PROVE  [Lending!Next]_Lending!vars
<1>1. handle' = handle
  BY DEF SetCap
<1>2. CASE UNCHANGED <<free, pooled_bytes, len>>
  BY <1>1, <1>2 DEF Lending!vars, InFree
<1>3. CASE ~UNCHANGED <<free, pooled_bytes, len>>
  <2>1. PICK gone \in SUBSET Sizes, s \in Sizes : \E n \in 1..Len(free[s]) :
               free' = Cut(gone, s, n)
    BY <1>3, SetCapCuts
  <2>2. PICK n \in 1..Len(free[s]) : free' = Cut(gone, s, n)
    BY <2>1
  <2>3. \A x \in Sizes : /\ Len(free'[x]) <= Len(free[x])
                         /\ \A i \in 1..Len(free'[x]) : free'[x][i] = free[x][i]
    BY <2>2, CutPops DEF Owned
  <2>4. \A x \in Sizes : /\ DOMAIN free[x] = 1..Len(free[x]) /\ Len(free[x]) \in Nat
                         /\ DOMAIN free'[x] = 1..Len(free'[x]) /\ Len(free'[x]) \in Nat
    BY LenProperties DEF Owned, TypeOK
  <2>5. ASSUME NEW b \in Buffers, InFree(b)' PROVE InFree(b)
    <3>1. PICK x \in Sizes : \E i \in DOMAIN free'[x] : free'[x][i] = b
      BY <2>5 DEF InFree
    <3>2. PICK i \in DOMAIN free'[x] : free'[x][i] = b
      BY <3>1
    <3>3. i \in DOMAIN free[x] /\ free[x][i] = b
      BY <2>3, <2>4, <3>2
    <3>4. QED
      BY <3>3 DEF InFree
  <2>6. len' = [b \in Buffers |-> IF InFree(b) /\ ~InFree(b)' THEN 0 ELSE len[b]]
    BY <1>3, SetCapCuts
  <2>7. QED
    BY <1>1, <2>5, <2>6, EvictionRefines
<1>4. QED
  BY <1>2, <1>3

\* A pool that is dropped gives its idle buffers back.
LEMMA TearDownRefines ==
  ASSUME Owned, TearDown
  PROVE  Lending!Next
<1>1. /\ free' = [s \in Sizes |-> <<>>] /\ handle' = handle
      /\ len' = [b \in Buffers |-> IF InFree(b) THEN 0 ELSE len[b]]
  BY DEF TearDown
<1>2. \A s \in Sizes : free'[s] = <<>>
  BY <1>1, Zenon
<1>3. \A b \in Buffers : ~InFree(b)'
  BY <1>2 DEF InFree
<1>4. len' = [b \in Buffers |-> IF InFree(b) /\ ~InFree(b)' THEN 0 ELSE len[b]]
  BY <1>1, <1>3, Zenon
<1>5. QED
  BY <1>1, <1>3, <1>4, EvictionRefines

\* Every step of the pool is a step of the lending discipline, or changes
\* nothing a client can see.
LEMMA NextRefines ==
  ASSUME Owned, Owned', [Next]_vars
  PROVE  [Lending!Next]_Lending!vars
<1>1. ASSUME NEW b \in Buffers, Wrap(b) PROVE UNCHANGED Lending!vars
  BY <1>1 DEF Wrap, Lending!vars, InFree, Owned, TypeOK
<1>2. ASSUME NEW b \in Buffers, DropRaw(b) PROVE Lending!Next
  BY <1>2, DropRefines DEF DropRaw
<1>3. ASSUME NEW b \in Buffers, DropPooled(b) PROVE Lending!Next
  BY <1>3, DropRefines DEF DropPooled
<1>4. CASE UNCHANGED vars
  BY <1>4 DEF vars, Lending!vars, InFree
<1>5. QED
  BY <1>1, <1>2, <1>3, <1>4, AllocRefines, SetCapRefines, TearDownRefines DEF Next

\* The pool implements BufferLending: a client is only ever lent an idle buffer
\* of exactly the size it asked for or a new one, and whatever set_cap and the
\* tear-down release was idle.
THEOREM PoolLends == Spec => ImplementsLending
<1>1. Init => Lending!Init
  <2>1. SUFFICES ASSUME Init PROVE Lending!Init
    OBVIOUS
  <2>2. \A s \in Sizes : free[s] = <<>>
    BY <2>1, Zenon DEF Init
  <2>3. \A b \in Buffers : handle[b] = "none" /\ ~InFree(b)
    BY <2>1, <2>2 DEF Init, InFree
  <2>4. QED
    BY <2>1, <2>3, LendingActions DEF Init, Places, Place
<1>2. Owned /\ Owned' /\ [Next]_vars => [Lending!Next]_Lending!vars
  BY NextRefines
<1>3. QED
  BY <1>1, <1>2, AlwaysOwned, PTL DEF Spec, ImplementsLending, Lending!Spec
-----------------------------------------------------------------------------
\* The byte account.  Accounted adds to Owned that the running count is the sum
\* over the free-list; it is inductive only together with Owned, which says the
\* key a buffer is given back under is a size class.
Accounted == Owned /\ BytesAccounted /\ high_water_bytes \in Nat

FreeLists == [Sizes -> Seq(Buffers)]

Weights(q) == [x \in Sizes |-> x * Len(q[x])]

\* Multiplication distributes over addition.
LEMMA Distributes == ASSUME NEW a \in Int, NEW b \in Int, NEW c \in Int
                     PROVE  a * (b - c) = a * b - a * c /\ a * b \in Int
  OBVIOUS

\* The weights of any free-list are numbers, and so are the bytes of any set of
\* its buckets.
LEMMA WeightsType ==
  ASSUME NEW q \in FreeLists
  PROVE  /\ \A x \in Sizes : /\ x \in Nat /\ Len(q[x]) \in Nat
                             /\ Weights(q)[x] = x * Len(q[x]) /\ Weights(q)[x] \in Nat
         /\ \A S \in SUBSET Sizes : IsFiniteSet(S) /\ SumFunctionOnSet(Weights(q), S) \in Nat
<1>1. \A x \in Sizes : x \in Nat /\ Len(q[x]) \in Nat /\ Weights(q)[x] = x * Len(q[x])
  BY SizesPositive, LenProperties DEF Weights, FreeLists
<1>2. \A x \in Sizes : Weights(q)[x] \in Nat
  <2>1. \A m, n \in Nat : m * n \in Nat
    OBVIOUS
  <2>2. QED
    BY <1>1, <2>1
<1>3. ASSUME NEW S \in SUBSET Sizes
      PROVE  IsFiniteSet(S) /\ SumFunctionOnSet(Weights(q), S) \in Nat
  <2>1. IsFiniteSet(S)
    BY PoolAssumption, FS_Subset
  <2>2. \A x \in S : Weights(q)[x] \in Nat
    BY <1>2
  <2>3. QED
    BY <2>1, <2>2, SumType
<1>4. QED
  BY <1>1, <1>2, <1>3

\* A change of one bucket's depth changes the total by that much.
LEMMA BytesMove ==
  ASSUME NEW q \in FreeLists, NEW r \in FreeLists, NEW s \in Sizes,
         \A x \in Sizes : x # s => r[x] = q[x]
  PROVE  SumFunctionOnSet(Weights(r), Sizes) =
           SumFunctionOnSet(Weights(q), Sizes) + s * Len(r[s]) - s * Len(q[s])
<1>1. PICK rest \in SUBSET Sizes : rest = Sizes \ {s}
  OBVIOUS
<1>2. /\ IsFiniteSet(rest) /\ IsFiniteSet(Sizes)
      /\ \A x \in Sizes : Weights(q)[x] \in Int /\ Weights(r)[x] \in Int
  BY WeightsType
<1>3. \A x \in rest : Weights(r)[x] = Weights(q)[x]
  BY <1>1 DEF Weights
<1>4. SumFunctionOnSet(Weights(q), Sizes) = Weights(q)[s] + SumFunctionOnSet(Weights(q), rest)
  BY <1>1, <1>2, SumRemove
<1>5. SumFunctionOnSet(Weights(r), Sizes) = Weights(r)[s] + SumFunctionOnSet(Weights(r), rest)
  BY <1>1, <1>2, SumRemove
<1>6. SumFunctionOnSet(Weights(r), rest) = SumFunctionOnSet(Weights(q), rest)
  BY <1>2, <1>3, SumSame
<1>7. PICK z \in Int : z = SumFunctionOnSet(Weights(q), rest)
  BY WeightsType
<1>8. /\ Weights(q)[s] = s * Len(q[s]) /\ Weights(r)[s] = s * Len(r[s])
      /\ Weights(q)[s] \in Int /\ Weights(r)[s] \in Int
  BY WeightsType
<1>9. QED
  BY <1>4, <1>5, <1>6, <1>7, <1>8

\* Cutting the free-list removes exactly the bytes set_cap subtracts.
LEMMA BytesCut ==
  ASSUME TypeOK, NEW gone \in SUBSET Sizes, NEW s \in Sizes \ gone,
         NEW n \in 1..Len(free[s]), NEW r \in FreeLists, r = Cut(gone, s, n)
  PROVE  /\ Popped(gone, s, n) \in Int
         /\ SumFunctionOnSet(Weights(r), Sizes) = BytesIn(Sizes) - Popped(gone, s, n)
<1>1. PICK rest \in SUBSET Sizes : rest = (Sizes \ gone) \ {s}
  OBVIOUS
<1>2. PICK q \in FreeLists : q = free
  BY DEF TypeOK, FreeLists
<1>3. /\ IsFiniteSet(rest) /\ IsFiniteSet(gone) /\ IsFiniteSet(Sizes) /\ IsFiniteSet(Sizes \ gone)
      /\ \A x \in Sizes : Weights(q)[x] \in Int /\ Weights(r)[x] \in Int
  BY WeightsType
<1>4. /\ \A x \in rest : Weights(r)[x] = Weights(q)[x]
      /\ \A x \in gone : r[x] = <<>>
  BY <1>1, <1>2 DEF Weights, Cut
<1>5. \A x \in gone : Weights(r)[x] = 0
  <2>1. \A x \in gone : x * Len(r[x]) = 0
    BY <1>4, SizesPositive
  <2>2. QED
    BY <2>1, WeightsType
<1>6. /\ Weights(r)[s] = Weights(q)[s] - s * n
      /\ s * n \in Int
  <2>1. q[s] \in Seq(Buffers) /\ s \in Int /\ Len(q[s]) \in Nat /\ n \in Int /\ n \in 1..Len(q[s])
    BY <1>2, LenProperties, SizesPositive DEF FreeLists
  <2>2. r[s] = SubSeq(q[s], 1, Len(q[s]) - n)
    BY <1>2 DEF Cut
  <2>3. Len(r[s]) = Len(q[s]) - n
    BY <2>1, <2>2, PopProperties
  <2>4. s * (Len(q[s]) - n) = s * Len(q[s]) - s * n /\ s * n \in Int
    <3>1. PICK k \in Int : k = Len(q[s])
      BY <2>1
    <3>2. s * (k - n) = s * k - s * n /\ s * n \in Int
      BY <2>1, Distributes
    <3>3. QED
      BY <3>1, <3>2
  <2>5. QED
    BY <2>3, <2>4, WeightsType
<1>7. ASSUME NEW f, \A x \in Sizes : f[x] \in Int
      PROVE  /\ SumFunctionOnSet(f, Sizes) =
                  SumFunctionOnSet(f, gone) + SumFunctionOnSet(f, Sizes \ gone)
             /\ SumFunctionOnSet(f, Sizes \ gone) = f[s] + SumFunctionOnSet(f, rest)
  <2>1. SumFunctionOnSet(f, Sizes) = SumFunctionOnSet(f, gone) + SumFunctionOnSet(f, Sizes \ gone)
    BY <1>3, <1>7, SumSplit
  <2>2. s \in Sizes \ gone /\ \A x \in Sizes \ gone : f[x] \in Int
    BY <1>7
  <2>3. SumFunctionOnSet(f, Sizes \ gone) = f[s] + SumFunctionOnSet(f, (Sizes \ gone) \ {s})
    BY <1>3, <2>2, SumRemove
  <2>4. QED
    BY <1>1, <2>1, <2>3
<1>8. /\ SumFunctionOnSet(Weights(q), Sizes) =
           SumFunctionOnSet(Weights(q), gone) + SumFunctionOnSet(Weights(q), Sizes \ gone)
      /\ SumFunctionOnSet(Weights(q), Sizes \ gone) = Weights(q)[s] + SumFunctionOnSet(Weights(q), rest)
      /\ SumFunctionOnSet(Weights(r), Sizes) =
           SumFunctionOnSet(Weights(r), gone) + SumFunctionOnSet(Weights(r), Sizes \ gone)
      /\ SumFunctionOnSet(Weights(r), Sizes \ gone) = Weights(r)[s] + SumFunctionOnSet(Weights(r), rest)
  BY <1>3, <1>7
<1>9. /\ SumFunctionOnSet(Weights(r), rest) = SumFunctionOnSet(Weights(q), rest)
      /\ SumFunctionOnSet(Weights(r), gone) = 0
  BY <1>3, <1>4, <1>5, SumSame, SumZero
<1>10. PICK z \in Int, y \in Int : /\ z = SumFunctionOnSet(Weights(q), rest)
                                   /\ y = SumFunctionOnSet(Weights(q), gone)
  <2>1. SumFunctionOnSet(Weights(q), rest) \in Nat /\ SumFunctionOnSet(Weights(q), gone) \in Nat
    BY WeightsType
  <2>2. QED
    BY <2>1
<1>11. Popped(gone, s, n) = y + s * n /\ BytesIn(Sizes) = SumFunctionOnSet(Weights(q), Sizes)
  BY <1>2, <1>10 DEF Popped, BytesIn, Weights
<1>12. Weights(q)[s] \in Int
  BY <1>3
<1>13. QED
  BY <1>6, <1>8, <1>9, <1>10, <1>11, <1>12

\* An empty pool holds no bytes.
LEMMA InitAccounted == Init => Accounted
<1>1. SUFFICES ASSUME Init PROVE Accounted
  OBVIOUS
<1>2. Owned
  BY <1>1, InitOwned
<1>3. \A s \in Sizes : free[s] = <<>>
  BY <1>1, Zenon DEF Init
<1>4. free \in FreeLists
  BY <1>2 DEF Owned, TypeOK, FreeLists
<1>5. \A s \in Sizes : s * Len(free[s]) = 0
  BY <1>3, SizesPositive
<1>6. BytesIn(Sizes) = 0
  BY <1>5, PoolAssumption, SumZero DEF BytesIn
<1>7. QED
  BY <1>1, <1>2, <1>6, PoolAssumption DEF Accounted, BytesAccounted, Init

\* Where only the counts of the free-list matter: steps that leave it alone.
LEMMA AccountUnchanged ==
  ASSUME Accounted, Owned', UNCHANGED <<free, pooled_bytes, high_water_bytes, cap_bytes>>
  PROVE  Accounted'
  BY DEF Accounted, BytesAccounted, BytesIn

\* A take subtracts the size of the buffer it pops.
LEMMA TakeAccounted ==
  ASSUME Accounted, Owned', NEW s \in Sizes, AllocPooled(s)
  PROVE  Accounted'
<1>1. CASE TakeHit(s)
  <2>1. PICK q \in FreeLists, r \in FreeLists : q = free /\ r = free'
    BY DEF Accounted, Owned, TypeOK, FreeLists
  <2>2. /\ q[s] \in Seq(Buffers) /\ Len(q[s]) > 0 /\ r = [q EXCEPT ![s] = SubSeq(@, 1, Len(q[s]) - 1)]
        /\ pooled_bytes' = pooled_bytes - s /\ high_water_bytes' = high_water_bytes
        /\ cap_bytes' = cap_bytes
    BY <1>1, <2>1 DEF TakeHit, AllocPooled, FreeLists
  <2>3. Len(q[s]) \in Nat /\ Len(r[s]) = Len(q[s]) - 1
    <3>1. Len(q[s]) \in Nat /\ Len(q[s]) - 1 \in 0..Len(q[s]) /\ q[s] \in Seq(Buffers)
      BY <2>2, LenProperties
    <3>2. r[s] = SubSeq(q[s], 1, Len(q[s]) - 1)
      BY <2>2 DEF FreeLists
    <3>3. QED
      BY <3>1, <3>2, PopProperties
  <2>4. \A x \in Sizes : x # s => r[x] = q[x]
    BY <2>2 DEF FreeLists
  <2>5. SumFunctionOnSet(Weights(r), Sizes) =
          SumFunctionOnSet(Weights(q), Sizes) + s * Len(r[s]) - s * Len(q[s])
    BY <2>4, BytesMove
  <2>6. s \in Nat /\ s * Len(r[s]) = s * Len(q[s]) - s
        /\ s * Len(q[s]) \in Int /\ s * Len(r[s]) \in Int
    <3>1. s * (Len(q[s]) - 1) = s * Len(q[s]) - s * 1 /\ s * Len(q[s]) \in Int /\ s \in Nat
      BY <2>3, SizesPositive, Distributes
    <3>2. QED
      BY <2>3, <3>1
  <2>7. /\ BytesIn(Sizes) = SumFunctionOnSet(Weights(q), Sizes)
        /\ BytesIn(Sizes)' = SumFunctionOnSet(Weights(r), Sizes)
        /\ SumFunctionOnSet(Weights(q), Sizes) \in Nat
    BY <2>1, WeightsType DEF BytesIn, Weights
  <2>8. BytesIn(Sizes)' = BytesIn(Sizes) - s
    <3>1. PICK i \in Int, j \in Int : i = s * Len(q[s]) /\ j = s * Len(r[s])
      BY <2>6
    <3>2. BytesIn(Sizes)' = BytesIn(Sizes) + j - i
      BY <2>5, <2>7, <3>1
    <3>3. j = i - s /\ s \in Int
      BY <2>6, <3>1
    <3>4. BytesIn(Sizes) \in Int
      BY <2>7
    <3>5. QED
      BY <3>2, <3>3, <3>4
  <2>9. QED
    BY <2>2, <2>6, <2>7, <2>8 DEF Accounted, BytesAccounted, Owned, TypeOK
<1>2. CASE TakeMiss(s) \/ TakeFails(s)
  BY <1>2, AccountUnchanged DEF TakeMiss, TakeFails, AllocPooled
<1>3. QED
  BY <1>1, <1>2 DEF AllocPooled

\* A give adds the size of the buffer it pushes, or drops it.
LEMMA GiveAccounted ==
  ASSUME Accounted, Owned', NEW b \in Buffers, handle[b] # "none", UNCHANGED cap_bytes,
         Give(b, tag[b])
  PROVE  Accounted'
<1>1. CASE Release(b)
  BY <1>1, AccountUnchanged DEF Release, counters
<1>2. CASE ~Release(b)
  <2>1. PICK q \in FreeLists, r \in FreeLists, s \in Sizes : q = free /\ r = free' /\ s = tag[b]
    BY DEF Accounted, Owned, TypeOK, ExactSize, FreeLists
  <2>2. /\ r = [q EXCEPT ![s] = Append(@, b)]
        /\ pooled_bytes' = pooled_bytes + s /\ pooled_bytes + s <= cap_bytes
        /\ high_water_bytes' = Larger(high_water_bytes, pooled_bytes + s)
    BY <1>2, <2>1 DEF Give
  <2>3. q[s] \in Seq(Buffers) /\ Len(q[s]) \in Nat /\ Len(r[s]) = Len(q[s]) + 1
    BY <2>1, <2>2, LenProperties, PushProperties DEF FreeLists
  <2>4. \A x \in Sizes : x # s => r[x] = q[x]
    BY <2>2 DEF FreeLists
  <2>5. SumFunctionOnSet(Weights(r), Sizes) =
          SumFunctionOnSet(Weights(q), Sizes) + s * Len(r[s]) - s * Len(q[s])
    BY <2>4, BytesMove
  <2>6. s \in Nat /\ s * Len(q[s]) = s * Len(r[s]) - s /\ s * Len(q[s]) \in Int /\ s * Len(r[s]) \in Int
    <3>1. /\ s * (Len(r[s]) - 1) = s * Len(r[s]) - s * 1
          /\ s * Len(q[s]) \in Int /\ s * Len(r[s]) \in Int /\ s \in Nat
      BY <2>3, SizesPositive, Distributes
    <3>2. QED
      BY <2>3, <3>1
  <2>7. /\ BytesIn(Sizes) = SumFunctionOnSet(Weights(q), Sizes)
        /\ BytesIn(Sizes)' = SumFunctionOnSet(Weights(r), Sizes)
        /\ SumFunctionOnSet(Weights(q), Sizes) \in Nat
    BY <2>1, WeightsType DEF BytesIn, Weights
  <2>8. BytesIn(Sizes)' = BytesIn(Sizes) + s
    <3>1. PICK i \in Int, j \in Int : i = s * Len(q[s]) /\ j = s * Len(r[s])
      BY <2>6
    <3>2. BytesIn(Sizes)' = BytesIn(Sizes) + j - i
      BY <2>5, <2>7, <3>1
    <3>3. i = j - s /\ s \in Int
      BY <2>6, <3>1
    <3>4. BytesIn(Sizes) \in Int
      BY <2>7
    <3>5. QED
      BY <3>2, <3>3, <3>4
  <2>9. BytesAccounted'
    <3>1. PICK p, h : p = pooled_bytes /\ h = high_water_bytes
      OBVIOUS
    <3>2. p = BytesIn(Sizes) /\ p \in Nat /\ h \in Nat /\ s \in Nat
      BY <2>6, <2>7, <3>1 DEF Accounted, BytesAccounted
    <3>3. /\ pooled_bytes' = p + s /\ p + s <= cap_bytes
          /\ high_water_bytes' = Larger(h, p + s)
      BY <2>2, <3>1
    <3>4. p + s <= Larger(h, p + s)
      BY ONLY <3>2 DEF Larger
    <3>5. QED
      BY <2>8, <3>2, <3>3, <3>4 DEF BytesAccounted
  <2>10. high_water_bytes' \in Nat
    BY <2>2, <2>6, <2>7 DEF Accounted, BytesAccounted, Larger
  <2>11. QED
    BY <2>9, <2>10 DEF Accounted
<1>3. QED
  BY <1>1, <1>2

\* set_cap never subtracts more than is pooled, and stops at the new ceiling.
LEMMA SetCapAccounted ==
  ASSUME Accounted, Owned', NEW c \in Caps, SetCap(c)
  PROVE  Accounted'
<1>1. cap_bytes' = c /\ c \in Nat /\ high_water_bytes' = high_water_bytes
  BY PoolAssumption DEF SetCap
<1>2. CASE UNCHANGED <<free, pooled_bytes, len>> /\ pooled_bytes <= c
  BY <1>1, <1>2 DEF Accounted, BytesAccounted, BytesIn
<1>3. CASE ~UNCHANGED <<free, pooled_bytes, len>>
  <2>1. PICK gone \in SUBSET Sizes, s \in Sizes : s \notin gone /\ \E n \in 1..Len(free[s]) :
           /\ free' = Cut(gone, s, n)
           /\ pooled_bytes' = pooled_bytes - Popped(gone, s, n)
           /\ pooled_bytes - Popped(gone, s, n) <= c
    BY <1>3, SetCapCuts
  <2>2. PICK n \in 1..Len(free[s]) :
           /\ free' = Cut(gone, s, n)
           /\ pooled_bytes' = pooled_bytes - Popped(gone, s, n)
           /\ pooled_bytes - Popped(gone, s, n) <= c
    BY <2>1
  <2>3. PICK r \in FreeLists, q \in FreeLists : r = free' /\ q = free
    BY DEF Accounted, Owned, TypeOK, FreeLists
  <2>4. /\ Popped(gone, s, n) \in Int
        /\ SumFunctionOnSet(Weights(r), Sizes) = BytesIn(Sizes) - Popped(gone, s, n)
    BY <2>1, <2>2, <2>3, BytesCut DEF Accounted, Owned
  <2>5. /\ BytesIn(Sizes)' = SumFunctionOnSet(Weights(r), Sizes)
        /\ SumFunctionOnSet(Weights(r), Sizes) \in Nat
        /\ BytesIn(Sizes) \in Nat
    BY <2>3, WeightsType DEF BytesIn, Weights
  <2>6. BytesIn(Sizes)' <= BytesIn(Sizes)
    <3>1. BytesIn(Sizes)' = BytesIn(Sizes) - Popped(gone, s, n)
      BY <2>4, <2>5
    <3>2. Popped(gone, s, n) >= 0
      <4>1. PICK y \in Nat : y = SumFunctionOnSet(Weights(q), gone)
        BY WeightsType
      <4>2. Popped(gone, s, n) = y + s * n
        BY <2>3, <4>1 DEF Popped, BytesIn, Weights
      <4>3. s \in Nat /\ n \in Nat
        BY SizesPositive
      <4>4. s * n \in Nat
        BY <4>3
      <4>5. QED
        BY <4>1, <4>2, <4>4
    <3>3. QED
      BY <2>4, <2>5, <3>1, <3>2
  <2>7. QED
    BY <1>1, <2>2, <2>4, <2>5, <2>6 DEF Accounted, BytesAccounted
<1>4. QED
  BY <1>2, <1>3 DEF SetCap

\* A pool that is dropped is not counted any more.
LEMMA TearDownAccounted ==
  ASSUME Accounted, Owned', TearDown
  PROVE  Accounted'
<1>1. /\ pooled_bytes' = 0 /\ cap_bytes' = cap_bytes /\ high_water_bytes' = high_water_bytes
      /\ free' = [s \in Sizes |-> <<>>]
  BY DEF TearDown
<1>2. \A s \in Sizes : free'[s] = <<>>
  BY <1>1, Zenon
<1>3. \A s \in Sizes : s * Len(free'[s]) = 0
  BY <1>2, SizesPositive
<1>4. BytesIn(Sizes)' = 0
  BY <1>3, PoolAssumption, SumZero DEF BytesIn
<1>5. QED
  BY <1>1, <1>4 DEF Accounted, BytesAccounted, Owned, TypeOK

\* Every step keeps the account.
LEMMA NextAccounted == Accounted /\ Owned' /\ [Next]_vars => Accounted'
<1>1. SUFFICES ASSUME Accounted, Owned', [Next]_vars PROVE Accounted'
  OBVIOUS
<1>2. ASSUME NEW b \in Buffers, Wrap(b) PROVE Accounted'
  BY <1>1, <1>2, AccountUnchanged DEF Wrap, counters
<1>3. ASSUME NEW b \in Buffers, DropRaw(b) PROVE Accounted'
  BY <1>1, <1>3, AccountUnchanged DEF DropRaw, Release, counters
<1>4. ASSUME NEW b \in Buffers, DropPooled(b) PROVE Accounted'
  <2>1. CASE Release(b)
    BY <1>1, <1>4, <2>1, AccountUnchanged DEF DropPooled, Release, counters
  <2>2. CASE Give(b, tag[b])
    BY <1>1, <1>4, <2>2, GiveAccounted DEF DropPooled
  <2>3. QED
    BY <1>4, <2>1, <2>2 DEF DropPooled
<1>5. CASE UNCHANGED vars
  BY <1>1, <1>5, AccountUnchanged DEF vars
<1>6. QED
  BY <1>1, <1>2, <1>3, <1>4, <1>5, TakeAccounted, SetCapAccounted, TearDownAccounted DEF Next

\* The account is an invariant.
LEMMA AlwaysAccounted == Spec => []Accounted
<1>1. QED
  BY InitAccounted, NextAccounted, AlwaysOwned, PTL DEF Spec

\* The running byte count is the sum over the free-list in every reachable
\* state, so no subtraction of it wraps; it stays under its peak and the cap.
THEOREM PoolBytesAccounted == Spec => []BytesAccounted
<1>1. Accounted => BytesAccounted
  BY DEF Accounted
<1>2. QED
  BY <1>1, AlwaysAccounted, PTL

\* EvictsToFit: a lowered cap releases buffers only of a pool that exceeds it, and
\* no more in the bucket popped last than it forces: one more there would exceed
\* the cap.  The other buckets are emptied or left alone.
THEOREM PoolEvictsToFit == Spec => EvictsToFit
<1>1. ASSUME Accounted, Accounted', [Next]_vars, cap_bytes' # cap_bytes, pooled_bytes' # pooled_bytes
      PROVE  /\ pooled_bytes > cap_bytes'
             /\ \E s \in Sizes : /\ Len(free'[s]) < Len(free[s])
                                 /\ pooled_bytes' + s > cap_bytes'
                                 /\ \A t \in Sizes \ {s} : free'[t] \in {<<>>, free[t]}
  <2>1. PICK c \in Caps : SetCap(c)
    BY <1>1 DEF Next, vars, AllocPooled, Wrap, DropRaw, DropPooled, TearDown
  <2>2. cap_bytes' = c /\ c \in Nat /\ ~UNCHANGED <<free, pooled_bytes, len>>
    BY <1>1, <2>1, PoolAssumption DEF SetCap
  <2>3. PICK gone \in SUBSET Sizes, s \in Sizes : s \notin gone /\ \E n \in 1..Len(free[s]) :
           /\ free' = Cut(gone, s, n)
           /\ pooled_bytes' = pooled_bytes - Popped(gone, s, n)
           /\ pooled_bytes - Popped(gone, s, n - 1) > c
    BY <2>1, <2>2, SetCapCuts
  <2>4. PICK n \in 1..Len(free[s]) :
           /\ free' = Cut(gone, s, n)
           /\ pooled_bytes' = pooled_bytes - Popped(gone, s, n)
           /\ pooled_bytes - Popped(gone, s, n - 1) > c
    BY <2>3
  <2>5. PICK q \in FreeLists : q = free
    BY <1>1 DEF Accounted, Owned, TypeOK, FreeLists
  <2>6. PICK y \in Nat : y = BytesIn(gone)
    BY <2>5, WeightsType DEF BytesIn, Weights
  <2>7. q[s] \in Seq(Buffers) /\ Len(q[s]) \in Nat /\ n \in Int /\ s \in Nat
    BY <2>5, LenProperties, SizesPositive DEF FreeLists
  <2>8. s * (n - 1) = s * n - s /\ s * n \in Int
    <3>1. s * (n - 1) = s * n - s * 1 /\ s * n \in Int
      BY <2>7, Distributes
    <3>2. QED
      BY <2>7, <3>1
  <2>9. Popped(gone, s, n) = y + s * n /\ Popped(gone, s, n - 1) = y + s * n - s
    BY <2>6, <2>7, <2>8 DEF Popped
  <2>10. pooled_bytes \in Int
    BY <1>1, <2>5, WeightsType DEF Accounted, BytesAccounted, BytesIn, Weights
  <2>11. pooled_bytes' + s > c
    BY <2>4, <2>7, <2>8, <2>9, <2>10
  <2>12. Len(free'[s]) < Len(free[s])
    <3>1. free'[s] = SubSeq(q[s], 1, Len(q[s]) - n)
      BY <2>3, <2>4, <2>5 DEF Cut
    <3>2. Len(q[s]) - n \in 0..Len(q[s])
      BY <2>5, <2>7
    <3>3. Len(free'[s]) = Len(q[s]) - n
      BY <2>7, <3>1, <3>2, PopProperties
    <3>4. QED
      BY <2>5, <2>7, <3>3
  <2>13. pooled_bytes > c
    BY <2>1, <2>2, SetCapCuts
  <2>14. \A t \in Sizes \ {s} : free'[t] \in {<<>>, free[t]}
    BY <2>4 DEF Cut
  <2>15. QED
    BY <2>2, <2>11, <2>12, <2>13, <2>14
<1>2. Accounted /\ Accounted' /\ [Next]_vars =>
        [ (cap_bytes' # cap_bytes /\ pooled_bytes' # pooled_bytes) =>
            /\ pooled_bytes > cap_bytes'
            /\ \E s \in Sizes : /\ Len(free'[s]) < Len(free[s])
                                /\ pooled_bytes' + s > cap_bytes'
                                /\ \A t \in Sizes \ {s} : free'[t] \in {<<>>, free[t]} ]_vars
  BY <1>1
<1>3. QED
  BY <1>2, AlwaysAccounted, PTL DEF Spec, EvictsToFit
=============================================================================
