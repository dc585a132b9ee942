------------------------- MODULE EvalScheduleProofs -------------------------
(***************************************************************************)
(* Theorems about EvalSchedule, for every graph, chunk size and bound: the *)
(* types, the schedule (ScheduleSound), its levels (WavesInOrder) and,     *)
(* where no slice_update is empty, the elided barriers (ElisionProven).    *)
(***************************************************************************)
EXTENDS EvalSchedule, SequencesExt, FiniteSetTheorems, SequenceTheorems, TLAPS

-----------------------------------------------------------------------------
\* Numbers and sequences.

\* A non-empty set of naturals has a least element.
LEMMA LeastNatural ==
  ASSUME NEW T \in SUBSET Nat, T # {}
  PROVE  \E n \in T : \A m \in T : n <= m
<1>1. IsWellFoundedOn(OpToRel(<, Nat), Nat)
  BY NatLessThanWellFounded
<1>2. PICK n \in T : \A m \in T : ~(<<m, n>> \in OpToRel(<, Nat))
  BY <1>1, WFMin
<1>3. \A m \in T : ~(m < n)
  <2>1. \A m \in T : <<m, n>> \in Nat \X Nat
    OBVIOUS
  <2>2. QED
    BY <1>2, <2>1, Zenon DEF OpToRel
<1>4. QED
  BY <1>3

\* A non-empty set of naturals below a bound has a greatest element.
LEMMA MaxBounded ==
  ASSUME NEW S \in SUBSET Nat, S # {}, NEW b \in Nat, \A x \in S : x <= b
  PROVE  Max(S) \in S /\ \A x \in S : x <= Max(S)
<1>1. PICK U \in SUBSET Nat : U = {u \in Nat : \A x \in S : x <= u}
  OBVIOUS
<1>2. PICK u \in U : \A v \in U : u <= v
  BY <1>1, LeastNatural
<1>3. u \in S
  <2>1. SUFFICES ASSUME u \notin S PROVE FALSE
    OBVIOUS
  <2>2. \A x \in S : x <= u - 1 /\ u - 1 \in Nat
    BY <1>1, <2>1
  <2>3. u - 1 \in U
    BY <1>1, <2>2
  <2>4. QED
    BY <1>1, <1>2, <2>3
<1>4. \E x \in S : \A y \in S : x >= y
  BY <1>1, <1>3
<1>5. QED
  BY <1>4 DEF Max

\* The items of a queue: what its places hold.
LEMMA ItemsTyped ==
  ASSUME NEW T, NEW q \in Seq(T)
  PROVE  /\ DOMAIN q = 1..Len(q) /\ Len(q) \in Nat
         /\ ToSet(q) \subseteq T /\ \A i \in 1..Len(q) : q[i] \in ToSet(q)
         /\ q = <<>> <=> ToSet(q) = {}
<1>1. DOMAIN q = 1..Len(q) /\ Len(q) \in Nat
  OBVIOUS
<1>2. ToSet(q) \subseteq T /\ \A i \in 1..Len(q) : q[i] \in ToSet(q)
  BY DEF ToSet
<1>3. ASSUME q # <<>> PROVE ToSet(q) # {}
  <2>1. 1 \in DOMAIN q
    BY <1>1, <1>3
  <2>2. QED
    BY <2>1 DEF ToSet
<1>4. ToSet(<<>>) = {}
  BY DEF ToSet
<1>5. QED
  BY <1>1, <1>2, <1>3, <1>4

\* Append adds one item, at the end.
LEMMA AppendItems ==
  ASSUME NEW T, NEW q \in Seq(T), NEW x \in T
  PROVE  /\ Append(q, x) \in Seq(T) /\ Len(Append(q, x)) = Len(q) + 1
         /\ ToSet(Append(q, x)) = ToSet(q) \cup {x}
         /\ IsInjective(q) /\ x \notin ToSet(q) => IsInjective(Append(q, x))
         /\ Append(q, x)[Len(q) + 1] = x /\ \A i \in 1..Len(q) : Append(q, x)[i] = q[i]
<1>1. PICK a : a = Append(q, x)
  OBVIOUS
<1>2. /\ a \in Seq(T) /\ Len(a) = Len(q) + 1 /\ Len(q) \in Nat
      /\ DOMAIN a = 1..Len(a) /\ DOMAIN q = 1..Len(q)
      /\ a[Len(q) + 1] = x /\ \A i \in 1..Len(q) : a[i] = q[i]
  BY <1>1
<1>3. ToSet(a) = ToSet(q) \cup {x}
  BY <1>2 DEF ToSet
<1>4. ASSUME IsInjective(q), x \notin ToSet(q) PROVE IsInjective(a)
  <2>1. \A i \in 1..Len(q) : q[i] # x
    BY <1>2, <1>4 DEF ToSet
  <2>2. QED
    BY <1>2, <1>4, <2>1 DEF IsInjective
<1>5. QED
  BY <1>1, <1>2, <1>3, <1>4

\* Concatenation joins the items.
LEMMA ConcatItems ==
  ASSUME NEW T, NEW q \in Seq(T), NEW r \in Seq(T)
  PROVE  /\ q \o r \in Seq(T)
         /\ ToSet(q \o r) = ToSet(q) \cup ToSet(r)
         /\ IsInjective(q) /\ IsInjective(r) /\ ToSet(q) \cap ToSet(r) = {} =>
              IsInjective(q \o r)
<1>1. PICK a : a = q \o r
  OBVIOUS
<1>2. /\ a \in Seq(T) /\ Len(a) = Len(q) + Len(r) /\ Len(q) \in Nat /\ Len(r) \in Nat
      /\ DOMAIN a = 1..Len(a) /\ DOMAIN q = 1..Len(q) /\ DOMAIN r = 1..Len(r)
      /\ \A i \in 1..Len(a) : a[i] = IF i <= Len(q) THEN q[i] ELSE r[i - Len(q)]
  BY <1>1
<1>3. \A i \in 1..Len(r) : Len(q) + i \in 1..Len(a) /\ a[Len(q) + i] = r[i]
  BY <1>2
<1>4. ToSet(a) = ToSet(q) \cup ToSet(r)
  <2>1. ToSet(a) \subseteq ToSet(q) \cup ToSet(r)
    <3>1. SUFFICES ASSUME NEW i \in 1..Len(a) PROVE a[i] \in ToSet(q) \cup ToSet(r)
      BY <1>2 DEF ToSet
    <3>2. CASE i <= Len(q)
      <4>1. i \in DOMAIN q /\ a[i] = q[i]
        BY <1>2, <3>2
      <4>2. QED
        BY <4>1 DEF ToSet
    <3>3. CASE ~(i <= Len(q))
      <4>1. i - Len(q) \in 1..Len(r) /\ a[i] = r[i - Len(q)]
        BY <1>2, <3>3
      <4>2. QED
        BY <1>2, <4>1 DEF ToSet
    <3>4. QED
      BY <3>2, <3>3
  <2>2. ToSet(q) \subseteq ToSet(a)
    BY <1>2 DEF ToSet
  <2>3. ToSet(r) \subseteq ToSet(a)
    <3>1. SUFFICES ASSUME NEW i \in 1..Len(r) PROVE r[i] \in ToSet(a)
      BY <1>2 DEF ToSet
    <3>2. Len(q) + i \in DOMAIN a /\ a[Len(q) + i] = r[i]
      BY <1>2, <1>3
    <3>3. QED
      BY <3>2 DEF ToSet
  <2>4. QED
    BY <2>1, <2>2, <2>3
<1>5. ASSUME IsInjective(q), IsInjective(r), ToSet(q) \cap ToSet(r) = {}
      PROVE  IsInjective(a)
  <2>1. \A i \in 1..Len(q) : \A j \in 1..Len(r) : q[i] # r[j]
    BY <1>2, <1>5 DEF ToSet
  <2>2. SUFFICES ASSUME NEW i \in 1..Len(a), NEW j \in 1..Len(a), a[i] = a[j] PROVE i = j
    BY <1>2 DEF IsInjective
  <2>3. \A k \in 1..Len(a) : IF k <= Len(q) THEN k \in 1..Len(q) /\ a[k] = q[k]
                             ELSE k - Len(q) \in 1..Len(r) /\ a[k] = r[k - Len(q)]
    BY <1>2
  <2>4. CASE i <= Len(q) /\ j <= Len(q)
    BY <1>2, <1>5, <2>2, <2>3, <2>4 DEF IsInjective
  <2>5. CASE ~(i <= Len(q)) /\ ~(j <= Len(q))
    <3>1. PICK x \in DOMAIN r : x = i - Len(q) /\ a[i] = r[x]
      BY <1>2, <2>3, <2>5
    <3>2. PICK y \in DOMAIN r : y = j - Len(q) /\ a[j] = r[y]
      BY <1>2, <2>3, <2>5
    <3>3. x = y
      BY <1>5, <2>2, <3>1, <3>2 DEF IsInjective
    <3>4. QED
      BY <1>2, <3>1, <3>2, <3>3
  <2>6. CASE ~(i <= Len(q) <=> j <= Len(q))
    BY <2>1, <2>2, <2>3, <2>6
  <2>7. QED
    BY <2>4, <2>5, <2>6
<1>6. QED
  BY <1>1, <1>2, <1>4, <1>5

\* The head is an item; when no item stands twice, the tail holds the others.
LEMMA TailItems ==
  ASSUME NEW T, NEW q \in Seq(T), q # <<>>
  PROVE  /\ Head(q) \in ToSet(q) /\ Head(q) \in T /\ Tail(q) \in Seq(T)
         /\ IsInjective(q) => /\ IsInjective(Tail(q))
                              /\ ToSet(Tail(q)) = ToSet(q) \ {Head(q)}
<1>1. PICK t : t = Tail(q)
  OBVIOUS
<1>2. /\ t \in Seq(T) /\ Len(t) = Len(q) - 1 /\ Len(q) \in Nat \ {0}
      /\ DOMAIN t = 1..Len(t) /\ DOMAIN q = 1..Len(q)
      /\ \A i \in 1..Len(t) : t[i] = q[i + 1] /\ i + 1 \in 1..Len(q)
      /\ Head(q) = q[1] /\ 1 \in 1..Len(q)
  BY <1>1
<1>3. Head(q) \in ToSet(q) /\ Head(q) \in T
  BY <1>2 DEF ToSet
<1>4. ASSUME IsInjective(q)
      PROVE  IsInjective(t) /\ ToSet(t) = ToSet(q) \ {Head(q)}
  <2>1. IsInjective(t)
    <3>1. SUFFICES ASSUME NEW i \in 1..Len(t), NEW j \in 1..Len(t), t[i] = t[j] PROVE i = j
      BY <1>2 DEF IsInjective
    <3>2. PICK x \in DOMAIN q : x = i + 1 /\ t[i] = q[x]
      BY <1>2
    <3>3. PICK y \in DOMAIN q : y = j + 1 /\ t[j] = q[y]
      BY <1>2
    <3>4. x = y
      BY <1>4, <3>1, <3>2, <3>3 DEF IsInjective
    <3>5. QED
      BY <1>2, <3>2, <3>3, <3>4
  <2>2. \A i \in 1..Len(q) : i # 1 => i - 1 \in 1..Len(t) /\ q[i] = t[i - 1]
    BY <1>2
  <2>3. \A i \in 1..Len(t) : t[i] # q[1]
    BY <1>2, <1>4 DEF IsInjective
  <2>4. ToSet(t) \subseteq ToSet(q) \ {q[1]}
    BY <1>2, <2>3 DEF ToSet
  <2>5. ToSet(q) \ {q[1]} \subseteq ToSet(t)
    <3>1. SUFFICES ASSUME NEW i \in 1..Len(q), i # 1 PROVE q[i] \in ToSet(t)
      BY <1>2 DEF ToSet
    <3>2. i - 1 \in DOMAIN t /\ q[i] = t[i - 1]
      BY <1>2, <2>2, <3>1
    <3>3. QED
      BY <3>2 DEF ToSet
  <2>6. QED
    BY <1>2, <2>1, <2>4, <2>5
<1>5. QED
  BY <1>1, <1>2, <1>3, <1>4

\* The last item and the ones in front of it.
LEMMA FrontItems ==
  ASSUME NEW T, NEW q \in Seq(T), q # <<>>
  PROVE  /\ Last(q) \in T /\ Front(q) \in Seq(T)
         /\ ToSet(q) = ToSet(Front(q)) \cup {Last(q)}
<1>1. PICK f : f = Front(q)
  OBVIOUS
<1>2. /\ f \in Seq(T) /\ Len(f) = Len(q) - 1 /\ Len(q) \in Nat \ {0}
      /\ DOMAIN f = 1..Len(f) /\ DOMAIN q = 1..Len(q)
      /\ \A i \in 1..Len(f) : f[i] = q[i] /\ i \in 1..Len(q)
      /\ Last(q) = q[Len(q)] /\ Len(q) \in 1..Len(q)
  <2>1. Len(q) \in Nat \ {0} /\ DOMAIN q = 1..Len(q)
    OBVIOUS
  <2>2. f = SubSeq(q, 1, Len(q) - 1) /\ Last(q) = q[Len(q)]
    BY <1>1 DEF Front, Last
  <2>3. f \in Seq(T) /\ Len(f) = Len(q) - 1 /\ \A i \in 1..Len(f) : f[i] = q[i]
    BY <2>1, <2>2, SubSeqProperties
  <2>4. QED
    BY <2>1, <2>2, <2>3
<1>3. \A i \in 1..Len(q) : i # Len(q) => i \in 1..Len(f)
  BY <1>2
<1>4. ToSet(q) = ToSet(f) \cup {Last(q)}
  BY <1>2, <1>3 DEF ToSet
<1>5. Last(q) \in T
  BY <1>2
<1>6. QED
  BY <1>1, <1>2, <1>4, <1>5

\* What is appended lies behind what was there.
LEMMA AppendedItems ==
  ASSUME NEW T, NEW q \in Seq(T), NEW k \in Nat, NEW r \in [1..k -> T]
  PROVE  /\ q \o r \in Seq(T) /\ Len(q \o r) = Len(q) + k /\ Len(q) \in Nat
         /\ DOMAIN (q \o r) = 1..(Len(q) + k) /\ DOMAIN q = 1..Len(q)
         /\ \A i \in 1..Len(q) : (q \o r)[i] = q[i]
         /\ \A i \in 1..(Len(q) + k) : i \notin 1..Len(q) =>
              i - Len(q) \in 1..k /\ (q \o r)[i] = r[i - Len(q)]
<1>1. r \in Seq(T) /\ Len(r) = k
  OBVIOUS
<1>2. PICK a : a = q \o r
  OBVIOUS
<1>3. /\ a \in Seq(T) /\ Len(a) = Len(q) + k /\ Len(q) \in Nat
      /\ \A i \in 1..Len(a) : a[i] = IF i <= Len(q) THEN q[i] ELSE r[i - Len(q)]
  BY <1>1, <1>2, ConcatProperties
<1>4. DOMAIN a = 1..(Len(q) + k) /\ DOMAIN q = 1..Len(q)
  BY <1>3
<1>5. \A i \in 1..(Len(q) + k) : i \notin 1..Len(q) => i - Len(q) \in 1..k /\ ~(i <= Len(q))
  BY <1>3
<1>6. QED
  BY <1>2, <1>3, <1>4, <1>5

-----------------------------------------------------------------------------
\* The component.

\* f solves the recursion of Picked up to position k.
Picks(q, P, k, f) ==
  f = [i \in 0..k |-> IF i = 0 THEN <<>>
                      ELSE IF i \in P THEN Append(f[i - 1], q[i])
                      ELSE f[i - 1]]

\* The recursion of Picked has a solution: no k is the least without one.
LEMMA PicksExist ==
  ASSUME NEW q, NEW P
  PROVE  \A k \in Nat : \E f : Picks(q, P, k, f)
<1>1. PICK Q \in SUBSET Nat : Q = {k \in Nat : ~ \E f : Picks(q, P, k, f)}
  OBVIOUS
<1>2. SUFFICES ASSUME NEW k \in Q, \A j \in Q : k <= j PROVE FALSE
  BY <1>1, LeastNatural
<1>3. CASE k = 0
  <2>1. Picks(q, P, 0, [i \in 0..0 |-> <<>>])
    BY DEF Picks
  <2>2. QED
    BY <1>1, <1>3, <2>1
<1>4. CASE k # 0
  <2>1. PICK j \in Nat : k = j + 1
    BY <1>1, <1>4
  <2>2. PICK f : Picks(q, P, j, f)
    BY <1>1, <1>2, <2>1
  <2>3. PICK h : h = [i \in 0..k |-> IF i # k THEN f[i]
                                     ELSE IF k \in P THEN Append(f[j], q[k]) ELSE f[j]]
    OBVIOUS
  <2>4. \A i \in 0..j : h[i] = f[i]
    BY <2>1, <2>3
  <2>5. \A i \in 0..k : h[i] = IF i = 0 THEN <<>>
                               ELSE IF i \in P THEN Append(h[i - 1], q[i]) ELSE h[i - 1]
    <3>1. SUFFICES ASSUME NEW i \in 0..k
                   PROVE  h[i] = IF i = 0 THEN <<>>
                                 ELSE IF i \in P THEN Append(h[i - 1], q[i]) ELSE h[i - 1]
      OBVIOUS
    <3>2. CASE i = k
      BY <2>1, <2>3, <2>4, <3>2
    <3>3. CASE i # k
      <4>1. i \in 0..j /\ (i # 0 => i - 1 \in 0..j)
        BY <2>1, <3>3
      <4>2. f[i] = IF i = 0 THEN <<>>
                   ELSE IF i \in P THEN Append(f[i - 1], q[i]) ELSE f[i - 1]
        BY <2>2, <4>1 DEF Picks
      <4>3. QED
        BY <2>4, <4>1, <4>2
    <3>4. QED
      BY <3>2, <3>3
  <2>6. Picks(q, P, k, h)
    BY <2>3, <2>5 DEF Picks
  <2>7. QED
    BY <1>1, <2>6
<1>5. QED
  BY <1>3, <1>4

\* Picked(q, P) holds the items of q at the positions in P, each as often as q.
LEMMA PickedFacts ==
  ASSUME NEW T, NEW q \in Seq(T), NEW P \in SUBSET (1..Len(q))
  PROVE  /\ Picked(q, P) \in Seq(T)
         /\ ToSet(Picked(q, P)) = {q[i] : i \in P}
         /\ IsInjective(q) => IsInjective(Picked(q, P))
<1> DEFINE Good(s, k) == /\ s \in Seq(T)
                         /\ ToSet(s) = {q[i] : i \in P \cap (1..k)}
                         /\ IsInjective(q) => IsInjective(s)
<1>1. PICK f : Picks(q, P, Len(q), f) /\ Picked(q, P) = f[Len(q)]
  <2>1. \E f : Picks(q, P, Len(q), f)
    BY PicksExist
  <2>2. Picked(q, P) = (CHOOSE f : Picks(q, P, Len(q), f))[Len(q)]
    BY DEF Picked, Picks
  <2>3. QED
    BY <2>1, <2>2
<1>2. \A i \in 0..Len(q) : f[i] = IF i = 0 THEN <<>>
                                  ELSE IF i \in P THEN Append(f[i - 1], q[i]) ELSE f[i - 1]
  BY <1>1 DEF Picks
<1>3. Good(f[0], 0)
  <2>1. f[0] = <<>>
    BY <1>2
  <2>2. P \cap (1..0) = {}
    OBVIOUS
  <2>3. f[0] \in Seq(T) /\ IsInjective(f[0]) /\ ToSet(f[0]) = {}
    BY <2>1 DEF ToSet, IsInjective
  <2>4. QED
    BY <2>2, <2>3
<1>4. ASSUME NEW k \in 1..Len(q), Good(f[k - 1], k - 1) PROVE Good(f[k], k)
  <2>1. PICK s : s = f[k - 1]
    OBVIOUS
  <2>2. Good(s, k - 1)
    BY <1>4, <2>1
  <2>3. CASE k \notin P
    <3>1. P \cap (1..k) = P \cap (1..(k - 1)) /\ f[k] = s
      BY <1>2, <2>1, <2>3
    <3>2. QED
      BY <2>2, <3>1
  <2>4. CASE k \in P
    <3>1. f[k] = Append(s, q[k]) /\ q[k] \in T /\ s \in Seq(T)
      <4>1. k \in 0..Len(q) /\ k # 0 /\ q[k] \in T
        OBVIOUS
      <4>2. f[k] = Append(f[k - 1], q[k])
        BY <1>2, <2>4, <4>1
      <4>3. QED
        BY <2>1, <2>2, <4>1, <4>2
    <3>2. PICK a : a = Append(s, q[k])
      OBVIOUS
    <3>3. /\ a \in Seq(T) /\ Len(a) = Len(s) + 1 /\ Len(s) \in Nat
          /\ DOMAIN a = 1..Len(a) /\ DOMAIN s = 1..Len(s)
          /\ a[Len(s) + 1] = q[k] /\ \A i \in 1..Len(s) : a[i] = s[i]
      BY <3>1, <3>2
    <3>4. ToSet(a) = ToSet(s) \cup {q[k]}
      BY <3>3 DEF ToSet
    <3>5. ToSet(a) = {q[i] : i \in P \cap (1..k)}
      <4>1. P \cap (1..k) = (P \cap (1..(k - 1))) \cup {k}
        BY <2>4
      <4>2. QED
        BY <2>2, <3>4, <4>1
    <3>6. ASSUME IsInjective(q) PROVE IsInjective(a)
      <4>1. q[k] \notin ToSet(s)
        <5>1. \A i \in P \cap (1..(k - 1)) : q[i] # q[k]
          BY <3>6 DEF IsInjective
        <5>2. QED
          BY <2>2, <5>1
      <4>2. IsInjective(s) /\ \A i \in 1..Len(s) : s[i] # q[k]
        BY <2>2, <3>3, <3>6, <4>1 DEF ToSet
      <4>3. QED
        BY <3>3, <4>2 DEF IsInjective
    <3>7. QED
      BY <3>1, <3>2, <3>3, <3>5, <3>6
  <2>5. QED
    BY <2>3, <2>4
<1>5. \A k \in 0..Len(q) : Good(f[k], k)
  <2> HIDE DEF Good
  <2>1. PICK Q \in SUBSET Nat : Q = {k \in Nat : k <= Len(q) /\ ~Good(f[k], k)}
    OBVIOUS
  <2>2. SUFFICES ASSUME NEW k \in Q, \A j \in Q : k <= j PROVE FALSE
    <3>1. SUFFICES ASSUME NEW i \in 0..Len(q), ~Good(f[i], i) PROVE FALSE
      OBVIOUS
    <3>2. i \in Q
      BY <2>1, <3>1
    <3>3. \E k \in Q : \A j \in Q : k <= j
      BY <3>2, LeastNatural
    <3>4. QED
      BY <3>3
  <2>3. k # 0 /\ k \in 1..Len(q) /\ k - 1 \in 0..Len(q)
    BY <1>3, <2>1
  <2>4. Good(f[k - 1], k - 1)
    BY <2>1, <2>2, <2>3
  <2>5. QED
    BY <1>4, <2>1, <2>3, <2>4
<1>6. Good(f[Len(q)], Len(q))
  <2> HIDE DEF Good
  <2> QED BY <1>5
<1>7. P \cap (1..Len(q)) = P
  OBVIOUS
<1>8. QED
  BY <1>1, <1>6, <1>7
-----------------------------------------------------------------------------
(***************************************************************************)
(* The inductive invariant.                                                *)
(***************************************************************************)
\* The graph a client built: inputs come before the ops that read them.
GraphOK == /\ kind \in [Nodes -> Kinds]
           /\ ins \in [Nodes -> Seq(Nat)]
           /\ \A n \in Nodes : /\ Len(ins[n]) <= MaxInputs
                               /\ \A i \in 1..Len(ins[n]) : ins[n][i] \in 0..(n - 1)

\* The walk: what is discovered or on the stack is what the root needs, and the
\* producers of a discovered op have been pushed.
Seen == ToSet(nodes) \cup ToSet(stack)
Walked == /\ IsInjective(nodes)
          /\ Root \in Seen /\ Seen \subseteq Reachable
          /\ \A n \in ToSet(nodes) : Producers(n) \subseteq Seen
          /\ phase # "discover" => stack = <<>>

\* Emitted, waiting in the wave, or in the next one: each op once.
Released == ToSet(order) \cup ToSet(wave) \cup ToSet(next)
Queues == /\ IsInjective(order) /\ IsInjective(wave) /\ IsInjective(next)
          /\ ToSet(order) \cap ToSet(wave) = {}
          /\ ToSet(order) \cap ToSet(next) = {}
          /\ ToSet(wave) \cap ToSet(next) = {}
          /\ Released \subseteq ToSet(nodes)
          /\ phase = "discover" => Released = {}
          /\ wave = <<>> => next = <<>>
          /\ phase \in {"encode", "done"} => wave = <<>>

\* The producers op c still waits for.
Held(c) == Producers(c) \ ToSet(order)

\* The in-degree counts them, and an op without any is released.
Counted == phase # "discover" =>
             \A c \in ToSet(nodes) : /\ indegree[c] = Cardinality(Held(c))
                                     /\ Held(c) = {} <=> c \in Released

\* Every op comes after its producers.
Sorted == \A i, j \in DOMAIN order : order[i] \in Producers(order[j]) => i < j

\* The wave is of one level, the next of the one above, what is emitted not above.
Leveled == /\ WavesInOrder
           /\ Released # {} => \E k \in Nat : /\ \A n \in ToSet(order) : Level[n] <= k
                                              /\ \A n \in ToSet(wave) : Level[n] = k
                                              /\ \A n \in ToSet(next) : Level[n] = k + 1

\* The open encoder, and the barriers in it.
Counters == chunk \in Nat /\ epoch \in Nat

\* Without empty updates, the dispatches so far, and the buffers written since the last barrier.
Logged == /\ elide = FALSE
          /\ \A i \in DOMAIN log : /\ log[i].chunk <= chunk
                                   /\ log[i].chunk = chunk => log[i].epoch <= epoch
                                   /\ log[i].chunk = chunk /\ log[i].epoch = epoch =>
                                        Out(log[i]) \in unsynced
          /\ ElisionProven

IInv == /\ TypeOK /\ GraphOK /\ Walked /\ Queues /\ Counted /\ Sorted /\ Leveled
        /\ Counters
-----------------------------------------------------------------------------
(***************************************************************************)
(* What the operators of EvalSchedule compute on such a graph.             *)
(***************************************************************************)
\* The inputs of an op are smaller than it; its producers are ops, at most MaxInputs.
LEMMA ProducersBelow ==
  ASSUME GraphOK, NEW n \in Nodes
  PROVE  /\ Producers(n) \subseteq 1..(n - 1) /\ Producers(n) \subseteq Nodes
         /\ n \in Nat /\ n <= MaxNodes
         /\ IsFiniteSet(Producers(n)) /\ Cardinality(Producers(n)) \in 0..MaxInputs
<1>1. PICK q : q = ins[n]
  OBVIOUS
<1>2. /\ q \in Seq(Nat) /\ Len(q) \in 0..MaxInputs /\ DOMAIN q = 1..Len(q)
      /\ \A i \in 1..Len(q) : q[i] \in 0..(n - 1)
      /\ Producers(n) = {q[i] : i \in 1..Len(q)} \ {0}
      /\ n \in Nat /\ n <= MaxNodes /\ MaxNodes \in Nat
  <2>1. n \in 1..MaxNodes /\ MaxNodes \in Nat /\ MaxInputs \in Nat
    BY ScheduleAssumption DEF Nodes
  <2>2. q \in Seq(Nat) /\ Len(q) <= MaxInputs /\ \A i \in 1..Len(q) : q[i] \in 0..(n - 1)
    BY <1>1 DEF GraphOK
  <2>3. DOMAIN q = 1..Len(q) /\ Len(q) \in Nat
    BY <2>2
  <2>4. Producers(n) = {q[i] : i \in 1..Len(q)} \ {0}
    BY <1>1, <2>3 DEF Producers, Inputs, ToSet
  <2>5. QED
    BY <2>1, <2>2, <2>3, <2>4
<1>3. Producers(n) \subseteq 1..(n - 1) /\ Producers(n) \subseteq Nodes
  BY <1>2 DEF Nodes
<1>4. /\ IsFiniteSet({q[i] : i \in 1..Len(q)})
      /\ Cardinality({q[i] : i \in 1..Len(q)}) <= Len(q)
  <2>1. IsFiniteSet(1..Len(q)) /\ Cardinality(1..Len(q)) = Len(q)
    <3>1. PICK l \in Nat : l = Len(q)
      <4>1. Len(q) \in Nat
        BY <1>2
      <4>2. QED
        BY <4>1
    <3>2. IsFiniteSet(1..l) /\ Cardinality(1..l) = IF 1 > l THEN 0 ELSE l - 1 + 1
      BY FS_Interval
    <3>3. QED
      BY <3>1, <3>2
  <2>2. PICK f : f = [i \in 1..Len(q) |-> q[i]]
    OBVIOUS
  <2>3. f \in Surjection(1..Len(q), {q[i] : i \in 1..Len(q)})
    BY <2>2 DEF Surjection
  <2>4. QED
    BY <2>1, <2>3, FS_Surjection
<1>5. /\ IsFiniteSet(Producers(n))
      /\ Cardinality(Producers(n)) <= Cardinality({q[i] : i \in 1..Len(q)})
  BY <1>2, <1>4, FS_Subset
<1>6. Cardinality(Producers(n)) \in Nat /\ Cardinality({q[i] : i \in 1..Len(q)}) \in Nat
  BY <1>4, <1>5, FS_CardinalityType
<1>7. Cardinality(Producers(n)) \in 0..MaxInputs
  <2>1. PICK c : c = Cardinality(Producers(n))
    OBVIOUS
  <2>2. PICK d : d = Cardinality({q[i] : i \in 1..Len(q)})
    OBVIOUS
  <2>3. c \in Nat /\ d \in Nat /\ c <= d /\ d <= Len(q) /\ Len(q) \in 0..MaxInputs /\ MaxInputs \in Nat
    BY <1>2, <1>4, <1>5, <1>6, <2>1, <2>2, ScheduleAssumption
  <2>4. c \in 0..MaxInputs
    BY <2>3
  <2>5. QED
    BY <2>1, <2>4
<1>8. QED
  BY <1>2, <1>3, <1>5, <1>7

\* f solves the recursion of Level for the ops up to k.
Depths(k, f) ==
  f = [n \in 1..k |-> IF Producers(n) = {} THEN 0
                      ELSE 1 + Max({f[m] : m \in Producers(n)})]

\* In a graph whose edges go back, every node has a depth.
LEMMA DepthsExist ==
  ASSUME GraphOK
  PROVE  \A k \in 0..MaxNodes : \E f : Depths(k, f)
<1>1. PICK Q \in SUBSET Nat : Q = {k \in Nat : k <= MaxNodes /\ ~ \E f : Depths(k, f)}
  OBVIOUS
<1>2. SUFFICES ASSUME NEW k \in Q, \A j \in Q : k <= j PROVE FALSE
  <2>1. SUFFICES ASSUME NEW i \in 0..MaxNodes, ~ \E f : Depths(i, f) PROVE FALSE
    OBVIOUS
  <2>2. i \in Q
    BY <1>1, <2>1, ScheduleAssumption
  <2>3. \E j \in Q : \A i_1 \in Q : j <= i_1
    BY <2>2, LeastNatural
  <2>4. QED
    BY <2>3
<1>3. CASE k = 0
  <2>1. Depths(0, [n \in 1..0 |-> 0])
    BY DEF Depths
  <2>2. QED
    BY <1>1, <1>3, <2>1
<1>4. CASE k # 0
  <2>1. PICK j \in Nat : k = j + 1 /\ k \in Nat /\ k <= MaxNodes /\ MaxNodes \in Nat
    BY <1>1, <1>4, ScheduleAssumption
  <2>2. PICK f : Depths(j, f)
    BY <1>1, <1>2, <2>1, ScheduleAssumption
  <2>3. PICK h : h = [n \in 1..k |-> IF n # k THEN f[n]
                                     ELSE IF Producers(k) = {} THEN 0
                                     ELSE 1 + Max({f[m] : m \in Producers(k)})]
    OBVIOUS
  <2>4. \A n \in 1..j : h[n] = f[n]
    BY <2>1, <2>3
  <2>5. ASSUME NEW n \in 1..k
        PROVE  h[n] = IF Producers(n) = {} THEN 0 ELSE 1 + Max({h[m] : m \in Producers(n)})
    <3>1. n \in Nodes /\ n \in Nat
      BY <2>1 DEF Nodes
    <3>2. Producers(n) \subseteq 1..j
      <4>1. Producers(n) \subseteq 1..(n - 1)
        BY <3>1, ProducersBelow
      <4>2. QED
        BY <2>1, <3>1, <4>1
    <3>3. {h[m] : m \in Producers(n)} = {f[m] : m \in Producers(n)}
      BY <2>4, <3>2
    <3>4. CASE n = k
      BY <2>3, <3>3, <3>4
    <3>5. CASE n # k
      <4>1. n \in 1..j
        BY <2>1, <3>5
      <4>2. f[n] = IF Producers(n) = {} THEN 0 ELSE 1 + Max({f[m] : m \in Producers(n)})
        BY <2>2, <4>1 DEF Depths
      <4>3. QED
        BY <2>4, <3>3, <4>1, <4>2
    <3>6. QED
      BY <3>4, <3>5
  <2>6. Depths(k, h)
    BY <2>3, <2>5 DEF Depths
  <2>7. QED
    BY <1>1, <2>6
<1>5. QED
  BY <1>3, <1>4

\* Level satisfies its recursion equation.
LEMMA LevelEquation ==
  ASSUME GraphOK, NEW n \in Nodes
  PROVE  Level[n] = IF Producers(n) = {} THEN 0
                    ELSE 1 + Max({Level[m] : m \in Producers(n)})
<1>1. \E f : Depths(MaxNodes, f)
  BY DepthsExist, ScheduleAssumption
<1>2. Level = CHOOSE f : Depths(MaxNodes, f)
  BY DEF Level, Depths, Nodes
<1>3. Depths(MaxNodes, Level)
  BY <1>1, <1>2
<1>4. QED
  BY <1>3 DEF Depths, Nodes

\* The level of an op is a number.
LEMMA LevelBounded ==
  ASSUME GraphOK
  PROVE  \A n \in Nodes : Level[n] \in 0..n
<1>1. PICK Q \in SUBSET Nat : Q = {n \in Nat : n \in Nodes /\ Level[n] \notin 0..n}
  OBVIOUS
<1>2. SUFFICES ASSUME NEW n \in Q, \A m \in Q : n <= m PROVE FALSE
  <2>1. SUFFICES ASSUME NEW m \in Nodes, Level[m] \notin 0..m PROVE FALSE
    OBVIOUS
  <2>2. m \in Q
    BY <1>1, <2>1 DEF Nodes
  <2>3. \E i \in Q : \A j \in Q : i <= j
    BY <2>2, LeastNatural
  <2>4. QED
    BY <2>3
<1>3. n \in Nodes /\ n \in Nat /\ Level[n] \notin 0..n
  BY <1>1
<1>4. Producers(n) # {}
  BY <1>3, LevelEquation
<1>5. PICK S : S = {Level[m] : m \in Producers(n)}
  OBVIOUS
<1>6. \A m \in Producers(n) : Level[m] \in 0..(n - 1)
  <2>1. SUFFICES ASSUME NEW m \in Producers(n) PROVE Level[m] \in 0..(n - 1)
    OBVIOUS
  <2>2. m \in Nodes /\ m \in 1..(n - 1)
    BY <1>3, ProducersBelow
  <2>3. Level[m] \in 0..m
    BY <1>1, <1>2, <1>3, <2>2
  <2>4. QED
    BY <1>3, <2>2, <2>3
<1>7. S \in SUBSET Nat /\ S # {} /\ n - 1 \in Nat /\ \A x \in S : x <= n - 1
  BY <1>3, <1>4, <1>5, <1>6
<1>8. PICK x \in S : x = Max(S)
  BY <1>7, MaxBounded
<1>9. Level[n] = 1 + x
  BY <1>3, <1>4, <1>5, <1>8, LevelEquation
<1>10. QED
  BY <1>3, <1>7, <1>8, <1>9

\* An op is one level above the highest of its producers.
LEMMA LevelAbove ==
  ASSUME GraphOK, NEW n \in Nodes, NEW p \in Producers(n), NEW k \in Nat,
         Level[p] = k, \A m \in Producers(n) : Level[m] <= k
  PROVE  Level[n] = k + 1
<1>1. PICK S : S = {Level[m] : m \in Producers(n)}
  OBVIOUS
<1>2. \A m \in Producers(n) : m \in Nodes
  BY ProducersBelow
<1>3. S \in SUBSET Nat /\ k \in S /\ \A x \in S : x <= k
  BY <1>1, <1>2, LevelBounded DEF Nodes
<1>4. PICK y \in S : y = Max(S) /\ \A x \in S : x <= y
  BY <1>3, MaxBounded
<1>5. y = k
  BY <1>3, <1>4
<1>6. Level[n] = 1 + y
  BY <1>1, <1>4, LevelEquation
<1>7. QED
  BY <1>5, <1>6
-----------------------------------------------------------------------------
\* Reachable is the least set with the root that is closed under producers.
LEMMA ReachableClosed ==
  ASSUME GraphOK
  PROVE  /\ Root \in Reachable /\ Reachable \subseteq Nodes
         /\ \A n \in Reachable : Producers(n) \subseteq Reachable
         /\ \A S \in SUBSET Nodes : Root \in S /\ (\A m \in S : Producers(m) \subseteq S)
                                      => Reachable \subseteq S
<1>1. Root \in Nodes
  BY ScheduleAssumption DEF Root, Nodes
<1>2. Root \in Reachable /\ Reachable \subseteq Nodes
  BY <1>1 DEF Reachable
<1>3. ASSUME NEW n \in Reachable, NEW p \in Producers(n) PROVE p \in Reachable
  <2>1. n \in Nodes /\ p \in Nodes
    BY <1>2, <1>3, ProducersBelow
  <2>2. ASSUME NEW S \in SUBSET Nodes, Root \in S, \A m \in S : Producers(m) \subseteq S
        PROVE  p \in S
    BY <1>3, <2>2 DEF Reachable
  <2>3. QED
    BY <2>1, <2>2 DEF Reachable
<1>4. ASSUME NEW S \in SUBSET Nodes, Root \in S, \A m \in S : Producers(m) \subseteq S
      PROVE  Reachable \subseteq S
  BY <1>4 DEF Reachable
<1>5. QED
  BY <1>2, <1>3, <1>4

\* Deps lists the producers of an op.
LEMMA DepsItems ==
  ASSUME GraphOK, NEW n \in Nodes
  PROVE  Deps(n) \in Seq(Nodes) /\ ToSet(Deps(n)) = Producers(n)
<1>1. PICK q \in Seq(Nat) : q = ins[n]
  BY DEF GraphOK
<1>2. PICK P \in SUBSET (1..Len(q)) :
        P = {i \in 1..Len(q) : q[i] # 0 /\ \A j \in 1..(i - 1) : q[j] # q[i]}
  OBVIOUS
<1>3. Deps(n) = Picked(q, P) /\ Producers(n) = {q[i] : i \in 1..Len(q)} \ {0}
  <2>1. DOMAIN q = 1..Len(q)
    OBVIOUS
  <2>2. QED
    BY <1>1, <1>2, <2>1 DEF Deps, Producers, Inputs, ToSet
<1>4. Deps(n) \in Seq(Nat) /\ ToSet(Deps(n)) = {q[i] : i \in P}
  BY <1>3, PickedFacts
<1>5. {q[i] : i \in P} \subseteq Producers(n)
  BY <1>2, <1>3
<1>6. Producers(n) \subseteq {q[i] : i \in P}
  <2>1. SUFFICES ASSUME NEW k \in 1..Len(q), q[k] # 0 PROVE q[k] \in {q[i] : i \in P}
    BY <1>3
  <2>2. PICK Q \in SUBSET Nat : Q = {i \in Nat : i \in 1..Len(q) /\ q[i] = q[k]}
    OBVIOUS
  <2>3. k \in Q
    BY <2>2
  <2>4. PICK i \in Q : \A j \in Q : i <= j
    BY <2>3, LeastNatural
  <2>5. ASSUME NEW j \in 1..(i - 1) PROVE q[j] # q[i]
    <3>1. j \in 1..Len(q) /\ j < i /\ j \in Nat /\ i \in Nat
      BY <2>2
    <3>2. j \notin Q
      BY <2>4, <3>1
    <3>3. QED
      BY <2>2, <3>1, <3>2
  <2>6. i \in P /\ q[i] = q[k]
    BY <1>2, <2>1, <2>2, <2>5
  <2>7. QED
    BY <2>6
<1>7. Producers(n) \subseteq Nodes
  BY ProducersBelow
<1>8. Deps(n) \in Seq(Nodes)
  <2>1. PICK d : d = Deps(n)
    OBVIOUS
  <2>2. \A i \in 1..Len(d) : d[i] \in Nodes
    BY <1>4, <1>5, <1>7, <2>1, ItemsTyped
  <2>3. QED
    BY <1>4, <2>1, <2>2
<1>9. QED
  BY <1>4, <1>5, <1>6, <1>8
-----------------------------------------------------------------------------
(***************************************************************************)
(* The invariant is inductive.                                             *)
(***************************************************************************)
LEMMA InitInvariant == Init => IInv
<1>1. SUFFICES ASSUME Init PROVE IInv
  OBVIOUS
<1>2. GraphOK
  <2>1. kind \in [Nodes -> Kinds] /\ ins \in [Nodes -> BoundedSeqOver(0..(MaxNodes - 1))]
    BY <1>1 DEF Init
  <2>2. \A q \in BoundedSeqOver(0..(MaxNodes - 1)) :
          q \in Seq(Nat) /\ Len(q) <= MaxInputs /\ DOMAIN q = 1..Len(q)
    <3>1. SUFFICES ASSUME NEW k \in 0..MaxInputs, NEW q \in [1..k -> 0..(MaxNodes - 1)]
                   PROVE  q \in Seq(Nat) /\ Len(q) <= MaxInputs /\ DOMAIN q = 1..Len(q)
      BY DEF BoundedSeqOver
    <3>2. k \in Nat /\ k <= MaxInputs /\ \A i \in 1..k : q[i] \in Nat
      BY ScheduleAssumption
    <3>3. q \in Seq(Nat) /\ Len(q) = k /\ DOMAIN q = 1..k
      BY <3>2
    <3>4. QED
      BY <3>2, <3>3
  <2>3. \A n \in Nodes : \A i \in DOMAIN ins[n] : ins[n][i] \in Nat /\ ins[n][i] < n /\ n \in Nat
    <3>1. \A n \in Nodes : ins[n] \in Seq(Nat) /\ n \in Nat
      BY <2>1, <2>2 DEF Nodes
    <3>2. \A n \in Nodes : \A i \in DOMAIN ins[n] : ins[n][i] < n
      BY <1>1 DEF Init
    <3>3. QED
      BY <3>1, <3>2
  <2>4. \A n \in Nodes : \A i \in DOMAIN ins[n] : ins[n][i] \in 0..(n - 1)
    BY <2>3
  <2>5. \A n \in Nodes : ins[n] \in Seq(Nat) /\ Len(ins[n]) <= MaxInputs
                         /\ DOMAIN ins[n] = 1..Len(ins[n])
    BY <2>1, <2>2
  <2>6. \A n \in Nodes : \A i \in 1..Len(ins[n]) : ins[n][i] \in 0..(n - 1)
    BY <2>4, <2>5
  <2>7. ins \in [Nodes -> Seq(Nat)]
    BY <2>1, <2>5
  <2>8. QED
    BY <2>1, <2>5, <2>6, <2>7 DEF GraphOK
<1>3. Root \in Nodes /\ MaxInputs \in Nat
  BY ScheduleAssumption DEF Root, Nodes
<1>4. TypeOK
  <2>1. <<Root>> \in Seq(Nodes) /\ <<>> \in Seq(Nodes)
    BY <1>3
  <2>2. indegree \in [Nodes -> 0..MaxInputs] /\ encoded = 0 /\ Len(order) = 0
    BY <1>1, <1>3 DEF Init
  <2>3. <<>> \in Seq([node : Nodes, chunk : Nat, epoch : Nat])
    OBVIOUS
  <2>4. /\ phase = "discover" /\ stack = <<Root>> /\ nodes = <<>> /\ wave = <<>> /\ next = <<>>
        /\ order = <<>> /\ unsynced = {} /\ elide = FALSE /\ log = <<>>
    BY <1>1 DEF Init
  <2>5. /\ wave \in Seq(Nodes) /\ next \in Seq(Nodes) /\ order \in Seq(Nodes)
        /\ stack \in Seq(Nodes) /\ nodes \in Seq(Nodes)
    BY <2>1, <2>4
  <2>6. log \in Seq([node : Nodes, chunk : Nat, epoch : Nat])
    BY <2>3, <2>4
  <2>7. /\ phase \in {"discover", "levels", "encode", "done"}
        /\ unsynced \subseteq 0..MaxNodes /\ elide \in BOOLEAN
    BY Zenon, <2>4
  <2>8. encoded \in 0..Len(order)
    BY <2>2
  <2>9. QED
    BY Zenon, <2>2, <2>5, <2>6, <2>7, <2>8 DEF TypeOK
<1>5. ToSet(<<>>) = {} /\ ToSet(<<Root>>) = {Root} /\ IsInjective(<<>>)
  BY DEF ToSet, IsInjective
<1>6. Walked
  <2>1. Root \in Reachable
    BY <1>2, ReachableClosed
  <2>2. QED
    BY <1>1, <1>5, <2>1 DEF Init, Walked, Seen
<1>7. Queues /\ Counted
  BY <1>1, <1>5 DEF Init, Queues, Counted, Released
<1>8. Sorted /\ Leveled /\ Counters
  BY <1>1, <1>5 DEF Init, Sorted, Leveled, Released, WavesInOrder, Counters
<1>9. QED
  BY <1>2, <1>4, <1>6, <1>7, <1>8 DEF IInv

\* The reachability pass takes a node off the stack.
LEMMA DiscoverStep == IInv /\ Discover => IInv'
<1>1. SUFFICES ASSUME IInv, Discover PROVE IInv'
  OBVIOUS
<1>2. /\ phase = "discover" /\ phase' = phase
      /\ stack # <<>> /\ stack \in Seq(Nodes) /\ nodes \in Seq(Nodes)
      /\ UNCHANGED <<ins, kind, indegree, wave, next, order, unsynced, elide, encoded, chunk, epoch, log>>
  BY <1>1 DEF Discover, IInv, TypeOK, graph, window
<1>3. GraphOK /\ GraphOK'
  BY <1>1, <1>2 DEF IInv, GraphOK
<1>4. \A n \in Nodes : Producers(n)' = Producers(n)
  BY <1>2 DEF Producers, Inputs
<1>5. Reachable' = Reachable
  BY <1>2 DEF Reachable, Producers, Inputs
<1>6. PICK n \in Nodes : n = Last(stack)
  BY <1>2, FrontItems
<1>7. Front(stack) \in Seq(Nodes) /\ ToSet(stack) = ToSet(Front(stack)) \cup {n}
  BY <1>2, <1>6, FrontItems
<1>8. /\ stack' \in Seq(Nodes) /\ nodes' \in Seq(Nodes) /\ IsInjective(nodes')
      /\ ToSet(nodes') = ToSet(nodes) \cup {n}
      /\ Seen' = Seen \cup Producers(n) \/ (Seen' = Seen /\ n \in ToSet(nodes))
  <2>1. CASE n \in ToSet(nodes)
    <3>1. stack' = Front(stack) /\ nodes' = nodes
      BY <1>1, <1>6, <2>1 DEF Discover
    <3>2. QED
      BY <1>1, <1>2, <1>7, <2>1, <3>1 DEF Seen, IInv, Walked
  <2>2. CASE n \notin ToSet(nodes)
    <3>1. stack' = Front(stack) \o Deps(n) /\ nodes' = Append(nodes, n)
      BY <1>1, <1>6, <2>2 DEF Discover
    <3>2. Deps(n) \in Seq(Nodes) /\ ToSet(Deps(n)) = Producers(n)
      BY <1>3, DepsItems
    <3>3. stack' \in Seq(Nodes) /\ ToSet(stack') = ToSet(Front(stack)) \cup Producers(n)
      BY <1>7, <3>1, <3>2, ConcatItems
    <3>4. IsInjective(nodes)
      BY <1>1 DEF IInv, Walked
    <3>5. /\ nodes' \in Seq(Nodes) /\ IsInjective(nodes')
          /\ ToSet(nodes') = ToSet(nodes) \cup {n}
      BY <1>2, <2>2, <3>1, <3>4, AppendItems
    <3>6. QED
      BY <1>7, <3>3, <3>5 DEF Seen
  <2>3. QED
    BY <2>1, <2>2
<1>9. Walked'
  <2>1. n \in Seen /\ Seen \subseteq Reachable /\ Root \in Seen
    BY <1>1, <1>7 DEF IInv, Walked, Seen
  <2>2. Producers(n) \subseteq Reachable
    BY <1>3, <2>1, ReachableClosed
  <2>3. \A m \in ToSet(nodes) : Producers(m) \subseteq Seen /\ m \in Nodes
    BY <1>1, <1>2, ItemsTyped DEF IInv, Walked
  <2>4. \A m \in ToSet(nodes') : Producers(m) \subseteq Seen' /\ m \in Nodes
    BY <1>8, <2>3
  <2>5. QED
    BY <1>2, <1>4, <1>5, <1>8, <2>1, <2>2, <2>4 DEF Walked
<1>10. TypeOK'
  BY <1>1, <1>2, <1>8 DEF IInv, TypeOK
<1>11. Queues'
  BY <1>1, <1>2, <1>8 DEF IInv, Queues, Released
<1>12. Counted'
  BY <1>2 DEF Counted
<1>13. Sorted' /\ Leveled'
  <2>1. order = <<>> /\ Released' = {} /\ order' = order
    <3>1. Released = {} /\ order \in Seq(Nodes)
      BY <1>1, <1>2 DEF IInv, Queues, TypeOK
    <3>2. QED
      BY <1>2, <3>1, ItemsTyped DEF Released
  <2>2. QED
    BY <2>1 DEF Sorted, Leveled, WavesInOrder
<1>14. Counters'
  BY <1>1, <1>2 DEF IInv, Counters
<1>15. QED
  BY <1>3, <1>9, <1>10, <1>11, <1>12, <1>13, <1>14 DEF IInv

\* The walk is through: the ops without producers form the first wave.
LEMMA StartLevelsStep == IInv /\ StartLevels => IInv'
<1>1. SUFFICES ASSUME IInv, StartLevels PROVE IInv'
  OBVIOUS
<1>2. /\ phase = "discover" /\ phase' = "levels" /\ stack = <<>>
      /\ nodes \in Seq(Nodes) /\ order \in Seq(Nodes)
      /\ indegree' = [n \in Nodes |-> Degree(n)]
      /\ UNCHANGED <<ins, kind, stack, nodes, next, order, unsynced, elide, encoded, chunk, epoch, log>>
  BY <1>1 DEF StartLevels, IInv, TypeOK, graph, window
<1>3. GraphOK /\ GraphOK'
  BY <1>1, <1>2 DEF IInv, GraphOK
<1>4. \A n \in Nodes : Producers(n)' = Producers(n)
  BY <1>2 DEF Producers, Inputs
<1>5. Reachable' = Reachable /\ Level' = Level
  BY <1>2 DEF Reachable, Level, Producers, Inputs
<1>6. ToSet(nodes) \subseteq Nodes /\ DOMAIN nodes = 1..Len(nodes)
  BY <1>2, ItemsTyped
<1>7. /\ ToSet(order) = {} /\ ToSet(next) = {} /\ order = <<>> /\ next = <<>>
      /\ IsInjective(nodes) /\ IsInjective(order) /\ IsInjective(next)
  <2>1. ToSet(order) = {} /\ ToSet(next) = {}
    BY <1>1, <1>2 DEF IInv, Queues, Released
  <2>2. order = <<>> /\ next = <<>>
    BY <1>1, <2>1, ItemsTyped DEF IInv, TypeOK
  <2>3. QED
    BY <1>1, <2>1, <2>2 DEF IInv, Queues, Walked
<1>8. /\ wave' \in Seq(Nodes) /\ IsInjective(wave')
      /\ ToSet(wave') = {c \in ToSet(nodes) : Producers(c) = {}}
  <2>1. PICK P \in SUBSET (1..Len(nodes)) : P = {i \in DOMAIN nodes : Producers(nodes[i]) = {}}
    BY <1>6
  <2>2. wave' = Picked(nodes, P)
    BY <1>1, <2>1 DEF StartLevels
  <2>3. {nodes[i] : i \in P} = {c \in ToSet(nodes) : Producers(c) = {}}
    BY <2>1 DEF ToSet
  <2>4. QED
    BY <1>2, <1>7, <2>2, <2>3, PickedFacts
<1>9. Released' = ToSet(wave')
  BY <1>2, <1>7 DEF Released
<1>10. TypeOK'
  <2>1. indegree' \in [Nodes -> 0..MaxInputs]
    BY <1>2, <1>3, ProducersBelow DEF Degree
  <2>2. QED
    BY <1>1, <1>2, <1>8, <2>1 DEF IInv, TypeOK
<1>11. Walked'
  BY <1>1, <1>2, <1>4, <1>5, <1>6 DEF IInv, Walked, Seen
<1>12. Queues'
  BY <1>2, <1>7, <1>8, <1>9 DEF Queues
<1>13. Counted'
  BY <1>2, <1>4, <1>6, <1>7, <1>8, <1>9 DEF Counted, Held, Degree
<1>14. Sorted' /\ WavesInOrder'
  BY <1>2, <1>7 DEF Sorted, WavesInOrder
<1>15. Leveled'
  <2>1. \A n \in ToSet(wave') : Level'[n] = 0
    BY <1>3, <1>5, <1>6, <1>8, LevelEquation
  <2>2. QED
    BY <1>2, <1>7, <1>14, <2>1 DEF Leveled
<1>16. Counters'
  BY <1>1, <1>2 DEF IInv, Counters
<1>17. QED
  BY <1>3, <1>10, <1>11, <1>12, <1>13, <1>14, <1>15, <1>16 DEF IInv

\* Ready(n) lists the ops that wait for n alone.
LEMMA ReadyItems ==
  ASSUME IInv, phase # "discover", NEW n \in Nodes, n \notin ToSet(order)
  PROVE  /\ Ready(n) \in Seq(Nodes) /\ IsInjective(Ready(n))
         /\ ToSet(Ready(n)) = {c \in ToSet(nodes) : Held(c) = {n}}
<1>1. nodes \in Seq(Nodes) /\ IsInjective(nodes) /\ DOMAIN nodes = 1..Len(nodes)
      /\ ToSet(nodes) \subseteq Nodes
  BY ItemsTyped DEF IInv, TypeOK, Walked
<1>2. ASSUME NEW c \in ToSet(nodes)
      PROVE  Consumes(c, n) /\ indegree[c] = 1 <=> Held(c) = {n}
  <2>1. Held(c) = Producers(c) \ ToSet(order) /\ indegree[c] = Cardinality(Held(c))
    BY DEF IInv, Counted, Held
  <2>2. IsFiniteSet(Held(c))
    <3>1. IsFiniteSet(Producers(c)) /\ Held(c) \subseteq Producers(c)
      BY <1>1, <2>1, ProducersBelow DEF IInv
    <3>2. QED
      BY <3>1, FS_Subset
  <2>3. Consumes(c, n) <=> n \in Held(c)
    BY <2>1 DEF Consumes
  <2>4. Cardinality(Held(c)) = 1 <=> \E x : Held(c) = {x}
    BY <2>2, FS_Singleton
  <2>5. QED
    BY <2>1, <2>3, <2>4
<1>3. PICK P \in SUBSET (1..Len(nodes)) :
        P = {i \in DOMAIN nodes : Consumes(nodes[i], n) /\ indegree[nodes[i]] = 1}
  BY <1>1
<1>4. Ready(n) = Picked(nodes, P)
  BY <1>3 DEF Ready
<1>5. {nodes[i] : i \in P} = {c \in ToSet(nodes) : Held(c) = {n}}
  <2>1. P = {i \in DOMAIN nodes : Held(nodes[i]) = {n}}
    BY <1>2, <1>3 DEF ToSet
  <2>2. QED
    BY <2>1 DEF ToSet
<1>6. QED
  BY <1>1, <1>4, <1>5, PickedFacts

\* The next op of the wave is emitted.
LEMMA EmitStep == IInv /\ Emit => IInv'
<1>1. SUFFICES ASSUME IInv, Emit PROVE IInv'
  OBVIOUS
<1>2. /\ phase = "levels" /\ phase' = phase /\ wave # <<>>
      /\ nodes \in Seq(Nodes) /\ order \in Seq(Nodes)
      /\ wave \in Seq(Nodes) /\ next \in Seq(Nodes)
      /\ UNCHANGED <<ins, kind, stack, nodes, unsynced, elide, encoded, chunk, epoch, log>>
  BY <1>1 DEF Emit, IInv, TypeOK, graph, window
<1>3. GraphOK /\ GraphOK'
  BY <1>1, <1>2 DEF IInv, GraphOK
<1>4. \A n \in Nodes : Producers(n)' = Producers(n)
  BY <1>2 DEF Producers, Inputs
<1>5. Reachable' = Reachable /\ Level' = Level
  BY <1>2 DEF Reachable, Level, Producers, Inputs
<1>6. ToSet(nodes) \subseteq Nodes
  BY <1>2, ItemsTyped
<1>7. PICK n \in Nodes : n = Head(wave)
  BY <1>2, TailItems
<1>8. PICK w : w = Tail(wave)
  OBVIOUS
<1>9. PICK r : r = Ready(n)
  OBVIOUS
<1>10. /\ order' = Append(order, n)
       /\ indegree' = [c \in Nodes |-> IF Consumes(c, n) THEN indegree[c] - 1 ELSE indegree[c]]
       /\ wave' = IF w = <<>> THEN next \o r ELSE w
       /\ next' = IF w = <<>> THEN <<>> ELSE next \o r
  BY <1>1, <1>7, <1>8, <1>9 DEF Emit
<1>11. /\ IsInjective(order) /\ IsInjective(wave) /\ IsInjective(next)
       /\ ToSet(order) \cap ToSet(wave) = {} /\ ToSet(order) \cap ToSet(next) = {}
       /\ ToSet(wave) \cap ToSet(next) = {} /\ Released \subseteq ToSet(nodes)
       /\ Released = ToSet(order) \cup ToSet(wave) \cup ToSet(next)
  BY <1>1 DEF IInv, Queues, Released
<1>12. /\ w \in Seq(Nodes) /\ IsInjective(w) /\ ToSet(w) = ToSet(wave) \ {n}
       /\ n \in ToSet(wave) /\ n \notin ToSet(order) /\ n \in ToSet(nodes)
  BY <1>2, <1>7, <1>8, <1>11, TailItems
<1>13. /\ r \in Seq(Nodes) /\ IsInjective(r)
       /\ ToSet(r) = {c \in ToSet(nodes) : Held(c) = {n}}
  BY <1>1, <1>2, <1>9, <1>12, ReadyItems
<1>14. \A c \in ToSet(nodes) : /\ indegree[c] = Cardinality(Held(c))
                               /\ Held(c) = {} <=> c \in Released
  BY <1>1, <1>2 DEF IInv, Counted
<1>15. ToSet(r) \cap Released = {}
  BY <1>13, <1>14
<1>16. /\ order' \in Seq(Nodes) /\ IsInjective(order') /\ Len(order') = Len(order) + 1
       /\ ToSet(order') = ToSet(order) \cup {n}
       /\ order'[Len(order) + 1] = n /\ \A i \in 1..Len(order) : order'[i] = order[i]
  BY <1>2, <1>10, <1>11, <1>12, AppendItems
<1>17. /\ next \o r \in Seq(Nodes) /\ IsInjective(next \o r)
       /\ ToSet(next \o r) = ToSet(next) \cup ToSet(r)
  BY <1>2, <1>11, <1>13, <1>15, ConcatItems
<1>18. /\ wave' \in Seq(Nodes) /\ next' \in Seq(Nodes)
       /\ IsInjective(wave') /\ IsInjective(next')
       /\ \/ w = <<>> /\ ToSet(wave') = ToSet(next) \cup ToSet(r) /\ next' = <<>>
          \/ w # <<>> /\ ToSet(wave') = ToSet(w) /\ ToSet(next') = ToSet(next) \cup ToSet(r)
  <2>1. <<>> \in Seq(Nodes) /\ IsInjective(<<>>)
    BY DEF IsInjective
  <2>2. QED
    BY <1>10, <1>12, <1>17, <2>1
<1>19. /\ ToSet(<<>>) = {} /\ (w = <<>> <=> ToSet(w) = {}) /\ (wave' = <<>> <=> ToSet(wave') = {})
  BY <1>12, <1>18, ItemsTyped DEF ToSet
<1>20. Released' = Released \cup ToSet(r)
  BY <1>11, <1>12, <1>16, <1>18, <1>19 DEF Released
<1>21. \A c \in Nodes : Held(c)' = Held(c) \ {n}
  BY <1>4, <1>16 DEF Held
<1>22. ASSUME NEW c \in Nodes
       PROVE  /\ IsFiniteSet(Held(c)) /\ Cardinality(Held(c)) \in Nat
              /\ Consumes(c, n) => c \in ToSet(nodes) /\ n \in Held(c) /\ Cardinality(Held(c)) # 0
              /\ c \in ToSet(nodes) => (Consumes(c, n) <=> n \in Held(c))
              /\ Cardinality(Held(c)') = IF n \in Held(c) THEN Cardinality(Held(c)) - 1
                                         ELSE Cardinality(Held(c))
  <2>1. Held(c) = Producers(c) \ ToSet(order)
    BY DEF Held
  <2>2. IsFiniteSet(Held(c)) /\ Cardinality(Held(c)) \in Nat
    <3>1. IsFiniteSet(Producers(c)) /\ Held(c) \subseteq Producers(c)
      BY <1>3, <2>1, ProducersBelow
    <3>2. QED
      BY <3>1, FS_Subset, FS_CardinalityType
  <2>3. Consumes(c, n) <=> c \in ToSet(nodes) /\ n \in Held(c)
    BY <1>12, <2>1 DEF Consumes
  <2>4. Cardinality(Held(c)') = IF n \in Held(c) THEN Cardinality(Held(c)) - 1
                                ELSE Cardinality(Held(c))
    BY <1>21, <2>2, FS_RemoveElement
  <2>5. Held(c) # {} => Cardinality(Held(c)) # 0
    BY <2>2, FS_EmptySet
  <2>6. QED
    BY <2>2, <2>3, <2>4, <2>5
<1>23. Counted'
  <2>1. ASSUME NEW c \in ToSet(nodes) PROVE indegree'[c] = Cardinality(Held(c)')
    <3>1. c \in Nodes
      BY <1>6
    <3>2. indegree'[c] = IF Consumes(c, n) THEN indegree[c] - 1 ELSE indegree[c]
      BY <1>10, <3>1
    <3>3. QED
      BY <1>14, <1>22, <3>1, <3>2
  <2>2. ASSUME NEW c \in ToSet(nodes) PROVE Held(c)' = {} <=> c \in Released'
    BY <1>6, <1>13, <1>14, <1>20, <1>21
  <2>3. QED
    BY <1>2, <2>1, <2>2 DEF Counted
<1>24. indegree' \in [Nodes -> 0..MaxInputs]
  <2>1. SUFFICES ASSUME NEW c \in Nodes
                 PROVE  (IF Consumes(c, n) THEN indegree[c] - 1 ELSE indegree[c]) \in 0..MaxInputs
    BY <1>10
  <2>2. indegree[c] \in 0..MaxInputs /\ MaxInputs \in Nat
    BY <1>1, ScheduleAssumption DEF IInv, TypeOK
  <2>3. Consumes(c, n) => indegree[c] # 0
    BY <1>14, <1>22
  <2>4. QED
    BY <2>2, <2>3
<1>25. TypeOK'
  <2>1. encoded' \in 0..Len(order')
    <3>1. encoded \in 0..Len(order) /\ Len(order) \in Nat
      BY <1>1, <1>2 DEF IInv, TypeOK
    <3>2. QED
      BY <1>2, <1>16, <3>1
  <2>2. QED
    BY <1>1, <1>2, <1>16, <1>18, <1>24, <2>1 DEF IInv, TypeOK
<1>26. Walked'
  BY <1>1, <1>2, <1>4, <1>5, <1>6 DEF IInv, Walked, Seen
<1>27. Queues'
  <2>1. wave' = <<>> => next' = <<>>
    BY <1>18, <1>19
  <2>2. Released' \subseteq ToSet(nodes)
    BY <1>11, <1>13, <1>20
  <2>3. /\ ToSet(order') \cap ToSet(wave') = {}
        /\ ToSet(order') \cap ToSet(next') = {}
        /\ ToSet(wave') \cap ToSet(next') = {}
    BY <1>11, <1>12, <1>15, <1>16, <1>18, <1>19
  <2>4. QED
    BY <1>2, <1>16, <1>18, <2>1, <2>2, <2>3 DEF Queues
<1>28. Sorted'
  <2>1. Held(n) = {} /\ \A j \in 1..Len(order) : Held(order[j]) = {} /\ order[j] \in Nodes
    BY <1>2, <1>11, <1>12, <1>14, ItemsTyped
  <2>2. Producers(n) \subseteq ToSet(order) /\ n \notin Producers(n)
        /\ \A j \in 1..Len(order) : n \notin Producers(order[j])
    BY <1>12, <2>1 DEF Held
  <2>3. DOMAIN order' = 1..(Len(order) + 1) /\ DOMAIN order = 1..Len(order) /\ Len(order) \in Nat
    BY <1>2, <1>16
  <2>4. \A i, j \in 1..Len(order) : order[i] \in Producers(order[j]) => i < j
    BY <1>1, <2>3 DEF IInv, Sorted
  <2>5. SUFFICES ASSUME NEW i \in 1..(Len(order) + 1), NEW j \in 1..(Len(order) + 1),
                        order'[i] \in Producers(order'[j])
                 PROVE  i < j
    <3>1. \A j \in 1..(Len(order) + 1) : order'[j] \in Nodes
      BY <1>16
    <3>2. QED
      BY <1>4, <2>3, <3>1 DEF Sorted
  <2>6. CASE j = Len(order) + 1
    <3>1. i # Len(order) + 1
      BY <1>16, <2>2, <2>5, <2>6
    <3>2. QED
      BY <2>3, <2>6, <3>1
  <2>7. CASE j # Len(order) + 1
    <3>1. j \in 1..Len(order) /\ order'[j] = order[j]
      BY <1>16, <2>3, <2>7
    <3>2. i # Len(order) + 1
      BY <1>16, <2>2, <2>5, <3>1
    <3>3. i \in 1..Len(order) /\ order'[i] = order[i]
      BY <1>16, <2>3, <3>2
    <3>4. QED
      BY <2>4, <2>5, <3>1, <3>3
  <2>8. QED
    BY <2>6, <2>7
<1>29. Leveled'
  <2>1. PICK k \in Nat : /\ \A m \in ToSet(order) : Level[m] <= k
                         /\ \A m \in ToSet(wave) : Level[m] = k
                         /\ \A m \in ToSet(next) : Level[m] = k + 1
    BY <1>1, <1>11, <1>12 DEF IInv, Leveled
  <2>2. Level[n] = k
    BY <1>12, <2>1
  <2>3. ASSUME NEW c \in ToSet(r) PROVE Level[c] = k + 1
    <3>1. c \in Nodes /\ Held(c) = {n} /\ n \in Producers(c)
      BY <1>6, <1>13 DEF Held
    <3>2. \A m \in Producers(c) : Level[m] <= k
      <4>1. \A m \in Producers(c) : m \in ToSet(order) \/ m = n
        BY <3>1 DEF Held
      <4>2. k <= k
        OBVIOUS
      <4>3. QED
        BY <2>1, <2>2, <4>1, <4>2
    <3>3. QED
      BY <1>3, <2>2, <3>1, <3>2, LevelAbove
  <2>4. \A m \in ToSet(order') : Level[m] <= k /\ Level[m] \in Nat
    <3>1. \A m \in Nodes : Level[m] \in Nat
      BY <1>3, LevelBounded DEF Nodes
    <3>2. ToSet(order') \subseteq Nodes
      BY <1>16, ItemsTyped
    <3>3. QED
      BY <1>16, <2>1, <2>2, <3>1, <3>2
  <2>5. WavesInOrder'
    <3>1. DOMAIN order' = 1..(Len(order) + 1) /\ DOMAIN order = 1..Len(order) /\ Len(order) \in Nat
      BY <1>2, <1>16
    <3>2. SUFFICES ASSUME NEW i \in 1..(Len(order) + 1), NEW j \in 1..(Len(order) + 1), i < j
                   PROVE  Level[order'[i]] <= Level[order'[j]]
      BY <1>5, <3>1 DEF WavesInOrder
    <3>3. CASE j = Len(order) + 1
      <4>1. order'[i] \in ToSet(order') /\ order'[j] = n
        BY <1>16, <3>3, ItemsTyped
      <4>2. QED
        BY <2>2, <2>4, <4>1
    <3>4. CASE j # Len(order) + 1
      <4>1. i \in 1..Len(order) /\ j \in 1..Len(order)
        BY <3>1, <3>2, <3>4
      <4>2. Level[order[i]] <= Level[order[j]]
        BY <1>1, <3>1, <3>2, <4>1 DEF IInv, Leveled, WavesInOrder
      <4>3. QED
        BY <1>16, <4>1, <4>2
    <3>5. QED
      BY <3>3, <3>4
  <2>6. CASE w # <<>>
    <3>1. /\ \A m \in ToSet(wave') : Level[m] = k
          /\ \A m \in ToSet(next') : Level[m] = k + 1
      BY <1>12, <1>18, <2>1, <2>3, <2>6
    <3>2. QED
      BY <1>5, <2>4, <2>5, <3>1 DEF Leveled
  <2>7. CASE w = <<>>
    <3>1. /\ \A m \in ToSet(wave') : Level[m] = k + 1
          /\ \A m \in ToSet(next') : Level[m] = k + 1 + 1
          /\ k + 1 \in Nat
      BY <1>18, <1>19, <2>1, <2>3, <2>7
    <3>2. \A m \in ToSet(order') : Level[m] <= k + 1
      BY <2>4
    <3>3. QED
      BY <1>5, <2>5, <3>1, <3>2 DEF Leveled
  <2>8. QED
    BY <2>6, <2>7
<1>30. Counters'
  BY <1>1, <1>2 DEF IInv, Counters
<1>31. QED
  BY <1>3, <1>23, <1>25, <1>26, <1>27, <1>28, <1>29, <1>30 DEF IInv

\* build_order returns the schedule, and encode_ops the handles of its chunks:
\* nothing but the phase changes.
LEMMA PhaseStep == IInv /\ (StartEncode \/ Finish) => IInv'
<1>1. SUFFICES ASSUME IInv, StartEncode \/ Finish PROVE IInv'
  OBVIOUS
<1>2. /\ phase # "discover" /\ phase' \in {"encode", "done"} /\ wave = <<>>
      /\ UNCHANGED <<ins, kind, stack, nodes, indegree, wave, next, order,
                     unsynced, elide, encoded, chunk, epoch, log>>
  BY <1>1 DEF StartEncode, Finish, graph, search, window, IInv, Queues
<1>3. TypeOK' /\ GraphOK' /\ Counters'
  BY <1>1, <1>2 DEF IInv, TypeOK, GraphOK, Counters
<1>4. \A n \in Nodes : Producers(n)' = Producers(n)
  BY <1>2 DEF Producers, Inputs
<1>5. Reachable' = Reachable /\ Level' = Level
  BY <1>2 DEF Reachable, Level, Producers, Inputs
<1>6. ToSet(nodes) \subseteq Nodes /\ DOMAIN order = 1..Len(order) /\ order \in Seq(Nodes)
  BY <1>1, ItemsTyped DEF IInv, TypeOK
<1>7. Walked' /\ Queues'
  BY <1>1, <1>2, <1>4, <1>5, <1>6 DEF IInv, Walked, Queues, Seen, Released
<1>8. Counted'
  BY <1>1, <1>2, <1>4, <1>6 DEF IInv, Counted, Held, Released
<1>9. Sorted'
  BY <1>1, <1>2, <1>4, <1>6 DEF IInv, Sorted
<1>10. Leveled'
  BY <1>1, <1>2, <1>5 DEF IInv, Leveled, WavesInOrder, Released
<1>11. QED
  BY <1>3, <1>7, <1>8, <1>9, <1>10 DEF IInv

\* What encode_ops does to the window and the log, for some number of dispatches.
Encoded(n, here, barriers, before, written, armed, k) ==
  /\ n = order[encoded + 1] /\ k \in Dispatches(n) /\ before \in {0, 1} /\ armed \in BOOLEAN
  /\ \/ here = chunk /\ barriers = epoch /\ written = unsynced
     \/ here = chunk + 1 /\ barriers = 0 /\ written = {}
  /\ before = 0 => armed \/ \A i \in DOMAIN log : log[i].chunk # here
  /\ armed <=> ~Hazard(n, written) \/ (elide /\ here = chunk)
  /\ unsynced' = Window(n, written) /\ chunk' = here
  /\ k = 0 => elide' = armed /\ epoch' = barriers /\ log' = log
  /\ k # 0 => /\ elide' = FALSE /\ epoch' = barriers + before + k - 1
              /\ log' = log \o [i \in 1..k |-> [node |-> n, chunk |-> here,
                                                epoch |-> barriers + before + i - 1]]

\* EncodeOp, said as one of the cases of Encoded.
LEMMA EncodeOpEncodes ==
  ASSUME IInv, EncodeOp
  PROVE  \E n, here, barriers, before, written, armed, k :
           Encoded(n, here, barriers, before, written, armed, k)
<1> DEFINE n == order[encoded + 1]
           fresh == encoded > 0 /\ encoded % ChunkOps = 0
           written == IF fresh THEN {} ELSE unsynced
           here == IF fresh THEN chunk + 1 ELSE chunk
           barriers == IF fresh THEN 0 ELSE epoch
           armed == ~Hazard(n, written) \/ (elide /\ ~fresh)
           first == \A i \in DOMAIN log : log[i].chunk # here
           before == IF armed \/ first THEN 0 ELSE 1
<1>1. /\ unsynced' = Window(n, written) /\ chunk' = here
      /\ \E k \in Dispatches(n) :
           IF k = 0
           THEN elide' = armed /\ epoch' = barriers /\ UNCHANGED log
           ELSE /\ elide' = FALSE /\ epoch' = barriers + before + k - 1
                /\ log' = log \o [i \in 1..k |-> [node |-> n, chunk |-> here,
                                                  epoch |-> barriers + before + i - 1]]
  BY DEF EncodeOp
<1>2. chunk \in Nat /\ (fresh => chunk + 1 # chunk)
  BY DEF IInv, Counters
<1>3. /\ (here = chunk /\ barriers = epoch /\ written = unsynced)
         \/ (here = chunk + 1 /\ barriers = 0 /\ written = {})
      /\ fresh <=> here # chunk
  BY <1>2
<1>4. /\ n = order[encoded + 1] /\ before \in {0, 1} /\ armed \in BOOLEAN
      /\ before = 0 => armed \/ \A i \in DOMAIN log : log[i].chunk # here
      /\ armed <=> ~Hazard(n, written) \/ (elide /\ here = chunk)
  <2> HIDE DEF fresh, written, here, barriers
  <2>1. fresh <=> here # chunk
    BY <1>3
  <2>2. QED
    BY <2>1
<1> HIDE DEF n, fresh, written, here, barriers, armed, first, before
<1>5. PICK k : Encoded(n, here, barriers, before, written, armed, k)
  BY Zenon, <1>1, <1>3, <1>4 DEF Encoded
<1>6. QED
  BY <1>5

\* The types of what encode_ops computes for one op.
LEMMA EncodedTypes ==
  ASSUME IInv, EncodeOp, NEW n, NEW here, NEW barriers, NEW before, NEW written, NEW armed, NEW k,
         Encoded(n, here, barriers, before, written, armed, k)
  PROVE  /\ n \in Nodes /\ n \in Nat /\ k \in Nat /\ here \in Nat /\ barriers \in Nat
         /\ BufferOf(n) \in 0..MaxNodes /\ unsynced' \subseteq 0..MaxNodes
         /\ encoded + 1 \in 1..Len(order) /\ (k = 0 => EmptyUpdates)
         /\ phase' = "encode" /\ encoded' = encoded + 1
         /\ UNCHANGED <<ins, kind, stack, nodes, indegree, wave, next, order>>
<1>1. /\ phase = "encode" /\ encoded < Len(order) /\ phase' = phase /\ encoded' = encoded + 1
      /\ UNCHANGED <<ins, kind, stack, nodes, indegree, wave, next, order>>
  BY DEF EncodeOp, graph, search
<1>2. encoded + 1 \in 1..Len(order) /\ order \in Seq(Nodes)
  BY <1>1 DEF IInv, TypeOK
<1>3. n \in Nodes /\ n \in Nat /\ n <= MaxNodes /\ MaxNodes \in Nat
  BY <1>2, ScheduleAssumption DEF Encoded, Nodes
<1>4. BufferOf(n) \in 0..MaxNodes
  BY <1>3 DEF BufferOf
<1>5. k \in Nat /\ (k = 0 => EmptyUpdates)
  <2>1. ins[n] \in Seq(Nat) /\ kind[n] \in Kinds /\ k \in Dispatches(n)
    BY <1>3 DEF IInv, GraphOK, Encoded
  <2>2. Len(ins[n]) \in Nat /\ (ins[n] # <<>> => Len(ins[n]) # 0)
    BY <2>1
  <2>3. QED
    BY <2>1, <2>2 DEF Dispatches, Kinds
<1>6. here \in Nat /\ barriers \in Nat /\ written \subseteq 0..MaxNodes
  <2>1. chunk \in Nat /\ epoch \in Nat /\ unsynced \subseteq 0..MaxNodes
    BY DEF IInv, Counters, TypeOK
  <2>2. \/ here = chunk /\ barriers = epoch /\ written = unsynced
        \/ here = chunk + 1 /\ barriers = 0 /\ written = {}
    BY DEF Encoded
  <2>3. CASE here = chunk /\ barriers = epoch /\ written = unsynced
    BY <2>1, <2>3
  <2>4. CASE here = chunk + 1 /\ barriers = 0 /\ written = {}
    BY <2>1, <2>4
  <2>5. QED
    BY <2>2, <2>3, <2>4
<1>7. unsynced' \subseteq 0..MaxNodes
  BY <1>4, <1>6 DEF Encoded, Window
<1>8. QED
  BY <1>1, <1>2, <1>3, <1>4, <1>5, <1>6, <1>7

\* The log after the dispatches of one op.
LEMMA EncodedLog ==
  ASSUME IInv, EncodeOp, NEW n, NEW here, NEW barriers, NEW before, NEW written, NEW armed, NEW k,
         Encoded(n, here, barriers, before, written, armed, k), k # 0
  PROVE  /\ log' \in Seq([node : Nodes, chunk : Nat, epoch : Nat])
         /\ DOMAIN log' = 1..(Len(log) + k) /\ DOMAIN log = 1..Len(log) /\ Len(log) \in Nat
         /\ \A i \in 1..Len(log) : log'[i] = log[i]
         /\ \A i \in 1..(Len(log) + k) : i \notin 1..Len(log) =>
              /\ i - Len(log) \in 1..k /\ log'[i].node = n /\ log'[i].chunk = here
              /\ log'[i].epoch = barriers + before + (i - Len(log)) - 1
<1>1. PICK T : T = [node : Nodes, chunk : Nat, epoch : Nat]
  OBVIOUS
<1>2. n \in Nodes /\ k \in Nat /\ here \in Nat /\ barriers \in Nat /\ before \in {0, 1}
  <2>1. n \in Nodes /\ k \in Nat /\ here \in Nat /\ barriers \in Nat
    BY EncodedTypes
  <2>2. before \in {0, 1}
    BY DEF Encoded
  <2>3. QED
    BY <2>1, <2>2
<1>3. PICK r : r = [i \in 1..k |-> [node |-> n, chunk |-> here, epoch |-> barriers + before + i - 1]]
  OBVIOUS
<1>4. r \in [1..k -> T]
  <2>1. \A i \in 1..k : barriers + before + i - 1 \in Nat
    BY <1>2
  <2>2. QED
    BY <1>1, <1>2, <1>3, <2>1
<1>5. log \in Seq(T) /\ log' = log \o r
  BY <1>1, <1>3 DEF IInv, TypeOK, Encoded
<1>6. \A i \in 1..k : /\ r[i].node = n /\ r[i].chunk = here
                      /\ r[i].epoch = barriers + before + i - 1
  BY <1>3
<1>7. /\ log' \in Seq(T) /\ DOMAIN log' = 1..(Len(log) + k)
      /\ DOMAIN log = 1..Len(log) /\ Len(log) \in Nat
      /\ \A i \in 1..Len(log) : log'[i] = log[i]
      /\ \A i \in 1..(Len(log) + k) : i \notin 1..Len(log) =>
           i - Len(log) \in 1..k /\ log'[i] = r[i - Len(log)]
  BY <1>2, <1>4, <1>5, AppendedItems
<1>8. QED
  BY <1>1, <1>6, <1>7

\* encode_ops leaves the schedule alone.
LEMMA EncodeOpStep == IInv /\ EncodeOp => IInv'
<1>1. SUFFICES ASSUME IInv, EncodeOp PROVE IInv'
  OBVIOUS
<1>2. PICK n, here, barriers, before, written, armed, k :
        Encoded(n, here, barriers, before, written, armed, k)
  BY <1>1, EncodeOpEncodes
<1>3. /\ n \in Nodes /\ k \in Nat /\ here \in Nat /\ barriers \in Nat
      /\ unsynced' \subseteq 0..MaxNodes /\ encoded + 1 \in 1..Len(order)
      /\ phase' = "encode" /\ phase = "encode" /\ encoded' = encoded + 1
      /\ UNCHANGED <<ins, kind, stack, nodes, indegree, wave, next, order>>
  BY <1>1, <1>2, EncodedTypes DEF EncodeOp
<1>4. elide' \in BOOLEAN /\ chunk' \in Nat /\ epoch' \in Nat
  <2>1. CASE k = 0
    BY <1>2, <1>3, <2>1 DEF Encoded
  <2>2. CASE k # 0
    <3>1. before \in {0, 1} /\ epoch' = barriers + before + k - 1 /\ elide' = FALSE /\ chunk' = here
      BY <1>2, <2>2 DEF Encoded
    <3>2. PICK j \in Nat : k = j + 1
      BY <1>3, <2>2
    <3>3. PICK b \in Nat : b = barriers + before
      BY <1>3, <3>1
    <3>4. epoch' = b + j
      BY <3>1, <3>2, <3>3
    <3>5. b + j \in Nat
      OBVIOUS
    <3>6. QED
      BY Zenon, <1>3, <3>1, <3>4, <3>5
  <2>3. QED
    BY <2>1, <2>2
<1>5. log' \in Seq([node : Nodes, chunk : Nat, epoch : Nat])
  <2>1. CASE k = 0
    BY <1>1, <1>2, <2>1 DEF IInv, TypeOK, Encoded
  <2>2. CASE k # 0
    BY <1>1, <1>2, <2>2, EncodedLog
  <2>3. QED
    BY <2>1, <2>2
<1>6. GraphOK' /\ Counters'
  BY <1>1, <1>3, <1>4 DEF IInv, GraphOK, Counters
<1>7. TypeOK'
  <2>1. /\ phase' \in {"discover", "levels", "encode", "done"}
        /\ stack' \in Seq(Nodes) /\ nodes' \in Seq(Nodes)
        /\ wave' \in Seq(Nodes) /\ next' \in Seq(Nodes) /\ order' \in Seq(Nodes)
        /\ indegree' \in [Nodes -> 0..MaxInputs]
    BY <1>1, <1>3 DEF IInv, TypeOK
  <2>2. encoded' \in 0..Len(order')
    BY <1>3
  <2>3. QED
    BY Zenon, <1>3, <1>4, <1>5, <2>1, <2>2 DEF TypeOK
<1>8. \A m \in Nodes : Producers(m)' = Producers(m)
  BY <1>3 DEF Producers, Inputs
<1>9. Reachable' = Reachable /\ Level' = Level
  BY <1>3 DEF Reachable, Level, Producers, Inputs
<1>10. ToSet(nodes) \subseteq Nodes /\ DOMAIN order = 1..Len(order) /\ order \in Seq(Nodes)
  BY <1>1, ItemsTyped DEF IInv, TypeOK
<1>11. Walked' /\ Queues'
  BY <1>1, <1>3, <1>8, <1>9, <1>10 DEF IInv, Walked, Queues, Seen, Released
<1>12. Counted'
  BY <1>1, <1>3, <1>8, <1>10 DEF IInv, Counted, Held, Released
<1>13. Sorted'
  BY <1>1, <1>3, <1>8, <1>10 DEF IInv, Sorted
<1>14. Leveled'
  BY <1>1, <1>3, <1>9 DEF IInv, Leveled, WavesInOrder, Released
<1>15. QED
  BY <1>6, <1>7, <1>11, <1>12, <1>13, <1>14 DEF IInv

\* Every step keeps the invariant.
LEMMA NextInvariant == IInv /\ [Next]_vars => IInv'
<1>1. SUFFICES ASSUME IInv, [Next]_vars PROVE IInv'
  OBVIOUS
<1>2. CASE Discover
  BY <1>1, <1>2, DiscoverStep
<1>3. CASE StartLevels
  BY <1>1, <1>3, StartLevelsStep
<1>4. CASE Emit
  BY <1>1, <1>4, EmitStep
<1>5. CASE StartEncode \/ Finish
  BY <1>1, <1>5, PhaseStep
<1>6. CASE EncodeOp
  BY <1>1, <1>6, EncodeOpStep
<1>7. CASE UNCHANGED vars
  <2>1. UNCHANGED <<ins, kind, phase, stack, nodes, indegree, wave, next, order,
                    unsynced, elide, encoded, chunk, epoch, log>>
    BY <1>7 DEF vars, graph, search, window
  <2>2. Reachable' = Reachable /\ Level' = Level
    BY <2>1 DEF Reachable, Level, Producers, Inputs
  <2>3. \A m : Producers(m)' = Producers(m)
    BY <2>1 DEF Producers, Inputs
  <2>4. TypeOK' /\ GraphOK' /\ Walked' /\ Queues' /\ Counters'
    BY <1>1, <2>1, <2>2, <2>3 DEF IInv, TypeOK, GraphOK, Walked, Seen, Queues, Released, Counters
  <2>5. Counted' /\ Sorted' /\ Leveled'
    BY <1>1, <2>1, <2>2, <2>3 DEF IInv, Counted, Held, Sorted, Leveled, WavesInOrder, Released
  <2>6. QED
    BY <2>4, <2>5 DEF IInv
<1>8. QED
  BY <1>1, <1>2, <1>3, <1>4, <1>5, <1>6, <1>7 DEF Next
-----------------------------------------------------------------------------
(***************************************************************************)
(* The theorems.                                                           *)
(***************************************************************************)
LEMMA Invariance == Spec => []IInv
<1>1. Init => IInv
  BY InitInvariant
<1>2. IInv /\ [Next]_vars => IInv'
  BY NextInvariant
<1>3. QED
  BY <1>1, <1>2, PTL DEF Spec

\* TypeOK: the worklists hold ops and in-degrees never go below zero, on every
\* graph (build_order, encode_ops).
THEOREM ScheduleTyped == Spec => []TypeOK
<1>1. IInv => TypeOK
  BY DEF IInv
<1>2. QED
  BY <1>1, Invariance, PTL

\* WavesInOrder: build_order emits level by level, on every graph.
THEOREM ScheduleWavesInOrder == Spec => []WavesInOrder
<1>1. IInv => WavesInOrder
  BY DEF IInv, Leveled
<1>2. QED
  BY <1>1, Invariance, PTL

\* When the wave is empty every discovered op has been emitted: the least one that
\* was not would wait for a smaller one that was not.
LEMMA NothingLeft ==
  ASSUME IInv, phase # "discover", wave = <<>>
  PROVE  ToSet(order) = ToSet(nodes)
<1>1. Released = ToSet(order) /\ Released \subseteq ToSet(nodes)
  <2>1. next = <<>> /\ Released \subseteq ToSet(nodes) /\ ToSet(<<>>) = {}
    BY DEF IInv, Queues, ToSet
  <2>2. QED
    BY <2>1 DEF Released
<1>2. ToSet(nodes) \subseteq Nodes /\ \A n \in ToSet(nodes) : Producers(n) \subseteq ToSet(nodes)
  <2>1. stack = <<>> /\ ToSet(<<>>) = {} /\ nodes \in Seq(Nodes)
    BY DEF IInv, Walked, TypeOK, ToSet
  <2>2. QED
    BY <2>1, ItemsTyped DEF IInv, Walked, Seen
<1>3. PICK Q \in SUBSET Nat : Q = ToSet(nodes) \ ToSet(order)
  <2>1. Nodes \subseteq Nat
    BY DEF Nodes
  <2>2. ToSet(nodes) \ ToSet(order) \in SUBSET Nat
    BY <1>2, <2>1
  <2>3. QED
    BY <2>2
<1>4. SUFFICES ASSUME NEW n \in Q, \A m \in Q : n <= m PROVE FALSE
  BY <1>1, <1>3, LeastNatural
<1>5. n \in Nodes /\ n \in Nat /\ n \in ToSet(nodes)
  BY <1>2, <1>3
<1>6. Producers(n) \subseteq 1..(n - 1)
  BY <1>5, ProducersBelow DEF IInv
<1>7. Held(n) = {}
  <2>1. ASSUME NEW p \in Producers(n) PROVE p \in ToSet(order)
    <3>1. p \in ToSet(nodes) /\ p < n /\ p \in Nat
      BY <1>2, <1>5, <1>6
    <3>2. p \notin Q
      BY <1>4, <1>5, <3>1
    <3>3. QED
      BY <1>3, <3>1, <3>2
  <2>2. QED
    BY <2>1 DEF Held
<1>8. n \in Released
  BY <1>5, <1>7 DEF IInv, Counted
<1>9. QED
  BY <1>1, <1>3, <1>8

\* ScheduleSound: the schedule has every op the root needs, once, each after all
\* of its producers, on every graph (build_order).
THEOREM ScheduleIsSound == Spec => []ScheduleSound
<1>1. IInv => ScheduleSound
  <2>1. SUFFICES ASSUME IInv, phase \in {"encode", "done"}
                 PROVE  /\ ToSet(order) = Reachable /\ Len(order) = Cardinality(Reachable)
                        /\ \A i, j \in DOMAIN order : order[i] \in Producers(order[j]) => i < j
    BY DEF ScheduleSound
  <2>2. wave = <<>> /\ stack = <<>> /\ nodes \in Seq(Nodes) /\ order \in Seq(Nodes)
    BY <2>1 DEF IInv, Queues, Walked, TypeOK
  <2>3. ToSet(order) = ToSet(nodes)
    BY <2>1, <2>2, NothingLeft
  <2>4. ToSet(nodes) = Reachable
    <3>1. Seen = ToSet(nodes)
      BY <2>2 DEF Seen, ToSet
    <3>2. ToSet(nodes) \subseteq Nodes
      BY <2>2, ItemsTyped
    <3>3. /\ Root \in ToSet(nodes) /\ ToSet(nodes) \subseteq Reachable
          /\ \A n \in ToSet(nodes) : Producers(n) \subseteq ToSet(nodes)
      BY <2>1, <3>1 DEF IInv, Walked
    <3>4. QED
      BY <2>1, <3>2, <3>3, ReachableClosed DEF IInv
  <2>5. Len(order) = Cardinality(ToSet(order))
    <3>1. PICK l \in Nat : l = Len(order) /\ DOMAIN order = 1..l
      BY <2>2, ItemsTyped
    <3>2. order \in Injection(1..l, ToSet(order)) /\ order \in Surjection(1..l, ToSet(order))
      BY <2>1, <2>2, <3>1 DEF IInv, Queues, ToSet, Injection, Surjection
    <3>3. ExistsBijection(1..l, ToSet(order))
      BY <3>2 DEF ExistsBijection, Bijection
    <3>4. IsFiniteSet(1..l) /\ Cardinality(1..l) = IF 1 > l THEN 0 ELSE l - 1 + 1
      BY FS_Interval
    <3>5. QED
      BY <3>1, <3>3, <3>4, FS_Bijection
  <2>6. QED
    BY <2>1, <2>3, <2>4, <2>5 DEF IInv, Sorted
<1>2. QED
  BY <1>1, Invariance, PTL
-----------------------------------------------------------------------------
\* A step that encodes nothing keeps the log and the window.
LEMMA QuietLogged ==
  ASSUME Logged, UNCHANGED <<ins, kind, unsynced, elide, chunk, epoch, log>>
  PROVE  Logged'
BY DEF Logged, ElisionProven, Out, Reads, Overlap, BufferOf

\* An op is encoded behind a barrier, or touches nothing written since the last one.
LEMMA EncodeOpLogged ==
  ASSUME IInv, Logged, ~EmptyUpdates, EncodeOp
  PROVE  Logged'
<1>1. PICK n, here, barriers, before, written, armed, k :
        Encoded(n, here, barriers, before, written, armed, k)
  BY EncodeOpEncodes
<1>2. /\ n \in Nodes /\ k \in Nat /\ k # 0 /\ here \in Nat /\ barriers \in Nat
      /\ ins' = ins /\ kind' = kind
  BY <1>1, EncodedTypes
<1>3. /\ DOMAIN log' = 1..(Len(log) + k) /\ DOMAIN log = 1..Len(log) /\ Len(log) \in Nat
      /\ \A i \in 1..Len(log) : log'[i] = log[i]
      /\ \A i \in 1..(Len(log) + k) : i \notin 1..Len(log) =>
           /\ i - Len(log) \in 1..k /\ log'[i].node = n /\ log'[i].chunk = here
           /\ log'[i].epoch = barriers + before + (i - Len(log)) - 1
  BY <1>1, <1>2, EncodedLog
<1>4. /\ before \in {0, 1} /\ chunk' = here /\ elide' = FALSE
      /\ epoch' = barriers + before + k - 1 /\ unsynced' = Window(n, written)
      /\ \/ here = chunk /\ barriers = epoch /\ written = unsynced
         \/ here = chunk + 1
  BY <1>1, <1>2 DEF Encoded
<1>5. /\ before = 0 => ~Hazard(n, written) \/ \A i \in DOMAIN log : log[i].chunk # here
  BY <1>1 DEF Encoded, Logged
<1>6. \A i \in 1..Len(log) : /\ log[i].chunk \in Nat /\ log[i].epoch \in Nat
                             /\ log[i].chunk <= chunk
                             /\ log[i].chunk = chunk => log[i].epoch <= epoch
                             /\ log[i].chunk = chunk /\ log[i].epoch = epoch =>
                                  Out(log[i]) \in unsynced
  <2>1. \A i \in 1..Len(log) : log[i] \in [node : Nodes, chunk : Nat, epoch : Nat]
    <3>1. PICK T : T = [node : Nodes, chunk : Nat, epoch : Nat]
      OBVIOUS
    <3>2. log \in Seq(T)
      BY <3>1 DEF IInv, TypeOK
    <3>3. \A i \in 1..Len(log) : log[i] \in T
      BY <3>2
    <3>4. QED
      BY <3>1, <3>3
  <2>2. \A i \in 1..Len(log) : log[i].chunk \in Nat /\ log[i].epoch \in Nat
    BY <2>1
  <2>3. QED
    BY <1>3, <2>2 DEF Logged
<1>7. chunk \in Nat /\ epoch \in Nat
  BY DEF IInv, Counters
<1>8. ASSUME NEW i \in 1..Len(log), log[i].chunk = here
      PROVE  /\ log[i].epoch \in Nat /\ log[i].epoch <= barriers
             /\ log[i].epoch = barriers => Out(log[i]) \in written
             /\ before = 0 => ~Hazard(n, written)
  <2>1. here = chunk /\ barriers = epoch /\ written = unsynced
    BY <1>4, <1>6, <1>7, <1>8
  <2>2. QED
    BY <1>3, <1>5, <1>6, <1>8, <2>1
<1>9. \A d : Out(d)' = Out(d) /\ Reads(d)' = Reads(d)
  BY <1>2 DEF Out, Reads, BufferOf
<1>10. ~Hazard(n, written) => Window(n, written) = written \cup {BufferOf(n)}
  BY DEF Window
<1>11. BufferOf(n) \in Window(n, written)
  BY DEF Window
<1>12. ASSUME NEW i \in 1..(Len(log) + k)
       PROVE  /\ log'[i].chunk <= chunk'
              /\ log'[i].chunk = chunk' => log'[i].epoch <= epoch'
              /\ log'[i].chunk = chunk' /\ log'[i].epoch = epoch' => Out(log'[i]) \in unsynced'
  <2>1. CASE i \in 1..Len(log)
    <3>1. PICK d : d = log[i]
      OBVIOUS
    <3>2. log'[i] = d
      BY <1>3, <2>1, <3>1
    <3>3. d.chunk <= here
      BY <1>4, <1>6, <1>7, <2>1, <3>1
    <3>4. ASSUME d.chunk = here PROVE d.epoch <= barriers + before + k - 1
      <4>1. PICK e \in Nat : e = d.epoch /\ e <= barriers
        BY <1>8, <2>1, <3>1, <3>4
      <4>2. QED
        BY <1>2, <1>4, <4>1
    <3>5. ASSUME d.chunk = here, d.epoch = barriers + before + k - 1
          PROVE  Out(d) \in Window(n, written)
      <4>1. PICK e \in Nat : e = d.epoch /\ e <= barriers
        BY <1>8, <2>1, <3>1, <3>5
      <4>2. e = barriers /\ before = 0
        BY <1>2, <1>4, <3>5, <4>1
      <4>3. Out(d) \in written /\ ~Hazard(n, written)
        BY <1>8, <2>1, <3>1, <3>5, <4>1, <4>2
      <4>4. QED
        BY <1>10, <4>3
    <3>6. QED
      BY <1>4, <3>2, <3>3, <3>4, <3>5
  <2>2. CASE i \notin 1..Len(log)
    <3>1. PICK j \in 1..k : j = i - Len(log)
      BY <1>3, <2>2
    <3>2. /\ log'[i].node = n /\ log'[i].chunk = here
          /\ log'[i].epoch = barriers + before + j - 1
      BY <1>3, <2>2, <3>1
    <3>3. barriers + before + j - 1 <= barriers + before + k - 1 /\ here <= here
      BY <1>2, <1>4
    <3>4. Out(log'[i]) = BufferOf(n)
      BY <3>2 DEF Out
    <3>5. QED
      BY <1>4, <1>11, <3>2, <3>3, <3>4
  <2>3. QED
    BY <2>1, <2>2
<1>13. ASSUME NEW i \in 1..(Len(log) + k), NEW j \in 1..(Len(log) + k),
              i < j, Overlap(log'[i], log'[j])
       PROVE  Out(log'[i]) \notin Reads(log'[j]) \cup {Out(log'[j])}
  <2>1. CASE j \in 1..Len(log)
    <3>1. i \in 1..Len(log)
      BY <1>13, <2>1
    <3>2. log'[i] = log[i] /\ log'[j] = log[j]
      BY <1>3, <2>1, <3>1
    <3>3. QED
      BY <1>3, <1>13, <2>1, <3>1, <3>2 DEF Logged, ElisionProven
  <2>2. CASE j \notin 1..Len(log)
    <3>1. PICK l \in 1..k : l = j - Len(log)
      BY <1>3, <2>2
    <3>2. /\ log'[j].node = n /\ log'[j].chunk = here
          /\ log'[j].epoch = barriers + before + l - 1
      BY <1>3, <2>2, <3>1
    <3>3. i \in 1..Len(log)
      <4>1. log'[i].node # n
        BY <1>13, <3>2 DEF Overlap
      <4>2. QED
        BY <1>3, <4>1
    <3>4. PICK d : d = log[i]
      OBVIOUS
    <3>5. log'[i] = d /\ d.chunk = here /\ d.epoch = barriers + before + l - 1
      BY <1>3, <1>13, <3>2, <3>3, <3>4 DEF Overlap
    <3>6. PICK e \in Nat : e = d.epoch /\ e <= barriers
      BY <1>8, <3>3, <3>4, <3>5
    <3>7. e = barriers /\ before = 0
      BY <1>2, <1>4, <3>5, <3>6
    <3>8. Out(d) \in written /\ ~Hazard(n, written)
      BY <1>8, <3>3, <3>4, <3>5, <3>6, <3>7
    <3>9. Out(d) \notin {BufferOf(n)} \cup {BufferOf(m) : m \in Inputs(n)}
      BY <3>8 DEF Hazard
    <3>10. Out(log'[j]) = BufferOf(n) /\ Reads(log'[j]) \subseteq {BufferOf(m) : m \in Inputs(n)}
      BY <3>2 DEF Out, Reads, Inputs, ToSet
    <3>11. QED
      BY <3>5, <3>9, <3>10
  <2>3. QED
    BY <2>1, <2>2
<1>14. ElisionProven'
  BY <1>3, <1>9, <1>13 DEF ElisionProven, Overlap
<1>15. QED
  BY <1>3, <1>4, <1>9, <1>12, <1>14 DEF Logged

\* ElisionProven: where no update is empty, encode_ops elides a barrier only if the
\* dispatch touches nothing written since the last one, on every graph, whatever the
\* chunk size ("Callers must prove ...", commands.rs:290-293).
THEOREM ScheduleElisionProven == ~EmptyUpdates => (Spec => []ElisionProven)
<1>1. SUFFICES ASSUME ~EmptyUpdates PROVE Spec => []ElisionProven
  OBVIOUS
<1>2. Init => Logged
  BY DEF Init, Logged, ElisionProven
<1>3. IInv /\ Logged /\ [Next]_vars => Logged'
  <2>1. SUFFICES ASSUME IInv, Logged, [Next]_vars PROVE Logged'
    OBVIOUS
  <2>2. CASE EncodeOp
    BY <1>1, <2>1, <2>2, EncodeOpLogged
  <2>3. CASE ~EncodeOp
    <3>1. UNCHANGED <<ins, kind, unsynced, elide, chunk, epoch, log>>
      BY <2>1, <2>3 DEF Next, Discover, StartLevels, Emit, StartEncode, Finish,
                        vars, graph, search, window
    <3>2. QED
      BY <2>1, <3>1, QuietLogged
  <2>4. QED
    BY <2>2, <2>3
<1>4. Logged => ElisionProven
  BY DEF Logged
<1>5. QED
  BY <1>2, <1>3, <1>4, Invariance, PTL DEF Spec
=============================================================================
